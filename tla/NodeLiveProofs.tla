--------------------------- MODULE NodeLiveProofs ---------------------------
(***************************************************************************)
(* The objects of the library and those of the worker process: nothing     *)
(* leaks in the process, and what is open in the library exists there, for *)
(* any number of objects.                                                  *)
(***************************************************************************)
EXTENDS NodeObjectsProofs

(* Messages on their way, for one object.                                  *)

\* A request to create x is on its way.
Requested(w, x) == \E i \in DOMAIN w : IsCreate(w[i]) /\ w[i].id = x

\* A request is on its way with which the process deletes x.
Doomed(a, w, x) == \E i \in DOMAIN w : w[i].op = "close" /\ w[i].id \in Cover(a, x)

\* The process has created x, and the continuation has not run.
Accepted(n, m, x) ==
  (\E i \in DOMAIN n : n[i].op = "accepted" /\ n[i].id = x) \/ \E i \in DOMAIN m : m[i] = x

\* The process has announced the closing of c, and the event was not emitted.
Announced(n, e, c) ==
  (\E i \in DOMAIN n : n[i].op = "producerclose" /\ n[i].id = c) \/ \E i \in DOMAIN e : e[i] = c

-----------------------------------------------------------------------------
(* The objects of the worker process.                                      *)

\* x exists in the process, on objects that do: it is open in the library, will be
\* so, or is about to be deleted.
Stands(l, a, w, n, m, L, x) ==
  /\ l.status[x] # "none" /\ a[x].on \in L /\ a[x].server \in L \cup {Nobody}
  /\ ~Requested(w, x)
  /\ l.status[x] = "open" \/ Accepted(n, m, x) \/ Doomed(a, w, x)

\* c was deleted in the process and never comes back.
Deleted(l, w, L, c) == c \in Sinks /\ c \notin L /\ l.status[c] # "none" /\ ~Requested(w, c)

LiveInv ==
  /\ KnownInv
  /\ Worker \notin live => live = {}
  /\ live # {} => lib.status[Worker] = "open"
  /\ \A x \in live \ {Worker} : Stands(lib, args, toWorker, toNode, micro, live, x)
  /\ \A c \in Created : Announced(toNode, immediates, c) => Deleted(lib, toWorker, live, c)

-----------------------------------------------------------------------------
(* The objects of the library.                                             *)

\* Every close request is for a closed object.
ClosedFirst(l, w) == \A i \in DOMAIN w : w[i].op = "close" => l.status[w[i].id] = "closed"

\* The response to a creation comes before the announcement of the closing.
AnswersFirst(n, e) ==
  /\ \A i, j \in DOMAIN n :
       n[i].op = "producerclose" /\ IsAnswer(n[j]) /\ n[j].id = n[i].id => j < i
  /\ \A i \in DOMAIN e, j \in DOMAIN n : IsAnswer(n[j]) => n[j].id # e[i]

\* Something that x depends on was closed.
Cut(l, a, x) == \E y \in Cover(a, x) \ {x} : y \in Objects /\ l.status[y] = "closed"

\* x is open or will be: it exists in the process, or there is a reason why not.
Backed(x) ==
  \/ lib.status[Worker] = "open" /\ Worker \notin live
  \/ x \in live \/ Announced(toNode, immediates, x) \/ Cut(lib, args, x)

\* t was made when its Router was closed already.
Late(l, a, t) == t \in Transports /\ l.status[t] = "open" /\ l.status[a[t].on] = "closed"

\* The request j follows one to close r.
Follows(w, j, r) == \E i \in DOMAIN w : i < j /\ w[i].op = "close" /\ w[i].id = r

\* A request to create x comes too late: t, on which it is called for, was deleted or
\* is deleted first, with its Router r.
TooLate(w, L, r, t, x) ==
  \A j \in DOMAIN w : IsCreate(w[j]) /\ w[j].id = x => t \notin L \/ Follows(w, j, r)

\* x never comes to be, since it is called for on such a Transport.
Barren(x) ==
  /\ lib.status[x] # "open" /\ ~Accepted(toNode, micro, x)
  /\ TooLate(toWorker, live, args[args[x].on].on, args[x].on, x)

ExistInv ==
  /\ LiveInv /\ ClosedFirst(lib, toWorker) /\ AnswersFirst(toNode, immediates)
  /\ \A x \in Created : lib.status[x] = "open" \/ Accepted(toNode, micro, x) => Backed(x)
  /\ \A x \in Created : lib.status[x] # "none" /\ Late(lib, args, args[x].on) => Barren(x)
-----------------------------------------------------------------------------
(* What one step does to the messages.                                     *)

\* A request is written.
LEMMA Written ==
  ASSUME NEW w \in Seq(ToWorker), NEW e \in ToWorker, NEW v, v = Append(w, e)
  PROVE  /\ \A y : Requested(v, y) => Requested(w, y) \/ (IsCreate(e) /\ e.id = y)
         /\ \A a, y : Doomed(a, w, y) => Doomed(a, v, y)
         /\ \A a, y : e.op = "close" /\ e.id \in Cover(a, y) => Doomed(a, v, y)
<1> DEFINE z == Len(w) + 1
<1>1. /\ \A i \in DOMAIN w : i \in DOMAIN v /\ v[i] = w[i]
      /\ z \in DOMAIN v /\ v[z] = e
      /\ \A i \in DOMAIN v : i = z \/ i \in DOMAIN w
  BY AppendIs
<1> HIDE DEF z
<1>2. \A y : Requested(v, y) => Requested(w, y) \/ (IsCreate(e) /\ e.id = y)
  BY <1>1, Zenon DEF Requested
<1>3. \A a, y : Doomed(a, w, y) => Doomed(a, v, y)
  BY <1>1, Zenon DEF Doomed
<1>4. \A a, y : e.op = "close" /\ e.id \in Cover(a, y) => Doomed(a, v, y)
  BY <1>1, Zenon DEF Doomed
<1> QED
  BY <1>2, <1>3, <1>4, Zenon

\* The process takes a request.
LEMMA Taken ==
  ASSUME NEW w \in Seq(ToWorker), w # <<>>, NEW n, NEW m, Tokens(w, n, m)
  PROVE  /\ Tail(w) \in Seq(ToWorker) /\ Head(w) \in ToWorker
         /\ \A y : Requested(Tail(w), y) => Requested(w, y)
         /\ \A a, y : Doomed(a, w, y) =>
              Doomed(a, Tail(w), y) \/ (Head(w).op = "close" /\ Head(w).id \in Cover(a, y))
         /\ IsCreate(Head(w)) => Requested(w, Head(w).id) /\ ~Requested(Tail(w), Head(w).id)
<1> DEFINE v == Tail(w)
           h == Head(w)
<1>1. /\ v \in Seq(ToWorker) /\ h = w[1] /\ 1 \in DOMAIN w /\ w[1] \in ToWorker
      /\ \A i \in DOMAIN v : i + 1 # 1 /\ i + 1 \in DOMAIN w /\ v[i] = w[i + 1]
      /\ \A i \in DOMAIN w : i # 1 => \E j \in DOMAIN v : v[j] = w[i]
  BY TailIs
<1> HIDE DEF v, h
<1>2. \A y : Requested(v, y) => Requested(w, y)
  BY <1>1, ZenonT(60) DEF Requested
<1>3. \A a, y : Doomed(a, w, y) => Doomed(a, v, y) \/ (h.op = "close" /\ h.id \in Cover(a, y))
  BY <1>1, Zenon DEF Doomed
<1>4. ASSUME IsCreate(h) PROVE Requested(w, h.id) /\ ~Requested(v, h.id)
  <2>1. Requested(w, h.id)
    BY <1>1, <1>4, Zenon DEF Requested
  <2>2. ASSUME NEW i \in DOMAIN v, IsCreate(v[i]), v[i].id = h.id PROVE FALSE
    <3>1. i + 1 \in DOMAIN w /\ w[i + 1] = v[i] /\ i + 1 # 1 /\ 1 \in DOMAIN w /\ w[1] = h
      BY <1>1, Zenon
    <3> QED
      BY <1>4, <2>2, <3>1, Zenon DEF Tokens
  <2> QED
    BY <2>1, <2>2, Zenon DEF Requested
<1> QED
  BY <1>1, <1>2, <1>3, <1>4, Zenon DEF v, h

\* The process sends an answer or an announcement.
LEMMA Sent ==
  ASSUME NEW n \in Seq(ToNode), NEW q \in Seq(ToNode)
  PROVE  /\ \A m, y : Accepted(n, m, y) => Accepted(n \o q, m, y)
         /\ \A e, c : Announced(n, e, c) => Announced(n \o q, e, c)
         /\ \A e, c : Announced(n \o q, e, c) =>
              \/ Announced(n, e, c)
              \/ \E i \in DOMAIN q : q[i].op = "producerclose" /\ q[i].id = c
<1> DEFINE u == n \o q
<1>1. /\ \A i \in DOMAIN n : i \in DOMAIN u /\ u[i] = n[i]
      /\ \A i \in DOMAIN u : i \in DOMAIN n \/ \E j \in DOMAIN q : u[i] = q[j]
  BY ConcatIs
<1> HIDE DEF u
<1>2. \A m, y : Accepted(n, m, y) => Accepted(u, m, y)
  BY <1>1, Zenon DEF Accepted
<1>3. \A e, c : Announced(n, e, c) => Announced(u, e, c)
  BY <1>1, Zenon DEF Announced
<1>4. \A e, c : Announced(u, e, c) =>
         \/ Announced(n, e, c)
         \/ \E i \in DOMAIN q : q[i].op = "producerclose" /\ q[i].id = c
  BY <1>1, Zenon DEF Announced
<1> QED
  BY <1>2, <1>3, <1>4, Zenon DEF u

\* The process sends the response to a creation.
LEMMA Answered ==
  ASSUME NEW n \in Seq(ToNode), NEW b \in ToNode, IsAnswer(b), NEW u, u = Append(n, b)
  PROVE  /\ \A m, y : Accepted(n, m, y) => Accepted(u, m, y)
         /\ \A m : b.op = "accepted" => Accepted(u, m, b.id)
         /\ \A m, y : Accepted(u, m, y) => Accepted(n, m, y) \/ (b.op = "accepted" /\ b.id = y)
         /\ \A e, c : Announced(u, e, c) <=> Announced(n, e, c)
<1> DEFINE z == Len(n) + 1
<1>1. /\ \A i \in DOMAIN n : i \in DOMAIN u /\ u[i] = n[i]
      /\ z \in DOMAIN u /\ u[z] = b
      /\ \A i \in DOMAIN u : i = z \/ i \in DOMAIN n
  BY AppendIs
<1> HIDE DEF z
<1>2. \A m, y : Accepted(n, m, y) => Accepted(u, m, y)
  BY <1>1, Zenon DEF Accepted
<1>3. \A m : b.op = "accepted" => Accepted(u, m, b.id)
  BY <1>1, Zenon DEF Accepted
<1>4. \A m, y : Accepted(u, m, y) => Accepted(n, m, y) \/ (b.op = "accepted" /\ b.id = y)
  BY <1>1, Zenon DEF Accepted
<1>5. \A e, c : Announced(u, e, c) <=> Announced(n, e, c)
  BY <1>1, Zenon DEF Announced, IsAnswer
<1> QED
  BY <1>2, <1>3, <1>4, <1>5, Zenon

\* A message is read.
LEMMA Received ==
  ASSUME NEW n \in Seq(ToNode), n # <<>>
  PROVE  /\ Head(n) \in ToNode
         /\ \A m, y : Accepted(n, m, y) =>
              Accepted(Tail(n), m, y) \/ (Head(n).op = "accepted" /\ Head(n).id = y)
         /\ \A m, y : Accepted(Tail(n), m, y) => Accepted(n, m, y)
         /\ \A m : Head(n).op = "accepted" => Accepted(n, m, Head(n).id)
         /\ \A e, c : Announced(Tail(n), e, c) => Announced(n, e, c)
         /\ \A e : Head(n).op = "producerclose" => Announced(n, e, Head(n).id)
         /\ \A e, c : Announced(n, e, c) =>
              Announced(Tail(n), e, c) \/ (Head(n).op = "producerclose" /\ Head(n).id = c)
<1> DEFINE u == Tail(n)
           h == Head(n)
<1>1. /\ h = n[1] /\ 1 \in DOMAIN n /\ n[1] \in ToNode
      /\ \A i \in DOMAIN u : i + 1 \in DOMAIN n /\ u[i] = n[i + 1]
      /\ \A i \in DOMAIN n : i # 1 => \E j \in DOMAIN u : u[j] = n[i]
  BY TailIs
<1> HIDE DEF u, h
<1>2. /\ \A m, y : Accepted(n, m, y) => Accepted(u, m, y) \/ (h.op = "accepted" /\ h.id = y)
      /\ \A m : h.op = "accepted" => Accepted(n, m, h.id)
  BY <1>1, ZenonT(60) DEF Accepted
<1>3. \A m, y : Accepted(u, m, y) => Accepted(n, m, y)
  BY <1>1, ZenonT(60) DEF Accepted
<1>4. /\ \A e, c : Announced(u, e, c) => Announced(n, e, c)
      /\ \A e : h.op = "producerclose" => Announced(n, e, h.id)
  BY <1>1, ZenonT(60) DEF Announced
<1>5. \A e, c : Announced(n, e, c) => Announced(u, e, c) \/ (h.op = "producerclose" /\ h.id = c)
  BY <1>1, ZenonT(60) DEF Announced
<1> QED
  BY <1>1, <1>2, <1>3, <1>4, <1>5, Zenon DEF u, h
-----------------------------------------------------------------------------
(* Every step keeps LiveInv.                                               *)

\* What the objects of the process are called for on.
LEMMA StandsOn ==
  ASSUME LiveInv
  PROVE  /\ Sound(lib, args) /\ live \subseteq Objects /\ Worker \notin Created
         /\ Objects = Created \cup {Worker}
         /\ \A x \in live \ {Worker} : /\ x \in Created /\ lib.status[x] # "none"
                                       /\ Placed(lib, args, x)
<1>1. KnownInv /\ Sound(lib, args) /\ MessagesTyped
  BY Zenon DEF LiveInv, KnownInv
<1>2. live \subseteq Objects /\ Worker \notin Created /\ Objects = Created \cup {Worker}
  BY <1>1, Kinds, Zenon DEF MessagesTyped
<1>3. \A x \in live \ {Worker} : x \in Created /\ lib.status[x] # "none"
  BY <1>2, Zenon DEF LiveInv, Stands
<1> QED
  BY <1>1, <1>2, <1>3, Zenon DEF Sound, Typed

\* What is deleted with an object does not change once that was called for.
LEMMA CoverKept ==
  ASSUME NEW l, NEW a, Sound(l, a), NEW x \in Created, l.status[x] = "none",
         NEW b, \A z \in Created : z # x => b[z] = a[z],
         NEW y \in Created, l.status[y] # "none"
  PROVE  /\ b[y] = a[y] /\ Cover(b, y) = Cover(a, y)
         /\ a[y].on \in Created => b[a[y].on] = a[a[y].on]
<1>1. Ref(l, a[y].on) /\ y # x
  BY Zenon DEF Sound, Typed, Placed
<1>2. a[y].on # x
  BY <1>1 DEF Ref
<1>3. b[y] = a[y] /\ (a[y].on \in Created => b[a[y].on] = a[a[y].on])
  BY <1>1, <1>2, Zenon
<1>4. Transports \subseteq Created
  BY Kinds, Zenon
<1> QED
  BY <1>3, <1>4, Zenon DEF Cover

\* Creating: the process knows nothing of the object yet.
LEMMA CallLive ==
  ASSUME LiveInv, NEW x \in Created, NEW a, GoodArgs(x, a), Call(x, a)
  PROVE  LiveInv'
<1>1. KnownInv /\ KnownInv'
  BY CallKnown, Zenon DEF LiveInv
<1>2. /\ Sound(lib, args) /\ lib \in Library /\ toWorker \in Seq(ToWorker) /\ live \subseteq Objects
      /\ Worker \in Objects /\ Worker # x /\ x \in Objects /\ Created \subseteq Objects
  BY <1>1, Kinds DEF KnownInv, Sound, Typed, MessagesTyped
<1>3. /\ lib.status[x] = "none" /\ args' = [args EXCEPT ![x] = a]
      /\ UNCHANGED <<live, toNode, micro, immediates>>
      /\ \/ toWorker' = Append(toWorker, [op |-> "create", id |-> x])
         \/ toWorker' = toWorker
      /\ \/ lib' = [lib EXCEPT !.status[x] = "creating"]
         \/ lib' = [lib EXCEPT !.status[x] = "rejected"]
  BY Zenon DEF Call
<1>4. \A y \in Objects : y # x => lib'.status[y] = lib.status[y]
  BY <1>2, <1>3 DEF Library
<1>5. /\ \A y : y # x /\ Requested(toWorker', y) => Requested(toWorker, y)
      /\ \A b, y : Doomed(b, toWorker, y) => Doomed(b, toWorker', y)
  <2>1. CASE toWorker' = toWorker
    BY <2>1, Zenon
  <2>2. CASE toWorker' = Append(toWorker, [op |-> "create", id |-> x])
    <3> DEFINE e == [op |-> "create", id |-> x]
    <3>1. e \in ToWorker /\ e.id = x
      BY DEF ToWorker
    <3>2. toWorker' = Append(toWorker, e)
      BY <2>2, Zenon
    <3> HIDE DEF e
    <3>3. /\ \A y : Requested(toWorker', y) => Requested(toWorker, y) \/ (IsCreate(e) /\ e.id = y)
          /\ \A b, y : Doomed(b, toWorker, y) => Doomed(b, toWorker', y)
      BY <1>2, <3>1, <3>2, Written, Zenon
    <3> QED
      BY <3>1, <3>3, Zenon
  <2> QED
    BY <1>3, <2>1, <2>2, Zenon
<1>6. ASSUME NEW y \in live \ {Worker}
      PROVE  Stands(lib, args, toWorker, toNode, micro, live, y)'
  <2>1. Stands(lib, args, toWorker, toNode, micro, live, y) /\ y \in Created /\ lib.status[y] # "none"
    BY <1>6, StandsOn, Zenon DEF LiveInv
  <2>2. y # x /\ lib'.status[y] = lib.status[y]
    BY <1>2, <1>3, <1>4, <2>1, Zenon
  <2>3. args'[y] = args[y] /\ Cover(args', y) = Cover(args, y)
    <3>1. \A z \in Created : z # x => args'[z] = args[z]
      BY <1>2, <1>3 DEF Sound, Typed, Arguments
    <3>2. Sound(lib, args) /\ lib.status[x] = "none"
      BY <1>2, <1>3, Zenon
    <3> QED
      BY <2>1, <3>1, <3>2, CoverKept
  <2>4. Doomed(args, toWorker, y) => Doomed(args', toWorker', y)
    BY <1>5, <2>3, Zenon DEF Doomed
  <2>5. args'[y].on \in live' /\ args'[y].server \in live' \cup {Nobody} /\ ~Requested(toWorker', y)
    <3>1. live' = live
      BY <1>3, Zenon
    <3> QED
      BY <1>5, <2>1, <2>2, <2>3, <3>1, Zenon DEF Stands
  <2>6. /\ lib'.status[y] # "none"
        /\ lib'.status[y] = "open" \/ Accepted(toNode', micro', y) \/ Doomed(args', toWorker', y)
    BY <1>3, <2>1, <2>2, <2>4, Zenon DEF Stands
  <2> QED
    BY <2>5, <2>6, Zenon DEF Stands
<1>7. ASSUME NEW c \in Created, Announced(toNode, immediates, c)
      PROVE  Deleted(lib, toWorker, live, c)'
  <2>1. Deleted(lib, toWorker, live, c)
    BY <1>7, Zenon DEF LiveInv
  <2>2. c # x /\ lib'.status[c] = lib.status[c]
    BY <1>2, <1>3, <1>4, <2>1, Zenon DEF Deleted
  <2> QED
    BY <1>3, <1>5, <2>1, <2>2, Zenon DEF Deleted
<1>8. lib'.status[Worker] = lib.status[Worker]
  BY <1>2, <1>4, Zenon
<1> QED
  BY <1>1, <1>3, <1>6, <1>7, <1>8, Zenon DEF LiveInv

\* Closing: the process is told to delete what is closed.
LEMMA CloseLive ==
  ASSUME LiveInv, NEW x \in Created, NEW l, NEW S, Shuts(lib, l, args, S), Covered(S, x),
         Worker \notin S, Close(x, l)
  PROVE  LiveInv'
<1> DEFINE e == [op |-> "close", id |-> x]
<1>1. KnownInv /\ KnownInv'
  BY CloseKnown, Zenon DEF LiveInv
<1>2. /\ toWorker \in Seq(ToWorker) /\ live \subseteq Objects /\ Worker \in Objects /\ Created \subseteq Objects
  BY <1>1, Kinds DEF KnownInv, MessagesTyped
<1>3. /\ lib' = l /\ UNCHANGED <<args, live, toNode, micro, immediates>>
      /\ toWorker' = IF IsOpen(Worker) THEN Append(toWorker, e) ELSE toWorker
  BY Zenon DEF Close
<1>4. \A y \in Objects : lib'.status[y] = IF y \in S THEN "closed" ELSE lib.status[y]
  BY <1>3 DEF Shuts
<1>5. e \in ToWorker /\ ~IsCreate(e) /\ e.op = "close" /\ e.id = x
  BY DEF ToWorker, IsCreate
<1> HIDE DEF e
<1>6. /\ \A y : Requested(toWorker', y) => Requested(toWorker, y)
      /\ \A b, y : Doomed(b, toWorker, y) => Doomed(b, toWorker', y)
      /\ \A b, y : IsOpen(Worker) /\ x \in Cover(b, y) => Doomed(b, toWorker', y)
  <2>1. CASE toWorker' = Append(toWorker, e)
    BY <1>2, <1>5, <2>1, Written, Zenon
  <2>2. CASE ~IsOpen(Worker) /\ toWorker' = toWorker
    BY <2>2, Zenon
  <2> QED
    BY <1>3, <2>1, <2>2, Zenon
<1>7. ASSUME NEW y \in live \ {Worker}
      PROVE  Stands(lib, args, toWorker, toNode, micro, live, y)'
  <2>1. /\ Stands(lib, args, toWorker, toNode, micro, live, y) /\ y \in Created
        /\ lib.status[y] # "none" /\ IsOpen(Worker)
    BY <1>7, StandsOn, Zenon DEF LiveInv, IsOpen
  <2>2. y \in S => Doomed(args, toWorker', y)
    BY <1>6, <2>1, Zenon DEF Covered
  <2>3. lib'.status[y] # "none" /\ (lib.status[y] = "open" => lib'.status[y] = "open" \/ Doomed(args', toWorker', y))
    BY <1>2, <1>3, <1>4, <2>1, <2>2, Zenon
  <2>4. /\ args'[y].on \in live' /\ args'[y].server \in live' \cup {Nobody}
        /\ args'[y] = args[y] /\ toNode' = toNode /\ micro' = micro
        /\ Doomed(args, toWorker, y) => Doomed(args', toWorker', y)
    BY <1>3, <1>6, <2>1, Zenon DEF Stands
  <2> QED
    BY <1>6, <2>1, <2>3, <2>4, Zenon DEF Stands
<1>8. ASSUME NEW c \in Created, Announced(toNode, immediates, c)
      PROVE  Deleted(lib, toWorker, live, c)'
  <2>1. Deleted(lib, toWorker, live, c)
    BY <1>8, Zenon DEF LiveInv
  <2>2. lib'.status[c] # "none"
    BY <1>2, <1>4, <2>1, Zenon DEF Deleted
  <2> QED
    BY <1>3, <1>6, <2>1, <2>2, Zenon DEF Deleted
<1>9. lib'.status[Worker] = lib.status[Worker]
  BY <1>2, <1>4, Zenon
<1> QED
  BY <1>1, <1>3, <1>7, <1>8, <1>9, Zenon DEF LiveInv

\* The Worker is closed, and with the process all of its objects go.
LEMMA WorkerDownLive ==
  ASSUME LiveInv, IsOpen(Worker), lib' = WorkerDown(lib), toWorker' = <<>>,
         live' = {}, UNCHANGED <<args, toNode, left, micro, immediates>>
  PROVE  LiveInv'
<1>1. live' \subseteq live
  BY Zenon
<1>2. KnownInv /\ KnownInv' /\ Sound(lib, args)
  BY <1>1, WorkerDownKnown, Zenon DEF LiveInv, KnownInv
<1>3. ASSUME NEW c \in Created, Announced(toNode, immediates, c)
      PROVE  Deleted(lib, toWorker, live, c)'
  <2>1. Deleted(lib, toWorker, live, c)
    BY <1>3, Zenon DEF LiveInv
  <2>2. lib'.status[c] # "none"
    <3>1. /\ lib.status[Worker] = "open" /\ c \in Objects
          /\ lib.status[c] \in {"creating", "rejected", "open", "closed"}
      BY <1>2, <2>1, Kinds DEF IsOpen, Deleted, Sound, Typed, Library
    <3>2. /\ lib.status[c] = "creating" =>
               lib'.status[c] = IF c \in Range(micro) THEN "creating" ELSE "rejected"
          /\ lib.status[c] \notin {"open", "creating"} => lib'.status[c] = lib.status[c]
          /\ lib.status[c] = "open" => lib'.status[c] \in {"open", "closed"}
      BY <1>2, <3>1, WorkerDownSound, Zenon
    <3> QED
      BY <3>1, <3>2
  <2>3. ~Requested(toWorker', c)
    BY DEF Requested
  <2> QED
    BY <2>1, <2>2, <2>3, Zenon DEF Deleted
<1> QED
  BY <1>2, <1>3, Zenon DEF LiveInv

\* A message is read.
LEMMA ReadLive ==
  ASSUME LiveInv, Read
  PROVE  LiveInv'
<1> DEFINE h == Head(toNode)
<1>1. KnownInv /\ KnownInv'
  BY ReadKnown, Zenon DEF LiveInv
<1>2. /\ Sound(lib, args) /\ lib \in Library /\ Waiting(lib, toWorker, toNode, micro)
      /\ toNode \in Seq(ToNode) /\ micro \in Seq(Created) /\ immediates \in Seq(Created)
      /\ left \in 0..Len(toNode) /\ live \subseteq Objects /\ Worker \in Objects
      /\ Created \subseteq Objects /\ Worker \notin Created
  BY <1>1, Kinds DEF KnownInv, Sound, Typed, MessagesTyped
<1>3. /\ toNode # <<>> /\ Process(h) /\ toNode' = Tail(toNode) /\ UNCHANGED <<args, toWorker, live>>
  BY <1>2 DEF Read
<1>4. /\ h \in ToNode
      /\ \A m, y : Accepted(toNode, m, y) => Accepted(toNode', m, y) \/ (h.op = "accepted" /\ h.id = y)
      /\ \A m : h.op = "accepted" => Accepted(toNode, m, h.id)
      /\ \A e, c : Announced(toNode', e, c) => Announced(toNode, e, c)
      /\ \A e : h.op = "producerclose" => Announced(toNode, e, h.id)
  BY <1>2, <1>3, Received, Zenon
<1>5. h.id \in Created
  BY <1>4 DEF ToNode
<1>6. h.op = "accepted" /\ lib.status[Worker] = "open" => lib.status[h.id] = "creating"
  <2>1. h = toNode[1] /\ 1 \in DOMAIN toNode
    BY <1>2, <1>3
  <2>2. IsAnswer(h) => Awaited(toWorker, toNode, micro, h.id)
    BY <2>1, Zenon DEF Awaited
  <2> QED
    BY <1>2, <1>5, <2>2, Zenon DEF Waiting, IsAnswer
<1> HIDE DEF h
<1>7. /\ \A y \in Objects : \/ lib'.status[y] = lib.status[y]
                            \/ lib.status[y] = "creating" /\ lib'.status[y] = "rejected"
      /\ lib'.status[Worker] = lib.status[Worker]
  <2>1. CASE lib' = lib
    BY <2>1, Zenon
  <2>2. CASE Pending(h.id) /\ lib' = [lib EXCEPT !.status[h.id] = "rejected"]
    <3>1. /\ \A y \in Objects : lib'.status[y] = IF y = h.id THEN "rejected" ELSE lib.status[y]
          /\ lib.status[h.id] = "creating" /\ h.id # Worker
      BY <1>2, <1>5, <2>2 DEF Library, Pending
    <3> QED
      BY <1>2, <3>1
  <2> QED
    BY <1>3, <2>1, <2>2, Zenon DEF Process
<1>8. \A y : lib.status[Worker] = "open" =>
         (Accepted(toNode, micro, y) => Accepted(toNode', micro', y))
  <2>1. CASE h.op = "accepted" /\ Pending(h.id) /\ micro' = Append(micro, h.id)
    <3> DEFINE z == Len(micro) + 1
    <3>1. /\ \A i \in DOMAIN micro : i \in DOMAIN micro' /\ micro'[i] = micro[i]
          /\ z \in DOMAIN micro' /\ micro'[z] = h.id
      BY <1>2, <1>5, <2>1, AppendIs
    <3> HIDE DEF z
    <3>2. Accepted(toNode', micro', h.id)
      BY <3>1, Zenon DEF Accepted
    <3>3. \A n, y : Accepted(n, micro, y) => Accepted(n, micro', y)
      BY <3>1, Zenon DEF Accepted
    <3> QED
      BY <1>4, <3>2, <3>3, Zenon
  <2>2. CASE h.op = "accepted" /\ ~Pending(h.id)
    BY <1>6, <2>2, Zenon DEF Pending
  <2>3. CASE h.op # "accepted" /\ micro' = micro
    BY <1>4, <2>3, Zenon
  <2>4. \/ h.op = "accepted" /\ Pending(h.id) /\ micro' = Append(micro, h.id)
        \/ h.op = "accepted" /\ ~Pending(h.id)
        \/ h.op # "accepted" /\ micro' = micro
    BY <1>3 DEF Process
  <2> QED
    BY <2>1, <2>2, <2>3, <2>4, Zenon
<1>9. \A c : Announced(toNode', immediates', c) => Announced(toNode, immediates, c)
  <2>1. CASE immediates' = immediates
    BY <1>4, <2>1, Zenon
  <2>2. CASE h.op = "producerclose" /\ immediates' = Append(immediates, h.id)
    <3> DEFINE z == Len(immediates) + 1
    <3>1. /\ z \in DOMAIN immediates' /\ immediates'[z] = h.id
          /\ \A i \in DOMAIN immediates : i \in DOMAIN immediates' /\ immediates'[i] = immediates[i]
          /\ \A i \in DOMAIN immediates' : i = z \/ i \in DOMAIN immediates
      BY <1>2, <1>5, <2>2, AppendIs
    <3> HIDE DEF z
    <3>2. \A n, c : Announced(n, immediates', c) => Announced(n, immediates, c) \/ c = h.id
      BY <3>1, Zenon DEF Announced
    <3> QED
      BY <1>4, <2>2, <3>2, Zenon
  <2> QED
    BY <1>3, <2>1, <2>2, Zenon DEF Process
<1>10. ASSUME NEW y \in live \ {Worker}
       PROVE  Stands(lib, args, toWorker, toNode, micro, live, y)'
  <2>1. /\ Stands(lib, args, toWorker, toNode, micro, live, y) /\ y \in Objects
        /\ lib.status[Worker] = "open" /\ lib.status[y] # "none"
    BY <1>2, <1>10, StandsOn, Zenon DEF LiveInv
  <2>2. lib'.status[y] # "none" /\ (lib.status[y] = "open" => lib'.status[y] = "open")
    BY <1>7, <2>1
  <2>3. Accepted(toNode, micro, y) => Accepted(toNode', micro', y)
    BY <1>8, <2>1, Zenon
  <2> QED
    BY <1>3, <2>1, <2>2, <2>3, Zenon DEF Stands
<1>11. ASSUME NEW c \in Created, Announced(toNode', immediates', c)
       PROVE  Deleted(lib, toWorker, live, c)'
  <2>1. Deleted(lib, toWorker, live, c) /\ c \in Objects
    BY <1>2, <1>9, <1>11, Zenon DEF LiveInv
  <2>2. lib'.status[c] # "none"
    BY <1>7, <2>1 DEF Deleted
  <2> QED
    BY <1>3, <2>1, <2>2, Zenon DEF Deleted
<1> QED
  BY <1>1, <1>3, <1>7, <1>10, <1>11, Zenon DEF LiveInv

\* A creation goes on: the object is open.
LEMMA ContinueLive ==
  ASSUME LiveInv, Continue
  PROVE  LiveInv'
<1> DEFINE x == Head(micro)
<1>1. KnownInv /\ KnownInv'
  BY ContinueKnown, Zenon DEF LiveInv
<1>2. /\ Sound(lib, args) /\ Waiting(lib, toWorker, toNode, micro) /\ micro \in Seq(Created)
      /\ live \subseteq Objects /\ Worker \in Objects /\ Created \subseteq Objects /\ Worker \notin Created
  BY <1>1, Kinds DEF KnownInv, MessagesTyped
<1>3. /\ micro # <<>> /\ lib' = Register(lib, x) /\ micro' = Tail(micro)
      /\ UNCHANGED <<args, toWorker, live, toNode, immediates>>
  BY Zenon DEF Continue
<1>4. /\ x \in Created /\ x = micro[1] /\ 1 \in DOMAIN micro
      /\ \A i \in DOMAIN micro : i # 1 => \E j \in DOMAIN micro' : micro'[j] = micro[i]
  BY <1>2, <1>3, TailIs
<1>5. lib.status[x] = "creating"
  BY <1>2, <1>4, Zenon DEF Waiting
<1>6. lib'.status = [lib.status EXCEPT ![x] = "open"]
  BY <1>2, <1>3, <1>4, <1>5, RegisterSound, Zenon
<1> HIDE DEF x
<1>7. \A y \in Objects : lib'.status[y] = IF y = x THEN "open" ELSE lib.status[y]
  <2>1. lib.status \in [Objects -> {"none", "creating", "rejected", "open", "closed"}]
    BY <1>2 DEF Sound, Typed, Library
  <2> QED
    BY <1>6, <2>1
<1>8. \A y : Accepted(toNode, micro, y) => Accepted(toNode', micro', y) \/ y = x
  BY <1>3, <1>4, Zenon DEF Accepted
<1>9. ASSUME NEW y \in live \ {Worker}
      PROVE  Stands(lib, args, toWorker, toNode, micro, live, y)'
  <2>1. /\ Stands(lib, args, toWorker, toNode, micro, live, y) /\ y \in Objects /\ lib.status[y] # "none"
    BY <1>2, <1>9, StandsOn, Zenon DEF LiveInv
  <2>2. lib'.status[y] # "none" /\ (lib.status[y] = "open" \/ y = x => lib'.status[y] = "open")
    BY <1>7, <2>1
  <2> QED
    BY <1>3, <1>8, <2>1, <2>2, Zenon DEF Stands
<1>10. ASSUME NEW c \in Created, Announced(toNode, immediates, c)
       PROVE  Deleted(lib, toWorker, live, c)'
  <2>1. Deleted(lib, toWorker, live, c) /\ c \in Objects
    BY <1>2, <1>10, Zenon DEF LiveInv
  <2>2. lib'.status[c] # "none"
    BY <1>7, <2>1 DEF Deleted
  <2> QED
    BY <1>3, <2>1, <2>2, Zenon DEF Deleted
<1>11. lib'.status[Worker] = lib.status[Worker]
  BY <1>2, <1>4, <1>7, Zenon
<1> QED
  BY <1>1, <1>3, <1>9, <1>10, <1>11, Zenon DEF LiveInv

\* A Consumer hears that its Producer was closed.
LEMMA EmitLive ==
  ASSUME LiveInv, NEW D \in SUBSET Sinks, Emit(D)
  PROVE  LiveInv'
<1> DEFINE c == Head(immediates)
<1>1. KnownInv /\ KnownInv'
  BY EmitKnown, Zenon DEF LiveInv
<1>2. /\ Sound(lib, args) /\ immediates \in Seq(Created)
      /\ live \subseteq Objects /\ Worker \in Objects /\ Created \subseteq Objects /\ Worker \notin Created
  BY <1>1, Kinds DEF KnownInv, MessagesTyped
<1>3. /\ immediates # <<>> /\ immediates' = Tail(immediates) /\ c \in Sinks
      /\ lib' = IF IsOpen(c) THEN LeafClose(lib, c) ELSE lib
      /\ UNCHANGED <<args, toWorker, live, toNode, micro>>
  BY Zenon DEF Emit
<1>4. /\ c \in Created /\ c = immediates[1] /\ 1 \in DOMAIN immediates
      /\ \A i \in DOMAIN immediates' : i + 1 \in DOMAIN immediates /\ immediates'[i] = immediates[i + 1]
  BY <1>2, <1>3, TailIs
<1> HIDE DEF c
<1>5. \A y \in Objects : y # c => lib'.status[y] = lib.status[y]
  <2>1. CASE IsOpen(c)
    <3>1. Shuts(lib, lib', args, {c})
      BY <1>2, <1>3, <2>1, LeafShuts, Zenon DEF IsOpen
    <3> QED
      BY <3>1 DEF Shuts
  <2>2. CASE ~IsOpen(c)
    BY <1>3, <2>2, Zenon
  <2> QED
    BY <2>1, <2>2, Zenon
<1>6. lib'.status[c] = lib.status[c] \/ lib'.status[c] = "closed"
  <2>1. CASE IsOpen(c)
    <3>1. Shuts(lib, lib', args, {c})
      BY <1>2, <1>3, <2>1, LeafShuts, Zenon DEF IsOpen
    <3> QED
      BY <1>2, <1>4, <3>1 DEF Shuts
  <2>2. CASE ~IsOpen(c)
    BY <1>3, <2>2, Zenon
  <2> QED
    BY <2>1, <2>2, Zenon
<1>7. \A d : Announced(toNode', immediates', d) => Announced(toNode, immediates, d)
  BY <1>3, <1>4, Zenon DEF Announced
<1>8. c \notin live
  <2>1. Announced(toNode, immediates, c)
    BY <1>4, Zenon DEF Announced
  <2> QED
    BY <1>4, <2>1, Zenon DEF LiveInv, Deleted
<1>9. ASSUME NEW y \in live \ {Worker}
      PROVE  Stands(lib, args, toWorker, toNode, micro, live, y)'
  <2>1. Stands(lib, args, toWorker, toNode, micro, live, y) /\ y \in Objects
    BY <1>2, <1>9, Zenon DEF LiveInv
  <2>2. lib'.status[y] = lib.status[y]
    BY <1>5, <1>8, <1>9, <2>1, Zenon
  <2> QED
    BY <1>3, <2>1, <2>2, Zenon DEF Stands
<1>10. ASSUME NEW d \in Created, Announced(toNode', immediates', d)
       PROVE  Deleted(lib, toWorker, live, d)'
  <2>1. Deleted(lib, toWorker, live, d) /\ d \in Objects
    BY <1>2, <1>7, <1>10, Zenon DEF LiveInv
  <2>2. lib'.status[d] # "none"
    BY <1>5, <1>6, <2>1 DEF Deleted
  <2> QED
    BY <1>3, <2>1, <2>2, Zenon DEF Deleted
<1>11. lib'.status[Worker] = lib.status[Worker]
  BY <1>2, <1>4, <1>5, Zenon
<1> QED
  BY <1>1, <1>3, <1>9, <1>10, <1>11, Zenon DEF LiveInv
\* With z the process deletes what depends on it.
LEMMA BelowIs ==
  ASSUME LiveInv, NEW z \in Created
  PROVE  /\ \A y \in live \ {Worker} : y \in Below({z}) <=> z \in Cover(args, y)
         /\ Below({z}) \subseteq {z} \cup (live \ {Worker})
<1> DEFINE T == {t \in live \cap Transports : args[t].on \in {z} \/ args[t].server \in {z}}
           C == {x \in live \cap (Sources \cup Sinks \cup Observers) : args[x].on \in {z} \cup T}
<1>1. Below({z}) = {z} \cup T \cup C
  BY Zenon DEF Below
<1>2. /\ Created = WebRtcServers \cup Routers \cup Transports \cup Sources \cup Sinks \cup Observers
      /\ Worker \notin Created /\ Nobody \notin Created /\ z # Worker /\ z # Nobody
      /\ \A r \in Routers : r \notin Transports
  BY Kinds, KindsAssumption, Zenon
<1>3. T \subseteq live \ {Worker} /\ C \subseteq live \ {Worker}
  BY <1>2, Zenon
<1>4. ASSUME NEW y \in live \ {Worker}, y \in Below({z}) PROVE z \in Cover(args, y)
  <2>1. CASE y = z
    BY <2>1, CoverIs, Zenon
  <2>2. CASE y \in T
    BY <2>2, CoverIs, Zenon
  <2>3. CASE y \in C /\ args[y].on = z
    BY <2>3, CoverIs, Zenon
  <2>4. CASE y \in C /\ args[y].on \in T
    <3>1. args[y].on \in Transports /\ (args[args[y].on].on = z \/ args[args[y].on].server = z)
      BY <2>4, Zenon
    <3> QED
      BY <3>1, CoverIs, Zenon
  <2> QED
    BY <1>1, <1>4, <2>1, <2>2, <2>3, <2>4, Zenon
<1>5. ASSUME NEW y \in live \ {Worker}, z \in Cover(args, y) PROVE y \in Below({z})
  <2>1. /\ y \in Created /\ Placed(lib, args, y) /\ args[y].on \in live
    BY <1>5, StandsOn, Zenon DEF LiveInv, Stands
  <2>2. CASE y = z
    BY <1>1, <2>2, Zenon
  <2>3. CASE args[y].on = z
    <3>1. y \in Transports \cup Sources \cup Sinks \cup Observers
      BY <1>2, <2>1, <2>3, Zenon DEF Placed
    <3>2. y \in live
      BY <1>5, Zenon
    <3> QED
      BY <1>1, <2>3, <3>1, <3>2, Zenon
  <2>4. CASE args[y].server = z
    <3>1. y \in Transports /\ y \in live
      BY <1>2, <1>5, <2>1, <2>4, Zenon DEF Placed
    <3> QED
      BY <1>1, <2>4, <3>1, Zenon
  <2>5. CASE /\ args[y].on \in Transports
             /\ args[args[y].on].on = z \/ args[args[y].on].server = z
    <3>1. args[y].on \in T
      BY <2>1, <2>5, Zenon
    <3>2. y \in Sources \cup Sinks \cup Observers
      <4>1. y \notin Transports
        BY <1>2, <2>1, <2>5, Zenon DEF Placed
      <4>2. y \notin WebRtcServers /\ y \notin Routers
        <5>1. args[y].on # Worker
          BY <1>2, <2>5, Zenon
        <5> QED
          BY <2>1, <5>1, Zenon DEF Placed
      <4> QED
        BY <1>2, <2>1, <4>1, <4>2, Zenon
    <3>3. y \in live
      BY <1>5, Zenon
    <3> QED
      BY <1>1, <3>1, <3>2, <3>3, Zenon
  <2>6. \/ y = z \/ args[y].on = z \/ args[y].server = z
        \/ /\ args[y].on \in Transports
           /\ args[args[y].on].on = z \/ args[args[y].on].server = z
    BY <1>5, Zenon DEF Cover
  <2> QED
    BY <2>2, <2>3, <2>4, <2>5, <2>6, Zenon
<1> HIDE DEF T, C
<1> QED
  BY <1>1, <1>3, <1>4, <1>5, Zenon

\* What stays in the process stays on objects that do.
LEMMA StaysOn ==
  ASSUME LiveInv, NEW z \in Created, Worker \in live,
         NEW y \in live \ (Below({z}) \cup Orphans(z)), y # Worker
  PROVE  /\ y \in live \ {Worker} /\ z \notin Cover(args, y)
         /\ args[y].on \in live \ (Below({z}) \cup Orphans(z))
         /\ args[y].server \in (live \ (Below({z}) \cup Orphans(z))) \cup {Nobody}
<1>1. /\ y \in live \ {Worker} /\ y \notin Below({z})
  BY Zenon
<1>2. /\ z \notin Cover(args, y) /\ Below({z}) \subseteq {z} \cup (live \ {Worker})
      /\ \A x \in live \ {Worker} : x \in Below({z}) => z \in Cover(args, x)
  BY <1>1, BelowIs, Zenon
<1>3. /\ y \in Created /\ Placed(lib, args, y) /\ args[y].on \in live /\ args[y].server \in live \cup {Nobody}
      /\ Sound(lib, args) /\ args \in Arguments
  BY <1>1, StandsOn, Zenon DEF LiveInv, Stands, Sound, Typed
<1>4. args[y].on \in Owners \cup {Nobody} /\ args[y].server \in WebRtcServers \cup {Nobody}
  BY <1>3 DEF Arguments
<1>5. /\ Orphans(z) \subseteq Sinks /\ Worker \notin Created /\ z # Worker /\ Nobody \notin Objects
      /\ Owners = {Worker} \cup Routers \cup Transports /\ WebRtcServers \subseteq Created
      /\ live \subseteq Objects /\ Sinks \subseteq Created /\ Routers \subseteq Created
      /\ Transports \subseteq Created /\ z # Nobody
  BY Kinds, StandsOn, Zenon DEF Orphans
<1>6. /\ WebRtcServers \cap (Routers \cup Transports \cup Sources \cup Sinks \cup Observers) = {}
      /\ Routers \cap (Transports \cup Sources \cup Sinks \cup Observers) = {}
      /\ Transports \cap (Sources \cup Sinks \cup Observers) = {}
  BY KindsAssumption, Zenon
<1>7. args[y].on \notin Sinks /\ args[y].on \in Owners
  BY <1>3, <1>4, <1>5, <1>6, Zenon
<1>8. \A x \in Created : x \in live \ {Worker} => Placed(lib, args, x)
  BY StandsOn, Zenon
<1>9. args[y].on \notin Below({z})
  <2> SUFFICES ASSUME args[y].on \in Below({z}) PROVE FALSE
    BY Zenon
  <2> DEFINE o == args[y].on
  <2>1. o # Worker /\ o \in Routers \cup Transports
    BY <1>2, <1>5, <1>7, Zenon
  <2>2. o \in live \ {Worker} /\ o \in Created /\ z \in Cover(args, o) /\ Placed(lib, args, o)
    BY <1>2, <1>3, <1>5, <1>8, <2>1, Zenon
  <2>3. o \in Cover(args, y) /\ (o \in Transports => args[o].on \in Cover(args, y) /\ args[o].server \in Cover(args, y))
    BY CoverIs, Zenon
  <2>4. CASE o \in Routers
    <3>1. args[o].on = Worker /\ args[o].server = Nobody /\ Worker \notin Transports /\ z # Nobody
      BY <1>5, <1>6, <2>2, <2>4, Zenon DEF Placed
    <3>2. z = o
      BY <1>5, <2>2, <3>1, Zenon DEF Cover
    <3> QED
      BY <1>2, <2>3, <3>2, Zenon
  <2>5. CASE o \in Transports
    <3>1. args[o].on \in Routers /\ args[o].on \notin Transports
      BY <1>6, <2>2, <2>5, Zenon DEF Placed
    <3>2. z = o \/ z = args[o].on \/ z = args[o].server
      BY <2>2, <3>1, Zenon DEF Cover
    <3> QED
      BY <1>2, <2>3, <2>5, <3>2, Zenon
  <2> QED
    BY <2>1, <2>4, <2>5, Zenon
<1>10. ASSUME args[y].server # Nobody PROVE args[y].server \notin Below({z}) /\ args[y].server \in live
  <2> DEFINE s == args[y].server
  <2>1. s \in WebRtcServers /\ s \in live \ {Worker} /\ s \in Created
    BY <1>3, <1>4, <1>5, <1>10, Zenon
  <2>2. Placed(lib, args, s)
    BY <1>8, <2>1, Zenon
  <2>3. args[s].on = Worker /\ args[s].server = Nobody /\ Worker \notin Transports /\ z # Nobody
    BY <1>5, <1>6, <2>1, <2>2, Zenon DEF Placed
  <2>4. z \in Cover(args, s) => z = s
    BY <1>5, <2>3, Zenon DEF Cover
  <2>5. s \in Cover(args, y)
    BY CoverIs, Zenon
  <2> QED
    BY <1>2, <2>1, <2>4, <2>5, Zenon
<1>11. args[y].server # Nobody => args[y].server \notin Sinks
  BY <1>4, <1>6, Zenon
<1> QED
  BY <1>1, <1>2, <1>3, <1>5, <1>7, <1>9, <1>10, <1>11, Zenon
\* What an object of the process depends on exists there too.
LEMMA CoverLive ==
  ASSUME LiveInv, NEW y \in live \ {Worker}, NEW z \in Created, z \in Cover(args, y)
  PROVE  z \in live
<1>1. /\ \A x \in live \ {Worker} : args[x].on \in live /\ args[x].server \in live \cup {Nobody}
      /\ z # Nobody /\ Worker \notin Transports
  BY Kinds, Zenon DEF LiveInv, Stands
<1>2. CASE z = y \/ z = args[y].on \/ z = args[y].server
  BY <1>1, <1>2, Zenon
<1>3. CASE /\ args[y].on \in Transports
           /\ z = args[args[y].on].on \/ z = args[args[y].on].server
  <2>1. args[y].on \in live \ {Worker}
    BY <1>1, <1>3, Zenon
  <2> QED
    BY <1>1, <1>3, <2>1, Zenon
<1> QED
  BY <1>2, <1>3, Zenon DEF Cover

\* The process handles the request to create x.
LEMMA CreateLive ==
  ASSUME LiveInv, WorkerHandles, Head(toWorker).op = "create", HandleCreate(Head(toWorker).id)
  PROVE  LiveInv'
<1> DEFINE x == Head(toWorker).id
<1>1. KnownInv /\ KnownInv'
  BY WorkerHandlesKnown, Zenon DEF LiveInv
<1>2. /\ Tokens(toWorker, toNode, micro) /\ Waiting(lib, toWorker, toNode, micro)
      /\ toWorker \in Seq(ToWorker) /\ toNode \in Seq(ToNode)
  BY <1>1, Zenon DEF KnownInv, MessagesTyped
<1>3. /\ Worker \in live /\ toWorker # <<>> /\ toWorker' = Tail(toWorker)
      /\ UNCHANGED <<lib, args, micro, immediates>>
  BY Zenon DEF WorkerHandles
<1>4. IsCreate(Head(toWorker)) /\ Head(toWorker).op # "close"
  BY DEF IsCreate
<1>5. /\ Head(toWorker) \in ToWorker
      /\ \A y : Requested(toWorker', y) => Requested(toWorker, y)
      /\ \A a, y : Doomed(a, toWorker, y) => Doomed(a, toWorker', y)
      /\ Requested(toWorker, x) /\ ~Requested(toWorker', x)
  BY <1>2, <1>3, <1>4, Taken, Zenon
<1>6. x \in Created /\ x # Worker
  BY <1>5, Kinds DEF ToWorker
<1>7. lib.status[x] # "none"
  <2>1. Awaited(toWorker, toNode, micro, x)
    BY <1>5, Zenon DEF Awaited, Requested
  <2> QED
    BY <1>2, <1>6, <2>1 DEF Waiting
<1> HIDE DEF x
<1>8. PICK b \in {"accepted", "rejected"} :
         /\ toNode' = Append(toNode, Answer(b, x))
         /\ \/ b = "accepted" /\ Possible(x) /\ live' = live \cup {x}
            \/ live' = live
  BY Zenon DEF HandleCreate, x
<1>9. Answer(b, x) \in ToNode /\ IsAnswer(Answer(b, x)) /\ Answer(b, x).op = b /\ Answer(b, x).id = x
  BY <1>6 DEF Answer, ToNode, IsAnswer
<1>10. /\ \A m, y : Accepted(toNode, m, y) => Accepted(toNode', m, y)
       /\ \A m : Answer(b, x).op = "accepted" => Accepted(toNode', m, Answer(b, x).id)
       /\ \A e, c : Announced(toNode', e, c) => Announced(toNode, e, c)
  BY <1>2, <1>8, <1>9, Answered, Zenon
<1>11. ASSUME NEW y \in live \ {Worker}
       PROVE  Stands(lib, args, toWorker, toNode, micro, live, y)'
  <2>1. Stands(lib, args, toWorker, toNode, micro, live, y)
    BY <1>11, Zenon DEF LiveInv
  <2>2. args'[y].on \in live' /\ args'[y].server \in live' \cup {Nobody}
    BY <1>3, <1>8, <2>1, Zenon DEF Stands
  <2> QED
    BY <1>3, <1>5, <1>10, <2>1, <2>2, Zenon DEF Stands
<1>12. ASSUME x \in live', x \notin live
       PROVE  Stands(lib', args', toWorker', toNode', micro', live', x)
  <2>1. b = "accepted" /\ Possible(x) /\ live' = live \cup {x}
    BY <1>8, <1>12, Zenon
  <2>2. Accepted(toNode', micro', x)
    BY <1>9, <1>10, <2>1, Zenon
  <2>3. args'[x].on \in live' /\ args'[x].server \in live' \cup {Nobody}
    BY <1>3, <2>1, Zenon DEF Possible
  <2> QED
    BY <1>3, <1>5, <1>7, <2>2, <2>3, Zenon DEF Stands
<1>13. ASSUME NEW c \in Created, Announced(toNode', immediates', c)
       PROVE  Deleted(lib, toWorker, live, c)'
  <2>1. Deleted(lib, toWorker, live, c)
    BY <1>3, <1>10, <1>13, Zenon DEF LiveInv
  <2>2. c # x
    BY <1>5, <2>1, Zenon DEF Deleted
  <2>3. c \notin live'
    BY <1>8, <2>1, <2>2, Zenon DEF Deleted
  <2> QED
    BY <1>3, <1>5, <2>1, <2>3, Zenon DEF Deleted
<1>14. \A y \in live' : y \in live \/ y = x
  BY <1>8, Zenon
<1>15. Worker \in live' /\ lib'.status[Worker] = "open"
  BY <1>3, <1>8, Zenon DEF LiveInv
<1> QED
  BY <1>1, <1>11, <1>12, <1>13, <1>14, <1>15, Zenon DEF LiveInv

\* The process handles the request to close z.
LEMMA DeleteLive ==
  ASSUME LiveInv, WorkerHandles, Head(toWorker).op = "close", HandleClose(Head(toWorker).id)
  PROVE  LiveInv'
<1> DEFINE z == Head(toWorker).id
<1>1. KnownInv /\ KnownInv'
  BY WorkerHandlesKnown, Zenon DEF LiveInv
<1>2. /\ Tokens(toWorker, toNode, micro) /\ toWorker \in Seq(ToWorker) /\ toNode \in Seq(ToNode)
      /\ live \subseteq Objects
  BY <1>1, Zenon DEF KnownInv, MessagesTyped
<1>3. /\ Worker \in live /\ toWorker # <<>> /\ toWorker' = Tail(toWorker)
      /\ UNCHANGED <<lib, args, micro, immediates>>
  BY Zenon DEF WorkerHandles
<1>4. /\ Head(toWorker) \in ToWorker
      /\ \A y : Requested(toWorker', y) => Requested(toWorker, y)
      /\ \A a, y : Doomed(a, toWorker, y) => Doomed(a, toWorker', y) \/ z \in Cover(a, y)
  BY <1>2, <1>3, Taken, Zenon
<1>5. z \in Created /\ Worker \notin Created /\ Sinks \subseteq Created
  BY <1>4, Kinds DEF ToWorker
<1>6. HandleClose(z)
  BY Zenon
<1> HIDE DEF z
<1>7. CASE z \notin live /\ UNCHANGED <<live, toNode>>
  <2>1. ASSUME NEW y \in live \ {Worker}
        PROVE  Stands(lib, args, toWorker, toNode, micro, live, y)'
    <3>1. Stands(lib, args, toWorker, toNode, micro, live, y) /\ y \in Created /\ Placed(lib, args, y)
      BY <2>1, StandsOn, Zenon DEF LiveInv
    <3>2. z \notin Cover(args, y)
      BY <1>5, <1>7, <2>1, CoverLive, Zenon
    <3> QED
      BY <1>3, <1>4, <1>7, <3>1, <3>2, Zenon DEF Stands
  <2>2. ASSUME NEW c \in Created, Announced(toNode', immediates', c)
        PROVE  Deleted(lib, toWorker, live, c)'
    BY <1>3, <1>4, <1>7, <2>2, Zenon DEF LiveInv, Deleted
  <2>3. Worker \in live' /\ lib'.status[Worker] = "open" /\ live' = live
    BY <1>3, <1>7, Zenon DEF LiveInv
  <2> QED
    BY <1>1, <2>1, <2>2, <2>3, Zenon DEF LiveInv
<1>8. ASSUME live' = live \ (Below({z}) \cup Orphans(z)),
             NEW order \in Injection(1..Cardinality(Orphans(z)), Orphans(z)),
             toNode' = toNode \o Announcements(order)
      PROVE  LiveInv'
  <2> DEFINE q == Announcements(order)
  <2>1. /\ q \in Seq(ToNode) /\ Orphans(z) \subseteq live \cap Sinks
        /\ \A i \in DOMAIN q : \E c \in Orphans(z) : q[i] = Answer("producerclose", c)
    BY <1>2, AnnouncementsAre, Zenon
  <2>2. toNode' = toNode \o q
    BY <1>8, Zenon
  <2> HIDE DEF q
  <2>3. /\ \A m, y : Accepted(toNode, m, y) => Accepted(toNode', m, y)
        /\ \A e, c : Announced(toNode', e, c) =>
             \/ Announced(toNode, e, c)
             \/ \E i \in DOMAIN q : q[i].op = "producerclose" /\ q[i].id = c
    <3>1. toNode \in Seq(ToNode) /\ q \in Seq(ToNode)
      BY <1>2, <2>1, Zenon
    <3>2. /\ \A m, y : Accepted(toNode, m, y) => Accepted(toNode \o q, m, y)
          /\ \A e, c : Announced(toNode \o q, e, c) =>
               \/ Announced(toNode, e, c)
               \/ \E i \in DOMAIN q : q[i].op = "producerclose" /\ q[i].id = c
      BY <3>1, Sent
    <3> QED
      BY <2>2, <3>2
  <2>4. \A c : (\E i \in DOMAIN q : q[i].op = "producerclose" /\ q[i].id = c) => c \in Orphans(z)
    BY <2>1 DEF Answer
  <2>5. ASSUME NEW y \in live' \ {Worker}
        PROVE  Stands(lib, args, toWorker, toNode, micro, live, y)'
    <3>1. /\ y \in live \ {Worker} /\ z \notin Cover(args, y)
          /\ args[y].on \in live' /\ args[y].server \in live' \cup {Nobody}
      <4>1. live' = live \ (Below({z}) \cup Orphans(z))
        BY <1>8, Zenon
      <4>2. Worker \in live
        BY <1>3, Zenon
      <4>3. y \in live \ (Below({z}) \cup Orphans(z)) /\ y # Worker
        BY <2>5, <4>1, Zenon
      <4> QED
        BY <1>5, <4>1, <4>2, <4>3, StaysOn, Zenon
    <3>2. Stands(lib, args, toWorker, toNode, micro, live, y)
      BY <3>1, Zenon DEF LiveInv
    <3> QED
      BY <1>3, <1>4, <2>3, <3>1, <3>2, Zenon DEF Stands
  <2>6. ASSUME NEW c \in Created, Announced(toNode', immediates', c)
        PROVE  Deleted(lib, toWorker, live, c)'
    <3>1. CASE Announced(toNode, immediates, c)
      <4>1. Deleted(lib, toWorker, live, c)
        BY <3>1, Zenon DEF LiveInv
      <4>2. c \notin live'
        BY <1>8, <4>1, Zenon DEF Deleted
      <4> QED
        BY <1>3, <1>4, <4>1, <4>2, Zenon DEF Deleted
    <3>2. CASE c \in Orphans(z)
      <4>1. c \in live \ {Worker} /\ c \in Sinks /\ c \notin live'
        BY <1>5, <1>8, <2>1, <3>2, Zenon
      <4>2. lib.status[c] # "none" /\ ~Requested(toWorker, c)
        BY <4>1, Zenon DEF LiveInv, Stands
      <4> QED
        BY <1>3, <1>4, <4>1, <4>2, Zenon DEF Deleted
    <3> QED
      BY <1>3, <2>3, <2>4, <2>6, <3>1, <3>2, Zenon
  <2>7. Worker \in live' /\ lib'.status[Worker] = "open"
    <3>1. Worker \notin Below({z}) /\ Worker \notin Orphans(z)
      BY <1>5, <2>1, BelowIs, Zenon
    <3> QED
      BY <1>3, <1>8, <3>1, Zenon DEF LiveInv
  <2> QED
    BY <1>1, <2>5, <2>6, <2>7, Zenon DEF LiveInv
<1> QED
  BY <1>6, <1>7, <1>8, Zenon DEF HandleClose, Announcements

\* Initially there is the Worker only.
LEMMA InitLive == Init => LiveInv
<1> SUFFICES ASSUME Init PROVE LiveInv
  OBVIOUS
<1>1. KnownInv
  BY InitKnown, Zenon
<1>2. live = {Worker} /\ toNode = <<>> /\ immediates = <<>>
  BY Zenon DEF Init
<1>3. lib.status[Worker] = "open"
  BY Kinds DEF Init, NoLibrary
<1>4. \A c : ~Announced(toNode, immediates, c)
  BY <1>2 DEF Announced
<1> QED
  BY <1>1, <1>2, <1>3, <1>4, Zenon DEF LiveInv

\* Every step keeps LiveInv.
LEMMA LiveStep == LiveInv /\ [Next]_vars => LiveInv'
<1> SUFFICES ASSUME LiveInv, [Next]_vars
             PROVE  LiveInv'
  OBVIOUS
<1>0. KnownInv
  BY Zenon DEF LiveInv
<1>1. CASE Creates
  BY <1>0, <1>1, CreatesCalls, CallLive, Zenon
<1>2. CASE Closes
  BY <1>0, <1>2, ClosesShuts, CloseLive, Zenon
<1>3. CASE CloseWorker
  BY <1>3, WorkerDownLive, Zenon DEF CloseWorker
<1>4. CASE Read
  BY <1>4, ReadLive, Zenon
<1>5. CASE Continue
  BY <1>5, ContinueLive, Zenon
<1>6. CASE OnProducerClose \/ OnDataProducerClose
  <2>1. Consumers \in SUBSET Sinks /\ DataConsumers \in SUBSET Sinks
    BY Zenon DEF Sinks
  <2> QED
    BY <1>6, <2>1, EmitLive, Zenon DEF OnProducerClose, OnDataProducerClose
<1>7. CASE WorkerDied
  <2>1. live' = {}
    BY <1>7, Zenon DEF WorkerDied, LiveInv
  <2> QED
    BY <1>7, <2>1, WorkerDownLive, Zenon DEF WorkerDied
<1>8. CASE WorkerHandles
  BY <1>8, CreateLive, DeleteLive, Zenon DEF WorkerHandles
<1>9. CASE WorkerExits
  <2>1. KnownInv'
    BY <1>0, <1>9, KnownStep, Zenon DEF Next
  <2>2. live' = {} /\ UNCHANGED <<lib, toWorker, toNode, immediates>>
    BY <1>9, Zenon DEF WorkerExits
  <2> QED
    BY <2>1, <2>2, Zenon DEF LiveInv, Deleted
<1>10. CASE UNCHANGED vars
  <2>1. KnownInv'
    BY <1>0, <1>10, KnownStep, Zenon
  <2>2. UNCHANGED <<lib, args, toWorker, live, toNode, micro, immediates>>
    BY <1>10, Zenon DEF vars
  <2> QED
    BY <2>1, <2>2, Zenon DEF LiveInv
<1> QED
  BY <1>1, <1>2, <1>3, <1>4, <1>5, <1>6, <1>7, <1>8, <1>9, <1>10, ZenonT(60)
     DEF Next, Application, Loop, Creates, Closes

\* What exists in the worker process is an open object in its owner's map once
\* nothing is on its way, for any number of objects and any order of creations,
\* closes and late responses (Router.close, Transport.close, produce, consume).
THEOREM NothingIsLeaked == Spec => []NothingLeaks
<1>1. LiveInv => NothingLeaks
  <2> SUFFICES ASSUME LiveInv, Quiet, NEW x \in live \ {Worker}
               PROVE  IsOpen(x) /\ x \in lib.held[args[x].on]
    BY Zenon DEF NothingLeaks
  <2>1. toWorker = <<>> /\ toNode = <<>> /\ micro = <<>>
    BY Zenon DEF Quiet
  <2>2. ~Accepted(toNode, micro, x) /\ ~Doomed(args, toWorker, x)
    BY <2>1 DEF Accepted, Doomed
  <2>3. lib.status[x] = "open" /\ x \in Created /\ Sound(lib, args)
    BY <2>2, StandsOn, Zenon DEF LiveInv, Stands
  <2> QED
    BY <2>3, Zenon DEF IsOpen, Sound, HeldExact
<1> QED
  BY <1>1, InitLive, LiveStep, PTL DEF Spec

-----------------------------------------------------------------------------
(* Every step keeps ExistInv.                                              *)

\* A creation whose response or continuation is on its way is pending or rejected.
LEMMA AcceptedWaits ==
  ASSUME KnownInv, NEW x \in Created, Accepted(toNode, micro, x)
  PROVE  lib.status[x] \in {"creating", "rejected"}
<1>1. Waiting(lib, toWorker, toNode, micro)
  BY Zenon DEF KnownInv
<1>2. Awaited(toWorker, toNode, micro, x)
  BY DEF Accepted, Awaited, IsAnswer
<1> QED
  BY <1>1, <1>2 DEF Waiting

\* A request is written behind the others.
LEMMA TooLateWritten ==
  ASSUME NEW w \in Seq(ToWorker), NEW e \in ToWorker, NEW L, NEW r, NEW t, NEW x,
         TooLate(w, L, r, t, x),
         IsCreate(e) /\ e.id = x =>
           t \notin L \/ \E i \in DOMAIN w : w[i].op = "close" /\ w[i].id = r
  PROVE  TooLate(Append(w, e), L, r, t, x)
<1> DEFINE v == Append(w, e)
           z == Len(w) + 1
<1>1. /\ \A i \in DOMAIN w : i \in DOMAIN v /\ v[i] = w[i]
      /\ z \in DOMAIN v /\ v[z] = e
      /\ \A i \in DOMAIN v : i = z \/ i \in DOMAIN w
  BY AppendIs
<1>2. \A i \in DOMAIN w : i < z
  OBVIOUS
<1> HIDE DEF v, z
<1> SUFFICES ASSUME NEW j \in DOMAIN v, IsCreate(v[j]), v[j].id = x, t \in L
             PROVE  Follows(v, j, r)
  BY Zenon DEF TooLate, v
<1>3. CASE j = z
  BY <1>1, <1>2, <1>3, Zenon DEF Follows
<1>4. CASE j \in DOMAIN w
  <2>1. Follows(w, j, r)
    BY <1>1, <1>4, Zenon DEF TooLate
  <2> QED
    BY <1>1, <2>1, Zenon DEF Follows
<1> QED
  BY <1>1, <1>3, <1>4, Zenon

\* The process takes a request.
LEMMA TooLateTaken ==
  ASSUME NEW w \in Seq(ToWorker), w # <<>>, NEW L, NEW K, NEW r, NEW t, NEW x,
         TooLate(w, L, r, t, x), t \in K => t \in L,
         Head(w).op = "close" /\ Head(w).id = r => t \notin K
  PROVE  TooLate(Tail(w), K, r, t, x)
<1> DEFINE v == Tail(w)
<1>1. /\ Head(w) = w[1] /\ 1 \in DOMAIN w
      /\ \A i \in DOMAIN v : i \in Nat /\ i + 1 \in DOMAIN w /\ v[i] = w[i + 1]
  BY TailIs, Zenon
<1>2. \A i \in DOMAIN w : i # 1 => i - 1 \in DOMAIN v /\ v[i - 1] = w[i] /\ i \in Int
  OBVIOUS
<1> HIDE DEF v
<1> SUFFICES ASSUME NEW j \in DOMAIN v, IsCreate(v[j]), v[j].id = x, t \in K
             PROVE  Follows(v, j, r)
  BY Zenon DEF TooLate, v
<1>3. PICK i \in DOMAIN w : i < j + 1 /\ w[i].op = "close" /\ w[i].id = r
  <2>1. j + 1 \in DOMAIN w /\ w[j + 1] = v[j]
    BY <1>1, Zenon
  <2>2. Follows(w, j + 1, r)
    BY <2>1, Zenon DEF TooLate
  <2> QED
    BY <2>2, Zenon DEF Follows
<1>4. i # 1
  BY <1>1, <1>3, Zenon
<1>5. i - 1 \in DOMAIN v /\ v[i - 1] = w[i] /\ i - 1 < j
  <2>1. j \in Nat /\ i \in Int
    BY <1>1, <1>2, <1>4
  <2> QED
    BY <1>2, <1>3, <1>4, <2>1
<1> QED
  BY <1>3, <1>5, Zenon DEF Follows

\* What is called for on a late Transport of the process comes behind the request that
\* deletes its Router.
LEMMA LateFollows ==
  ASSUME LiveInv, NEW t \in live, Late(lib, args, t)
  PROVE  \E i \in DOMAIN toWorker : toWorker[i].op = "close" /\ toWorker[i].id = args[t].on
<1> DEFINE r == args[t].on
<1>1. t \in Transports /\ lib.status[r] = "closed" /\ Worker \notin Transports /\ Worker \notin Routers
  BY Kinds, Zenon DEF Late
<1>2. t \in live \ {Worker} /\ Placed(lib, args, t)
  BY <1>1, StandsOn, Zenon
<1>3. r \in Routers /\ r \in live \ {Worker}
  BY <1>1, <1>2, Zenon DEF Placed, LiveInv, Stands
<1>4. /\ r \in Created /\ Placed(lib, args, r) /\ Stands(lib, args, toWorker, toNode, micro, live, r)
      /\ KnownInv
  BY <1>3, StandsOn, Zenon DEF LiveInv
<1>5. ~Accepted(toNode, micro, r)
  BY <1>1, <1>4, AcceptedWaits
<1>6. Doomed(args, toWorker, r)
  BY <1>1, <1>4, <1>5 DEF Stands
<1>7. PICK i \in DOMAIN toWorker : toWorker[i].op = "close" /\ toWorker[i].id \in Cover(args, r)
  BY <1>6, Zenon DEF Doomed
<1>8. toWorker[i].id \in Created
  <2>1. toWorker \in Seq(ToWorker)
    BY <1>4, Zenon DEF KnownInv, MessagesTyped
  <2>2. toWorker[i] \in ToWorker
    BY <2>1
  <2> QED
    BY <2>2 DEF ToWorker
<1>9. args[r].on = Worker /\ args[r].server = Nobody
  <2>1. r \notin Transports
    BY <1>3, KindsAssumption, Zenon
  <2> QED
    BY <1>3, <1>4, <2>1, Zenon DEF Placed
<1>10. Worker \notin Created /\ Nobody \notin Created
  BY Kinds, Zenon
<1>11. toWorker[i].id = r
  BY <1>1, <1>7, <1>8, <1>9, <1>10, Zenon DEF Cover
<1> QED
  BY <1>7, <1>11, Zenon

\* Every request names an object the application creates.
LEMMA IdsCreated ==
  ASSUME NEW w \in Seq(ToWorker)
  PROVE  \A i \in DOMAIN w : w[i].id \in Created
<1> SUFFICES ASSUME NEW i \in DOMAIN w PROVE w[i].id \in Created
  BY Zenon
<1>1. w[i] \in ToWorker
  OBVIOUS
<1> QED
  BY <1>1 DEF ToWorker

\* Creating: on a Transport that came too late, nothing is created.
LEMMA CallExist ==
  ASSUME ExistInv, NEW x \in Created, NEW a, GoodArgs(x, a), Call(x, a)
  PROVE  ExistInv'
<1> DEFINE e == [op |-> "create", id |-> x]
<1>1. LiveInv /\ LiveInv' /\ KnownInv
  BY CallLive, Zenon DEF ExistInv, LiveInv
<1>2. /\ Sound(lib, args) /\ lib \in Library /\ args \in Arguments /\ toWorker \in Seq(ToWorker)
      /\ Worker \in Objects /\ Worker # x /\ Created \subseteq Objects /\ Transports \subseteq Created
      /\ x \in Objects /\ Objects = Created \cup {Worker}
  BY <1>1, Kinds DEF KnownInv, Sound, Typed, MessagesTyped
<1>3. /\ lib.status[x] = "none" /\ args' = [args EXCEPT ![x] = a]
      /\ UNCHANGED <<live, toNode, micro, immediates>>
      /\ toWorker' = toWorker \/ toWorker' = Append(toWorker, e)
      /\ \/ lib' = [lib EXCEPT !.status[x] = "creating"]
         \/ lib' = [lib EXCEPT !.status[x] = "rejected"]
  BY Zenon DEF Call
<1>4. /\ \A y \in Objects : y # x => lib'.status[y] = lib.status[y]
      /\ lib'.status[x] \in {"creating", "rejected"}
  BY <1>2, <1>3 DEF Library
<1>5. /\ \A y \in Created : y # x => args'[y] = args[y]
      /\ args'[x] = a
  BY <1>2, <1>3 DEF Arguments
<1>6. e \in ToWorker /\ IsCreate(e) /\ e.op # "close" /\ e.id = x
  BY DEF ToWorker, IsCreate
<1> HIDE DEF e
<1>7. ClosedFirst(lib', toWorker')
  <2>1. \A i \in DOMAIN toWorker : toWorker[i].id \in Objects
    BY <1>2, IdsCreated, Zenon
  <2>2. ClosedFirst(lib', toWorker)
    <3>1. \A y \in Objects : lib.status[y] = "closed" => lib'.status[y] = "closed"
      BY <1>3, <1>4
    <3> QED
      BY <2>1, <3>1, Zenon DEF ExistInv, ClosedFirst
  <2>3. CASE toWorker' = Append(toWorker, e)
    <3>1. \A i \in DOMAIN toWorker' : \/ toWorker'[i] = e
                                      \/ i \in DOMAIN toWorker /\ toWorker'[i] = toWorker[i]
      BY <1>2, <1>6, <2>3, AppendIs
    <3> QED
      BY <1>6, <2>2, <3>1, Zenon DEF ClosedFirst
  <2> QED
    BY <1>3, <2>2, <2>3, Zenon
<1>8. ~Accepted(toNode, micro, x)
  BY <1>1, <1>3, AcceptedWaits
<1>9. ASSUME NEW y \in Created, lib'.status[y] = "open" \/ Accepted(toNode', micro', y)
      PROVE  Backed(y)'
  <2>1. y # x
    BY <1>3, <1>4, <1>8, <1>9
  <2>2. lib.status[y] = "open" \/ Accepted(toNode, micro, y)
    BY <1>2, <1>3, <1>4, <1>9, <2>1, Zenon
  <2>3. Backed(y) /\ lib.status[y] # "none"
    <3>1. lib.status[y] # "none"
      BY <1>1, <2>2, AcceptedWaits
    <3> QED
      BY <2>2, <3>1, Zenon DEF ExistInv
  <2>4. Cover(args', y) = Cover(args, y)
    <3>1. \A z \in Created : z # x => args'[z] = args[z]
      BY <1>5, Zenon
    <3>2. Sound(lib, args) /\ lib.status[x] = "none" /\ lib.status[y] # "none"
      BY <1>2, <1>3, <2>3, Zenon
    <3> QED
      BY <3>1, <3>2, CoverKept
  <2>5. Cut(lib, args, y) => Cut(lib', args', y)
    <3>1. \A z \in Objects : lib.status[z] = "closed" => lib'.status[z] = "closed"
      BY <1>3, <1>4
    <3> QED
      BY <2>4, <3>1, Zenon DEF Cut
  <2>6. lib'.status[Worker] = lib.status[Worker]
    BY <1>2, <1>4, Zenon
  <2> QED
    BY <1>3, <2>3, <2>5, <2>6, Zenon DEF Backed
<1>10. ASSUME NEW y \in Created, lib'.status[y] # "none", Late(lib', args', args'[y].on)
       PROVE  Barren(y)'
  <2> DEFINE t == args'[y].on
             r == args'[t].on
  <2>1. t \in Transports /\ lib'.status[t] = "open" /\ lib'.status[r] = "closed"
    BY <1>10, Zenon DEF Late
  <2>2. t # x /\ t \in Created /\ lib.status[t] = "open"
    BY <1>2, <1>4, <2>1
  <2>3. r = args[t].on
    BY <1>5, <2>2, Zenon
  <2>4. r \in Objects
    <3>1. Placed(lib, args, t)
      BY <1>2, <2>2 DEF Sound, Typed
    <3> QED
      BY <2>1, <2>3, <3>1, Kinds, Zenon DEF Placed
  <2>5. r # x /\ lib.status[r] = "closed"
    BY <1>4, <2>1, <2>4
  <2> HIDE DEF r, t
  <2>6. Late(lib, args, t)
    BY <2>1, <2>2, <2>3, <2>5, Zenon DEF Late
  <2>7. CASE y = x
    <3>1. lib'.status[x] # "open" /\ ~Accepted(toNode', micro', x)
      BY <1>3, <1>4, <1>8
    <3>2. TooLate(toWorker, live, r, t, x)
      <4>1. \A i \in DOMAIN toWorker : ~(IsCreate(toWorker[i]) /\ toWorker[i].id = x)
        <5>1. ~Awaited(toWorker, toNode, micro, x)
          BY <1>1, <1>3 DEF KnownInv, Waiting
        <5> QED
          BY <5>1, Zenon DEF Awaited
      <4> QED
        BY <4>1, Zenon DEF TooLate
    <3>3. t \notin live \/ \E i \in DOMAIN toWorker : toWorker[i].op = "close" /\ toWorker[i].id = r
      BY <1>1, <2>3, <2>6, LateFollows, Zenon
    <3>4. TooLate(toWorker', live, r, t, x)
      <4>1. TooLate(Append(toWorker, e), live, r, t, x)
        BY <1>2, <1>6, <3>2, <3>3, TooLateWritten, Zenon
      <4> QED
        BY <1>3, <3>2, <4>1, Zenon
    <3> QED
      BY <1>3, <2>7, <3>1, <3>4, Zenon DEF Barren, r, t
  <2>8. CASE y # x
    <3>1. args'[y] = args[y] /\ t = args[y].on /\ lib.status[y] # "none"
      BY <1>2, <1>4, <1>5, <1>10, <2>8 DEF t
    <3>2. Barren(y)
      BY <2>6, <3>1, Zenon DEF ExistInv
    <3>3. lib'.status[y] # "open" /\ ~Accepted(toNode', micro', y) /\ TooLate(toWorker, live, r, t, y)
      BY <1>2, <1>3, <1>4, <2>3, <2>8, <3>1, <3>2 DEF Barren
    <3>4. TooLate(toWorker', live, r, t, y)
      <4>1. TooLate(Append(toWorker, e), live, r, t, y)
        BY <1>2, <1>6, <2>8, <3>3, TooLateWritten, Zenon
      <4> QED
        BY <1>3, <3>3, <4>1, Zenon
    <3> QED
      BY <1>3, <3>3, <3>4, Zenon DEF Barren, r, t
  <2> QED
    BY <2>7, <2>8, Zenon
<1>11. AnswersFirst(toNode', immediates')
  BY <1>3, Zenon DEF ExistInv
<1> QED
  BY <1>1, <1>7, <1>9, <1>10, <1>11, Zenon DEF ExistInv

\* Closing: what is closed stays closed, and a Router takes its open Transports along.
LEMMA CloseExist ==
  ASSUME ExistInv, NEW x \in Created, NEW l, NEW S, Shuts(lib, l, args, S), Covered(S, x),
         Thorough(S, x), Worker \notin S, Close(x, l)
  PROVE  ExistInv'
<1> DEFINE e == [op |-> "close", id |-> x]
<1>1. LiveInv /\ LiveInv' /\ KnownInv
  BY CloseLive, Zenon DEF ExistInv, LiveInv
<1>2. /\ Sound(lib, args) /\ toWorker \in Seq(ToWorker) /\ Worker \in Objects
      /\ Created \subseteq Objects /\ Transports \subseteq Created /\ Routers \subseteq Created
  BY <1>1, Kinds DEF KnownInv, MessagesTyped
<1>3. /\ lib' = l /\ UNCHANGED <<args, live, toNode, micro, immediates>>
      /\ toWorker' = toWorker \/ toWorker' = Append(toWorker, e)
  BY Zenon DEF Close
<1>4. \A y \in Objects : lib'.status[y] = IF y \in S THEN "closed" ELSE lib.status[y]
  BY <1>3 DEF Shuts
<1>5. /\ \A y \in Objects : lib.status[y] = "closed" => lib'.status[y] = "closed"
      /\ \A y \in Objects : lib'.status[y] = "open" => lib.status[y] = "open" /\ y \notin S
      /\ \A y \in Objects : y \in S => lib.status[y] = "open"
  BY <1>4 DEF Shuts, OpenIn
<1>6. e \in ToWorker /\ ~IsCreate(e) /\ e.id = x /\ x \in S /\ lib'.status[x] = "closed"
  BY <1>2, <1>4 DEF ToWorker, IsCreate, Covered
<1> HIDE DEF e
<1>7. ClosedFirst(lib', toWorker')
  <2>1. \A i \in DOMAIN toWorker : toWorker[i].id \in Objects
    BY <1>2, IdsCreated, Zenon
  <2>2. ClosedFirst(lib', toWorker)
    BY <1>5, <2>1, Zenon DEF ExistInv, ClosedFirst
  <2>3. CASE toWorker' = Append(toWorker, e)
    <3>1. \A i \in DOMAIN toWorker' : \/ toWorker'[i] = e
                                      \/ i \in DOMAIN toWorker /\ toWorker'[i] = toWorker[i]
      BY <1>2, <1>6, <2>3, AppendIs
    <3> QED
      BY <1>6, <2>2, <3>1, Zenon DEF ClosedFirst
  <2> QED
    BY <1>3, <2>2, <2>3, Zenon
<1>8. ASSUME NEW y \in Created, lib'.status[y] = "open" \/ Accepted(toNode', micro', y)
      PROVE  Backed(y)'
  <2>1. Backed(y)
    BY <1>2, <1>3, <1>5, <1>8, Zenon DEF ExistInv
  <2>2. Cut(lib, args, y) => Cut(lib', args, y)
    BY <1>5, Zenon DEF Cut
  <2>3. lib'.status[Worker] = lib.status[Worker]
    BY <1>2, <1>4, Zenon
  <2> QED
    BY <1>3, <2>1, <2>2, <2>3, Zenon DEF Backed
<1>9. ASSUME NEW y \in Created, lib'.status[y] # "none", Late(lib', args', args'[y].on)
      PROVE  Barren(y)'
  <2> DEFINE t == args[y].on
             r == args[t].on
  <2>1. t \in Transports /\ lib'.status[t] = "open" /\ lib'.status[r] = "closed"
    BY <1>3, <1>9, Zenon DEF Late
  <2>2. lib.status[t] = "open" /\ t \in Created /\ t \notin S
    BY <1>2, <1>5, <2>1
  <2>3. r \in Routers /\ r \in Created
    <3>1. Placed(lib, args, t)
      BY <1>2, <2>2 DEF Sound, Typed
    <3> QED
      BY <1>2, <2>1, <3>1, Zenon DEF Placed
  <2>4. r \notin S
    <3> SUFFICES ASSUME r \in S PROVE FALSE
      BY Zenon
    <3>1. lib.status[r] = "open" /\ x \in Cover(args, r)
      BY <1>2, <1>5, <2>3, Zenon DEF Covered
    <3>2. args[r].on = Worker /\ args[r].server = Nobody
      <4>1. Placed(lib, args, r) /\ r \notin Transports
        BY <1>2, <2>3, <3>1, KindsAssumption DEF Sound, Typed
      <4> QED
        BY <2>3, <4>1, ZenonT(60) DEF Placed
    <3>3. x # Worker /\ x # Nobody /\ Worker \notin Transports
      BY Kinds, Zenon
    <3>4. x = r
      BY <3>1, <3>2, <3>3, ZenonT(60) DEF Cover
    <3> QED
      BY <2>1, <2>2, <2>3, <3>4, Zenon DEF Thorough
  <2>5. lib.status[r] = "closed" /\ lib.status[y] # "none"
    BY <1>2, <1>4, <1>5, <1>9, <2>1, <2>3, <2>4
  <2>6. Barren(y)
    BY <2>1, <2>2, <2>5, Zenon DEF ExistInv, Late
  <2> HIDE DEF r, t
  <2>7. lib'.status[y] # "open" /\ ~Accepted(toNode', micro', y) /\ TooLate(toWorker, live, r, t, y)
    BY <1>2, <1>3, <1>5, <2>6 DEF Barren, r, t
  <2>8. TooLate(toWorker', live, r, t, y)
    <3>1. TooLate(Append(toWorker, e), live, r, t, y)
      BY <1>2, <1>6, <2>7, TooLateWritten, Zenon
    <3> QED
      BY <1>3, <2>7, <3>1, Zenon
  <2> QED
    BY <1>3, <2>7, <2>8, Zenon DEF Barren, r, t
<1>10. AnswersFirst(toNode', immediates')
  BY <1>3, Zenon DEF ExistInv
<1> QED
  BY <1>1, <1>7, <1>8, <1>9, <1>10, Zenon DEF ExistInv

\* The worker is over: every object the library still holds depends on a closed one.
LEMMA WorkerDownExist ==
  ASSUME ExistInv, IsOpen(Worker), lib' = WorkerDown(lib), toWorker' = <<>>,
         live' = {}, UNCHANGED <<args, toNode, left, micro, immediates>>
  PROVE  ExistInv'
<1>1. LiveInv /\ LiveInv' /\ KnownInv
  BY WorkerDownLive, Zenon DEF ExistInv, LiveInv
<1>2. /\ Sound(lib, args) /\ Worker \in Objects /\ Worker \notin Created /\ Created \subseteq Objects
      /\ Transports \subseteq Created /\ Routers \subseteq Created /\ lib.status[Worker] = "open"
      /\ Created = WebRtcServers \cup Routers \cup Transports \cup Sources \cup Sinks \cup Observers
      /\ \A x \in Created : lib.status[x] \in {"none", "creating", "rejected", "open", "closed"}
  BY <1>1, Kinds DEF KnownInv, IsOpen, Sound, Typed, Library
<1>3. \A x \in Created : lib.status[x] # "none" => Placed(lib, args, x)
  BY <1>2, Zenon DEF Sound, Typed
<1>4. /\ lib'.status[Worker] = "closed"
      /\ \A x \in Created : lib.status[x] = "creating" => lib'.status[x] \in {"creating", "rejected"}
      /\ \A x \in Created : lib.status[x] \notin {"open", "creating"} => lib'.status[x] = lib.status[x]
      /\ \A r \in Routers : lib.status[r] = "open" =>
           /\ lib'.status[r] = "closed"
           /\ \A t \in Transports : lib.status[t] = "open" /\ args[t].on = r => lib'.status[t] = "closed"
  <2> DEFINE k == WorkerDown(lib)
  <2>1. Sound(lib, args) /\ lib.status[Worker] = "open"
    BY <1>2, Zenon
  <2>2. /\ k.status[Worker] = "closed"
        /\ \A x \in Created : lib.status[x] = "creating" =>
             k.status[x] = IF x \in Range(micro) THEN "creating" ELSE "rejected"
        /\ \A x \in Created : lib.status[x] \notin {"open", "creating"} => k.status[x] = lib.status[x]
        /\ \A r \in Routers : lib.status[r] = "open" =>
             /\ k.status[r] = "closed"
             /\ \A t \in Transports : lib.status[t] = "open" /\ args[t].on = r => k.status[t] = "closed"
    BY <2>1, WorkerDownSound, Zenon
  <2>3. lib' = k
    OBVIOUS
  <2> HIDE DEF k
  <2>4. \A x \in Created : lib.status[x] = "creating" => k.status[x] \in {"creating", "rejected"}
    BY <2>2
  <2> QED
    BY <2>2, <2>3, <2>4, Zenon
<1>5. /\ \A x \in Created : lib'.status[x] = "open" => lib.status[x] = "open"
      /\ \A x \in Created : lib'.status[x] # "none" => lib.status[x] # "none"
      /\ \A r \in Routers : Ref(lib, r) => lib'.status[r] = "closed"
  BY <1>2, <1>4 DEF Ref
<1>6. ASSUME NEW y \in Created, lib'.status[y] = "open" \/ Accepted(toNode', micro', y)
      PROVE  Backed(y)'
  <2>1. lib.status[y] # "none"
    <3>1. Accepted(toNode, micro, y) => lib.status[y] \in {"creating", "rejected"}
      BY <1>1, AcceptedWaits, Zenon
    <3> QED
      BY <1>5, <1>6, <3>1
  <2>2. Placed(lib, args, y) /\ args[y].on \in Cover(args, y)
    BY <1>3, <2>1, Zenon DEF Cover
  <2>3. CASE y \in WebRtcServers \cup Routers
    <3>1. args[y].on = Worker /\ Worker # y
      BY <1>2, <2>2, <2>3, Zenon DEF Placed
    <3>2. Worker \in Cover(args, y) \ {y}
      BY <2>2, <3>1, Zenon
    <3>3. Cut(lib', args', y)
      BY <1>2, <1>4, <3>2, Zenon DEF Cut
    <3> QED
      BY <3>3, Zenon DEF Backed
  <2>4. CASE y \in Transports \cup Observers
    <3>1. args[y].on \in Routers /\ args[y].on # y /\ Ref(lib, args[y].on)
      BY <2>2, <2>4, KindsAssumption, Zenon DEF Placed
    <3> QED
      BY <1>2, <1>5, <2>2, <3>1, Zenon DEF Backed, Cut
  <2>5. CASE y \in Sources \cup Sinks
    <3> DEFINE t == args[y].on
    <3>1. t \in Transports /\ Ref(lib, t)
      BY <2>2, <2>5, Zenon DEF Placed
    <3>2. lib.status[t] # "none"
      BY <3>1 DEF Ref
    <3>3. Placed(lib, args, t)
      BY <1>2, <1>3, <3>1, <3>2, Zenon
    <3>4. args[t].on \in Routers /\ args[t].on # y /\ Ref(lib, args[t].on)
      BY <2>5, <3>1, <3>3, KindsAssumption, Zenon DEF Placed
    <3>5. args[t].on \in Cover(args, y)
      BY <3>1, Zenon DEF Cover
    <3> QED
      BY <1>2, <1>5, <3>4, <3>5, Zenon DEF Backed, Cut
  <2> QED
    BY <1>2, <2>3, <2>4, <2>5, Zenon
<1>7. ASSUME NEW y \in Created, lib'.status[y] # "none", Late(lib', args', args'[y].on)
      PROVE  Barren(y)'
  <2> DEFINE t == args[y].on
             r == args[t].on
  <2>1. t \in Transports /\ lib'.status[t] = "open" /\ lib'.status[r] = "closed"
    BY <1>7, Zenon DEF Late
  <2>2. lib.status[t] = "open" /\ t \in Created /\ lib.status[y] # "none"
    BY <1>2, <1>5, <1>7, <2>1, Zenon
  <2>3. r \in Routers /\ Ref(lib, r)
    <3>1. Placed(lib, args, t)
      BY <1>3, <2>2, SMTT(30)
    <3> QED
      BY <2>1, <3>1, Zenon DEF Placed
  <2>4. lib.status[r] = "closed"
    BY <1>4, <2>1, <2>2, <2>3 DEF Ref
  <2>5. Barren(y)
    BY <2>1, <2>2, <2>4, Zenon DEF ExistInv, Late
  <2>6. lib'.status[y] # "open" /\ ~Accepted(toNode', micro', y)
    BY <1>5, <2>5, Zenon DEF Barren
  <2>7. \A p, q : TooLate(<<>>, live', p, q, y)
    BY DEF TooLate
  <2> QED
    BY <2>6, <2>7, Zenon DEF Barren
<1>8. AnswersFirst(toNode', immediates')
  BY Zenon DEF ExistInv
<1>9. ClosedFirst(lib', toWorker')
  BY DEF ClosedFirst
<1> QED
  BY <1>1, <1>6, <1>7, <1>8, <1>9, Zenon DEF ExistInv

\* A step that leaves the process and its requests alone, and closes no Router.
LEMMA QuietExist ==
  ASSUME ExistInv, UNCHANGED <<args, toWorker, live>>,
         lib'.status[Worker] = lib.status[Worker],
         \A z \in Objects : lib.status[z] = "closed" => lib'.status[z] = "closed",
         \A r \in Routers : lib'.status[r] = "closed" => lib.status[r] = "closed",
         \A z \in Created : lib'.status[z] # "none" => lib.status[z] # "none",
         \A z \in Created : lib'.status[z] = "open" => lib.status[z] = "open" \/ Accepted(toNode, micro, z),
         \A z \in Created : Accepted(toNode', micro', z) => Accepted(toNode, micro, z),
         \A z \in Created : /\ lib'.status[z] = "open" \/ Accepted(toNode', micro', z)
                            /\ Announced(toNode, immediates, z)
                            => Announced(toNode', immediates', z)
  PROVE  /\ ClosedFirst(lib', toWorker')
         /\ \A y \in Created : lib'.status[y] = "open" \/ Accepted(toNode', micro', y) => Backed(y)'
         /\ \A y \in Created : lib'.status[y] # "none" /\ Late(lib', args', args'[y].on) => Barren(y)'
<1>1. KnownInv /\ Sound(lib, args) /\ toWorker \in Seq(ToWorker)
  BY Zenon DEF ExistInv, LiveInv, KnownInv, MessagesTyped
<1>2. Created \subseteq Objects /\ Transports \subseteq Created /\ Routers \subseteq Created
  BY Kinds, Zenon
<1>3. ClosedFirst(lib', toWorker')
  <2>1. \A i \in DOMAIN toWorker : toWorker[i].id \in Objects
    BY <1>1, <1>2, IdsCreated, Zenon
  <2> QED
    BY <2>1, Zenon DEF ExistInv, ClosedFirst
<1>4. ASSUME NEW y \in Created, lib'.status[y] = "open" \/ Accepted(toNode', micro', y)
      PROVE  Backed(y)'
  <2>1. Backed(y)
    BY <1>4, Zenon DEF ExistInv
  <2>2. Cut(lib, args, y) => Cut(lib', args', y)
    BY Zenon DEF Cut
  <2> QED
    BY <1>4, <2>1, <2>2, Zenon DEF Backed
<1>5. ASSUME NEW y \in Created, lib'.status[y] # "none", Late(lib', args', args'[y].on)
      PROVE  Barren(y)'
  <2> DEFINE t == args[y].on
             r == args[t].on
  <2>1. t \in Transports /\ lib'.status[t] = "open" /\ lib'.status[r] = "closed"
    BY <1>5, Zenon DEF Late
  <2>2. lib.status[y] # "none" /\ t \in Created /\ t \in Objects
    BY <1>2, <1>5, <2>1, Zenon
  <2>3. Ref(lib, t)
    BY <1>1, <2>2, Zenon DEF Sound, Typed, Placed
  <2>4. lib.status[t] = "open"
    BY <2>1, <2>2, <2>3 DEF Ref
  <2>5. Placed(lib, args, t)
    BY <1>1, <2>2, <2>4 DEF Sound, Typed
  <2>6. lib.status[r] = "closed"
    BY <2>1, <2>5, Zenon DEF Placed
  <2>7. Barren(y)
    BY <2>1, <2>2, <2>4, <2>6, Zenon DEF ExistInv, Late
  <2> QED
    BY <2>7, Zenon DEF Barren
<1> QED
  BY <1>3, <1>4, <1>5, Zenon

\* A message is read.
LEMMA ReadExist ==
  ASSUME ExistInv, Read
  PROVE  ExistInv'
<1> DEFINE h == Head(toNode)
<1>1. LiveInv /\ LiveInv' /\ KnownInv
  BY ReadLive, Zenon DEF ExistInv, LiveInv
<1>2. /\ lib \in Library /\ toNode \in Seq(ToNode) /\ micro \in Seq(Created)
      /\ immediates \in Seq(Created) /\ left \in 0..Len(toNode) /\ Worker \in Objects
      /\ Created \subseteq Objects /\ Routers \subseteq Objects /\ Worker \notin Created
  BY <1>1, Kinds DEF KnownInv, Sound, Typed, MessagesTyped
<1>3. /\ toNode # <<>> /\ Process(h) /\ toNode' = Tail(toNode) /\ UNCHANGED <<args, toWorker, live>>
  BY <1>2 DEF Read
<1>4. /\ h \in ToNode
      /\ \A m, y : Accepted(toNode', m, y) => Accepted(toNode, m, y)
      /\ \A m : h.op = "accepted" => Accepted(toNode, m, h.id)
      /\ \A e, c : Announced(toNode, e, c) =>
           Announced(toNode', e, c) \/ (h.op = "producerclose" /\ h.id = c)
  BY <1>2, <1>3, Received, Zenon
<1>5. h.id \in Created
  BY <1>4 DEF ToNode
<1>6. /\ h = toNode[1] /\ 1 \in DOMAIN toNode
      /\ \A i \in DOMAIN toNode' : i \in Nat /\ i + 1 \in DOMAIN toNode /\ toNode'[i] = toNode[i + 1]
  BY <1>2, <1>3, TailIs
<1> HIDE DEF h
<1>7. \A y \in Objects : \/ lib'.status[y] = lib.status[y]
                         \/ lib.status[y] = "creating" /\ lib'.status[y] = "rejected" /\ y # Worker
  <2>1. CASE lib' = lib
    BY <2>1, Zenon
  <2>2. CASE Pending(h.id) /\ lib' = [lib EXCEPT !.status[h.id] = "rejected"]
    <3>1. /\ \A y \in Objects : lib'.status[y] = IF y = h.id THEN "rejected" ELSE lib.status[y]
          /\ lib.status[h.id] = "creating" /\ h.id # Worker
      BY <1>2, <1>5, <2>2 DEF Library, Pending
    <3> QED
      BY <3>1
  <2> QED
    BY <1>3, <2>1, <2>2, Zenon DEF Process
<1>8. /\ lib'.status[Worker] = lib.status[Worker]
      /\ \A z \in Objects : lib.status[z] = "closed" => lib'.status[z] = "closed"
      /\ \A r \in Routers : lib'.status[r] = "closed" => lib.status[r] = "closed"
      /\ \A z \in Created : lib'.status[z] # "none" => lib.status[z] # "none"
      /\ \A z \in Created : lib'.status[z] = "open" => lib.status[z] = "open"
  BY <1>2, <1>7
<1>9. \A z : Accepted(toNode', micro', z) => Accepted(toNode, micro, z)
  <2>1. CASE micro' = micro
    BY <1>4, <2>1, Zenon
  <2>2. CASE h.op = "accepted" /\ micro' = Append(micro, h.id)
    <3>1. \A i \in DOMAIN micro' : micro'[i] = h.id \/ (i \in DOMAIN micro /\ micro'[i] = micro[i])
      BY <1>2, <1>5, <2>2, AppendIs
    <3>2. \A n, z : Accepted(n, micro', z) => Accepted(n, micro, z) \/ z = h.id
      BY <3>1, Zenon DEF Accepted
    <3> QED
      BY <1>4, <2>2, <3>2, Zenon
  <2> QED
    BY <1>3, <2>1, <2>2, Zenon DEF Process
<1>10. /\ \/ immediates' = immediates /\ h.op # "producerclose"
          \/ h.op = "producerclose" /\ immediates' = Append(immediates, h.id)
  BY <1>3 DEF Process
<1>11. /\ \A i \in DOMAIN immediates : i \in DOMAIN immediates' /\ immediates'[i] = immediates[i]
       /\ h.op = "producerclose" => \E i \in DOMAIN immediates' : immediates'[i] = h.id
       /\ \A i \in DOMAIN immediates' :
            \/ h.op = "producerclose" /\ immediates'[i] = h.id
            \/ i \in DOMAIN immediates /\ immediates'[i] = immediates[i]
  <2>1. CASE immediates' = immediates /\ h.op # "producerclose"
    BY <2>1, Zenon
  <2>2. CASE h.op = "producerclose" /\ immediates' = Append(immediates, h.id)
    BY <1>2, <1>5, <2>2, AppendIs
  <2> QED
    BY <1>10, <2>1, <2>2, Zenon
<1>12. \A z : Announced(toNode, immediates, z) => Announced(toNode', immediates', z)
  <2>1. \A n, z : Announced(n, immediates, z) => Announced(n, immediates', z)
    BY <1>11, Zenon DEF Announced
  <2>2. h.op = "producerclose" => \A n : Announced(n, immediates', h.id)
    BY <1>11, Zenon DEF Announced
  <2> QED
    BY <1>4, <2>1, <2>2, Zenon
<1>13. AnswersFirst(toNode', immediates')
  <2>1. ASSUME NEW i \in DOMAIN toNode', NEW j \in DOMAIN toNode',
               toNode'[i].op = "producerclose", IsAnswer(toNode'[j]), toNode'[j].id = toNode'[i].id
        PROVE  j < i
    <3>1. j + 1 < i + 1
      BY <1>6, <2>1, Zenon DEF ExistInv, AnswersFirst
    <3> QED
      BY <1>6, <3>1
  <2>2. ASSUME NEW i \in DOMAIN immediates', NEW j \in DOMAIN toNode', IsAnswer(toNode'[j])
        PROVE  toNode'[j].id # immediates'[i]
    <3>1. j \in Nat /\ j + 1 \in DOMAIN toNode /\ toNode'[j] = toNode[j + 1] /\ ~(j + 1 < 1)
      BY <1>6
    <3>2. CASE h.op = "producerclose" /\ immediates'[i] = h.id
      BY <1>6, <2>2, <3>1, <3>2, Zenon DEF ExistInv, AnswersFirst
    <3>3. CASE i \in DOMAIN immediates /\ immediates'[i] = immediates[i]
      BY <2>2, <3>1, <3>3, ZenonT(60) DEF ExistInv, AnswersFirst
    <3> QED
      BY <1>11, <3>2, <3>3, Zenon
  <2> QED
    BY <2>1, <2>2, Zenon DEF AnswersFirst
<1>14. /\ ClosedFirst(lib', toWorker')
       /\ \A y \in Created : lib'.status[y] = "open" \/ Accepted(toNode', micro', y) => Backed(y)'
       /\ \A y \in Created : lib'.status[y] # "none" /\ Late(lib', args', args'[y].on) => Barren(y)'
  <2>1. \A z \in Created : lib'.status[z] = "open" => lib.status[z] = "open" \/ Accepted(toNode, micro, z)
    BY <1>8, Zenon
  <2>2. UNCHANGED <<args, toWorker, live>>
    BY <1>3, Zenon
  <2> HIDE DEF ExistInv
  <2> QED
    BY <1>8, <1>9, <1>12, <2>1, <2>2, QuietExist
<1> QED
  BY <1>1, <1>13, <1>14, Zenon DEF ExistInv

\* A creation goes on: nobody has called for anything on the object yet.
LEMMA ContinueExist ==
  ASSUME ExistInv, Continue
  PROVE  ExistInv'
<1> DEFINE x == Head(micro)
<1>1. LiveInv /\ LiveInv' /\ KnownInv
  BY ContinueLive, Zenon DEF ExistInv, LiveInv
<1>2. /\ Sound(lib, args) /\ Waiting(lib, toWorker, toNode, micro) /\ micro \in Seq(Created)
      /\ Worker \in Objects /\ Created \subseteq Objects /\ Worker \notin Created /\ Routers \subseteq Objects
  BY <1>1, Kinds, SMTT(30) DEF KnownInv, MessagesTyped
<1>3. /\ micro # <<>> /\ lib' = Register(lib, x) /\ micro' = Tail(micro)
      /\ UNCHANGED <<args, toWorker, live, toNode, immediates>>
  BY Zenon DEF Continue
<1>4. /\ x \in Created /\ x = micro[1] /\ 1 \in DOMAIN micro
      /\ \A i \in DOMAIN micro' : i + 1 \in DOMAIN micro /\ micro'[i] = micro[i + 1]
  BY <1>2, <1>3, TailIs
<1>5. lib.status[x] = "creating" /\ Accepted(toNode, micro, x)
  BY <1>2, <1>4, Zenon DEF Waiting, Accepted
<1>6. lib'.status = [lib.status EXCEPT ![x] = "open"]
  BY <1>2, <1>3, <1>4, <1>5, RegisterSound, ZenonT(60)
<1> HIDE DEF x
<1>7. \A y \in Objects : lib'.status[y] = IF y = x THEN "open" ELSE lib.status[y]
  <2>1. lib.status \in [Objects -> {"none", "creating", "rejected", "open", "closed"}]
    BY <1>2 DEF Sound, Typed, Library
  <2> QED
    BY <1>6, <2>1
<1>8. /\ lib'.status[Worker] = lib.status[Worker]
      /\ \A z \in Objects : lib.status[z] = "closed" => lib'.status[z] = "closed"
      /\ \A r \in Routers : lib'.status[r] = "closed" => lib.status[r] = "closed"
      /\ \A z \in Created : lib'.status[z] # "none" => lib.status[z] # "none"
      /\ \A z \in Created : lib'.status[z] = "open" => lib.status[z] = "open" \/ z = x
  BY <1>2, <1>4, <1>5, <1>7
<1>9. \A z \in Created : lib'.status[z] = "open" => lib.status[z] = "open" \/ Accepted(toNode, micro, z)
  BY <1>5, <1>8, Zenon
<1>10. \A z : Accepted(toNode', micro', z) => Accepted(toNode, micro, z)
  BY <1>3, <1>4, Zenon DEF Accepted
<1>11. \A z : Announced(toNode, immediates, z) => Announced(toNode', immediates', z)
  BY <1>3, ZenonT(60)
<1>12. /\ ClosedFirst(lib', toWorker')
       /\ \A y \in Created : lib'.status[y] = "open" \/ Accepted(toNode', micro', y) => Backed(y)'
       /\ \A y \in Created : lib'.status[y] # "none" /\ Late(lib', args', args'[y].on) => Barren(y)'
  <2>1. UNCHANGED <<args, toWorker, live>>
    BY <1>3, Zenon
  <2> QED
    BY <1>8, <1>9, <1>10, <1>11, <2>1, QuietExist
<1>13. AnswersFirst(toNode', immediates')
  BY <1>3, Zenon DEF ExistInv
<1> QED
  BY <1>1, <1>12, <1>13, Zenon DEF ExistInv

\* A Consumer hears that its Producer was closed: it had been created before.
LEMMA EmitExist ==
  ASSUME ExistInv, NEW D \in SUBSET Sinks, Emit(D)
  PROVE  ExistInv'
<1> DEFINE c == Head(immediates)
<1>1. LiveInv /\ LiveInv' /\ KnownInv
  BY EmitLive, Zenon DEF ExistInv, LiveInv
<1>2. /\ Sound(lib, args) /\ lib \in Library /\ immediates \in Seq(Created)
      /\ Worker \in Objects /\ Created \subseteq Objects /\ Worker \notin Created /\ Routers \subseteq Objects
  BY <1>1, Kinds DEF KnownInv, Sound, Typed, MessagesTyped
<1>3. /\ immediates # <<>> /\ immediates' = Tail(immediates) /\ c \in Sinks /\ micro = <<>>
      /\ lib' = IF IsOpen(c) THEN LeafClose(lib, c) ELSE lib
      /\ UNCHANGED <<args, toWorker, live, toNode, micro>>
  BY Zenon DEF Emit, NextCallback
<1>4. /\ c \in Created /\ c = immediates[1] /\ 1 \in DOMAIN immediates
      /\ \A i \in DOMAIN immediates' : i + 1 \in DOMAIN immediates /\ immediates'[i] = immediates[i + 1]
      /\ \A i \in DOMAIN immediates : i # 1 => \E j \in DOMAIN immediates' : immediates'[j] = immediates[i]
  BY <1>2, <1>3, TailIs
<1>5. c \notin Routers /\ c # Worker
  BY <1>2, <1>3, <1>4, KindsAssumption, Zenon
<1> HIDE DEF c
<1>6. /\ \A y \in Objects : y # c => lib'.status[y] = lib.status[y]
      /\ lib'.status[c] # "open" /\ (lib.status[c] = "closed" => lib'.status[c] = "closed")
      /\ lib'.status[c] # "none" => lib.status[c] # "none"
  <2>1. CASE IsOpen(c)
    <3>1. Shuts(lib, lib', args, {c})
      BY <1>2, <1>3, <2>1, LeafShuts, Zenon DEF IsOpen
    <3>2. \A y \in Objects : lib'.status[y] = IF y = c THEN "closed" ELSE lib.status[y]
      BY <3>1 DEF Shuts
    <3> QED
      BY <1>2, <1>4, <2>1, <3>2 DEF IsOpen
  <2>2. CASE ~IsOpen(c)
    BY <1>3, <2>2, Zenon DEF IsOpen
  <2> QED
    BY <2>1, <2>2, Zenon
<1>7. /\ lib'.status[Worker] = lib.status[Worker]
      /\ \A z \in Objects : lib.status[z] = "closed" => lib'.status[z] = "closed"
      /\ \A r \in Routers : lib'.status[r] = "closed" => lib.status[r] = "closed"
      /\ \A z \in Created : lib'.status[z] # "none" => lib.status[z] # "none"
      /\ \A z \in Created : lib'.status[z] = "open" => lib.status[z] = "open" /\ z # c
  BY <1>2, <1>5, <1>6
<1>8. \A z \in Created : lib'.status[z] = "open" => lib.status[z] = "open" \/ Accepted(toNode, micro, z)
  BY <1>7, Zenon
<1>9. \A z : Accepted(toNode', micro', z) => Accepted(toNode, micro, z)
  BY <1>3, Zenon
<1>10. ~Accepted(toNode', micro', c)
  <2>1. \A j \in DOMAIN toNode : IsAnswer(toNode[j]) => toNode[j].id # c
    BY <1>4, Zenon DEF ExistInv, AnswersFirst
  <2>2. \A j \in DOMAIN toNode : toNode[j].op = "accepted" => IsAnswer(toNode[j])
    BY DEF IsAnswer
  <2>3. DOMAIN micro = {}
    BY <1>3
  <2> QED
    BY <1>3, <2>1, <2>2, <2>3, Zenon DEF Accepted
<1>11. \A z \in Created : /\ lib'.status[z] = "open" \/ Accepted(toNode', micro', z)
                          /\ Announced(toNode, immediates, z)
                          => Announced(toNode', immediates', z)
  <2>1. toNode' = toNode
    BY <1>3, Zenon
  <2>2. \A z : (\E i \in DOMAIN immediates : immediates[i] = z) =>
               z = c \/ \E j \in DOMAIN immediates' : immediates'[j] = z
    BY <1>4, Zenon
  <2>3. \A z : Announced(toNode, immediates, z) => Announced(toNode', immediates', z) \/ z = c
    BY <2>1, <2>2, ZenonT(60) DEF Announced
  <2> QED
    BY <1>7, <1>10, <2>3, Zenon
<1>12. /\ ClosedFirst(lib', toWorker')
       /\ \A y \in Created : lib'.status[y] = "open" \/ Accepted(toNode', micro', y) => Backed(y)'
       /\ \A y \in Created : lib'.status[y] # "none" /\ Late(lib', args', args'[y].on) => Barren(y)'
  <2>1. UNCHANGED <<args, toWorker, live>>
    BY <1>3, Zenon
  <2> QED
    BY <1>7, <1>8, <1>9, <1>11, <2>1, QuietExist
<1>13. AnswersFirst(toNode', immediates')
  <2>1. AnswersFirst(toNode, immediates) /\ toNode' = toNode
    BY <1>3, Zenon DEF ExistInv
  <2>2. \A i \in DOMAIN immediates' : \E j \in DOMAIN immediates : immediates'[i] = immediates[j]
    BY <1>4, Zenon
  <2> QED
    BY <2>1, <2>2, Zenon DEF AnswersFirst
<1> QED
  BY <1>1, <1>12, <1>13, Zenon DEF ExistInv

\* The process handles the request to create x: on a Transport that came too late it
\* cannot.
LEMMA CreateExist ==
  ASSUME ExistInv, WorkerHandles, Head(toWorker).op = "create", HandleCreate(Head(toWorker).id)
  PROVE  ExistInv'
<1> DEFINE x == Head(toWorker).id
<1>1. LiveInv /\ LiveInv' /\ KnownInv
  BY CreateLive, Zenon DEF ExistInv, LiveInv
<1>2. /\ Waiting(lib, toWorker, toNode, micro)
      /\ toWorker \in Seq(ToWorker) /\ toNode \in Seq(ToNode)
  BY <1>1, Zenon DEF KnownInv, MessagesTyped
<1>3. /\ Worker \in live /\ toWorker # <<>> /\ toWorker' = Tail(toWorker)
      /\ UNCHANGED <<lib, args, micro, immediates>>
  BY Zenon DEF WorkerHandles
<1>4. /\ Head(toWorker) = toWorker[1] /\ 1 \in DOMAIN toWorker /\ toWorker[1] \in ToWorker
      /\ \A i \in DOMAIN toWorker' : i + 1 \in DOMAIN toWorker /\ toWorker'[i] = toWorker[i + 1]
      /\ \A i \in DOMAIN toWorker : ~(i < 1)
  <2>1. \A i \in DOMAIN toWorker : ~(i < 1)
    BY <1>2
  <2> QED
    BY <1>2, <1>3, <2>1, TailIs
<1>5. /\ x \in Created /\ Requested(toWorker, x)
      /\ IsCreate(toWorker[1]) /\ toWorker[1].id = x /\ toWorker[1].op # "close"
  <2>1. x \in Created
    BY <1>4 DEF ToWorker
  <2>2. IsCreate(toWorker[1]) /\ toWorker[1].id = x /\ toWorker[1].op # "close"
    BY <1>4 DEF IsCreate
  <2> QED
    BY <1>4, <2>1, <2>2, Zenon DEF Requested
<1>6. lib.status[x] # "open"
  <2>1. Awaited(toWorker, toNode, micro, x)
    BY <1>5, Zenon DEF Awaited, Requested
  <2> QED
    BY <1>2, <1>5, <2>1 DEF Waiting
<1> HIDE DEF x
<1>7. PICK b \in {"accepted", "rejected"} :
         /\ toNode' = Append(toNode, Answer(b, x))
         /\ \/ b = "accepted" /\ Possible(x) /\ live' = live \cup {x}
            \/ b = "rejected" /\ live' = live
  BY Zenon DEF HandleCreate, x
<1>8. Answer(b, x) \in ToNode /\ IsAnswer(Answer(b, x)) /\ Answer(b, x).op = b /\ Answer(b, x).id = x
  BY <1>5 DEF Answer, ToNode, IsAnswer
<1>9. /\ \A m, y : Accepted(toNode', m, y) => Accepted(toNode, m, y) \/ (b = "accepted" /\ x = y)
      /\ \A e, d : Announced(toNode, e, d) => Announced(toNode', e, d)
  <2>1. toNode \in Seq(ToNode) /\ toNode' = Append(toNode, Answer(b, x))
    BY <1>2, <1>7, Zenon
  <2>2. /\ \A m, y : Accepted(toNode', m, y) =>
             Accepted(toNode, m, y) \/ (Answer(b, x).op = "accepted" /\ Answer(b, x).id = y)
        /\ \A e, d : Announced(toNode, e, d) => Announced(toNode', e, d)
    BY <1>8, <2>1, Answered, Zenon
  <2> QED
    BY <1>8, <2>2, Zenon
<1>10. b = "accepted" => Possible(x) /\ x \in live'
  BY <1>7
<1>11. ~Announced(toNode, immediates, x)
  BY <1>1, <1>5, Zenon DEF LiveInv, Deleted
<1>12. AnswersFirst(toNode', immediates')
  <2> DEFINE z == Len(toNode) + 1
  <2>1. /\ \A i \in DOMAIN toNode' : i = z \/ (i \in DOMAIN toNode /\ toNode'[i] = toNode[i])
        /\ toNode'[z] = Answer(b, x)
    <3>1. toNode \in Seq(ToNode) /\ Answer(b, x) \in ToNode /\ toNode' = Append(toNode, Answer(b, x))
      BY <1>2, <1>7, <1>8, Zenon
    <3> QED
      BY <3>1, AppendIs
  <2>2. Answer(b, x).op # "producerclose"
    BY <1>8 DEF IsAnswer
  <2> HIDE DEF z
  <2>3. ASSUME NEW i \in DOMAIN toNode', NEW j \in DOMAIN toNode',
               toNode'[i].op = "producerclose", IsAnswer(toNode'[j]), toNode'[j].id = toNode'[i].id
        PROVE  j < i
    <3>1. i \in DOMAIN toNode /\ toNode'[i] = toNode[i]
      BY <2>1, <2>2, <2>3, Zenon
    <3>2. CASE j = z
      BY <1>8, <1>11, <2>1, <2>3, <3>1, <3>2, ZenonT(60) DEF Announced
    <3>3. CASE j \in DOMAIN toNode /\ toNode'[j] = toNode[j]
      BY <2>3, <3>1, <3>3, Zenon DEF ExistInv, AnswersFirst
    <3> QED
      BY <2>1, <3>2, <3>3, Zenon
  <2>4. ASSUME NEW i \in DOMAIN immediates, NEW j \in DOMAIN toNode', IsAnswer(toNode'[j])
        PROVE  toNode'[j].id # immediates[i]
    <3>1. CASE j = z
      BY <1>8, <1>11, <2>1, <3>1, Zenon DEF Announced
    <3>2. CASE j \in DOMAIN toNode /\ toNode'[j] = toNode[j]
      BY <2>4, <3>2, Zenon DEF ExistInv, AnswersFirst
    <3> QED
      BY <2>1, <3>1, <3>2, Zenon
  <2> QED
    BY <1>3, <2>3, <2>4, Zenon DEF AnswersFirst
<1>13. ClosedFirst(lib', toWorker')
  BY <1>3, <1>4, Zenon DEF ExistInv, ClosedFirst
<1>14. ASSUME NEW y \in Created, lib'.status[y] = "open" \/ Accepted(toNode', micro', y)
       PROVE  Backed(y)'
  <2>1. CASE y = x /\ b = "accepted"
    BY <1>10, <2>1, Zenon DEF Backed
  <2>2. CASE lib.status[y] = "open" \/ Accepted(toNode, micro, y)
    <3>1. Backed(y)
      BY <2>2, Zenon DEF ExistInv
    <3>2. \A d \in live : d \in live'
      BY <1>7, Zenon
    <3> QED
      BY <1>3, <1>9, <3>1, <3>2, Zenon DEF Backed
  <2> QED
    BY <1>3, <1>9, <1>14, <2>1, <2>2, Zenon
<1>15. ASSUME NEW y \in Created, lib'.status[y] # "none", Late(lib', args', args'[y].on)
       PROVE  Barren(y)'
  <2> DEFINE t == args[y].on
             r == args[t].on
  <2>1. Barren(y) /\ lib.status[t] = "open"
    BY <1>3, <1>15, Zenon DEF ExistInv, Late
  <2>2. lib.status[y] # "open" /\ ~Accepted(toNode, micro, y) /\ TooLate(toWorker, live, r, t, y)
    BY <2>1, Zenon DEF Barren
  <2>3. t # x
    BY <1>6, <2>1
  <2> HIDE DEF r
  <2>4. ~Accepted(toNode', micro', y)
    <3> SUFFICES ASSUME b = "accepted", x = y PROVE FALSE
      BY <1>3, <1>9, <2>2, Zenon
    <3>1. t \in live
      BY <1>10, Zenon DEF Possible
    <3>2. Follows(toWorker, 1, r)
      BY <1>4, <1>5, <2>2, <3>1, Zenon DEF TooLate
    <3> QED
      BY <1>4, <3>2, Zenon DEF Follows
  <2> HIDE DEF t
  <2>5. TooLate(toWorker', live', r, t, y)
    <3>1. t \in live' => t \in live
      BY <1>7, <2>3, Zenon
    <3>2. ~(Head(toWorker).op = "close" /\ Head(toWorker).id = r)
      BY <1>4, <1>5, Zenon
    <3>3. TooLate(Tail(toWorker), live', r, t, y)
      BY <1>2, <1>3, <2>2, <3>1, <3>2, TooLateTaken, ZenonT(60)
    <3> QED
      BY <1>3, <3>3, Zenon
  <2> QED
    BY <1>3, <2>2, <2>4, <2>5, Zenon DEF Barren, r, t
<1> QED
  BY <1>1, <1>12, <1>13, <1>14, <1>15, Zenon DEF ExistInv

\* Announcements are no answers, and come after the answers there are.
LEMMA AnnouncedLast ==
  ASSUME NEW n \in Seq(ToNode), NEW q \in Seq(ToNode),
         \A i \in DOMAIN q : q[i].op = "producerclose"
  PROVE  /\ \A m, y : Accepted(n \o q, m, y) => Accepted(n, m, y)
         /\ \A e : AnswersFirst(n, e) => AnswersFirst(n \o q, e)
         /\ \A e : \A i \in DOMAIN q : Announced(n \o q, e, q[i].id)
<1> DEFINE u == n \o q
<1>1. /\ \A i \in DOMAIN u : \/ i \in DOMAIN n /\ u[i] = n[i]
                             \/ u[i].op = "producerclose" /\ \A j \in DOMAIN n : j < i
      /\ \A i \in DOMAIN q : Len(n) + i \in DOMAIN u /\ u[Len(n) + i] = q[i]
  OBVIOUS
<1> HIDE DEF u
<1>2. \A i \in DOMAIN u : \/ i \in DOMAIN n /\ u[i] = n[i]
                          \/ u[i].op # "accepted" /\ ~IsAnswer(u[i]) /\ \A j \in DOMAIN n : j < i
  BY <1>1 DEF IsAnswer
<1>3. \A m, y : Accepted(u, m, y) => Accepted(n, m, y)
  BY <1>2, Zenon DEF Accepted
<1>4. ASSUME NEW e, AnswersFirst(n, e)
      PROVE  AnswersFirst(u, e)
  <2>1. ASSUME NEW i \in DOMAIN u, NEW j \in DOMAIN u,
               u[i].op = "producerclose", IsAnswer(u[j]), u[j].id = u[i].id
        PROVE  j < i
    <3>1. j \in DOMAIN n /\ u[j] = n[j]
      BY <1>2, <2>1, Zenon
    <3>2. CASE i \in DOMAIN n /\ u[i] = n[i]
      BY <1>4, <2>1, <3>1, <3>2, Zenon DEF AnswersFirst
    <3> QED
      BY <1>2, <3>1, <3>2, Zenon
  <2>2. ASSUME NEW i \in DOMAIN e, NEW j \in DOMAIN u, IsAnswer(u[j])
        PROVE  u[j].id # e[i]
    BY <1>2, <1>4, <2>2, Zenon DEF AnswersFirst
  <2> QED
    BY <2>1, <2>2, Zenon DEF AnswersFirst
<1>5. \A i \in DOMAIN q : \E k \in DOMAIN u : u[k].op = "producerclose" /\ u[k].id = q[i].id
  BY <1>1, Zenon
<1>6. \A e : \A i \in DOMAIN q : Announced(u, e, q[i].id)
  BY <1>5, Zenon DEF Announced
<1> QED
  BY <1>3, <1>4, <1>6, Zenon DEF u

\* Every Consumer that is deleted with its Producer is told.
LEMMA OrphansTold ==
  ASSUME NEW x, NEW order \in Injection(1..Cardinality(Orphans(x)), Orphans(x)), NEW c \in Orphans(x)
  PROVE  \E i \in DOMAIN Announcements(order) : Announcements(order)[i].id = c
<1> DEFINE O == Orphans(x)
           k == Cardinality(O)
<1>1. O \subseteq Sinks
  BY DEF Orphans
<1>2. IsFiniteSet(O)
  BY <1>1, KindsAssumption, FS_Subset, Zenon
<1>3. k \in Nat
  BY <1>2, FS_CardinalityType
<1>4. Cardinality(1..k) = k
  BY <1>3, FS_Interval
<1>5. order \in Injection(1..k, O)
  OBVIOUS
<1> HIDE DEF k, O
<1>6. order \in Surjection(1..k, O)
  <2>1. Cardinality(1..k) = Cardinality(O)
    BY <1>4 DEF k
  <2> QED
    BY <1>2, <1>5, <2>1, FS_Injection, Zenon
<1>7. DOMAIN order = 1..k /\ \E i \in 1..k : order[i] = c
  BY <1>6, Zenon DEF Surjection, O
<1>8. PICK i \in DOMAIN order : order[i] = c
  BY <1>7, Zenon
<1>9. i \in DOMAIN Announcements(order) /\ Announcements(order)[i] = Answer("producerclose", c)
  BY <1>8, Zenon DEF Announcements
<1> QED
  BY <1>9 DEF Answer

\* The process handles the request to close z: what it deletes with z depends on z,
\* or is told.
LEMMA DeleteExist ==
  ASSUME ExistInv, WorkerHandles, Head(toWorker).op = "close", HandleClose(Head(toWorker).id)
  PROVE  ExistInv'
<1> DEFINE z == Head(toWorker).id
<1>1. LiveInv /\ LiveInv' /\ KnownInv
  BY DeleteLive, Zenon DEF ExistInv, LiveInv
<1>2. toWorker \in Seq(ToWorker) /\ toNode \in Seq(ToNode) /\ live \subseteq Objects
  BY <1>1, Zenon DEF KnownInv, MessagesTyped
<1>3. /\ Worker \in live /\ toWorker # <<>> /\ toWorker' = Tail(toWorker)
      /\ UNCHANGED <<lib, args, micro, immediates>>
  BY Zenon DEF WorkerHandles
<1>4. /\ Head(toWorker) = toWorker[1] /\ 1 \in DOMAIN toWorker /\ toWorker[1] \in ToWorker
      /\ \A i \in DOMAIN toWorker' : i + 1 \in DOMAIN toWorker /\ toWorker'[i] = toWorker[i + 1]
  BY <1>2, <1>3, TailIs
<1>5. /\ z \in Created /\ Worker \notin Created /\ Created \subseteq Objects
      /\ Transports \subseteq Created /\ Worker \notin Transports
  BY <1>4, Kinds DEF ToWorker
<1>6. HandleClose(z) /\ lib.status[z] = "closed"
  BY <1>4, Zenon DEF ExistInv, ClosedFirst
<1> HIDE DEF z
<1>7. ClosedFirst(lib', toWorker')
  BY <1>3, <1>4, Zenon DEF ExistInv, ClosedFirst
<1>8. \/ z \notin live /\ live' = live /\ toNode' = toNode
      \/ /\ live' = live \ (Below({z}) \cup Orphans(z))
         /\ \E order \in Injection(1..Cardinality(Orphans(z)), Orphans(z)) :
              toNode' = toNode \o Announcements(order)
  BY <1>6, Zenon DEF HandleClose, Announcements
<1>9. /\ AnswersFirst(toNode', immediates')
      /\ \A y \in Created : Accepted(toNode', micro', y) => Accepted(toNode, micro, y)
      /\ \A y \in Created : Announced(toNode, immediates, y) => Announced(toNode', immediates', y)
      /\ live' \subseteq live
      /\ \A y \in live : \/ y \in live' \/ y = Worker \/ z \in Cover(args, y)
                         \/ Announced(toNode', immediates', y)
  <2>1. CASE z \notin live /\ live' = live /\ toNode' = toNode
    BY <1>3, <2>1, Zenon DEF ExistInv
  <2>2. ASSUME live' = live \ (Below({z}) \cup Orphans(z)),
               NEW order \in Injection(1..Cardinality(Orphans(z)), Orphans(z)),
               toNode' = toNode \o Announcements(order)
        PROVE  <1>9!:
    <3> DEFINE q == Announcements(order)
    <3>1. /\ q \in Seq(ToNode)
          /\ \A i \in DOMAIN q : \E c \in Orphans(z) : q[i] = Answer("producerclose", c)
      BY <1>2, AnnouncementsAre, Zenon
    <3>2. toNode' = toNode \o q /\ \A c \in Orphans(z) : \E i \in DOMAIN q : q[i].id = c
      BY <2>2, OrphansTold, Zenon
    <3> HIDE DEF q
    <3>3. \A i \in DOMAIN q : q[i].op = "producerclose"
      BY <3>1 DEF Answer
    <3>4. /\ \A m, y : Accepted(toNode', m, y) => Accepted(toNode, m, y)
          /\ \A e : AnswersFirst(toNode, e) => AnswersFirst(toNode', e)
          /\ \A e : \A i \in DOMAIN q : Announced(toNode', e, q[i].id)
      <4>1. toNode \in Seq(ToNode) /\ q \in Seq(ToNode)
        BY <1>2, <3>1, Zenon
      <4>2. /\ \A m, y : Accepted(toNode \o q, m, y) => Accepted(toNode, m, y)
            /\ \A e : AnswersFirst(toNode, e) => AnswersFirst(toNode \o q, e)
            /\ \A e : \A i \in DOMAIN q : Announced(toNode \o q, e, q[i].id)
        BY <3>3, <4>1, AnnouncedLast, Zenon
      <4> QED
        BY <3>2, <4>2
    <3>5. \A e, c : Announced(toNode, e, c) => Announced(toNode', e, c)
      <4>1. toNode \in Seq(ToNode) /\ q \in Seq(ToNode)
        BY <1>2, <3>1, Zenon
      <4>2. \A e, c : Announced(toNode, e, c) => Announced(toNode \o q, e, c)
        BY <4>1, Sent, Zenon
      <4> QED
        BY <3>2, <4>2
    <3>6. \A c \in Orphans(z) : Announced(toNode', immediates', c)
      BY <3>2, <3>4, Zenon
    <3>7. \A y \in live \ {Worker} : y \in Below({z}) => z \in Cover(args, y)
      BY <1>1, <1>5, BelowIs, Zenon
    <3>8. \A y \in live : \/ y \in live' \/ y = Worker \/ z \in Cover(args, y)
                          \/ Announced(toNode', immediates', y)
      BY <2>2, <3>6, <3>7, Zenon
    <3>9. live' \subseteq live
      BY <2>2, Zenon
    <3>10. AnswersFirst(toNode', immediates')
      BY <1>3, <3>4, Zenon DEF ExistInv
    <3> QED
      BY <1>3, <3>4, <3>5, <3>8, <3>9, <3>10, ZenonT(60)
  <2> QED
    BY <1>8, <2>1, <2>2, Zenon
<1>10. ASSUME NEW y \in Created, lib'.status[y] = "open" \/ Accepted(toNode', micro', y)
       PROVE  Backed(y)'
  <2>1. lib.status[y] = "open" \/ Accepted(toNode, micro, y)
    BY <1>3, <1>9, <1>10, Zenon
  <2>2. y # z
    <3>1. Accepted(toNode, micro, y) => lib.status[y] # "closed"
      BY <1>1, AcceptedWaits
    <3> QED
      BY <1>6, <2>1, <3>1
  <2>3. Backed(y)
    BY <2>1, Zenon DEF ExistInv
  <2>4. y \in live \/ Announced(toNode, immediates, y) \/ Cut(lib, args, y)
    BY <1>3, <2>3, Zenon DEF Backed
  <2>5. z \in Cover(args, y) => Cut(lib, args, y)
    BY <1>5, <1>6, <2>2, Zenon DEF Cut
  <2>6. Cut(lib, args, y) => Cut(lib', args', y)
    BY <1>3, Zenon
  <2>7. y # Worker
    BY <1>5, Zenon
  <2> QED
    BY <1>9, <2>4, <2>5, <2>6, <2>7, Zenon DEF Backed
<1>11. ASSUME NEW y \in Created, lib'.status[y] # "none", Late(lib', args', args'[y].on)
       PROVE  Barren(y)'
  <2> DEFINE t == args[y].on
             r == args[t].on
  <2>1. Barren(y) /\ t \in Transports
    BY <1>3, <1>11, Zenon DEF ExistInv, Late
  <2>2. lib.status[y] # "open" /\ ~Accepted(toNode, micro, y) /\ TooLate(toWorker, live, r, t, y)
    BY <2>1, Zenon DEF Barren
  <2>3. ASSUME r = z
        PROVE  t \notin live'
    <3> SUFFICES ASSUME t \in live' PROVE FALSE
      BY Zenon
    <3>1. t \in live \ {Worker} /\ z \in Cover(args, t)
      BY <1>5, <1>9, <2>1, <2>3, Zenon DEF Cover
    <3>2. z \in live
      BY <1>1, <1>5, <3>1, CoverLive, Zenon
    <3>3. live' = live \ (Below({z}) \cup Orphans(z))
      BY <1>8, <3>2, Zenon
    <3>4. t \in live \ (Below({z}) \cup Orphans(z)) /\ t # Worker
      BY <3>1, <3>3, Zenon
    <3> QED
      BY <1>1, <1>3, <1>5, <3>1, <3>4, StaysOn, ZenonT(60)
  <2> HIDE DEF r, t
  <2>4. TooLate(toWorker', live', r, t, y)
    <3>1. t \in live' => t \in live
      BY <1>9, Zenon
    <3>2. Head(toWorker).op = "close" /\ Head(toWorker).id = r => t \notin live'
      BY <2>3, Zenon DEF z
    <3>3. TooLate(Tail(toWorker), live', r, t, y)
      BY <1>2, <1>3, <2>2, <3>1, <3>2, TooLateTaken, ZenonT(60)
    <3> QED
      BY <1>3, <3>3, Zenon
  <2>5. ~Accepted(toNode', micro', y)
    BY <1>9, <2>2, Zenon
  <2> QED
    BY <1>3, <2>2, <2>4, <2>5, Zenon DEF Barren, r, t
<1> QED
  BY <1>1, <1>7, <1>9, <1>10, <1>11, Zenon DEF ExistInv

\* The worker process exits: the library does not know yet.
LEMMA ExitExist ==
  ASSUME ExistInv, LiveInv', WorkerExits
  PROVE  ExistInv'
<1>1. live' = {} /\ UNCHANGED <<lib, args, toWorker, toNode, micro, immediates>>
  BY Zenon DEF WorkerExits
<1>2. lib.status[Worker] = "open"
  BY Zenon DEF WorkerExits, ExistInv, LiveInv
<1>3. \A y \in Created : Backed(y)'
  BY <1>1, <1>2, Zenon DEF Backed
<1>4. \A y \in Created : Barren(y) => Barren(y)'
  <2>1. \A r, t, y : TooLate(toWorker', {}, r, t, y)
    BY Zenon DEF TooLate
  <2> QED
    BY <1>1, <2>1, Zenon DEF Barren
<1>5. \A y \in Created : lib'.status[y] # "none" /\ Late(lib', args', args'[y].on) => Barren(y)'
  BY <1>1, <1>4, Zenon DEF ExistInv
<1> QED
  BY <1>1, <1>3, <1>5, Zenon DEF ExistInv

\* Initially nothing has been created.
LEMMA InitExist == Init => ExistInv
<1> SUFFICES ASSUME Init PROVE ExistInv
  OBVIOUS
<1>1. LiveInv /\ KnownInv
  BY InitLive, Zenon DEF LiveInv
<1>2. toWorker = <<>> /\ toNode = <<>> /\ micro = <<>> /\ immediates = <<>>
  BY Zenon DEF Init
<1>3. \A x \in Created : lib.status[x] = "none"
  BY Kinds DEF Init, NoLibrary
<1>4. \A x \in Created : lib.status[x] # "open" /\ ~Accepted(toNode, micro, x)
  BY <1>2, <1>3 DEF Accepted
<1>5. ClosedFirst(lib, toWorker) /\ AnswersFirst(toNode, immediates)
  BY <1>2, SMTT(30) DEF ClosedFirst, AnswersFirst
<1> QED
  BY <1>1, <1>3, <1>4, <1>5, Zenon DEF ExistInv

\* Every step keeps ExistInv.
LEMMA ExistStep == ExistInv /\ [Next]_vars => ExistInv'
<1> SUFFICES ASSUME ExistInv, [Next]_vars
             PROVE  ExistInv'
  OBVIOUS
<1>0. KnownInv /\ LiveInv /\ LiveInv'
  BY LiveStep, Zenon DEF ExistInv, LiveInv
<1>1. CASE Creates
  BY <1>0, <1>1, CreatesCalls, CallExist, Zenon
<1>2. CASE Closes
  BY <1>0, <1>2, ClosesShuts, CloseExist, ZenonT(60)
<1>3. CASE CloseWorker
  BY <1>3, WorkerDownExist, Zenon DEF CloseWorker
<1>4. CASE Read
  BY <1>4, ReadExist, Zenon
<1>5. CASE Continue
  BY <1>5, ContinueExist, Zenon
<1>6. CASE OnProducerClose \/ OnDataProducerClose
  <2>1. Consumers \in SUBSET Sinks /\ DataConsumers \in SUBSET Sinks
    BY Zenon DEF Sinks
  <2> QED
    BY <1>6, <2>1, EmitExist, Zenon DEF OnProducerClose, OnDataProducerClose
<1>7. CASE WorkerDied
  <2>1. live' = {}
    BY <1>0, <1>7, Zenon DEF WorkerDied, LiveInv
  <2> QED
    BY <1>7, <2>1, WorkerDownExist, Zenon DEF WorkerDied
<1>8. CASE WorkerHandles
  BY <1>8, CreateExist, DeleteExist, Zenon DEF WorkerHandles
<1>9. CASE WorkerExits
  BY <1>0, <1>9, ExitExist, Zenon
<1>10. CASE UNCHANGED vars
  <2>1. UNCHANGED <<lib, args, toWorker, live, toNode, micro, immediates>>
    BY <1>10, Zenon DEF vars
  <2>2. \A x \in Created : (Backed(x) => Backed(x)') /\ (Barren(x) => Barren(x)')
    BY <2>1, Zenon DEF Backed, Barren
  <2> QED
    BY <1>0, <2>1, <2>2, Zenon DEF ExistInv
<1> QED
  BY <1>1, <1>2, <1>3, <1>4, <1>5, <1>6, <1>7, <1>8, <1>9, <1>10, Zenon
     DEF Next, Application, Loop, Creates, Closes

\* An open object of an open owner exists in the worker process once nothing is on
\* its way, unless its WebRtcServer was closed: the library hears of everything that
\* the process deletes by itself, for any number of objects and any interleaving
\* (Channel.processMessage, handleWorkerNotifications, Router.close).
THEOREM OpenObjectsAreReal == Spec => []OpenObjectsExist
<1>1. ExistInv => OpenObjectsExist
  <2> SUFFICES ASSUME ExistInv, Quiet, NEW x \in Created, IsOpen(x), IsOpen(args[x].on)
               PROVE  x \in live \/ Unserved(x) \/ Unserved(args[x].on)
    BY Zenon DEF OpenObjectsExist
  <2> DEFINE t == args[x].on
  <2>1. lib.status[x] = "open" /\ lib.status[t] = "open" /\ lib.status[x] # "none"
    BY DEF IsOpen
  <2>2. Placed(lib, args, x)
    BY <2>1, Zenon DEF ExistInv, LiveInv, KnownInv, Sound, Typed
  <2>3. ~Announced(toNode, immediates, x)
    <3>1. toNode = <<>> /\ immediates = <<>>
      BY Zenon DEF Quiet
    <3> QED
      BY <3>1 DEF Announced
  <2>4. Backed(x)
    BY <2>1, Zenon DEF ExistInv
  <2>5. x \in live \/ Cut(lib, args, x)
    BY <2>3, <2>4, Zenon DEF Backed, Quiet, IsOpen
  <2>6. ASSUME Cut(lib, args, x)
        PROVE  Unserved(x) \/ Unserved(t)
    <3>1. PICK y \in Cover(args, x) \ {x} : y \in Objects /\ lib.status[y] = "closed"
      BY <2>6, Zenon DEF Cut
    <3>2. y # t /\ y # Nobody
      BY <2>1, <3>1, Kinds
    <3>3. CASE y = args[x].server
      BY <2>2, <3>1, <3>2, <3>3, Zenon DEF Placed, Unserved
    <3>4. CASE t \in Transports /\ y = args[t].on
      <4>1. Barren(x)
        BY <2>1, <3>1, <3>4, Zenon DEF ExistInv, Late
      <4> QED
        BY <2>1, <4>1, Zenon DEF Barren
    <3>5. CASE t \in Transports /\ y = args[t].server
      BY <3>1, <3>2, <3>5, Zenon DEF Unserved
    <3> QED
      BY <3>1, <3>2, <3>3, <3>4, <3>5, Zenon DEF Cover
  <2> QED
    BY <2>5, <2>6, Zenon
<1> QED
  BY <1>1, InitExist, ExistStep, PTL DEF Spec

=============================================================================
