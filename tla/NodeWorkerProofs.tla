-------------------------- MODULE NodeWorkerProofs --------------------------
(***************************************************************************)
(* createWorker() is settled once, and a Worker ends once; every promise   *)
(* is settled by the response to its own call; and continuations of        *)
(* responses run before the notifications that the worker sent after       *)
(* them, on Channel.                                                       *)
(***************************************************************************)
EXTENDS NodeWorker, FiniteSetTheorems, TLAPS

\* What the variables of the constructor have to do with one another.
WorkerConsistent ==
  /\ worker \in [child : BOOLEAN, closed : BOOLEAN, died : BOOLEAN]
  /\ spawnDone \in BOOLEAN
  /\ created \in {"pending", "resolved", "rejected"}
  /\ created = "pending" <=> ~spawnDone
  /\ created = "rejected" => worker.closed
  /\ due # {} => ~alive

LEMMA ConsistentInit == WInit => WorkerConsistent
<1> SUFFICES ASSUME WInit PROVE WorkerConsistent
  OBVIOUS
<1>1. worker \in [child : BOOLEAN, closed : BOOLEAN, died : BOOLEAN]
  BY DEF WInit
<1>2. /\ created = "pending" /\ spawnDone = FALSE
      /\ due = {}
  BY DEF WInit
<1> QED
  BY <1>1, <1>2, ZenonT(60) DEF WorkerConsistent

\* Only the listeners of the constructor and close() change the Worker; only the
\* process, and close() by killing it, change what the process is.
LEMMA StepCases ==
  ASSUME Next
  PROVE  \/ OnRunning \/ OnChildGone \/ CloseWorker \/ ProcessRuns \/ ProcessStops
         \/ UNCHANGED <<wvars, alive>>
<1>1. ReadChannel \/ ReadPayloadChannel => UNCHANGED alive
  BY ZenonT(60) DEF ReadChannel, ReadPayloadChannel, Read
<1>2. Continue \/ RunImmediate \/ WorkerAnswers \/ WorkerNotifies \/ DestroySockets
        => UNCHANGED alive
  BY DEF Continue, RunImmediate, WorkerAnswers, WorkerNotifies, DestroySockets
<1>3. \A c \in Calls : Request(c) => UNCHANGED alive
  BY DEF Request
<1> QED
  BY <1>1, <1>2, <1>3 DEF Next, EventLoop, ChildSteps, OtherImmediate, Ask

LEMMA ConsistentStep ==
  ASSUME WorkerConsistent, [Next]_vars
  PROVE  WorkerConsistent'
<1>1. CASE OnRunning
  BY <1>1 DEF OnRunning, RunImmediate, WorkerConsistent
<1>2. CASE OnChildGone
  <2>0. /\ worker \in [child : BOOLEAN, closed : BOOLEAN, died : BOOLEAN]
        /\ created \in {"pending", "resolved", "rejected"}
        /\ created = "pending" <=> ~spawnDone
        /\ ~alive /\ spawnDone' = TRUE
    BY <1>2 DEF OnChildGone, WorkerConsistent
  <2> DEFINE w == [worker EXCEPT !.child = FALSE]
  <2>1. w \in [child : BOOLEAN, closed : BOOLEAN, died : BOOLEAN] /\ w.child = FALSE
    BY <2>0, ZenonT(60)
  <2>2. \/ ~spawnDone /\ Close(w) /\ created' = "rejected"
        \/ spawnDone /\ Died(w) /\ UNCHANGED created
    BY <1>2 DEF OnChildGone
  <2>3. worker' \in [child : BOOLEAN, closed : BOOLEAN, died : BOOLEAN] /\ UNCHANGED alive
    <3> HIDE DEF w
    <3> QED BY <2>1, <2>2, ZenonT(60) DEF Close, Died
  <2>4. CASE ~spawnDone /\ Close(w) /\ created' = "rejected"
    <3>1. worker'.closed = TRUE
      BY <2>4, <2>0 DEF Close
    <3> QED
      BY <2>0, <2>3, <2>4, <3>1 DEF WorkerConsistent
  <2>5. CASE spawnDone /\ Died(w) /\ UNCHANGED created
    <3>1. worker.closed => worker'.closed
      BY <2>5, <2>0 DEF Died
    <3> QED
      BY <2>0, <2>3, <2>5, <3>1 DEF WorkerConsistent
  <2> QED
    BY <2>2, <2>4, <2>5
<1>3. CASE CloseWorker
  BY <1>3, ZenonT(60) DEF CloseWorker, Close, ProcessEnds, WorkerConsistent
<1>4. CASE ProcessRuns
  BY <1>4 DEF ProcessRuns, WorkerConsistent
<1>5. CASE ProcessStops
  BY <1>5 DEF ProcessStops, ProcessEnds, WorkerConsistent
<1>6. CASE UNCHANGED <<wvars, alive>>
  BY <1>6 DEF wvars, WorkerConsistent
<1>7. CASE UNCHANGED vars
  BY <1>7 DEF vars, chvars, wvars, WorkerConsistent
<1> QED
  BY <1>1, <1>2, <1>3, <1>4, <1>5, <1>6, <1>7, StepCases

\* createWorker() is settled once, 'died' is emitted only to an application that
\* has the Worker and has not closed it, and only when the process is gone, and no
\* Worker is opened again: in every order of 'running', 'exit', 'error', close(),
\* requests and responses, for any number of calls.
THEOREM WorkerEndsOnce == Spec => NothingRevives
<1> DEFINE Once ==
      /\ created # "pending" => created' = created
      /\ worker'.died # worker.died => created = "resolved" /\ ~worker.closed /\ ~alive
      /\ worker.closed => worker'.closed
<1>1. ASSUME WorkerConsistent, [Next]_vars PROVE [Once]_vars
  <2>1. CASE OnRunning
    BY <1>1, <2>1 DEF OnRunning, WorkerConsistent
  <2>2. CASE OnChildGone
    BY <1>1, <2>2, ZenonT(60) DEF OnChildGone, Close, Died, WorkerConsistent
  <2>3. CASE CloseWorker
    BY <1>1, <2>3 DEF CloseWorker, Close, WorkerConsistent
  <2>4. CASE ProcessRuns
    BY <2>4 DEF ProcessRuns
  <2>5. CASE ProcessStops
    BY <2>5 DEF ProcessStops
  <2>6. CASE UNCHANGED <<wvars, alive>>
    BY <2>6 DEF wvars
  <2> QED
    BY <1>1, <2>1, <2>2, <2>3, <2>4, <2>5, <2>6, StepCases, Zenon
<1>2. Spec => [][Once]_vars
  BY ConsistentInit, ConsistentStep, <1>1, PTL DEF Spec
<1> QED
  BY <1>2 DEF NothingRevives

-----------------------------------------------------------------------------
(* Every promise is settled by the response to its own call.               *)

Notes == Nat
Items == Calls \cup Notes
Asked   == Nat \X Calls
Message == [id : Nat, of : Items, ok : BOOLEAN]

ChannelsTyped ==
  /\ alive \in BOOLEAN /\ closed \in [Channels -> BOOLEAN]
  /\ nextId \in [Channels -> 0..MaxId]
  /\ DOMAIN sents = Channels /\ DOMAIN reply = Calls
  /\ promise \in [Calls -> {"none", "pending", "resolved", "rejected"}]
  /\ toWorker \in [Channels -> Seq(Asked)]
  /\ toNode \in [Channels -> Seq(Message)]
  /\ left \in [Channels -> Nat] /\ notes \in Nat
  /\ \A ch \in Channels : left[ch] <= Len(toNode[ch])

\* The promise of c waits for the response with this id.
Registered(ch, s, id, c) == id \in DOMAIN s /\ s[id] = c /\ c \in Calls /\ ChannelOf(c) = ch

\* Requests w and responses n on their way have entries of their own in #sents.
Matched(ch, s, w, n) ==
  /\ \A id \in DOMAIN s : id \in 1..MaxId /\ Registered(ch, s, id, s[id])
  /\ \A i \in DOMAIN w : Registered(ch, s, w[i][1], w[i][2])
  /\ \A i \in DOMAIN n : n[i].id # 0 => Registered(ch, s, n[i].id, n[i].of)
  /\ \A i, j \in DOMAIN w : w[i][1] = w[j][1] => i = j
  /\ \A i, j \in DOMAIN n : n[i].id # 0 /\ n[i].id = n[j].id => i = j
  /\ \A i \in DOMAIN w, j \in DOMAIN n : w[i][1] # n[j].id

InFlight(ch) == Matched(ch, sents[ch], toWorker[ch], toNode[ch])

ReplyInv == ChannelsTyped /\ (\A ch \in Channels : InFlight(ch)) /\ OwnReply

LEMMA NextIdIsNext ==
  \A n \in 0..MaxId : NextId(n) \in 1..MaxId /\ NextId(n) = (n % MaxId) + 1
  BY BoundsAssumption DEF NextId

\* What one message does.
Settles(ch, m) ==
  LET c == sents[ch][m.id]
  IN  /\ IsReply(m) /\ m.id \in DOMAIN sents[ch]
      /\ sents' = [sents EXCEPT ![ch] = Restrict(@, DOMAIN @ \ {m.id})]
      /\ promise' = [promise EXCEPT ![c] =
                       IF @ # "pending" THEN @ ELSE IF m.ok THEN "resolved" ELSE "rejected"]
      /\ reply' = [reply EXCEPT ![c] = IF promise[c] = "pending" THEN m.of ELSE @]
      /\ micro' = IF promise[c] = "pending" THEN Append(micro, c) ELSE micro
      /\ immediates' = immediates /\ seen' = [seen EXCEPT ![ch] = seen[ch]]

Ignored(ch, m) ==
  /\ IsReply(m) /\ m.id \notin DOMAIN sents[ch]
  /\ sents' = [sents EXCEPT ![ch] = sents[ch]]
  /\ UNCHANGED <<promise, reply, micro, immediates>>
  /\ seen' = [seen EXCEPT ![ch] = seen[ch]]

Notified(ch, m) ==
  /\ ~IsReply(m)
  /\ sents' = [sents EXCEPT ![ch] = sents[ch]]
  /\ UNCHANGED <<promise, reply, micro>>
  /\ \/ ch = "channel" /\ immediates' = Append(immediates, m.of)
        /\ seen' = [seen EXCEPT ![ch] = seen[ch]]
     \/ ch = "payload" /\ UNCHANGED immediates
        /\ seen' = [seen EXCEPT ![ch] = Append(seen[ch], m.of)]

LEMMA ReadOne ==
  ASSUME NEW ch \in Channels, Read(ch)
  PROVE  LET m == Head(toNode[ch])
         IN  Settles(ch, m) \/ Ignored(ch, m) \/ Notified(ch, m)
<1> DEFINE m == Head(toNode[ch])
<1> DEFINE before == [sents |-> sents[ch], promise |-> promise, reply |-> reply,
                      micro |-> micro, immediates |-> immediates, seen |-> seen[ch]]
<1> DEFINE after == Process(ch, before, m)
<1>1. /\ sents' = [sents EXCEPT ![ch] = after.sents]
      /\ promise' = after.promise /\ reply' = after.reply
      /\ micro' = after.micro /\ immediates' = after.immediates
      /\ seen' = [seen EXCEPT ![ch] = after.seen]
  BY DEF Read
<1> HIDE DEF m
<1>2. CASE IsReply(m) /\ m.id \in DOMAIN sents[ch]
  <2>1. after = Settle(before, m)
    BY <1>2 DEF Process, ProcessMessage, ProcessData
  <2>2. Settles(ch, m)
    BY <1>1, <1>2, <2>1, ZenonT(60) DEF Settle, Settles
  <2> QED
    BY <2>2 DEF m
<1>3. CASE IsReply(m) /\ m.id \notin DOMAIN sents[ch]
  <2>1. after = before
    BY <1>3 DEF Process, ProcessMessage, ProcessData
  <2>2. /\ sents' = [sents EXCEPT ![ch] = sents[ch]] /\ promise' = promise /\ reply' = reply
        /\ micro' = micro /\ immediates' = immediates /\ seen' = [seen EXCEPT ![ch] = seen[ch]]
    <3>1. /\ before.sents = sents[ch] /\ before.promise = promise /\ before.reply = reply
          /\ before.micro = micro /\ before.immediates = immediates /\ before.seen = seen[ch]
      OBVIOUS
    <3> HIDE DEF before, after
    <3> QED
      BY <1>1, <2>1, <3>1
  <2>3. Ignored(ch, m)
    BY <1>3, <2>2 DEF Ignored
  <2> QED
    BY <2>3 DEF m
<1>4. CASE ~IsReply(m)
  <2>1. CASE ch = "channel"
    <3>1. after = [before EXCEPT !.immediates = Append(@, m.of)]
      BY <1>4, <2>1 DEF Process, ProcessMessage
    <3>2. Notified(ch, m)
      BY <1>1, <1>4, <2>1, <3>1, Zenon DEF Notified
    <3> QED
      BY <3>2 DEF m
  <2>2. CASE ch = "payload"
    <3>1. after = [before EXCEPT !.seen = Append(@, m.of)]
      BY <1>4, <2>2 DEF Process, ProcessData
    <3>2. Notified(ch, m)
      BY <1>1, <1>4, <2>2, <3>1, Zenon DEF Notified
    <3> QED
      BY <3>2 DEF m
  <2> QED
    BY <2>1, <2>2 DEF Channels
<1> QED
  BY <1>2, <1>3, <1>4 DEF m

LEMMA MatchedTail ==
  ASSUME NEW ch, NEW s, NEW w \in Seq(Asked), NEW n \in Seq(Message),
         Matched(ch, s, w, n), n # <<>>
  PROVE  Matched(ch, s, w, Tail(n))
<1>1. \A i \in DOMAIN Tail(n) : i \in Nat /\ i + 1 \in DOMAIN n /\ Tail(n)[i] = n[i + 1]
  OBVIOUS
<1>2. \A i, j \in DOMAIN Tail(n) :
        Tail(n)[i].id # 0 /\ Tail(n)[i].id = Tail(n)[j].id => i = j
  BY <1>1 DEF Matched
<1>3. \A i \in DOMAIN Tail(n) :
        Tail(n)[i].id # 0 => Registered(ch, s, Tail(n)[i].id, Tail(n)[i].of)
  BY <1>1 DEF Matched
<1>4. \A i \in DOMAIN w, j \in DOMAIN Tail(n) : w[i][1] # Tail(n)[j].id
  BY <1>1 DEF Matched
<1> QED
  BY <1>2, <1>3, <1>4 DEF Matched

LEMMA MatchedSettle ==
  ASSUME NEW ch, NEW s, NEW w \in Seq(Asked), NEW n \in Seq(Message),
         Matched(ch, s, w, n), n # <<>>, n[1].id # 0
  PROVE  /\ Registered(ch, s, n[1].id, n[1].of)
         /\ Matched(ch, Restrict(s, DOMAIN s \ {n[1].id}), w, Tail(n))
<1> DEFINE r == Restrict(s, DOMAIN s \ {n[1].id})
<1>1. 1 \in DOMAIN n /\ DOMAIN n \subseteq Nat
  OBVIOUS
<1>2. \A i \in DOMAIN Tail(n) : i \in Nat /\ i + 1 \in DOMAIN n /\ Tail(n)[i] = n[i + 1]
  OBVIOUS
<1>3. DOMAIN r = DOMAIN s \ {n[1].id} /\ \A id \in DOMAIN r : r[id] = s[id]
  BY Zenon DEF Restrict
<1> HIDE DEF r
<1>r. \A id, x : Registered(ch, s, id, x) /\ id # n[1].id => Registered(ch, r, id, x)
  BY <1>3, Zenon DEF Registered
<1>4. \A id \in DOMAIN r : id \in 1..MaxId /\ Registered(ch, r, id, r[id])
  BY <1>3, <1>r, Zenon DEF Matched
<1>5. \A i \in DOMAIN w : Registered(ch, r, w[i][1], w[i][2])
  BY <1>1, <1>r DEF Matched
<1>6. \A i \in DOMAIN Tail(n) : Tail(n)[i].id # n[1].id
  <2> SUFFICES ASSUME NEW i \in DOMAIN Tail(n), n[i + 1].id = n[1].id PROVE FALSE
    BY <1>2
  <2>1. i + 1 = 1
    BY <1>1, <1>2 DEF Matched
  <2>2. i \in DOMAIN Tail(n) => i >= 1
    OBVIOUS
  <2> QED
    BY <1>2, <2>1, <2>2
<1>7. \A i \in DOMAIN Tail(n) :
        Tail(n)[i].id # 0 => Registered(ch, r, Tail(n)[i].id, Tail(n)[i].of)
  BY <1>2, <1>r, <1>6 DEF Matched
<1>8. /\ \A i, j \in DOMAIN Tail(n) :
           Tail(n)[i].id # 0 /\ Tail(n)[i].id = Tail(n)[j].id => i = j
      /\ \A i \in DOMAIN w, j \in DOMAIN Tail(n) : w[i][1] # Tail(n)[j].id
  BY MatchedTail DEF Matched
<1> QED
  BY <1>1, <1>4, <1>5, <1>7, <1>8, Zenon DEF Matched, r

LEMMA MatchedRequest ==
  ASSUME NEW ch, NEW s, NEW w \in Seq(Asked), NEW n \in Seq(Message),
         Matched(ch, s, w, n), NEW c \in Calls, ChannelOf(c) = ch,
         NEW id \in 1..MaxId, id \notin DOMAIN s
  PROVE  /\ Matched(ch, Put(s, id, c), w, n)
         /\ Matched(ch, Put(s, id, c), Append(w, <<id, c>>), n)
<1> DEFINE r == Put(s, id, c)
<1>1. DOMAIN r = DOMAIN s \cup {id} /\ r[id] = c /\ \A k \in DOMAIN s : r[k] = s[k]
  BY DEF Put
<1> HIDE DEF r
<1>2. \A k, x : Registered(ch, s, k, x) => k # id /\ Registered(ch, r, k, x)
  BY <1>1 DEF Registered
<1>3. Registered(ch, r, id, c)
  BY <1>1 DEF Registered
<1>4. Matched(ch, r, w, n)
  BY <1>1, <1>2, <1>3, ZenonT(60) DEF Matched
<1> DEFINE v == Append(w, <<id, c>>)
<1>5. /\ DOMAIN v = DOMAIN w \cup {Len(w) + 1} /\ Len(w) + 1 \notin DOMAIN w
      /\ v[Len(w) + 1] = <<id, c>> /\ \A i \in DOMAIN w : v[i] = w[i]
  OBVIOUS
<1>6. (\A i \in DOMAIN w : w[i][1] # id) /\ \A i \in DOMAIN n : n[i].id # id
  BY <1>2, BoundsAssumption DEF Matched
<1> HIDE DEF v
<1>7. Matched(ch, r, v, n)
  BY <1>3, <1>4, <1>5, <1>6 DEF Matched
<1> QED
  BY <1>4, <1>7 DEF r, v

LEMMA MatchedAnswer ==
  ASSUME NEW ch, NEW s, NEW w \in Seq(Asked), NEW n \in Seq(Message),
         Matched(ch, s, w, n), w # <<>>, NEW ok \in BOOLEAN
  PROVE  Matched(ch, s, Tail(w), Append(n, Reply(Head(w)[1], Head(w)[2], ok)))
<1> DEFINE m == Reply(Head(w)[1], Head(w)[2], ok)
<1> DEFINE v == Append(n, m)
<1>1. /\ DOMAIN v = DOMAIN n \cup {Len(n) + 1} /\ Len(n) + 1 \notin DOMAIN n
      /\ v[Len(n) + 1] = m /\ \A i \in DOMAIN n : v[i] = n[i]
  OBVIOUS
<1>2. /\ 1 \in DOMAIN w /\ w[1] = Head(w)
      /\ \A i \in DOMAIN Tail(w) : i \in Nat /\ i + 1 \in DOMAIN w /\ i + 1 # 1 /\ Tail(w)[i] = w[i + 1]
  OBVIOUS
<1>3. m.id = w[1][1] /\ m.of = w[1][2]
  BY <1>2 DEF Reply
<1> HIDE DEF m, v
<1>4. \A i \in DOMAIN v : v[i].id # 0 => Registered(ch, s, v[i].id, v[i].of)
  BY <1>1, <1>2, <1>3 DEF Matched
<1>5. \A i, j \in DOMAIN v : v[i].id # 0 /\ v[i].id = v[j].id => i = j
  BY <1>1, <1>2, <1>3 DEF Matched
<1>6. \A i \in DOMAIN Tail(w), j \in DOMAIN v : Tail(w)[i][1] # v[j].id
  BY <1>1, <1>2, <1>3 DEF Matched
<1>7. \A i, j \in DOMAIN Tail(w) : Tail(w)[i][1] = Tail(w)[j][1] => i = j
  BY <1>2 DEF Matched
<1>8. \A i \in DOMAIN Tail(w) : Registered(ch, s, Tail(w)[i][1], Tail(w)[i][2])
  BY <1>2 DEF Matched
<1> QED
  BY <1>4, <1>5, <1>6, <1>7, <1>8, Zenon DEF Matched, m, v

LEMMA MatchedNote ==
  ASSUME NEW ch, NEW s, NEW w \in Seq(Asked), NEW n \in Seq(Message),
         Matched(ch, s, w, n), NEW k
  PROVE  Matched(ch, s, w, Append(n, Note(k)))
<1> DEFINE v == Append(n, Note(k))
<1>1. /\ DOMAIN v = DOMAIN n \cup {Len(n) + 1}
      /\ v[Len(n) + 1].id = 0 /\ \A i \in DOMAIN n : v[i] = n[i]
  BY DEF Note
<1>2. \A i \in DOMAIN w : w[i][1] # 0
  BY BoundsAssumption DEF Matched, Registered
<1> HIDE DEF v
<1>3. \A i \in DOMAIN v : v[i].id # 0 => i \in DOMAIN n
  BY <1>1
<1> QED
  BY <1>1, <1>2, <1>3 DEF Matched, v

LEMMA MatchedCut ==
  ASSUME NEW ch, NEW s, NEW w, NEW n, Matched(ch, s, w, n)
  PROVE  Matched(ch, s, <<>>, n) /\ Matched(ch, s, w, <<>>)
  BY DEF Matched

LEMMA ReplyInit == WInit => ReplyInv
<1> SUFFICES ASSUME WInit PROVE ReplyInv
  OBVIOUS
<1>1. ChannelsTyped
  BY BoundsAssumption DEF WInit, Init, ChannelsTyped
<1>2. \A ch \in Channels : InFlight(ch)
  BY DEF WInit, Init, InFlight, Matched, Nothing
<1>3. OwnReply
  BY DEF WInit, Init, OwnReply
<1> QED
  BY <1>1, <1>2, <1>3 DEF ReplyInv

\* The first message leaves the socket.
LEMMA FirstTaken ==
  ASSUME ChannelsTyped, NEW ch \in Channels, Read(ch)
  PROVE  /\ Len(toNode[ch]) > 0 /\ toNode[ch] \in Seq(Message)
         /\ Head(toNode[ch]) = toNode[ch][1] /\ Head(toNode[ch]) \in Message
         /\ toNode' = [toNode EXCEPT ![ch] = Tail(@)]
         /\ toNode' \in [Channels -> Seq(Message)]
         /\ \A d \in Channels \ {ch} : toNode'[d] = toNode[d]
         /\ Len(toNode'[ch]) = Len(toNode[ch]) - 1
         /\ \A i \in DOMAIN toNode'[ch] :
              i + 1 \in DOMAIN toNode[ch] /\ toNode'[ch][i] = toNode[ch][i + 1]
         /\ left' \in [Channels -> Nat] /\ \A d \in Channels : left'[d] <= Len(toNode'[d])
<1>1. toNode[ch] \in Seq(Message) /\ left[ch] \in Nat /\ left[ch] <= Len(toNode[ch])
  BY DEF ChannelsTyped
<1>2. Len(toNode[ch]) > 0
  BY <1>1 DEF Read
<1>3. Head(toNode[ch]) = toNode[ch][1] /\ Head(toNode[ch]) \in Message
  BY <1>1, <1>2
<1>4. toNode' = [toNode EXCEPT ![ch] = Tail(@)]
  BY DEF Read
<1>5. toNode'[ch] = Tail(toNode[ch]) /\ \A d \in Channels \ {ch} : toNode'[d] = toNode[d]
  BY <1>4 DEF ChannelsTyped
<1>6. /\ Tail(toNode[ch]) \in Seq(Message)
      /\ Len(Tail(toNode[ch])) = Len(toNode[ch]) - 1
      /\ \A i \in DOMAIN Tail(toNode[ch]) :
           i + 1 \in DOMAIN toNode[ch] /\ Tail(toNode[ch])[i] = toNode[ch][i + 1]
  BY <1>1, <1>2
<1>7. toNode' \in [Channels -> Seq(Message)]
  BY <1>4, <1>6 DEF ChannelsTyped
<1>8. \/ \E n \in 1..Len(toNode[ch]) : left' = [left EXCEPT ![ch] = n - 1]
      \/ left[ch] > 0 /\ left' = [left EXCEPT ![ch] = @ - 1]
  BY DEF Read
<1>9. \E k \in Nat : left' = [left EXCEPT ![ch] = k] /\ k <= Len(toNode[ch]) - 1
  <2>1. CASE \E n \in 1..Len(toNode[ch]) : left' = [left EXCEPT ![ch] = n - 1]
    <3>1. PICK n \in 1..Len(toNode[ch]) : left' = [left EXCEPT ![ch] = n - 1]
      BY <2>1, Zenon
    <3>2. n - 1 \in Nat /\ n - 1 <= Len(toNode[ch]) - 1
      BY <1>1
    <3> QED
      BY <3>1, <3>2, Zenon
  <2>2. CASE left[ch] > 0 /\ left' = [left EXCEPT ![ch] = @ - 1]
    <3>1. left[ch] - 1 \in Nat /\ left[ch] - 1 <= Len(toNode[ch]) - 1
      BY <1>1, <2>2
    <3>2. left' = [left EXCEPT ![ch] = left[ch] - 1]
      BY <2>2
    <3> QED
      BY <3>1, <3>2, Zenon
  <2> QED
    BY <1>8, <2>1, <2>2, Zenon
<1>10. left' \in [Channels -> Nat] /\ \A d \in Channels : left'[d] <= Len(toNode'[d])
  BY <1>5, <1>6, <1>9 DEF ChannelsTyped
<1> QED
  BY <1>1, <1>2, <1>3, <1>4, <1>5, <1>6, <1>7, <1>10, Zenon

LEMMA ReadKeepsReply ==
  ASSUME ReplyInv, NEW ch \in Channels, Read(ch)
  PROVE  ReplyInv'
<1> DEFINE m == Head(toNode[ch])
<1>0. UNCHANGED <<alive, closed, nextId, toWorker, notes>>
  BY DEF Read
<1>1. /\ ChannelsTyped /\ \A d \in Channels : InFlight(d)
      /\ m = toNode[ch][1] /\ toNode[ch] # <<>>
      /\ toNode[ch] \in Seq(Message) /\ toWorker[ch] \in Seq(Asked)
      /\ toNode'[ch] = Tail(toNode[ch])
      /\ \A d \in Channels \ {ch} : toNode'[d] = toNode[d]
  <2>1. ChannelsTyped /\ \A d \in Channels : InFlight(d)
    BY DEF ReplyInv
  <2>2. /\ m = toNode[ch][1] /\ Len(toNode[ch]) > 0 /\ toNode[ch] \in Seq(Message)
        /\ toNode' = [toNode EXCEPT ![ch] = Tail(@)]
        /\ \A d \in Channels \ {ch} : toNode'[d] = toNode[d]
    BY <2>1, FirstTaken, Zenon
  <2>3. toNode'[ch] = Tail(toNode[ch]) /\ toWorker[ch] \in Seq(Asked)
    BY <2>1, <2>2, Zenon DEF ChannelsTyped
  <2>4. toNode[ch] # <<>>
    BY <2>2
  <2> QED
    BY <2>1, <2>2, <2>3, <2>4, Zenon
<1> HIDE DEF m
<1>2. CASE Settles(ch, m)
  <2> DEFINE c == sents[ch][m.id]
  <2>a. Matched(ch, sents[ch], toWorker[ch], toNode[ch]) /\ toNode[ch][1].id # 0
    BY <1>1, <1>2, Zenon DEF InFlight, Settles, IsReply
  <2>b. /\ Registered(ch, sents[ch], m.id, m.of)
        /\ Matched(ch, Restrict(sents[ch], DOMAIN sents[ch] \ {m.id}), toWorker[ch], Tail(toNode[ch]))
    BY <1>1, <2>a, MatchedSettle, Zenon
  <2>1. c = m.of /\ c \in Calls
    BY <2>b, Zenon DEF Registered
  <2>2. DOMAIN sents' = Channels /\ \A d \in Channels \ {ch} : sents'[d] = sents[d]
    BY <1>1, <1>2, Zenon DEF Settles, ChannelsTyped
  <2>3. sents'[ch] = Restrict(sents[ch], DOMAIN sents[ch] \ {m.id})
    BY <1>1, <1>2 DEF Settles, ChannelsTyped
  <2>4. DOMAIN reply' = Calls /\ \A d \in Calls : reply'[d] \in {reply[d], d}
    BY <1>1, <1>2, <2>1, Zenon DEF Settles, ChannelsTyped
  <2>5. promise' \in [Calls -> {"none", "pending", "resolved", "rejected"}]
    BY <1>1, <1>2, <2>1 DEF Settles, ChannelsTyped
  <2>6. ChannelsTyped'
    BY <1>0, <2>2, <2>4, <2>5, FirstTaken, ZenonT(60) DEF ReplyInv, ChannelsTyped
  <2>7. InFlight(ch)'
    BY <1>0, <1>1, <2>3, <2>b, Zenon DEF InFlight
  <2>8. \A d \in Channels \ {ch} : InFlight(d)'
    BY <1>0, <1>1, <2>2 DEF InFlight
  <2>9. OwnReply'
    BY <2>4 DEF ReplyInv, OwnReply
  <2> QED
    BY <2>6, <2>7, <2>8, <2>9 DEF ReplyInv
<1>3. CASE Ignored(ch, m) \/ Notified(ch, m)
  <2>1. /\ promise' = promise /\ reply' = reply /\ DOMAIN sents' = Channels
        /\ \A d \in Channels : sents'[d] = sents[d]
    BY <1>1, <1>3 DEF Ignored, Notified, ChannelsTyped
  <2>2. ChannelsTyped'
    BY <1>0, <1>1, <2>1, FirstTaken, ZenonT(60) DEF ReplyInv, ChannelsTyped
  <2>3. InFlight(ch)'
    <3>1. Matched(ch, sents[ch], toWorker[ch], Tail(toNode[ch]))
      BY <1>1, MatchedTail, Zenon DEF InFlight
    <3> QED
      BY <1>0, <1>1, <2>1, <3>1 DEF InFlight
  <2>4. \A d \in Channels \ {ch} : InFlight(d)'
    BY <1>0, <1>1, <2>1 DEF InFlight
  <2> QED
    BY <2>1, <2>2, <2>3, <2>4, Zenon DEF ReplyInv, OwnReply
<1> QED
  BY <1>2, <1>3, ReadOne, Zenon DEF m

LEMMA RequestKeepsReply ==
  ASSUME ReplyInv, NEW c \in Calls, Request(c)
  PROVE  ReplyInv'
<1> DEFINE ch == ChannelOf(c)
<1> DEFINE id == NextId(nextId[ch])
<1>0. /\ nextId' = [nextId EXCEPT ![ch] = id] /\ IdIsFree(ch)
      /\ UNCHANGED <<alive, closed, reply, toNode, left, notes>>
      /\ \/ promise' = [promise EXCEPT ![c] = "rejected"] /\ UNCHANGED <<sents, toWorker>>
         \/ /\ promise' = [promise EXCEPT ![c] = "pending"]
            /\ sents' = [sents EXCEPT ![ch] = Put(@, id, c)]
            /\ \/ toWorker' = [toWorker EXCEPT ![ch] = Append(@, <<id, c>>)]
               \/ toWorker' = toWorker
  BY DEF Request
<1>1. ch \in Channels
  BY DEF ChannelOf, Channels
<1>2. /\ ChannelsTyped /\ \A d \in Channels : InFlight(d)
  BY DEF ReplyInv
<1>3. /\ id \in 1..MaxId /\ id \notin DOMAIN sents[ch]
  BY <1>0, <1>1, <1>2, NextIdIsNext DEF IdIsFree, ChannelsTyped
<1>t. toNode[ch] \in Seq(Message) /\ toWorker[ch] \in Seq(Asked)
  BY <1>1, <1>2 DEF ChannelsTyped
<1>u. <<id, c>> \in Asked
  BY <1>3 DEF Asked
<1> HIDE DEF id, ch
<1>4. /\ nextId' \in [Channels -> 0..MaxId]
      /\ promise' \in [Calls -> {"none", "pending", "resolved", "rejected"}]
      /\ DOMAIN sents' = Channels
      /\ toWorker' \in [Channels -> Seq(Asked)]
  <2>1. nextId' \in [Channels -> 0..MaxId] /\ DOMAIN sents' = Channels
    BY <1>0, <1>1, <1>2, <1>3 DEF ChannelsTyped
  <2>2. promise' \in [Calls -> {"none", "pending", "resolved", "rejected"}]
    BY <1>0, <1>2, Zenon DEF ChannelsTyped
  <2>3. toWorker' \in [Channels -> Seq(Asked)]
    <3>1. Append(toWorker[ch], <<id, c>>) \in Seq(Asked)
      BY <1>u, <1>t
    <3>2. \/ toWorker' = [toWorker EXCEPT ![ch] = Append(toWorker[ch], <<id, c>>)]
          \/ toWorker' = toWorker
      BY <1>0, Zenon
    <3> QED
      BY <1>1, <1>2, <3>1, <3>2, Zenon DEF ChannelsTyped
  <2> QED
    BY <2>1, <2>2, <2>3
<1>5. ChannelsTyped'
  BY <1>0, <1>2, <1>4, ZenonT(60) DEF ChannelsTyped
<1>6. \A d \in Channels \ {ch} : sents'[d] = sents[d] /\ toWorker'[d] = toWorker[d]
  BY <1>0, <1>1, <1>2 DEF ChannelsTyped
<1>7. InFlight(ch)'
  <2>1. Matched(ch, sents[ch], toWorker[ch], toNode[ch])
    BY <1>1, <1>2, Zenon DEF InFlight
  <2>2. \/ sents'[ch] = sents[ch] /\ toWorker'[ch] = toWorker[ch]
        \/ /\ sents'[ch] = Put(sents[ch], id, c)
           /\ toWorker'[ch] \in {Append(toWorker[ch], <<id, c>>), toWorker[ch]}
    BY <1>0, <1>1, <1>2 DEF ChannelsTyped
  <2>3. ChannelOf(c) = ch
    BY DEF ch
  <2>4. /\ Matched(ch, Put(sents[ch], id, c), toWorker[ch], toNode[ch])
        /\ Matched(ch, Put(sents[ch], id, c), Append(toWorker[ch], <<id, c>>), toNode[ch])
    BY <1>3, <1>t, <2>1, <2>3, MatchedRequest, Zenon
  <2>5. toNode'[ch] = toNode[ch]
    BY <1>0
  <2>6. CASE sents'[ch] = sents[ch] /\ toWorker'[ch] = toWorker[ch]
    BY <2>1, <2>5, <2>6, Zenon DEF InFlight
  <2>7. CASE sents'[ch] = Put(sents[ch], id, c) /\ toWorker'[ch] = toWorker[ch]
    BY <2>4, <2>5, <2>7, Zenon DEF InFlight
  <2>8. CASE sents'[ch] = Put(sents[ch], id, c) /\ toWorker'[ch] = Append(toWorker[ch], <<id, c>>)
    BY <2>4, <2>5, <2>8, Zenon DEF InFlight
  <2> QED
    BY <2>2, <2>6, <2>7, <2>8, Zenon
<1>8. \A d \in Channels \ {ch} : InFlight(d)'
  BY <1>0, <1>2, <1>6 DEF InFlight
<1> QED
  BY <1>0, <1>5, <1>7, <1>8, Zenon DEF ReplyInv, OwnReply

\* The worker writes m to one channel.
LEMMA WriteKeepsTypes ==
  ASSUME ChannelsTyped, NEW ch \in Channels, NEW m \in Message,
         toNode' = [toNode EXCEPT ![ch] = Append(@, m)],
         toWorker' \in [Channels -> Seq(Asked)],
         UNCHANGED <<alive, closed, nextId, sents, promise, reply, left>>, notes' \in Nat
  PROVE  /\ ChannelsTyped'
         /\ toNode'[ch] = Append(toNode[ch], m)
         /\ \A d \in Channels \ {ch} : toNode'[d] = toNode[d]
<1>1. toNode[ch] \in Seq(Message) /\ left[ch] \in Nat /\ left[ch] <= Len(toNode[ch])
  BY DEF ChannelsTyped
<1>2. Append(toNode[ch], m) \in Seq(Message) /\ left[ch] <= Len(Append(toNode[ch], m))
  BY <1>1
<1>3. toNode'[ch] = Append(toNode[ch], m) /\ \A d \in Channels \ {ch} : toNode'[d] = toNode[d]
  BY DEF ChannelsTyped
<1>4. toNode' \in [Channels -> Seq(Message)]
  BY <1>2 DEF ChannelsTyped
<1>5. \A d \in Channels : left'[d] <= Len(toNode'[d])
  BY <1>2, <1>3 DEF ChannelsTyped
<1> QED
  BY <1>3, <1>4, <1>5, ZenonT(60) DEF ChannelsTyped

LEMMA AnswerKeepsReply ==
  ASSUME ReplyInv, WorkerAnswers
  PROVE  ReplyInv'
<1>1. PICK ch \in Channels, ok \in BOOLEAN :
        /\ toWorker[ch] # <<>>
        /\ WorkerWrites(ch, Reply(Head(toWorker[ch])[1], Head(toWorker[ch])[2], ok))
        /\ toWorker' = [toWorker EXCEPT ![ch] = Tail(@)]
  BY Zenon DEF WorkerAnswers
<1>0. UNCHANGED <<alive, closed, nextId, sents, promise, reply, left, notes>>
  BY DEF WorkerAnswers
<1> DEFINE m == Reply(Head(toWorker[ch])[1], Head(toWorker[ch])[2], ok)
<1>2. /\ ChannelsTyped /\ \A d \in Channels : InFlight(d)
      /\ toWorker[ch] \in Seq(Asked) /\ toNode[ch] \in Seq(Message) /\ notes \in Nat
  BY Zenon DEF ReplyInv, ChannelsTyped
<1>3. Head(toWorker[ch]) \in Asked /\ Tail(toWorker[ch]) \in Seq(Asked)
  BY <1>1, <1>2
<1>4. m \in Message
  BY <1>3 DEF Message, Reply, Items, Asked
<1>5. /\ toWorker' \in [Channels -> Seq(Asked)] /\ toWorker'[ch] = Tail(toWorker[ch])
      /\ \A d \in Channels \ {ch} : toWorker'[d] = toWorker[d]
  BY <1>1, <1>2, <1>3 DEF ChannelsTyped
<1>6. toNode' = [toNode EXCEPT ![ch] = Append(@, m)]
  BY <1>1, Zenon DEF WorkerWrites
<1> HIDE DEF m
<1>7. /\ ChannelsTyped' /\ toNode'[ch] = Append(toNode[ch], m)
      /\ \A d \in Channels \ {ch} : toNode'[d] = toNode[d]
  BY <1>0, <1>2, <1>4, <1>5, <1>6, WriteKeepsTypes, Zenon
<1>8. InFlight(ch)'
  <2>1. Matched(ch, sents[ch], Tail(toWorker[ch]), Append(toNode[ch], m))
    BY <1>1, <1>2, MatchedAnswer, Zenon DEF InFlight, m
  <2> QED
    BY <1>0, <1>5, <1>7, <2>1 DEF InFlight
<1>9. \A d \in Channels \ {ch} : InFlight(d)'
  BY <1>0, <1>2, <1>5, <1>7, Zenon DEF InFlight
<1> QED
  BY <1>0, <1>7, <1>8, <1>9 DEF ReplyInv, OwnReply

LEMMA NoteKeepsReply ==
  ASSUME ReplyInv, NEW ch \in Channels, NEW n \in Notes, WorkerWrites(ch, Note(n)),
         UNCHANGED <<alive, closed, nextId, sents, promise, reply, toWorker, left>>, notes' \in Nat
  PROVE  ReplyInv'
<1>1. Note(n) \in Message
  BY DEF Note, Message, Items, Notes
<1>2. /\ ChannelsTyped /\ \A d \in Channels : InFlight(d)
      /\ toWorker[ch] \in Seq(Asked) /\ toNode[ch] \in Seq(Message)
      /\ toWorker' \in [Channels -> Seq(Asked)]
  BY DEF ReplyInv, ChannelsTyped
<1>3. /\ ChannelsTyped' /\ toNode'[ch] = Append(toNode[ch], Note(n))
      /\ \A d \in Channels \ {ch} : toNode'[d] = toNode[d]
  BY <1>1, <1>2, WriteKeepsTypes, Zenon DEF WorkerWrites
<1>4. \A d \in Channels : InFlight(d)'
  <2>1. Matched(ch, sents[ch], toWorker[ch], Append(toNode[ch], Note(n)))
    BY <1>2, MatchedNote, Zenon DEF InFlight
  <2>2. InFlight(ch)'
    BY <1>3, <2>1 DEF InFlight
  <2>3. \A d \in Channels \ {ch} : InFlight(d)'
    BY <1>2, <1>3 DEF InFlight
  <2> QED
    BY <2>2, <2>3
<1> QED
  BY <1>3, <1>4 DEF ReplyInv, OwnReply

\* Messages are lost, promises rejected.
LEMMA LossKeepsReply ==
  ASSUME ReplyInv, alive' \in BOOLEAN, closed' \in [Channels -> BOOLEAN],
         promise' \in [Calls -> {"none", "pending", "resolved", "rejected"}],
         UNCHANGED <<nextId, sents, reply, left, notes>>,
         toWorker' \in {toWorker, [ch \in Channels |-> <<>>]},
         \/ toNode' = toNode
         \/ toNode' = [ch \in Channels |-> <<>>] /\ \A ch \in Channels : left[ch] = 0
  PROVE  ReplyInv'
<1>1. ChannelsTyped /\ \A d \in Channels : InFlight(d)
  BY DEF ReplyInv
<1>2. /\ toWorker' \in [Channels -> Seq(Asked)] /\ toNode' \in [Channels -> Seq(Message)]
      /\ \A ch \in Channels : left'[ch] <= Len(toNode'[ch])
  <2>1. <<>> \in Seq(Asked) /\ <<>> \in Seq(Message) /\ Len(<<>>) = 0 /\ 0 <= 0
    OBVIOUS
  <2>2. toWorker \in [Channels -> Seq(Asked)] /\ toNode \in [Channels -> Seq(Message)]
    BY <1>1, Zenon DEF ChannelsTyped
  <2>3. toWorker' \in [Channels -> Seq(Asked)]
    BY <2>1, <2>2, Zenon
  <2>4. toNode' \in [Channels -> Seq(Message)]
    BY <2>1, <2>2, Zenon
  <2>5. \A ch \in Channels : left'[ch] <= Len(toNode'[ch])
    <3>1. \A ch \in Channels : left[ch] <= Len(toNode[ch])
      BY <1>1, Zenon DEF ChannelsTyped
    <3>2. CASE toNode' = toNode
      BY <3>1, <3>2
    <3>3. CASE toNode' = [ch \in Channels |-> <<>>] /\ \A ch \in Channels : left[ch] = 0
      BY <2>1, <3>3
    <3> QED
      BY <3>2, <3>3
  <2> QED
    BY <2>3, <2>4, <2>5
<1>3. ChannelsTyped'
  BY <1>1, <1>2, ZenonT(60) DEF ChannelsTyped
<1>4. \A d \in Channels : InFlight(d)'
  <2> SUFFICES ASSUME NEW d \in Channels PROVE InFlight(d)'
    OBVIOUS
  <2>1. Matched(d, sents[d], toWorker[d], toNode[d])
    BY <1>1 DEF InFlight
  <2>2. /\ sents'[d] = sents[d]
        /\ toWorker'[d] \in {toWorker[d], <<>>} /\ toNode'[d] \in {toNode[d], <<>>}
    OBVIOUS
  <2>3. /\ Matched(d, sents[d], <<>>, toNode[d]) /\ Matched(d, sents[d], toWorker[d], <<>>)
        /\ Matched(d, sents[d], <<>>, <<>>)
    BY <2>1, MatchedCut, Zenon
  <2> QED
    BY <2>1, <2>2, <2>3, Zenon DEF InFlight
<1> QED
  BY <1>3, <1>4 DEF ReplyInv, OwnReply

LEMMA ClosingTypes ==
  ASSUME ChannelsTyped, CloseBoth
  PROVE  /\ closed' \in [Channels -> BOOLEAN]
         /\ promise' \in [Calls -> {"none", "pending", "resolved", "rejected"}]
<1>1. closed' = [ch \in Channels |-> TRUE]
  BY DEF CloseBoth
<1>2. PICK S : promise' = [c \in Calls |-> IF c \in S THEN "rejected" ELSE promise[c]]
  BY Zenon DEF CloseBoth, CloseChannel, ClosePayloadChannel
<1> QED
  BY <1>1, <1>2 DEF ChannelsTyped

LEMMA ReplyStep ==
  ASSUME ReplyInv, [Next]_vars
  PROVE  ReplyInv'
<1>0. ChannelsTyped
  BY DEF ReplyInv
<1>1. CASE ReadChannel \/ ReadPayloadChannel
  BY <1>1, ReadKeepsReply DEF ReadChannel, ReadPayloadChannel, Channels
<1>2. CASE \E c \in Calls : Request(c)
  BY <1>2, RequestKeepsReply
<1>3. CASE WorkerAnswers
  BY <1>3, AnswerKeepsReply
<1>4. CASE OnChildGone
  <2>1. /\ UNCHANGED <<nextId, sents, reply, left, toNode, notes>>
        /\ \/ Close([worker EXCEPT !.child = FALSE])
           \/ Died([worker EXCEPT !.child = FALSE])
    BY <1>4 DEF OnChildGone
  <2>2. /\ alive' \in BOOLEAN /\ toWorker' \in {toWorker, [ch \in Channels |-> <<>>]}
        /\ CloseBoth \/ UNCHANGED <<closed, promise>>
    BY <1>0, <2>1 DEF Close, Died, ProcessEnds, ChannelsTyped
  <2>3. /\ closed' \in [Channels -> BOOLEAN]
        /\ promise' \in [Calls -> {"none", "pending", "resolved", "rejected"}]
    BY <1>0, <2>2, ClosingTypes DEF ChannelsTyped
  <2> QED
    BY <2>1, <2>2, <2>3, LossKeepsReply
<1>5. CASE CloseWorker
  <2>1. UNCHANGED <<nextId, sents, reply, left, toNode, notes>> /\ Close(worker)
    BY <1>5 DEF CloseWorker
  <2>2. /\ alive' \in BOOLEAN /\ toWorker' \in {toWorker, [ch \in Channels |-> <<>>]}
        /\ CloseBoth
    BY <1>0, <2>1, Zenon DEF Close, ProcessEnds, ChannelsTyped
  <2>3. /\ closed' \in [Channels -> BOOLEAN]
        /\ promise' \in [Calls -> {"none", "pending", "resolved", "rejected"}]
    BY <1>0, <2>2, ClosingTypes
  <2> QED
    BY <2>1, <2>2, <2>3, LossKeepsReply, Zenon
<1>6. CASE ProcessStops
  <2>1. /\ alive' \in BOOLEAN /\ toWorker' = [ch \in Channels |-> <<>>]
        /\ UNCHANGED <<nextId, sents, reply, left, toNode, closed, promise, notes>>
    BY <1>6, Zenon DEF ProcessStops, ProcessEnds
  <2>2. /\ closed' \in [Channels -> BOOLEAN]
        /\ promise' \in [Calls -> {"none", "pending", "resolved", "rejected"}]
    BY <1>0, <2>1 DEF ChannelsTyped
  <2> QED
    BY <2>1, <2>2, LossKeepsReply
<1>7. CASE DestroySockets
  <2>1. /\ toNode' = [ch \in Channels |-> <<>>]
        /\ UNCHANGED <<nextId, sents, reply, left, toWorker, closed, promise, alive, notes>>
        /\ ~InCallback
    BY <1>7 DEF DestroySockets, NextCallback
  <2>2. \A ch \in Channels : left[ch] = 0
    BY <1>0, <2>1 DEF InCallback, ChannelsTyped
  <2>3. /\ closed' \in [Channels -> BOOLEAN] /\ alive' \in BOOLEAN
        /\ promise' \in [Calls -> {"none", "pending", "resolved", "rejected"}]
    BY <1>0, <2>1 DEF ChannelsTyped
  <2> QED
    BY <2>1, <2>2, <2>3, LossKeepsReply, Zenon
<1>8. CASE ProcessRuns
  <2>1. /\ WorkerWrites("channel", Note(Running)) /\ "channel" \in Channels /\ Running \in Notes
        /\ UNCHANGED <<alive, closed, nextId, sents, promise, reply, toWorker, left, notes>>
    BY <1>8 DEF ProcessRuns, Running, Notes, Channels
  <2>2. notes' \in Nat
    BY <1>0, <2>1 DEF ChannelsTyped
  <2> QED
    BY <2>1, <2>2, NoteKeepsReply
<1>9. CASE WorkerNotifies
  <2>1. PICK ch \in Channels : WorkerWrites(ch, Note(notes + 1))
    BY <1>9 DEF WorkerNotifies
  <2>2. notes' \in Nat /\ notes + 1 \in Notes
    BY <1>0, <1>9 DEF WorkerNotifies, ChannelsTyped, Notes
  <2>3. UNCHANGED <<alive, closed, nextId, sents, promise, reply, toWorker, left>>
    BY <1>9 DEF WorkerNotifies
  <2> QED
    BY <2>1, <2>2, <2>3, NoteKeepsReply, Zenon
<1>10. CASE UNCHANGED <<alive, closed, nextId, sents, promise, reply, toWorker, toNode, left, notes>>
  <2>1. /\ alive' \in BOOLEAN /\ closed' \in [Channels -> BOOLEAN]
        /\ promise' \in [Calls -> {"none", "pending", "resolved", "rejected"}]
    BY <1>0, <1>10 DEF ChannelsTyped
  <2> QED
    BY <1>10, <2>1, LossKeepsReply
<1>11. Continue \/ RunImmediate \/ UNCHANGED vars =>
         UNCHANGED <<alive, closed, nextId, sents, promise, reply, toWorker, toNode, left, notes>>
  BY DEF Continue, RunImmediate, vars, chvars
<1> QED
  BY <1>1, <1>2, <1>3, <1>4, <1>5, <1>6, <1>7, <1>8, <1>9, <1>10, <1>11, Zenon
     DEF Next, EventLoop, ChildSteps, OtherImmediate, OnRunning, Ask

LEMMA ReplyAlways == Spec => []ReplyInv
BY ReplyInit, ReplyStep, PTL DEF Spec

\* A promise is settled only by the response to its own call: for any number of
\* calls, with ids that wrap, in every order of requests, responses, notifications,
\* close() and the end of the process (request(), processMessage(), processData()).
THEOREM RepliesAreOwn == Spec => []OwnReply
<1>1. ReplyInv => OwnReply
  BY DEF ReplyInv
<1> QED
  BY <1>1, ReplyAlways, PTL

-----------------------------------------------------------------------------
(* The order of continuations and notifications                            *)

\* Messages n, written and not yet read, are the end of what was sent.
Written(s, n) ==
  /\ Len(n) <= Len(s)
  /\ \A i \in DOMAIN n : /\ n[i].of = s[Len(s) - Len(n) + i]
                         /\ ~IsReply(n[i]) => n[i].of \in Notes

\* The calls among the first k messages are in `done'.
Answered(s, k, done) == \A i \in 1..k : s[i] \in Requests => s[i] \in done

\* The calls that have an entry in #sents are pending or in `done'.
Entries(t, p, done) == \A id \in DOMAIN t : p[t[id]] = "pending" \/ t[id] \in done

NotesOnce(s) == \A i, j \in DOMAIN s : s[i] \in Notes /\ s[i] = s[j] => i = j

\* Only notifications among the first k messages are in `reached'.
NotesTaken(s, k, reached) == \A i \in DOMAIN s : s[i] \in Notes \cap reached => i <= k

First(s, e) ==
  \A i, j \in DOMAIN s :
     i < j /\ s[i] \in Requests /\ s[j] \notin Requests /\ s[j] \in Range(e)
       => \E a, b \in DOMAIN e : a < b /\ e[a] = s[i] /\ e[b] = s[j]

\* Calls whose continuation has run or is to run before the next callback.
Done == Range(seen["channel"]) \cup Range(micro)

\* What was emitted on Channel or waits for the check phase.
Reached == Range(immediates) \cup Range(seen["channel"])

KnownNotes == (1..notes) \cup (IF child = "starting" THEN {} ELSE {Running})

\* How many messages of Channel have been read or thrown away.
Taken == Len(sent["channel"]) - Len(toNode["channel"])

\* close() has rejected what was pending.
ClosedSettled == closed["channel"] => \A c \in Requests : promise[c] # "pending"

OrderTyped ==
  /\ micro \in Seq(Calls) /\ immediates \in Seq(Notes)
  /\ sent \in [Channels -> Seq(Items)] /\ seen \in [Channels -> Seq(Items)]

OrderInv ==
  /\ OrderTyped
  /\ Written(sent["channel"], toNode["channel"])
  /\ ClosedSettled
  /\ Entries(sents["channel"], promise, Done)
  /\ Answered(sent["channel"], Taken, Done)
  /\ NotesOnce(sent["channel"]) /\ NotesTaken(sent["channel"], Taken, Reached)
  /\ (Range(sent["channel"]) \cup Reached) \cap Notes \subseteq KnownNotes
  /\ First(sent["channel"], seen["channel"])

LEMMA CallsAreNoNotes == \A x \in Calls : x \notin Notes
  BY CallsAssumption DEF Notes

LEMMA RangeAppend ==
  ASSUME NEW S, NEW e \in Seq(S), NEW x \in S
  PROVE  Range(Append(e, x)) = Range(e) \cup {x}
<1>1. DOMAIN Append(e, x) = DOMAIN e \cup {Len(e) + 1}
  OBVIOUS
<1>2. Append(e, x)[Len(e) + 1] = x /\ \A i \in DOMAIN e : Append(e, x)[i] = e[i]
  OBVIOUS
<1> QED
  BY <1>1, <1>2, Zenon DEF Range

LEMMA RangeTail ==
  ASSUME NEW S, NEW e \in Seq(S), e # <<>>
  PROVE  Range(e) = {Head(e)} \cup Range(Tail(e))
<1>1. /\ DOMAIN e = 1..Len(e) /\ Len(e) \in Nat \ {0} /\ Head(e) = e[1]
      /\ DOMAIN Tail(e) = 1..(Len(e) - 1)
      /\ \A i \in 1..(Len(e) - 1) : Tail(e)[i] = e[i + 1]
  OBVIOUS
<1>2. ASSUME NEW x \in Range(e) PROVE x \in {Head(e)} \cup Range(Tail(e))
  <2>1. PICK i \in 1..Len(e) : x = e[i]
    BY <1>1 DEF Range
  <2>2. CASE i = 1
    BY <1>1, <2>1, <2>2
  <2>3. CASE i # 1
    <3>1. i - 1 \in 1..(Len(e) - 1) /\ Tail(e)[i - 1] = x
      BY <1>1, <2>1, <2>3
    <3> QED
      BY <1>1, <3>1, Zenon DEF Range
  <2> QED
    BY <2>2, <2>3
<1>3. ASSUME NEW x \in Range(Tail(e)) PROVE x \in Range(e)
  <2>1. PICK i \in 1..(Len(e) - 1) : x = e[i + 1]
    BY <1>1 DEF Range
  <2>2. i + 1 \in DOMAIN e
    BY <1>1, <2>1
  <2> QED
    BY <2>1, <2>2, Zenon DEF Range
<1>4. Head(e) \in Range(e)
  BY <1>1 DEF Range
<1> QED
  BY <1>2, <1>3, <1>4

LEMMA RangeConcat ==
  ASSUME NEW S, NEW e \in Seq(S), NEW f \in Seq(S)
  PROVE  Range(e \o f) = Range(e) \cup Range(f)
<1>1. /\ DOMAIN (e \o f) = 1..(Len(e) + Len(f)) /\ DOMAIN e = 1..Len(e) /\ DOMAIN f = 1..Len(f)
      /\ Len(e) \in Nat /\ Len(f) \in Nat
      /\ \A i \in 1..Len(e) : (e \o f)[i] = e[i]
      /\ \A i \in 1..Len(f) : (e \o f)[Len(e) + i] = f[i]
  OBVIOUS
<1>2. ASSUME NEW x \in Range(e \o f) PROVE x \in Range(e) \cup Range(f)
  <2>1. PICK i \in 1..(Len(e) + Len(f)) : x = (e \o f)[i]
    BY <1>1 DEF Range
  <2>2. CASE i \in 1..Len(e)
    BY <1>1, <2>1, <2>2, Zenon DEF Range
  <2>3. CASE i \notin 1..Len(e)
    <3>1. i - Len(e) \in 1..Len(f) /\ i = Len(e) + (i - Len(e))
      BY <1>1, <2>3
    <3>2. x = f[i - Len(e)]
      BY <1>1, <2>1, <3>1
    <3> QED
      BY <1>1, <3>1, <3>2, Zenon DEF Range
  <2> QED
    BY <2>2, <2>3
<1>3. \A i \in 1..Len(e) : i \in DOMAIN (e \o f)
  BY <1>1
<1>4. \A i \in 1..Len(f) : Len(e) + i \in DOMAIN (e \o f)
  BY <1>1
<1>5. Range(e) \subseteq Range(e \o f)
  BY <1>1, <1>3, Zenon DEF Range
<1>6. Range(f) \subseteq Range(e \o f)
  BY <1>1, <1>4, Zenon DEF Range
<1> QED
  BY <1>2, <1>5, <1>6, Zenon

\* Listed lists every element of a finite set.
LEMMA ListsAll ==
  ASSUME NEW S, IsFiniteSet(S)
  PROVE  Listed(S) \in Seq(S) /\ Range(Listed(S)) = S
<1> DEFINE n == Cardinality(S)
<1>1. n \in Nat /\ Bijection(1..n, S) # {}
  BY FS_CardinalityType DEF ExistsBijection
<1>2. Listed(S) \in Bijection(1..n, S)
  BY <1>1 DEF Listed
<1>3. Listed(S) \in [1..n -> S] /\ \A e \in S : \E i \in 1..n : Listed(S)[i] = e
  BY <1>2, Zenon DEF Bijection, Injection, Surjection
<1>4. Range(Listed(S)) = S
  BY <1>3, Zenon DEF Range
<1> QED
  BY <1>1, <1>3, <1>4


LEMMA WrittenTail ==
  ASSUME NEW s \in Seq(Items), NEW n \in Seq(Message), Written(s, n), n # <<>>
  PROVE  /\ Written(s, Tail(n)) /\ Len(s) - Len(Tail(n)) = Len(s) - Len(n) + 1
         /\ Len(s) - Len(n) + 1 \in DOMAIN s /\ s[Len(s) - Len(n) + 1] = n[1].of
         /\ ~IsReply(n[1]) => n[1].of \in Notes
<1>1. /\ Len(s) \in Nat /\ Len(n) \in Nat \ {0} /\ DOMAIN s = 1..Len(s) /\ DOMAIN n = 1..Len(n)
      /\ Len(Tail(n)) = Len(n) - 1 /\ DOMAIN Tail(n) = 1..(Len(n) - 1)
      /\ \A i \in 1..(Len(n) - 1) : Tail(n)[i] = n[i + 1]
  OBVIOUS
<1>2. Len(n) <= Len(s) /\ 1 \in DOMAIN n
  BY <1>1 DEF Written
<1>3. /\ s[Len(s) - Len(n) + 1] = n[1].of
      /\ ~IsReply(n[1]) => n[1].of \in Notes
  BY <1>2 DEF Written
<1>4. ASSUME NEW i \in DOMAIN Tail(n)
      PROVE  /\ Tail(n)[i].of = s[Len(s) - Len(Tail(n)) + i]
             /\ ~IsReply(Tail(n)[i]) => Tail(n)[i].of \in Notes
  <2>1. i + 1 \in DOMAIN n /\ Tail(n)[i] = n[i + 1]
    BY <1>1
  <2>2. Len(s) - Len(n) + (i + 1) = Len(s) - Len(Tail(n)) + i
    BY <1>1
  <2> QED
    BY <2>1, <2>2 DEF Written
<1>5. Len(Tail(n)) <= Len(s)
  BY <1>1, <1>2
<1>6. Written(s, Tail(n))
  BY <1>4, <1>5 DEF Written
<1> QED
  BY <1>1, <1>2, <1>3, <1>6

LEMMA WrittenAppend ==
  ASSUME NEW s \in Seq(Items), NEW n \in Seq(Message), Written(s, n),
         NEW m \in Message, ~IsReply(m) => m.of \in Notes
  PROVE  Written(Append(s, m.of), Append(n, m))
<1> DEFINE t == Append(s, m.of)
<1> DEFINE o == Append(n, m)
<1>0. m.of \in Items
  BY DEF Message
<1>1. /\ Len(t) = Len(s) + 1 /\ Len(o) = Len(n) + 1 /\ Len(s) \in Nat /\ Len(n) \in Nat
      /\ DOMAIN o = 1..(Len(n) + 1) /\ DOMAIN n = 1..Len(n)
      /\ \A i \in 1..Len(n) : o[i] = n[i]
      /\ \A i \in 1..Len(s) : t[i] = s[i]
      /\ o[Len(n) + 1] = m /\ t[Len(s) + 1] = m.of
  BY <1>0
<1> HIDE DEF t, o
<1>2. ASSUME NEW i \in DOMAIN o
      PROVE  /\ o[i].of = t[Len(t) - Len(o) + i]
             /\ ~IsReply(o[i]) => o[i].of \in Notes
  <2>1. CASE i = Len(n) + 1
    <3>1. Len(t) - Len(o) + i = Len(s) + 1
      BY <1>1, <2>1
    <3> QED
      BY <1>1, <2>1, <3>1
  <2>2. CASE i # Len(n) + 1
    <3>1. i \in 1..Len(n) /\ Len(t) - Len(o) + i = Len(s) - Len(n) + i
      BY <1>1, <2>2
    <3>2. Len(s) - Len(n) + i \in 1..Len(s)
      BY <1>1, <3>1 DEF Written
    <3>3. t[Len(t) - Len(o) + i] = s[Len(s) - Len(n) + i] /\ o[i] = n[i]
      BY <1>1, <3>1, <3>2
    <3> QED
      BY <1>1, <3>1, <3>3 DEF Written
  <2> QED
    BY <2>1, <2>2
<1>3. Len(o) <= Len(t)
  BY <1>1 DEF Written
<1> QED
  BY <1>2, <1>3, Zenon DEF Written, t, o

LEMMA AnsweredNext ==
  ASSUME NEW s, NEW k \in Nat, NEW done, NEW more, Answered(s, k, done), done \subseteq more,
         s[k + 1] \in Requests => s[k + 1] \in more
  PROVE  Answered(s, k + 1, more)
  BY DEF Answered

LEMMA SentAppend ==
  ASSUME NEW s \in Seq(Items), NEW x \in Items, NEW k \in Nat, k <= Len(s), NEW done, NEW reached,
         Answered(s, k, done), NotesOnce(s), NotesTaken(s, k, reached),
         x \in Notes => x \notin Range(s) \cup reached
  PROVE  /\ Answered(Append(s, x), k, done) /\ NotesOnce(Append(s, x))
         /\ NotesTaken(Append(s, x), k, reached)
<1> DEFINE t == Append(s, x)
<1>1. /\ Len(s) \in Nat /\ DOMAIN s = 1..Len(s) /\ DOMAIN t = 1..(Len(s) + 1)
      /\ t[Len(s) + 1] = x /\ \A i \in 1..Len(s) : t[i] = s[i]
  OBVIOUS
<1> HIDE DEF t
<1>2. Answered(t, k, done)
  BY <1>1 DEF Answered
<1>3. \A i \in DOMAIN s : s[i] = x => x \notin Notes
  BY Zenon DEF Range
<1>4. NotesOnce(t)
  BY <1>1, <1>3 DEF NotesOnce
<1>5. NotesTaken(t, k, reached)
  BY <1>1 DEF NotesTaken
<1> QED
  BY <1>2, <1>4, <1>5 DEF t

LEMMA FirstSentAppend ==
  ASSUME NEW s \in Seq(Items), NEW e, NEW x \in Items, First(s, e),
         x \in Requests \/ x \notin Range(e)
  PROVE  First(Append(s, x), e)
<1> DEFINE t == Append(s, x)
<1>1. /\ Len(s) \in Nat /\ DOMAIN s = 1..Len(s) /\ DOMAIN t = 1..(Len(s) + 1)
      /\ t[Len(s) + 1] = x /\ \A i \in 1..Len(s) : t[i] = s[i]
  OBVIOUS
<1> HIDE DEF t
<1>2. SUFFICES ASSUME NEW i \in DOMAIN t, NEW j \in DOMAIN t, i < j, t[i] \in Requests,
                      t[j] \notin Requests, t[j] \in Range(e)
               PROVE  \E a, b \in DOMAIN e : a < b /\ e[a] = t[i] /\ e[b] = t[j]
  BY Zenon DEF First, t
<1>3. j # Len(s) + 1
  BY <1>1, <1>2
<1>4. i \in DOMAIN s /\ j \in DOMAIN s
  BY <1>1, <1>2, <1>3
<1>5. t[i] = s[i] /\ t[j] = s[j]
  BY <1>1, <1>4
<1>6. s[i] \in Requests /\ s[j] \notin Requests /\ s[j] \in Range(e)
  BY <1>2, <1>5
<1>7. \E a, b \in DOMAIN e : a < b /\ e[a] = s[i] /\ e[b] = s[j]
  BY <1>2, <1>4, <1>6, Zenon DEF First
<1> QED
  BY <1>5, <1>7, Zenon

LEMMA FirstSeenAppend ==
  ASSUME NEW s, NEW e \in Seq(Items), NEW x \in Items, First(s, e),
         x \in Requests \/ \A i, j \in DOMAIN s :
                             i < j /\ s[i] \in Requests /\ s[j] = x => s[i] \in Range(e)
  PROVE  First(s, Append(e, x))
<1> DEFINE f == Append(e, x)
<1>1. /\ DOMAIN f = DOMAIN e \cup {Len(e) + 1}
      /\ f[Len(e) + 1] = x /\ \A i \in DOMAIN e : f[i] = e[i] /\ i < Len(e) + 1
  OBVIOUS
<1> HIDE DEF f
<1>2. \A b \in DOMAIN f : b = Len(e) + 1 \/ (b \in DOMAIN e /\ f[b] = e[b])
  BY <1>1, Zenon
<1>3. SUFFICES ASSUME NEW i \in DOMAIN s, NEW j \in DOMAIN s, i < j, s[i] \in Requests,
                      s[j] \notin Requests, s[j] \in Range(f)
               PROVE  \E a, b \in DOMAIN f : a < b /\ f[a] = s[i] /\ f[b] = s[j]
  BY Zenon DEF First, f
<1>4. CASE s[j] \in Range(e)
  <2>1. PICK a, b \in DOMAIN e : a < b /\ e[a] = s[i] /\ e[b] = s[j]
    BY <1>3, <1>4, Zenon DEF First
  <2>2. a \in DOMAIN f /\ b \in DOMAIN f /\ f[a] = e[a] /\ f[b] = e[b]
    BY <1>1
  <2> QED
    BY <2>1, <2>2
<1>5. CASE s[j] = x
  <2>1. s[i] \in Range(e)
    BY <1>3, <1>5, Zenon
  <2>2. PICK a \in DOMAIN e : e[a] = s[i]
    BY <2>1, Zenon DEF Range
  <2>3. a \in DOMAIN f /\ Len(e) + 1 \in DOMAIN f /\ a < Len(e) + 1 /\ f[a] = s[i]
    BY <1>1, <2>2, Zenon
  <2> QED
    BY <1>1, <1>5, <2>3
<1>6. s[j] = x \/ s[j] \in Range(e)
  <2>1. PICK b \in DOMAIN f : s[j] = f[b]
    BY <1>3, Zenon DEF Range
  <2> QED
    BY <1>1, <1>2, <2>1, Zenon DEF Range
<1> QED
  BY <1>4, <1>5, <1>6, Zenon

LEMMA OrderInit == WInit => OrderInv
<1> SUFFICES ASSUME WInit PROVE OrderInv
  OBVIOUS
<1>0. "channel" \in Channels
  BY DEF Channels
<1>1. /\ sent["channel"] = <<>> /\ toNode["channel"] = <<>> /\ seen["channel"] = <<>>
      /\ sents["channel"] = <<>> /\ micro = <<>> /\ immediates = <<>>
      /\ closed["channel"] = FALSE
  BY <1>0 DEF WInit, Init, Nothing
<1>2. OrderTyped
  <2>1. sent = [ch \in Channels |-> <<>>] /\ seen = [ch \in Channels |-> <<>>]
    BY DEF WInit, Init
  <2> QED
    BY <1>1, <2>1 DEF OrderTyped
<1>3. Len(<<>>) = 0 /\ DOMAIN <<>> = {} /\ 1..0 = {} /\ 0 - 0 = 0 /\ 0 <= 0 /\ Range(<<>>) = {}
  BY DEF Range
<1>4. Written(<<>>, <<>>) /\ NotesOnce(<<>>) /\ First(<<>>, <<>>)
  BY <1>3, Zenon DEF Written, NotesOnce, First
<1>5. /\ Answered(<<>>, 0, Done) /\ NotesTaken(<<>>, 0, Reached) /\ Entries(<<>>, promise, Done)
      /\ Reached = {} /\ Taken = 0
  BY <1>1, <1>3, Zenon DEF Answered, NotesTaken, Entries, Reached, Taken
<1> QED
  BY <1>1, <1>2, <1>3, <1>4, <1>5, Zenon DEF OrderInv, ClosedSettled

\* The entries of each channel are calls made on it.
LEMMA EntriesOfChannels ==
  ASSUME ReplyInv
  PROVE  /\ \A id \in DOMAIN sents["channel"] : sents["channel"][id] \in Requests
         /\ \A id \in DOMAIN sents["payload"] : sents["payload"][id] \in Calls \ Requests
<1>1. InFlight("channel") /\ InFlight("payload")
  BY DEF ReplyInv, Channels
<1> QED
  BY <1>1 DEF InFlight, Matched, Registered, ChannelOf, Calls

\* Nothing moves on Channel: the conjuncts that are left to show.
LEMMA QuietKeepsOrder ==
  ASSUME OrderInv, OrderTyped', Done \subseteq Done', KnownNotes \subseteq KnownNotes',
         sent'["channel"] = sent["channel"], toNode'["channel"] = toNode["channel"],
         seen'["channel"] = seen["channel"], immediates' = immediates,
         ClosedSettled', Entries(sents["channel"], promise, Done)'
  PROVE  OrderInv'
<1>1. Taken' = Taken /\ Reached' = Reached
  BY DEF Taken, Reached
<1>2. Answered(sent["channel"], Taken, Done)'
  BY <1>1, ZenonT(60) DEF OrderInv, Answered
<1>3. /\ Written(sent["channel"], toNode["channel"])'
      /\ NotesOnce(sent["channel"])' /\ First(sent["channel"], seen["channel"])'
  BY DEF OrderInv
<1>4. NotesTaken(sent["channel"], Taken, Reached)'
  BY <1>1 DEF OrderInv
<1>5. ((Range(sent["channel"]) \cup Reached) \cap Notes \subseteq KnownNotes)'
  BY <1>1 DEF OrderInv
<1> QED
  BY <1>2, <1>3, <1>4, <1>5, Zenon DEF OrderInv

\* Entries stay while their promises change only when they are done.
LEMMA EntriesStay ==
  ASSUME NEW t, NEW p, NEW q, NEW done, NEW more, Entries(t, p, done), done \subseteq more,
         \A id \in DOMAIN t : q[t[id]] = p[t[id]] \/ t[id] \in more
  PROVE  Entries(t, q, more)
  BY Zenon DEF Entries

\* What a message does to the promises and to the continuations.
LEMMA ReadContinues ==
  ASSUME ReplyInv, OrderTyped, NEW ch \in Channels, Read(ch)
  PROVE  LET m == Head(toNode[ch])
         IN  /\ m \in Message /\ micro' \in Seq(Calls) /\ Range(micro) \subseteq Range(micro')
             /\ \A c \in Calls : \/ promise'[c] = promise[c]
                                 \/ promise'[c] # "pending" /\ c \in Range(micro')
             /\ DOMAIN sents'["channel"] \subseteq DOMAIN sents["channel"]
             /\ \A id \in DOMAIN sents'["channel"] : sents'["channel"][id] = sents["channel"][id]
             /\ IsReply(m) => /\ m.id \in DOMAIN sents[ch] /\ sents[ch][m.id] = m.of
                              /\ promise[m.of] = "pending" => m.of \in Range(micro')
<1> DEFINE m == Head(toNode[ch])
<1> DEFINE c == sents[ch][m.id]
<1>1. ChannelsTyped /\ InFlight(ch) /\ "channel" \in Channels
  BY Zenon DEF ReplyInv, Channels
<1>2. m \in Message /\ m = toNode[ch][1] /\ 1 \in DOMAIN toNode[ch]
  <2>1. /\ Len(toNode[ch]) > 0 /\ toNode[ch] \in Seq(Message)
        /\ m = toNode[ch][1] /\ m \in Message
    BY <1>1, FirstTaken, Zenon
  <2> QED
    BY <2>1
<1>3. Settles(ch, m) \/ Ignored(ch, m) \/ Notified(ch, m)
  BY ReadOne, Zenon
<1> HIDE DEF m
<1>4. IsReply(m) => m.id \in DOMAIN sents[ch] /\ c = m.of /\ c \in Calls
  BY <1>1, <1>2, Zenon DEF InFlight, Matched, Registered, IsReply
<1>5. CASE Settles(ch, m)
  <2> HIDE DEF c
  <2>1. /\ IsReply(m) /\ c \in Calls
        /\ sents' = [sents EXCEPT ![ch] = Restrict(@, DOMAIN @ \ {m.id})]
        /\ promise' = [promise EXCEPT ![c] =
                         IF @ # "pending" THEN @ ELSE IF m.ok THEN "resolved" ELSE "rejected"]
        /\ micro' = IF promise[c] = "pending" THEN Append(micro, c) ELSE micro
    BY <1>4, <1>5, Zenon DEF Settles, c
  <2>2. micro \in Seq(Calls)
    BY DEF OrderTyped
  <2>3. Append(micro, c) \in Seq(Calls) /\ Range(Append(micro, c)) = Range(micro) \cup {c}
    BY <2>1, <2>2, RangeAppend
  <2>4. /\ micro' \in Seq(Calls) /\ Range(micro) \subseteq Range(micro')
        /\ promise[c] = "pending" => c \in Range(micro')
    BY <2>1, <2>2, <2>3, Zenon
  <2>5. \A d \in Calls : \/ promise'[d] = promise[d]
                         \/ promise'[d] # "pending" /\ d \in Range(micro')
    <3>1. promise'[c] # promise[c] => promise[c] = "pending" /\ promise'[c] # "pending"
      BY <1>1, <2>1 DEF ChannelsTyped
    <3>2. \A d \in Calls \ {c} : promise'[d] = promise[d]
      BY <1>1, <2>1 DEF ChannelsTyped
    <3> QED
      BY <2>4, <3>1, <3>2, Zenon
  <2>6. /\ DOMAIN sents'["channel"] \subseteq DOMAIN sents["channel"]
        /\ \A id \in DOMAIN sents'["channel"] : sents'["channel"][id] = sents["channel"][id]
    <3>1. sents'["channel"] \in {sents["channel"],
                                 Restrict(sents["channel"], DOMAIN sents["channel"] \ {m.id})}
      BY <1>1, <2>1, Zenon DEF ChannelsTyped
    <3> QED
      BY <3>1, Zenon DEF Restrict
  <2> QED
    BY <1>2, <1>4, <2>4, <2>5, <2>6, Zenon DEF m, c
<1>6. CASE Ignored(ch, m) \/ Notified(ch, m)
  <2>1. UNCHANGED <<promise, micro>> /\ ~IsReply(m)
    BY <1>4, <1>6, Zenon DEF Ignored, Notified
  <2>2. sents' = [sents EXCEPT ![ch] = sents[ch]]
    BY <1>6, Zenon DEF Ignored, Notified
  <2>3. sents'["channel"] = sents["channel"]
    BY <1>1, <2>2, Zenon DEF ChannelsTyped
  <2>4. micro' \in Seq(Calls)
    BY <2>1 DEF OrderTyped
  <2> QED
    BY <1>2, <2>1, <2>3, <2>4, Zenon DEF m
<1> QED
  BY <1>3, <1>5, <1>6, Zenon

LEMMA ReadKeepsEntries ==
  ASSUME ReplyInv, OrderInv, NEW ch \in Channels, Read(ch), seen'["channel"] = seen["channel"]
  PROVE  /\ Done \subseteq Done' /\ ClosedSettled' /\ Entries(sents["channel"], promise, Done)'
         /\ LET m == Head(toNode[ch])
            IN  m \in Message /\ (ch = "channel" /\ IsReply(m) => m.of \in Done')
<1> DEFINE m == Head(toNode[ch])
<1>1. OrderTyped /\ ClosedSettled /\ Entries(sents["channel"], promise, Done)
  BY Zenon DEF OrderInv
<1>2. /\ m \in Message /\ Range(micro) \subseteq Range(micro')
      /\ \A c \in Calls : \/ promise'[c] = promise[c]
                          \/ promise'[c] # "pending" /\ c \in Range(micro')
      /\ DOMAIN sents'["channel"] \subseteq DOMAIN sents["channel"]
      /\ \A id \in DOMAIN sents'["channel"] : sents'["channel"][id] = sents["channel"][id]
      /\ IsReply(m) => /\ m.id \in DOMAIN sents[ch] /\ sents[ch][m.id] = m.of
                       /\ promise[m.of] = "pending" => m.of \in Range(micro')
  BY <1>1, ReadContinues, Zenon
<1> HIDE DEF m
<1>3. Done \subseteq Done' /\ Range(micro') \subseteq Done'
  BY <1>2, SMTT(30) DEF Done
<1>4. closed' = closed /\ \A c \in Requests : c \in Calls
  BY DEF Read, Calls
<1>5. ClosedSettled'
  BY <1>1, <1>2, <1>4, Zenon DEF ClosedSettled
<1>6. \A id \in DOMAIN sents["channel"] : sents["channel"][id] \in Calls
  BY <1>4, EntriesOfChannels, Zenon
<1>7. Entries(sents["channel"], promise, Done)'
  BY <1>1, <1>2, <1>3, <1>6, Zenon DEF Entries
<1>8. ch = "channel" /\ IsReply(m) => m.of \in Done'
  BY <1>1, <1>2, <1>3, Zenon DEF Entries
<1> QED
  BY <1>2, <1>3, <1>5, <1>7, <1>8, Zenon DEF m

LEMMA ReadEmits ==
  ASSUME ReplyInv, OrderTyped, NEW ch \in Channels, Read(ch)
  PROVE  LET m == Head(toNode[ch])
         IN  /\ seen' \in [Channels -> Seq(Items)] /\ seen'["channel"] = seen["channel"]
             /\ immediates' = IF ch = "channel" /\ ~IsReply(m) THEN Append(immediates, m.of)
                                                               ELSE immediates
<1> DEFINE m == Head(toNode[ch])
<1>1. ChannelsTyped /\ "channel" \in Channels /\ seen \in [Channels -> Seq(Items)]
  BY Zenon DEF ReplyInv, Channels, OrderTyped
<1>2. m \in Message
  BY <1>1, FirstTaken, Zenon
<1>3. Settles(ch, m) \/ Ignored(ch, m) \/ Notified(ch, m)
  BY ReadOne, Zenon
<1> HIDE DEF m
<1>4. \/ seen' = [seen EXCEPT ![ch] = seen[ch]]
         /\ immediates' = IF ch = "channel" /\ ~IsReply(m) THEN Append(immediates, m.of)
                                                           ELSE immediates
      \/ ch # "channel" /\ seen' = [seen EXCEPT ![ch] = Append(seen[ch], m.of)]
         /\ immediates' = immediates
  <2>1. CASE Settles(ch, m) \/ Ignored(ch, m)
    BY <2>1, Zenon DEF Settles, Ignored
  <2>2. CASE Notified(ch, m)
    BY <2>2 DEF Notified
  <2> QED
    BY <1>3, <2>1, <2>2, Zenon
<1>5. seen[ch] \in Seq(Items) /\ Append(seen[ch], m.of) \in Seq(Items)
  <2>1. seen[ch] \in Seq(Items) /\ m.of \in Items
    BY <1>1, <1>2, Zenon DEF Message
  <2> QED
    BY <2>1
<1>6. seen' \in [Channels -> Seq(Items)]
  BY <1>1, <1>4, <1>5, Zenon
<1>7. seen'["channel"] = seen["channel"]
  BY <1>1, <1>4, Zenon
<1>8. immediates' = IF ch = "channel" /\ ~IsReply(m) THEN Append(immediates, m.of)
                                                     ELSE immediates
  BY <1>4, Zenon
<1> QED
  BY <1>6, <1>7, <1>8, Zenon DEF m

LEMMA ReadPayloadKeepsOrder ==
  ASSUME ReplyInv, OrderInv, Read("payload"), UNCHANGED child
  PROVE  OrderInv'
<1>0. "payload" \in Channels /\ "channel" \in Channels \ {"payload"} /\ OrderTyped /\ ChannelsTyped
  BY DEF Channels, OrderInv, ReplyInv
<1>1. /\ seen' \in [Channels -> Seq(Items)] /\ seen'["channel"] = seen["channel"]
      /\ immediates' = immediates
  BY <1>0, ReadEmits
<1>2. Done \subseteq Done' /\ ClosedSettled' /\ Entries(sents["channel"], promise, Done)'
  BY <1>0, <1>1, ReadKeepsEntries, Zenon
<1>3. UNCHANGED <<notes, sent>>
  BY DEF Read
<1>4. toNode'["channel"] = toNode["channel"]
  BY <1>0, FirstTaken, Zenon
<1>5. micro' \in Seq(Calls)
  BY <1>0, ReadContinues, Zenon
<1>6. OrderTyped'
  BY <1>0, <1>1, <1>3, <1>5, Zenon DEF OrderTyped
<1>7. KnownNotes \subseteq KnownNotes' /\ sent'["channel"] = sent["channel"]
  BY <1>3 DEF KnownNotes
<1> QED
  BY <1>1, <1>2, <1>4, <1>6, <1>7, QuietKeepsOrder, Zenon

LEMMA ReadKeepsOrder ==
  ASSUME ReplyInv, OrderInv, Read("channel"), UNCHANGED child
  PROVE  OrderInv'
<1> DEFINE S == sent["channel"]
<1> DEFINE N == toNode["channel"]
<1> DEFINE m == Head(toNode["channel"])
<1>0. "channel" \in Channels /\ OrderTyped /\ ChannelsTyped
  BY DEF Channels, OrderInv, ReplyInv
<1>1. /\ seen' \in [Channels -> Seq(Items)] /\ seen'["channel"] = seen["channel"]
      /\ immediates' = IF ~IsReply(m) THEN Append(immediates, m.of) ELSE immediates
  BY <1>0, ReadEmits, Zenon
<1>2. /\ Done \subseteq Done' /\ ClosedSettled' /\ Entries(sents["channel"], promise, Done)'
      /\ m \in Message /\ (IsReply(m) => m.of \in Done')
  BY <1>0, <1>1, ReadKeepsEntries, Zenon
<1>3. UNCHANGED <<notes, sent>>
  BY DEF Read
<1>4. /\ Len(N) > 0 /\ N \in Seq(Message) /\ m = N[1]
      /\ toNode' = [toNode EXCEPT !["channel"] = Tail(@)]
  BY <1>0, FirstTaken, Zenon
<1>5. N' = Tail(N) /\ S' = S /\ S \in Seq(Items)
  BY <1>0, <1>3, <1>4, Zenon DEF ChannelsTyped, OrderTyped
<1>6. /\ Written(S, N) /\ Answered(S, Taken, Done) /\ NotesOnce(S)
      /\ NotesTaken(S, Taken, Reached) /\ First(S, seen["channel"])
      /\ (Range(S) \cup Reached) \cap Notes \subseteq KnownNotes
  BY Zenon DEF OrderInv
<1>7. N # <<>>
  BY <1>4
<1> HIDE DEF S, N, m
<1>8. /\ Written(S, Tail(N)) /\ Len(S) - Len(Tail(N)) = Len(S) - Len(N) + 1
      /\ Len(S) - Len(N) + 1 \in DOMAIN S /\ S[Len(S) - Len(N) + 1] = N[1].of
      /\ ~IsReply(N[1]) => N[1].of \in Notes
  BY <1>4, <1>5, <1>6, <1>7, WrittenTail, Zenon
<1>9. /\ Taken = Len(S) - Len(N) /\ Taken' = Taken + 1 /\ Taken \in Nat
      /\ Taken + 1 \in DOMAIN S /\ S[Taken + 1] = m.of
  <2>1. Taken = Len(S) - Len(N) /\ Taken' = Len(S) - Len(Tail(N))
    BY <1>5 DEF Taken, S, N
  <2>2. Taken \in Nat
    BY <1>4, <1>5, <1>6, <2>1 DEF Written
  <2> QED
    BY <1>4, <1>8, <2>1, <2>2, Zenon
<1>10. Written(sent["channel"], toNode["channel"])'
  BY <1>5, <1>8 DEF S, N
<1>11. Answered(S, Taken + 1, Done')
  <2>1. S[Taken + 1] \in Requests => IsReply(m)
    <3>1. \A c \in Requests : c \notin Notes
      BY CallsAreNoNotes DEF Calls
    <3> QED
      BY <1>4, <1>8, <1>9, <3>1, Zenon
  <2> QED
    BY <1>2, <1>6, <1>9, <2>1, AnsweredNext, Zenon
<1>12. Range(immediates') \subseteq Range(immediates) \cup {m.of} /\ immediates' \in Seq(Notes)
  <2>1. immediates \in Seq(Notes) /\ (~IsReply(m) => m.of \in Notes)
    BY <1>0, <1>4, <1>8, Zenon DEF OrderTyped
  <2>2. CASE IsReply(m)
    BY <1>1, <2>1, <2>2, Zenon
  <2>3. CASE ~IsReply(m)
    BY <1>1, <2>1, <2>3, RangeAppend
  <2> QED
    BY <2>2, <2>3
<1>13. Reached' \subseteq Reached \cup {m.of}
  BY <1>1, <1>12 DEF Reached
<1>14. NotesTaken(S, Taken + 1, Reached')
  <2> SUFFICES ASSUME NEW i \in DOMAIN S, S[i] \in Notes, S[i] \in Reached' PROVE i <= Taken + 1
    BY Zenon DEF NotesTaken
  <2>1. i \in Nat
    BY <1>5
  <2>2. CASE S[i] \in Reached
    BY <1>6, <1>9, <2>1, <2>2 DEF NotesTaken
  <2>3. CASE S[i] = m.of
    <3>1. i = Taken + 1
      BY <1>6, <1>9, <2>3, Zenon DEF NotesOnce
    <3> QED
      BY <1>9, <3>1
  <2> QED
    BY <1>13, <2>2, <2>3, Zenon
<1>15. (Range(S) \cup Reached') \cap Notes \subseteq KnownNotes'
  <2>1. m.of \in Range(S)
    BY <1>9, Zenon DEF Range
  <2>2. KnownNotes' = KnownNotes
    BY <1>3 DEF KnownNotes
  <2> QED
    BY <1>6, <1>13, <2>1, <2>2, Zenon
<1>16. OrderTyped'
  <2>1. micro' \in Seq(Calls)
    BY <1>0, ReadContinues, Zenon
  <2> QED
    BY <1>0, <1>1, <1>3, <1>12, <2>1, Zenon DEF OrderTyped
<1> QED
  BY <1>1, <1>2, <1>5, <1>6, <1>9, <1>10, <1>11, <1>14, <1>15, <1>16, Zenon DEF OrderInv, S

LEMMA RequestKeepsOrder ==
  ASSUME ReplyInv, OrderInv, NEW c \in Calls, Request(c), UNCHANGED child
  PROVE  OrderInv'
<1> DEFINE ch == ChannelOf(c)
<1> DEFINE id == NextId(nextId[ch])
<1>0. /\ "channel" \in Channels /\ ch \in Channels /\ OrderTyped /\ ClosedSettled
      /\ DOMAIN sents = Channels /\ DOMAIN promise = Calls
      /\ Entries(sents["channel"], promise, Done)
  BY DEF Channels, ChannelOf, OrderInv, ReplyInv, ChannelsTyped
<1>1. UNCHANGED <<closed, toNode, micro, immediates, notes, sent, seen>> /\ promise[c] = "none"
  BY Zenon DEF Request
<1>2. \/ promise' = [promise EXCEPT ![c] = "rejected"] /\ UNCHANGED sents
      \/ /\ promise' = [promise EXCEPT ![c] = "pending"] /\ ~closed[ch]
         /\ sents' = [sents EXCEPT ![ch] = Put(@, id, c)]
  BY DEF Request
<1> HIDE DEF id, ch
<1>3. OrderTyped' /\ Done' = Done /\ KnownNotes' = KnownNotes
  BY <1>0, <1>1 DEF OrderTyped, Done, KnownNotes
<1>4. /\ promise'[c] \in {"rejected", "pending"}
      /\ \A d \in Calls \ {c} : promise'[d] = promise[d]
  BY <1>0, <1>2
<1>5. ClosedSettled'
  <2>1. promise'[c] = "pending" /\ c \in Requests => ~closed["channel"]
    BY <1>0, <1>2 DEF ch, ChannelOf
  <2>2. \A d \in Requests : d \in Calls
    BY DEF Calls
  <2> QED
    BY <1>0, <1>1, <1>4, <2>1, <2>2, Zenon DEF ClosedSettled
<1>6. \A k \in DOMAIN sents'["channel"] :
        \/ k \in DOMAIN sents["channel"] /\ sents'["channel"][k] = sents["channel"][k]
        \/ sents'["channel"][k] = c /\ promise'[c] = "pending"
  <2>1. CASE UNCHANGED sents
    BY <2>1
  <2>2. CASE /\ promise' = [promise EXCEPT ![c] = "pending"]
             /\ sents' = [sents EXCEPT ![ch] = Put(@, id, c)]
    <3>1. promise'[c] = "pending"
      BY <1>0, <2>2
    <3>2. sents'["channel"] \in {sents["channel"], Put(sents["channel"], id, c)}
      BY <1>0, <2>2, Zenon
    <3> QED
      BY <3>1, <3>2, Zenon DEF Put
  <2> QED
    BY <1>2, <2>1, <2>2, Zenon
<1>7. \A k \in DOMAIN sents["channel"] : sents["channel"][k] \in Calls
  BY EntriesOfChannels, Zenon DEF Calls
<1>8. Entries(sents'["channel"], promise', Done)
  <2> SUFFICES ASSUME NEW k \in DOMAIN sents'["channel"]
               PROVE  promise'[sents'["channel"][k]] = "pending" \/ sents'["channel"][k] \in Done
    BY Zenon DEF Entries
  <2>1. CASE sents'["channel"][k] = c /\ promise'[c] = "pending"
    BY <2>1
  <2>2. CASE k \in DOMAIN sents["channel"] /\ sents'["channel"][k] = sents["channel"][k]
    <3>1. promise[sents["channel"][k]] = "pending" \/ sents["channel"][k] \in Done
      BY <1>0, <2>2, Zenon DEF Entries
    <3>2. promise[sents["channel"][k]] = "pending" => sents["channel"][k] \in Calls \ {c}
      BY <1>1, <1>7, <2>2, Zenon
    <3> QED
      BY <1>4, <2>2, <3>1, <3>2, Zenon
  <2> QED
    BY <1>6, <2>1, <2>2, Zenon
<1> QED
  BY <1>1, <1>3, <1>5, <1>8, QuietKeepsOrder, Zenon

\* close() on both channels: every pending request gets its continuation.
LEMMA ClosingKeepsOrder ==
  ASSUME ReplyInv, OrderInv, CloseBoth, KnownNotes \subseteq KnownNotes',
         UNCHANGED <<sents, toNode, immediates, sent, seen>>
  PROVE  OrderInv'
<1> DEFINE P == {c \in Requests : promise[c] = "pending"}
<1> DEFINE q == Listed(P)
<1>0. /\ OrderTyped /\ ClosedSettled /\ Entries(sents["channel"], promise, Done)
      /\ micro \in Seq(Calls) /\ \A c \in Requests : c \in Calls
  BY DEF OrderInv, OrderTyped, Calls
<1>1. q \in Seq(P) /\ Range(q) = P
  <2>1. IsFiniteSet(P)
    BY CallsAssumption, FS_Subset
  <2> QED
    BY <2>1, ListsAll, Zenon
<1>2. /\ promise' = [c \in Calls |-> IF c \in Range(q) THEN "rejected" ELSE promise[c]]
      /\ micro' = micro \o q \o <<>>
  BY Zenon DEF CloseBoth, CloseChannel, ClosePayloadChannel
<1> HIDE DEF q
<1>3. P \subseteq Calls /\ \A c \in Calls : c \in P => c \in Requests
  BY <1>0
<1>4. \A c \in Requests : promise[c] = "pending" <=> c \in P
  OBVIOUS
<1> HIDE DEF P
<1>5. q \in Seq(Calls)
  BY <1>1, <1>3
<1>6. micro' = micro \o q /\ micro' \in Seq(Calls)
  BY <1>0, <1>2, <1>5
<1>7. Range(micro') = Range(micro) \cup P
  BY <1>0, <1>1, <1>5, <1>6, RangeConcat, ZenonT(60)
<1>8. Done \subseteq Done' /\ P \subseteq Done'
  BY <1>7 DEF Done
<1>9. OrderTyped'
  BY <1>0, <1>6 DEF OrderTyped
<1>10. \A c \in Requests : promise'[c] = IF c \in P THEN "rejected" ELSE promise[c]
  BY <1>0, <1>1, <1>2, Zenon
<1>11. ClosedSettled'
  BY <1>4, <1>10 DEF ClosedSettled
<1>12. Entries(sents["channel"], promise, Done)'
  BY <1>0, <1>4, <1>8, EntriesOfChannels, Zenon DEF Entries
<1> QED
  BY <1>8, <1>9, <1>11, <1>12, QuietKeepsOrder, Zenon

\* The sockets are destroyed: unread responses belonged to rejected requests.
LEMMA DestroyKeepsOrder ==
  ASSUME ReplyInv, OrderInv, DestroySockets, UNCHANGED child
  PROVE  OrderInv'
<1> DEFINE S == sent["channel"]
<1> DEFINE N == toNode["channel"]
<1>0. /\ "channel" \in Channels /\ closed["channel"]
      /\ toNode' = [ch \in Channels |-> <<>>]
      /\ UNCHANGED <<closed, sents, promise, micro, immediates, notes, sent, seen>>
  BY DEF DestroySockets, Channels
<1>1. /\ OrderTyped /\ ClosedSettled /\ Entries(sents["channel"], promise, Done)
      /\ Written(S, N) /\ Answered(S, Taken, Done) /\ NotesOnce(S)
      /\ First(S, seen["channel"]) /\ (Range(S) \cup Reached) \cap Notes \subseteq KnownNotes
  BY Zenon DEF OrderInv
<1>2. S \in Seq(Items) /\ N \in Seq(Message) /\ toNode'["channel"] = <<>>
  BY <1>0, <1>1, Zenon DEF OrderTyped, ReplyInv, ChannelsTyped
<1>3. /\ OrderTyped' /\ ClosedSettled' /\ Done' = Done /\ Reached' = Reached
      /\ KnownNotes' = KnownNotes /\ Entries(sents["channel"], promise, Done)'
  BY <1>0, <1>1 DEF OrderTyped, ClosedSettled, Done, Reached, KnownNotes
<1>4. InFlight("channel")
  BY <1>0, Zenon DEF ReplyInv
<1>5. ASSUME NEW i \in DOMAIN N, N[i].of \in Requests PROVE N[i].of \in Done
  <2>1. N[i].of \notin Notes
    BY <1>5, CallsAreNoNotes DEF Calls
  <2>2. IsReply(N[i])
    BY <1>1, <2>1, Zenon DEF Written
  <2>3. N[i].id \in DOMAIN sents["channel"] /\ sents["channel"][N[i].id] = N[i].of
    BY <1>4, <2>2, ZenonT(60) DEF InFlight, Matched, Registered, IsReply
  <2> QED
    BY <1>0, <1>1, <1>5, <2>3, Zenon DEF ClosedSettled, Entries
<1>6. Len(S) \in Nat /\ Len(N) \in Nat /\ Len(N) <= Len(S) /\ DOMAIN N = 1..Len(N)
  BY <1>1, <1>2 DEF Written
<1>7. Taken = Len(S) - Len(N) /\ Taken' = Len(S)
  <2>1. Len(<<>>) = 0 /\ Len(S) - 0 = Len(S)
    BY <1>6
  <2> QED
    BY <1>0, <1>2, <2>1, Zenon DEF Taken
<1> HIDE DEF S, N
<1>8. Answered(S, Len(S), Done)
  <2> SUFFICES ASSUME NEW i \in 1..Len(S), S[i] \in Requests PROVE S[i] \in Done
    BY Zenon DEF Answered
  <2>1. CASE i <= Taken
    <3>1. i \in 1..Taken
      BY <1>6, <1>7, <2>1
    <3> QED
      BY <1>1, <3>1, Zenon DEF Answered
  <2>2. CASE ~(i <= Taken)
    <3>1. i - Taken \in DOMAIN N /\ Len(S) - Len(N) + (i - Taken) = i
      BY <1>6, <1>7, <2>2
    <3>2. N[i - Taken].of = S[i]
      BY <1>1, <3>1, Zenon DEF Written
    <3> QED
      BY <1>5, <3>1, <3>2, Zenon
  <2> QED
    BY <2>1, <2>2
<1>9. NotesTaken(S, Len(S), Reached)
  <2>1. \A i \in DOMAIN S : i <= Len(S)
    BY <1>2
  <2> QED
    BY <2>1, Zenon DEF NotesTaken
<1>10. Written(S, <<>>)
  BY <1>6 DEF Written
<1>11. /\ Written(sent["channel"], toNode["channel"])' /\ Answered(sent["channel"], Taken, Done)'
       /\ NotesTaken(sent["channel"], Taken, Reached)'
  BY <1>0, <1>2, <1>3, <1>7, <1>8, <1>9, <1>10, Zenon DEF S
<1> QED
  BY <1>0, <1>1, <1>3, <1>11, Zenon DEF OrderInv, S

LEMMA ContinueKeepsOrder ==
  ASSUME ReplyInv, OrderInv, Continue, UNCHANGED child
  PROVE  OrderInv'
<1> DEFINE c == Head(micro)
<1> DEFINE E == seen["channel"]
<1>0. /\ "channel" \in Channels /\ ChannelOf(c) \in Channels /\ micro # <<>>
      /\ micro' = Tail(micro)
      /\ seen' = [seen EXCEPT ![ChannelOf(c)] = Append(@, c)]
      /\ UNCHANGED <<closed, sents, promise, toNode, immediates, notes, sent>>
  BY DEF Continue, Channels, ChannelOf
<1>1. /\ OrderTyped /\ Entries(sents["channel"], promise, Done)
      /\ Written(sent["channel"], toNode["channel"]) /\ ClosedSettled
      /\ Answered(sent["channel"], Taken, Done) /\ NotesOnce(sent["channel"])
      /\ NotesTaken(sent["channel"], Taken, Reached)
      /\ First(sent["channel"], E)
      /\ (Range(sent["channel"]) \cup Reached) \cap Notes \subseteq KnownNotes
  BY Zenon DEF OrderInv
<1>2. micro \in Seq(Calls) /\ seen \in [Channels -> Seq(Items)] /\ E \in Seq(Items)
  BY <1>0, <1>1, Zenon DEF OrderTyped
<1>3. c \in Calls /\ Tail(micro) \in Seq(Calls) /\ Range(micro) = {c} \cup Range(Tail(micro))
  BY <1>0, <1>2, RangeTail
<1> HIDE DEF c
<1>4. c \in Items /\ c \notin Notes
  BY <1>3, CallsAreNoNotes DEF Items
<1>5. IF c \in Requests THEN seen'["channel"] = Append(E, c) ELSE seen'["channel"] = E
  BY <1>0, <1>2, Zenon DEF ChannelOf
<1>6. seen' \in [Channels -> Seq(Items)]
  <2>1. seen[ChannelOf(c)] \in Seq(Items)
    BY <1>0, <1>2, Zenon
  <2>2. Append(seen[ChannelOf(c)], c) \in Seq(Items)
    BY <1>4, <2>1
  <2> QED
    BY <1>0, <1>2, <2>2, Zenon
<1> HIDE DEF E
<1>7. Range(seen'["channel"]) = Range(E) \cup ({c} \cap Requests)
  <2>1. CASE c \in Requests
    <3>1. Range(Append(E, c)) = Range(E) \cup {c}
      BY <1>2, <1>4, RangeAppend, ZenonT(60)
    <3> QED
      BY <1>5, <2>1, <3>1, Zenon
  <2>2. CASE c \notin Requests
    BY <1>5, <2>2
  <2> QED
    BY <2>1, <2>2
<1>8. \A d \in Requests : d \in Done => d \in Done'
  BY <1>0, <1>3, <1>7, Zenon DEF Done, E
<1>9. \A n \in Notes : n \in Reached' => n \in Reached
  BY <1>0, <1>4, <1>7, Zenon DEF Reached, E
<1>10. Entries(sents["channel"], promise, Done)'
  BY <1>0, <1>1, <1>8, EntriesOfChannels, Zenon DEF Entries
<1>11. Taken' = Taken /\ KnownNotes' = KnownNotes /\ ClosedSettled'
  BY <1>0, <1>1 DEF Taken, KnownNotes, ClosedSettled
<1>12. Answered(sent["channel"], Taken, Done')
  BY <1>1, <1>8, Zenon DEF Answered
<1>13. NotesTaken(sent["channel"], Taken, Reached')
  BY <1>1, <1>9, Zenon DEF NotesTaken
<1>14. (Range(sent["channel"]) \cup Reached') \cap Notes \subseteq KnownNotes
  BY <1>1, <1>9, Zenon
<1>15. First(sent["channel"], seen'["channel"])
  <2>1. CASE c \in Requests
    <3>1. First(sent["channel"], Append(E, c))
      BY <1>1, <1>2, <1>4, <2>1, FirstSeenAppend, Zenon
    <3> QED
      BY <1>5, <2>1, <3>1, Zenon
  <2>2. CASE c \notin Requests
    BY <1>1, <1>5, <2>2, Zenon
  <2> QED
    BY <2>1, <2>2
<1>16. OrderTyped'
  BY <1>0, <1>1, <1>3, <1>6, Zenon DEF OrderTyped
<1> QED
  BY <1>0, <1>1, <1>10, <1>11, <1>12, <1>13, <1>14, <1>15, <1>16, Zenon DEF OrderInv

\* A notification is emitted when no continuation is waiting.
LEMMA ImmediateKeepsOrder ==
  ASSUME ReplyInv, OrderInv, RunImmediate, UNCHANGED child
  PROVE  OrderInv'
<1> DEFINE n == Head(immediates)
<1> DEFINE S == sent["channel"]
<1> DEFINE E == seen["channel"]
<1>0. /\ "channel" \in Channels /\ micro = <<>> /\ immediates # <<>>
      /\ immediates' = Tail(immediates)
      /\ seen' = [seen EXCEPT !["channel"] = Append(@, n)]
      /\ UNCHANGED <<closed, sents, promise, toNode, micro, notes, sent>>
  BY DEF RunImmediate, NextCallback, Channels
<1>1. /\ OrderTyped /\ Entries(sents["channel"], promise, Done)
      /\ Written(S, toNode["channel"]) /\ ClosedSettled
      /\ Answered(S, Taken, Done) /\ NotesOnce(S) /\ NotesTaken(S, Taken, Reached)
      /\ First(S, E) /\ (Range(S) \cup Reached) \cap Notes \subseteq KnownNotes
  BY Zenon DEF OrderInv
<1>2. /\ immediates \in Seq(Notes) /\ seen \in [Channels -> Seq(Items)] /\ E \in Seq(Items)
      /\ S \in Seq(Items)
  BY <1>0, <1>1, Zenon DEF OrderTyped
<1>3. /\ n \in Notes /\ Tail(immediates) \in Seq(Notes)
      /\ Range(immediates) = {n} \cup Range(Tail(immediates))
  BY <1>0, <1>2, RangeTail
<1> HIDE DEF n
<1>4. n \in Items /\ n \notin Requests
  BY <1>3, CallsAreNoNotes DEF Items, Calls
<1>5. seen'["channel"] = Append(E, n)
  BY <1>0, <1>2, Zenon
<1>6. Append(E, n) \in Seq(Items)
  BY <1>2, <1>4
<1>7. seen' \in [Channels -> Seq(Items)]
  BY <1>0, <1>2, <1>6, Zenon
<1>8. Range(seen'["channel"]) = Range(E) \cup {n}
  BY <1>2, <1>4, <1>5, RangeAppend, ZenonT(60)
<1>9. Done \subseteq Done' /\ Reached' = Reached
  BY <1>0, <1>3, <1>8, Zenon DEF Done, Reached
<1>10. Entries(sents["channel"], promise, Done)'
  BY <1>0, <1>1, <1>9, Zenon DEF Entries
<1>11. Taken' = Taken /\ KnownNotes' = KnownNotes /\ ClosedSettled'
  BY <1>0, <1>1 DEF Taken, KnownNotes, ClosedSettled
<1>12. Answered(S, Taken, Done')
  BY <1>1, <1>9, Zenon DEF Answered
<1>13. Done = Range(E)
  <2>1. Range(<<>>) = {}
    BY DEF Range
  <2> QED
    BY <1>0, <2>1, Zenon DEF Done
<1>14. n \in Reached
  BY <1>3, Zenon DEF Reached
<1>15. Taken \in Int /\ \A i \in DOMAIN S : i \in Nat \ {0}
  <2>1. toNode["channel"] \in Seq(Message)
    BY <1>0, Zenon DEF ReplyInv, ChannelsTyped
  <2> QED
    BY <1>2, <2>1 DEF Taken
<1> HIDE DEF S, E
<1>16. First(S, Append(E, n))
  <2>1. ASSUME NEW i \in DOMAIN S, NEW j \in DOMAIN S, i < j, S[i] \in Requests, S[j] = n
        PROVE  S[i] \in Range(E)
    <3>1. j <= Taken
      BY <1>1, <1>3, <1>14, <2>1, Zenon DEF NotesTaken
    <3>2. i \in 1..Taken
      BY <1>15, <2>1, <3>1
    <3> QED
      BY <1>1, <1>13, <2>1, <3>2, Zenon DEF Answered
  <2> QED
    BY <1>1, <1>2, <1>4, <2>1, FirstSeenAppend, Zenon
<1>17. OrderTyped'
  BY <1>0, <1>1, <1>3, <1>7, Zenon DEF OrderTyped
<1> QED
  BY <1>0, <1>1, <1>5, <1>9, <1>10, <1>11, <1>12, <1>16, <1>17, Zenon DEF OrderInv, S

LEMMA WriteKeepsOrder ==
  ASSUME ReplyInv, OrderInv, NEW ch \in Channels, NEW m \in Message, WorkerWrites(ch, m),
         UNCHANGED <<closed, sents, promise, micro, immediates, seen>>,
         KnownNotes \subseteq KnownNotes',
         ch = "channel" => \/ IsReply(m) /\ m.of \in Requests
                           \/ m.of \in Notes /\ m.of \notin KnownNotes /\ m.of \in KnownNotes'
  PROVE  OrderInv'
<1> DEFINE S == sent["channel"]
<1> DEFINE N == toNode["channel"]
<1>0. /\ "channel" \in Channels /\ m.of \in Items
      /\ toNode' = [toNode EXCEPT ![ch] = Append(@, m)]
      /\ sent' = [sent EXCEPT ![ch] = Append(@, m.of)]
  BY DEF WorkerWrites, Channels, Message
<1>1. /\ OrderTyped /\ ClosedSettled /\ Entries(sents["channel"], promise, Done)
      /\ Written(S, N) /\ Answered(S, Taken, Done) /\ NotesOnce(S)
      /\ NotesTaken(S, Taken, Reached) /\ First(S, seen["channel"])
      /\ (Range(S) \cup Reached) \cap Notes \subseteq KnownNotes
  BY Zenon DEF OrderInv
<1>2. /\ sent \in [Channels -> Seq(Items)] /\ DOMAIN toNode = Channels
      /\ S \in Seq(Items) /\ N \in Seq(Message) /\ sent[ch] \in Seq(Items)
  BY <1>0, <1>1, ZenonT(60) DEF OrderTyped, ReplyInv, ChannelsTyped
<1>3. /\ Done' = Done /\ Reached' = Reached /\ ClosedSettled'
      /\ Entries(sents["channel"], promise, Done)'
  BY <1>1, Zenon DEF Done, Reached, ClosedSettled
<1>4. OrderTyped'
  <2>1. Append(sent[ch], m.of) \in Seq(Items)
    BY <1>0, <1>2
  <2>2. sent' \in [Channels -> Seq(Items)]
    BY <1>0, <1>2, <2>1, Zenon
  <2> QED
    BY <1>1, <2>2, Zenon DEF OrderTyped
<1>5. CASE ch # "channel"
  <2>1. sent'["channel"] = sent["channel"] /\ toNode'["channel"] = toNode["channel"]
    BY <1>0, <1>2, <1>5, Zenon
  <2>2. Done \subseteq Done' /\ seen'["channel"] = seen["channel"] /\ immediates' = immediates
    BY <1>3
  <2> QED
    BY <1>3, <1>4, <2>1, <2>2, QuietKeepsOrder, Zenon
<1>6. CASE ch = "channel"
  <2>1. S' = Append(S, m.of) /\ N' = Append(N, m)
    BY <1>0, <1>2, <1>6, ZenonT(60)
  <2> HIDE DEF S, N
  <2>2. /\ Len(S) \in Nat /\ Len(N) \in Nat /\ Len(N) <= Len(S)
        /\ Len(Append(S, m.of)) = Len(S) + 1 /\ Len(Append(N, m)) = Len(N) + 1
    BY <1>0, <1>1, <1>2 DEF Written
  <2>3. Taken = Len(S) - Len(N) /\ Taken' = (Len(S) + 1) - (Len(N) + 1)
    BY <2>1, <2>2, Zenon DEF Taken, S, N
  <2>4. Taken' = Taken /\ Taken \in Nat /\ Taken <= Len(S)
    BY <2>2, <2>3
  <2>5. \/ IsReply(m) /\ m.of \in Requests
        \/ m.of \in Notes /\ m.of \notin KnownNotes /\ m.of \in KnownNotes'
    BY <1>6
  <2>6. m.of \in Notes => m.of \notin Range(S) \cup Reached /\ m.of \in KnownNotes'
    <3>1. m.of \in Requests => m.of \notin Notes
      BY CallsAreNoNotes DEF Calls
    <3> QED
      BY <1>1, <2>5, <3>1, Zenon
  <2>7. Written(Append(S, m.of), Append(N, m))
    BY <1>1, <1>2, <2>5, WrittenAppend, Zenon
  <2>8. /\ Answered(Append(S, m.of), Taken, Done) /\ NotesOnce(Append(S, m.of))
        /\ NotesTaken(Append(S, m.of), Taken, Reached)
    BY <1>0, <1>1, <1>2, <2>4, <2>6, SentAppend, Zenon
  <2>9. First(Append(S, m.of), seen["channel"])
    <3>1. m.of \in Requests \/ m.of \notin Range(seen["channel"])
      BY <2>5, <2>6, Zenon DEF Reached
    <3> QED
      BY <1>0, <1>1, <1>2, <3>1, FirstSentAppend, Zenon
  <2>10. (Range(Append(S, m.of)) \cup Reached) \cap Notes \subseteq KnownNotes'
    <3>1. Range(Append(S, m.of)) = Range(S) \cup {m.of}
      BY <1>0, <1>2, RangeAppend
    <3> QED
      BY <1>1, <2>6, <3>1, Zenon
  <2>11. /\ Written(sent["channel"], toNode["channel"])'
         /\ Answered(sent["channel"], Taken, Done)' /\ NotesOnce(sent["channel"])'
         /\ NotesTaken(sent["channel"], Taken, Reached)'
    BY <1>3, <2>1, <2>4, <2>7, <2>8, Zenon DEF S, N
  <2>12. /\ First(sent["channel"], seen["channel"])'
         /\ ((Range(sent["channel"]) \cup Reached) \cap Notes \subseteq KnownNotes)'
    BY <1>3, <2>1, <2>9, <2>10, Zenon DEF S
  <2> QED
    BY <1>3, <1>4, <2>11, <2>12, Zenon DEF OrderInv
<1> QED
  BY <1>5, <1>6

LEMMA OrderStep ==
  ASSUME ReplyInv, OrderInv, [Next]_vars
  PROVE  OrderInv'
<1>0. ChannelsTyped /\ notes \in Nat /\ "channel" \in Channels
  BY DEF ReplyInv, ChannelsTyped, Channels
<1>1. CASE (ReadChannel \/ ReadPayloadChannel \/ Continue) /\ UNCHANGED wvars
  <2>1. UNCHANGED child
    BY <1>1 DEF wvars
  <2> QED
    BY <1>1, <2>1, ReadKeepsOrder, ReadPayloadKeepsOrder, ContinueKeepsOrder, Zenon
       DEF ReadChannel, ReadPayloadChannel
<1>2. CASE OtherImmediate \/ OnRunning
  <2>1. RunImmediate /\ UNCHANGED child
    BY <1>2 DEF OtherImmediate, OnRunning, wvars
  <2> QED
    BY <2>1, ImmediateKeepsOrder, Zenon
<1>3. CASE Ask
  <2>1. PICK c \in Calls : Request(c)
    BY <1>3 DEF Ask
  <2>2. UNCHANGED child
    BY <1>3 DEF Ask, wvars
  <2> QED
    BY <2>1, <2>2, RequestKeepsOrder, Zenon
<1>4. CASE OnChildGone \/ CloseWorker
  <2> DEFINE w == [worker EXCEPT !.child = FALSE]
  <2>1. /\ UNCHANGED <<sents, toNode, immediates, notes, sent, seen>>
        /\ Close(w) \/ Died(w) \/ Close(worker)
    BY <1>4, Zenon DEF OnChildGone, CloseWorker
  <2> HIDE DEF w
  <2>2. /\ child' \in {child, "exited"}
        /\ CloseBoth \/ UNCHANGED <<closed, promise, micro>>
    BY <2>1, Zenon DEF Close, Died
  <2>3. KnownNotes \subseteq KnownNotes'
    BY <2>1, <2>2 DEF KnownNotes
  <2>4. CASE CloseBoth
    BY <2>1, <2>3, <2>4, ClosingKeepsOrder, Zenon
  <2>5. CASE UNCHANGED <<closed, promise, micro>>
    <3>1. /\ OrderTyped' /\ Done \subseteq Done' /\ ClosedSettled'
          /\ Entries(sents["channel"], promise, Done)'
      BY <2>1, <2>5 DEF OrderInv, OrderTyped, Done, ClosedSettled
    <3> QED
      BY <2>1, <2>3, <3>1, QuietKeepsOrder, Zenon
  <2> QED
    BY <2>2, <2>4, <2>5, Zenon
<1>5. CASE ProcessStops \/ UNCHANGED vars
  <2>1. UNCHANGED <<closed, sents, promise, toNode, micro, immediates, notes, sent, seen>>
    BY <1>5 DEF ProcessStops, vars, chvars
  <2>2. child' \in {child, "exited", "unspawned"}
    BY <1>5 DEF ProcessStops, vars, wvars
  <2>3. KnownNotes \subseteq KnownNotes'
    BY <2>1, <2>2, Zenon DEF KnownNotes
  <2>4. /\ OrderTyped' /\ Done \subseteq Done' /\ ClosedSettled'
        /\ Entries(sents["channel"], promise, Done)'
    BY <2>1 DEF OrderInv, OrderTyped, Done, ClosedSettled
  <2> QED
    BY <2>1, <2>3, <2>4, QuietKeepsOrder, Zenon
<1>6. CASE DestroySockets /\ UNCHANGED wvars
  BY <1>6, DestroyKeepsOrder DEF wvars
<1>7. CASE ProcessRuns
  <2>1. /\ WorkerWrites("channel", Note(Running)) /\ child = "starting" /\ child' = "running"
        /\ UNCHANGED <<closed, sents, promise, micro, immediates, seen, notes>>
    BY <1>7 DEF ProcessRuns
  <2>2. /\ Note(Running) \in Message /\ Note(Running).of \in Notes
        /\ Note(Running).of \notin KnownNotes /\ Note(Running).of \in KnownNotes'
        /\ KnownNotes \subseteq KnownNotes'
    BY <1>0, <2>1 DEF Note, Running, Message, Items, Notes, KnownNotes
  <2> QED
    BY <1>0, <2>1, <2>2, WriteKeepsOrder, Zenon
<1>8. CASE WorkerNotifies /\ UNCHANGED wvars
  <2>1. /\ notes' = notes + 1 /\ child' = child
        /\ UNCHANGED <<closed, sents, promise, micro, immediates, seen>>
    BY <1>8 DEF WorkerNotifies, wvars
  <2>2. PICK ch \in Channels : WorkerWrites(ch, Note(notes + 1))
    BY <1>8 DEF WorkerNotifies
  <2>3. /\ Note(notes + 1) \in Message /\ Note(notes + 1).of \in Notes
        /\ Note(notes + 1).of \notin KnownNotes /\ Note(notes + 1).of \in KnownNotes'
    BY <1>0, <2>1 DEF Note, Running, Message, Items, Notes, KnownNotes
  <2>4. KnownNotes \subseteq KnownNotes'
    BY <1>0, <2>1 DEF KnownNotes
  <2> QED
    BY <2>1, <2>2, <2>3, <2>4, WriteKeepsOrder, Zenon
<1>9. CASE WorkerAnswers /\ UNCHANGED wvars
  <2>1. /\ notes' = notes /\ child' = child
        /\ UNCHANGED <<closed, sents, promise, micro, immediates, seen>>
    BY <1>9 DEF WorkerAnswers, wvars
  <2>2. PICK ch \in Channels, ok \in BOOLEAN :
          /\ toWorker[ch] # <<>>
          /\ WorkerWrites(ch, Reply(Head(toWorker[ch])[1], Head(toWorker[ch])[2], ok))
    BY <1>9, Zenon DEF WorkerAnswers
  <2> DEFINE q == Head(toWorker[ch])
  <2> DEFINE m == Reply(q[1], q[2], ok)
  <2>3. InFlight(ch) /\ toWorker[ch] \in Seq(Asked)
    BY <1>0, Zenon DEF ReplyInv, ChannelsTyped
  <2>4. q \in Asked /\ q = toWorker[ch][1] /\ 1 \in DOMAIN toWorker[ch]
    BY <2>2, <2>3
  <2>5. Registered(ch, sents[ch], q[1], q[2]) /\ q[1] \in 1..MaxId
    BY <2>3, <2>4, Zenon DEF InFlight, Matched, Registered
  <2> HIDE DEF q
  <2>6. m \in Message /\ m.of = q[2] /\ IsReply(m)
    BY <2>4, <2>5, BoundsAssumption DEF Reply, Message, IsReply, Asked, Items
  <2>7. ch = "channel" => m.of \in Requests
    BY <2>5, <2>6, Zenon DEF Registered, ChannelOf
  <2>8. KnownNotes \subseteq KnownNotes'
    BY <2>1 DEF KnownNotes
  <2>9. WorkerWrites(ch, m)
    BY <2>2, Zenon DEF q
  <2> HIDE DEF m
  <2> QED
    BY <2>1, <2>6, <2>7, <2>8, <2>9, WriteKeepsOrder, Zenon
<1> QED
  BY <1>1, <1>2, <1>3, <1>4, <1>5, <1>6, <1>7, <1>8, <1>9, Zenon DEF Next, EventLoop, ChildSteps

\* A notification that the worker sends after a response to a request on Channel
\* reaches the application after the continuation of that response has run: for
\* any number of requests and notifications, in every split of the messages over
\* 'data' callbacks, also when close() rejects requests whose responses are on
\* their way (setImmediate() in Channel.processMessage; Channel.close()).
THEOREM ContinuationsRunFirst == Spec => []RepliesFirst
<1>1. OrderInv => RepliesFirst
  BY Zenon DEF OrderInv, First, RepliesFirst, SeenBefore
<1>2. Spec => []OrderInv
  BY ReplyAlways, OrderInit, OrderStep, PTL DEF Spec
<1> QED
  BY <1>1, <1>2, PTL
=============================================================================
