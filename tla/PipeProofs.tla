----------------------------- MODULE PipeProofs -----------------------------
(***************************************************************************)
(* pipeToRouter() and the listeners that it installs: one event loop and   *)
(* the two workers of the two Routers.                                     *)
(*                                                                         *)
(* FailedLeavesNothing and PipedTogether are about states in which nothing *)
(* is on its way.  The invariants say what they were before.  FailInv: a   *)
(* request that creates something is answered once, to the call that waits *)
(* for it (AskedOnce, Steps), and what a worker has is in the library,     *)
(* about to be, or about to be closed (Owned).  PipeInv adds what is known *)
(* of the flags and of the ends: the last of the messages on their way says*)
(* what the worker has (Known, by After), who has lost its source is about *)
(* to be told (Ended), and, when the Producer is left alone until          *)
(* pipeToRouter() has returned (Early), the orders on their way to the     *)
(* second worker end with what the pipe Consumer was told (Together).      *)
(***************************************************************************)
EXTENDS PipeProducer, TLAPS

-----------------------------------------------------------------------------
(* Messages in a sequence that belong to a set X.                          *)

Has(s, X)        == \E i \in DOMAIN s : s[i] \in X
Once(s, X)       == \A i, j \in DOMAIN s : s[i] \in X /\ s[j] \in X => i = j
Ordered(s, X, Y) == \A i, j \in DOMAIN s : s[i] \in X /\ s[j] \in Y => i < j
IsLast(s, X, i)  == i \in DOMAIN s /\ s[i] \in X /\ \A j \in DOMAIN s : j > i => s[j] \notin X

Creations == {"consume", "produce"}
Changes   == {"pause", "resume"}

\* What a message says of a source: whether it is paused.
Says(m) == IF m.op \in Creations THEN m.paused ELSE m.op \in {"pause", "producerpause"}

\* The value of a flag that was v, after the messages of s that belong to X.  (One of
\* them is the last, which the proofs do not need.)
After(s, X, v) ==
  IF \E i \in DOMAIN s : IsLast(s, X, i)
  THEN Says(s[CHOOSE i \in DOMAIN s : IsLast(s, X, i)])
  ELSE IF Has(s, X) THEN FALSE ELSE v

Requests  == [op : Creations \cup Changes \cup {"close", "closePipe"}, paused : BOOLEAN]
Responses == [from : Workers, op : Creations \cup Changes, ok : BOOLEAN, paused : BOOLEAN]
Notes     == [from : Workers, op : {"producerpause", "producerresume", "producerclose"}]
From(w)   == {m \in Responses \cup Notes : m.from = w}

Ask(op)    == {m \in Requests : m.op = op}
Got(w, op) == {m \in Responses : m.from = w /\ m.op = op}
Yes(w, op) == {m \in Got(w, op) : m.ok}
Told(w)    == {m \in Notes : m.from = w}
Ends(w)    == {m \in Told(w) : m.op = "producerclose"}

\* What tells the library about the source of w, and what tells its reader.
OfSource(w) == Yes(w, "pause") \cup Yes(w, "resume") \cup Yes(w, "produce")
OfReader(w) == Yes(w, "consume") \cup (Told(w) \ Ends(w))
\* What makes the source of w paused or not.
Orders == Ask("pause") \cup Ask("resume") \cup Ask("produce")

PipeTyped ==
  /\ data \in BOOLEAN /\ patient \in BOOLEAN /\ wired \in BOOLEAN
  /\ producer \in [closed : BOOLEAN, paused : BOOLEAN]
  /\ consumer \in [state : {"none", "open", "closed"}, producerPaused : BOOLEAN]
  /\ pipe \in [state : {"none", "open", "closed"}, paused : BOOLEAN]
  /\ sink \in [state : {"none", "consuming", "open", "closed"}, producerPaused : BOOLEAN]
  /\ step \in {"consume", "produce", "sync", "done", "failed"}
  /\ process \in [live : SUBSET {"producer", "consumer", "pipe", "sink"},
                  paused : SUBSET {"producer", "pipe"}]
  /\ toWorker \in [Workers -> Seq(Requests)]
  /\ toNode \in [Workers -> Seq(Responses \cup Notes)]
  /\ \A w \in Workers : toNode[w] \in Seq(From(w))
  /\ left \in [Workers -> Nat] /\ \A w \in Workers : left[w] <= Len(toNode[w])
  /\ micro \in Seq(Responses) /\ immediates \in Seq(Notes)

\* Who waits for the answer to a request that creates something.
Waits(w, op) ==
  \/ w = 1 /\ op = "consume" /\ step = "consume"
  \/ w = 2 /\ op = "produce" /\ step = "produce"
  \/ w = 2 /\ op = "consume" /\ sink.state = "consuming"

\* A request that creates something, or its response, is on its way.
Pending(w, op) ==
  Has(toWorker[w], Ask(op)) \/ Has(toNode[w], Got(w, op)) \/ Has(micro, Got(w, op))

\* One of them.
Single(w, op) ==
  /\ ~(Has(toWorker[w], Ask(op)) /\ Has(toNode[w], Got(w, op)))
  /\ ~(Has(toWorker[w], Ask(op)) /\ Has(micro, Got(w, op)))
  /\ ~(Has(toNode[w], Got(w, op)) /\ Has(micro, Got(w, op)))
  /\ Once(toWorker[w], Ask(op)) /\ Once(toNode[w], Got(w, op)) /\ Once(micro, Got(w, op))

AskedOnce ==
  \A w \in Workers, op \in Creations : Single(w, op) /\ (Pending(w, op) => Waits(w, op))

\* Where pipeToRouter() is.
Steps ==
  /\ wired <=> step = "done"
  /\ step = "consume" => consumer.state = "none"
  /\ step \in {"produce", "sync", "done"} => consumer.state # "none"
  /\ step \in {"consume", "produce"} => pipe.state = "none"
  /\ step = "sync" => pipe.state = "open"
  /\ step = "done" => pipe.state # "none"
  /\ step = "failed" => consumer.state # "open" /\ pipe.state # "open"
  /\ step # "done" => sink.state = "none"

\* The worker has accepted and the continuation has not run.
Coming(w, op) == Has(toNode[w], Yes(w, op)) \/ Has(micro, Yes(w, op))

Closing(w) == Has(toWorker[w], Ask("closePipe"))

\* What the workers have is in the library, about to be, or about to be closed.
Owned ==
  /\ "consumer" \in process.live => consumer.state = "open" \/ Coming(1, "consume") \/ Closing(1)
  /\ "pipe" \in process.live => pipe.state = "open" \/ Coming(2, "produce") \/ Closing(2)
  /\ "sink" \in process.live =>
       sink.state # "none" /\ (sink.state = "consuming" => Coming(2, "consume"))

\* A notification is on its way to the reader.
Hears(w)  == Has(toNode[w], Told(w)) \/ Has(immediates, Told(w))
Ending(w) == Has(toNode[w], Ends(w)) \/ Has(immediates, Ends(w))

\* Nobody is told before it is there.
InOrder ==
  \A w \in Workers :
    /\ Has(toWorker[w], Ask("consume")) => Reader(w) \notin process.live /\ ~Hears(w)
    /\ Ordered(toNode[w], Got(w, "consume"), Told(w))
    /\ Has(toNode[w], Got(w, "consume")) => ~Has(immediates, Told(w))

\* Who is told of the end is gone.
Gone ==
  /\ \A w \in Workers : Ending(w) => Reader(w) \notin process.live
  /\ Hears(2) => sink.state # "none"

FailInv == PipeTyped /\ AskedOnce /\ Steps /\ Owned /\ InOrder /\ Gone

-----------------------------------------------------------------------------
(* Flags and ends.                                                         *)

View(w)         == IF w = 1 THEN consumer ELSE sink
SourcePaused(w) == IF w = 1 THEN producer.paused ELSE pipe.paused
IsPaused(w)     == Source(w) \in process.paused

\* What the library will have when it has seen what is on its way.
SourceView(w) == After(toNode[w], OfSource(w), After(micro, OfSource(w), SourcePaused(w)))
ReaderView(w) ==
  After(toNode[w], OfReader(w),
    After(immediates, OfReader(w), After(micro, OfReader(w), View(w).producerPaused)))

Known ==
  \A w \in Workers :
    /\ SourceView(w) = IsPaused(w)
    /\ Reader(w) \in process.live /\ View(w).state # "closed" => ReaderView(w) = IsPaused(w)

Ended ==
  /\ \A w \in Workers :
       Reader(w) \notin process.live /\ (View(w).state = "open" \/ Coming(w, "consume"))
         => Ending(w)
  /\ Closing(1) => consumer.state = "closed"
  /\ Closing(2) => pipe.state = "closed"
  /\ "pipe" \notin process.live => "sink" \notin process.live
  /\ "producer" \notin process.live => "consumer" \notin process.live /\ producer.closed
  /\ Has(toWorker[1], Ask("close")) => producer.closed
  /\ ~Has(toWorker[2], Ask("close"))
  /\ producer.closed /\ "producer" \in process.live => Has(toWorker[1], Ask("close"))
  /\ pipe.state = "closed" /\ "pipe" \in process.live => Closing(2)
  /\ pipe.state = "open" \/ Coming(2, "produce") => "pipe" \in process.live
  /\ step = "consume" \/ Has(toWorker[2], Ask("produce")) => ~IsPaused(2)

\* Until pipeToRouter() has returned nothing happens to the Producer.
Early ==
  step \in {"consume", "produce", "sync"} =>
    /\ step # "sync" /\ ~producer.closed /\ immediates = <<>> /\ consumer.state # "closed"
    /\ \A w \in Workers, op \in Changes :
         ~Has(toWorker[w], Ask(op)) /\ ~Has(toNode[w], Got(w, op)) /\ ~Has(micro, Got(w, op))
    /\ \A w \in Workers : ~Has(toNode[w], Told(w))

Together ==
  /\ step = "done" => (consumer.state = "open" <=> pipe.state = "open")
  /\ \/ step = "done" /\ pipe.state = "open"
     \/ Has(toWorker[2], Ask("produce"))
     \/ Coming(2, "produce")
     => After(toWorker[2], Orders, IsPaused(2)) = consumer.producerPaused

PipeInv ==
  FailInv /\ Known /\ Ended /\ (patient => Early /\ Together)

-----------------------------------------------------------------------------
(* How these change when a message is added or taken.                      *)

LEMMA Shorter ==
  ASSUME NEW S, NEW s \in Seq(S), s # <<>>
  PROVE  /\ Tail(s) \in Seq(S) /\ Head(s) = s[1] /\ s[1] \in S /\ 1 \in DOMAIN s
         /\ Len(s) \in Nat \ {0} /\ DOMAIN s = 1..Len(s)
         /\ Len(Tail(s)) = Len(s) - 1 /\ DOMAIN Tail(s) = 1..(Len(s) - 1)
         /\ \A i \in 1..(Len(s) - 1) : Tail(s)[i] = s[i + 1]
OBVIOUS

LEMMA Longer ==
  ASSUME NEW S, NEW s \in Seq(S), NEW e \in S
  PROVE  /\ Append(s, e) \in Seq(S) /\ Len(s) \in Nat /\ DOMAIN s = 1..Len(s)
         /\ Len(Append(s, e)) = Len(s) + 1 /\ DOMAIN Append(s, e) = 1..(Len(s) + 1)
         /\ \A i \in 1..Len(s) : Append(s, e)[i] = s[i]
         /\ Append(s, e)[Len(s) + 1] = e
OBVIOUS

LEMMA AfterLast ==
  ASSUME NEW S, NEW s \in Seq(S), NEW X, NEW i, IsLast(s, X, i)
  PROVE  \A v : After(s, X, v) = Says(s[i])
<1>0. \A j \in DOMAIN s : j \in Nat
  OBVIOUS
<1>1. \A j : IsLast(s, X, j) => j = i
  BY <1>0 DEF IsLast
<1>2. i \in DOMAIN s
  BY DEF IsLast
<1>3. (CHOOSE j \in DOMAIN s : IsLast(s, X, j)) = i
  BY <1>1, <1>2, Zenon
<1> QED
  BY <1>2, <1>3, Zenon DEF After

LEMMA AfterNone ==
  ASSUME NEW s, NEW X, ~Has(s, X), NEW v
  PROVE  After(s, X, v) = v
  BY Zenon DEF After, IsLast, Has

LEMMA AfterLost ==
  ASSUME NEW s, NEW X, Has(s, X), \A i \in DOMAIN s : ~IsLast(s, X, i)
  PROVE  \A v : After(s, X, v) = FALSE
  BY Zenon DEF After

\* t is s with e at its end.
Added(s, e, t) ==
  /\ \A X : Has(t, X) <=> Has(s, X) \/ e \in X
  /\ \A X : Once(t, X) <=> Once(s, X) /\ ~(e \in X /\ Has(s, X))
  /\ \A X, Y : Ordered(t, X, Y) <=> Ordered(s, X, Y) /\ ~(e \in X /\ (Has(s, Y) \/ e \in Y))
  /\ \A X, v : After(t, X, v) = IF e \in X THEN Says(e) ELSE After(s, X, v)

\* t is s without e, which was its head.
Taken(s, e, t) ==
  /\ \A X : Has(s, X) <=> e \in X \/ Has(t, X)
  /\ \A X : Once(s, X) => Once(t, X) /\ ~(e \in X /\ Has(t, X))
  /\ \A X, Y : Ordered(s, X, Y) => Ordered(t, X, Y) /\ ~(e \in Y /\ Has(t, X))
  /\ \A X, v : After(s, X, v) = After(t, X, IF e \in X THEN Says(e) ELSE v)

LEMMA Adds ==
  ASSUME NEW S, NEW s \in Seq(S), NEW e \in S, NEW t, t = Append(s, e)
  PROVE  t \in Seq(S) /\ t # <<>> /\ Len(t) = Len(s) + 1 /\ Len(s) \in Nat /\ Added(s, e, t)
<1> DEFINE n == Len(s)
<1>1. /\ n \in Nat /\ DOMAIN s = 1..n /\ DOMAIN t = 1..(n + 1) /\ t \in Seq(S)
      /\ Len(t) = n + 1 /\ \A i \in 1..n : t[i] = s[i]
      /\ t[n + 1] = e /\ n + 1 \in Nat
  BY Longer, SMT
<1>a. t # <<>>
  BY <1>1
<1> HIDE DEF n
<1>2. \A X : Has(t, X) <=> Has(s, X) \/ e \in X
  BY <1>1 DEF Has
<1>3. \A X : Once(t, X) <=> Once(s, X) /\ ~(e \in X /\ Has(s, X))
  BY <1>1 DEF Has, Once
<1>4. \A X, Y : Ordered(t, X, Y) <=> Ordered(s, X, Y) /\ ~(e \in X /\ (Has(s, Y) \/ e \in Y))
  BY <1>1 DEF Has, Ordered
<1>5. ASSUME NEW X, NEW v
      PROVE  After(t, X, v) = IF e \in X THEN Says(e) ELSE After(s, X, v)
  <2>1. CASE e \in X
    <3>1. IsLast(t, X, n + 1)
      BY <1>1, <2>1 DEF IsLast
    <3> QED
      BY <1>1, <2>1, <3>1, AfterLast, ZenonT(30)
  <2>2. CASE e \notin X /\ \E i \in DOMAIN s : IsLast(s, X, i)
    <3>1. PICK i \in DOMAIN s : IsLast(s, X, i)
      BY <2>2
    <3>2. IsLast(t, X, i) /\ t[i] = s[i]
      BY <1>1, <2>2, <3>1 DEF IsLast
    <3>3. After(s, X, v) = Says(s[i])
      BY <1>1, <3>1, AfterLast, Zenon
    <3>4. After(t, X, v) = Says(t[i])
      BY <1>1, <3>2, AfterLast, Zenon
    <3> QED
      BY <2>2, <3>2, <3>3, <3>4, Zenon
  <2>3. CASE e \notin X /\ Has(s, X) /\ \A i \in DOMAIN s : ~IsLast(s, X, i)
    <3>1. \A i \in DOMAIN t : ~IsLast(t, X, i)
      BY <1>1, <2>3 DEF IsLast
    <3> QED
      BY <1>2, <2>3, <3>1, AfterLost, Zenon
  <2>4. CASE e \notin X /\ ~Has(s, X)
    BY <1>2, <2>4, AfterNone
  <2> QED
    BY <2>1, <2>2, <2>3, <2>4, Zenon
<1> QED
  BY <1>1, <1>a, <1>2, <1>3, <1>4, <1>5, Zenon DEF Added, n

LEMMA Takes ==
  ASSUME NEW S, NEW s \in Seq(S), s # <<>>, NEW t, t = Tail(s), NEW e, e = Head(s)
  PROVE  t \in Seq(S) /\ e \in S /\ Len(t) = Len(s) - 1 /\ Len(s) \in Nat /\ Taken(s, e, t)
<1> DEFINE n == Len(s)
<1>1. /\ n \in Nat \ {0} /\ DOMAIN s = 1..n /\ DOMAIN t = 1..(n - 1) /\ t \in Seq(S)
      /\ Len(t) = n - 1 /\ \A i \in 1..(n - 1) : t[i] = s[i + 1]
      /\ 1 \in DOMAIN s /\ s[1] = e /\ e \in S /\ n \in Nat /\ n - 1 \in Nat
  BY Shorter, SMT
<1> HIDE DEF n
<1>2. \A j \in DOMAIN s : j # 1 => (j - 1 \in DOMAIN t /\ s[j] = t[j - 1])
  BY <1>1
<1>3. \A i \in DOMAIN t : i + 1 \in DOMAIN s /\ i + 1 # 1 /\ t[i] = s[i + 1] /\ i \in Nat \ {0}
  BY <1>1
<1>4. \A X : Has(s, X) <=> e \in X \/ Has(t, X)
  BY Zenon, <1>1, <1>2, <1>3 DEF Has
<1>5. \A X : Once(s, X) => Once(t, X) /\ ~(e \in X /\ Has(t, X))
  BY <1>1, <1>3 DEF Has, Once
<1>6. \A X, Y : Ordered(s, X, Y) => Ordered(t, X, Y) /\ ~(e \in Y /\ Has(t, X))
  BY <1>1, <1>3 DEF Has, Ordered
<1>7. ASSUME NEW X, NEW v
      PROVE  After(s, X, v) = After(t, X, IF e \in X THEN Says(e) ELSE v)
  <2>1. CASE \E i \in DOMAIN t : IsLast(t, X, i)
    <3>1. PICK i \in DOMAIN t : IsLast(t, X, i)
      BY <2>1
    <3>2. IsLast(s, X, i + 1) /\ t[i] = s[i + 1]
      <4>1. i + 1 \in DOMAIN s /\ t[i] = s[i + 1] /\ s[i + 1] \in X
        BY <1>3, <3>1 DEF IsLast
      <4>2. ASSUME NEW j \in DOMAIN s, j > i + 1
            PROVE  s[j] \notin X
        <5>1. j - 1 \in DOMAIN t /\ s[j] = t[j - 1] /\ j - 1 > i
          BY <1>1, <1>2, <1>3, <3>1, <4>2
        <5> QED
          BY <3>1, <5>1, Zenon DEF IsLast
      <4> QED
        BY <4>1, <4>2, Zenon DEF IsLast
    <3>3. \A u : After(t, X, u) = Says(t[i])
      BY <1>1, <3>1, AfterLast, Zenon
    <3>4. After(s, X, v) = Says(s[i + 1])
      BY <1>1, <3>2, AfterLast, ZenonT(30)
    <3> QED
      BY <3>2, <3>3, <3>4, Zenon
  <2>2. CASE ~Has(t, X) /\ e \in X
    <3>a. \A j \in DOMAIN s : j # 1 => s[j] \notin X
      BY <1>2, <2>2, Zenon DEF Has
    <3>1. IsLast(s, X, 1)
      BY <1>1, <2>2, <3>a DEF IsLast
    <3>2. After(s, X, v) = Says(s[1])
      BY <3>1, AfterLast, Zenon
    <3> QED
      BY <1>1, <2>2, <3>2, AfterNone
  <2>3. CASE ~Has(t, X) /\ e \notin X
    BY <1>4, <2>3, AfterNone
  <2>4. CASE Has(t, X) /\ \A i \in DOMAIN t : ~IsLast(t, X, i)
    <3>1. ASSUME NEW j \in DOMAIN s, IsLast(s, X, j)
          PROVE  FALSE
      <4>1. CASE j = 1
        <5>1. PICK i \in DOMAIN t : t[i] \in X
          BY <2>4 DEF Has
        <5>2. i + 1 \in DOMAIN s /\ i + 1 > 1 /\ s[i + 1] \in X
          BY <1>3, <5>1
        <5> QED
          BY <3>1, <4>1, <5>2, Zenon DEF IsLast
      <4>2. CASE j # 1
        <5>1. j - 1 \in DOMAIN t /\ t[j - 1] \in X /\ j \in Nat
          BY <1>1, <1>2, <3>1, <4>2 DEF IsLast
        <5>2. ASSUME NEW k \in DOMAIN t, k > j - 1
              PROVE  t[k] \notin X
          <6>1. k + 1 \in DOMAIN s /\ k + 1 > j /\ t[k] = s[k + 1]
            BY <1>3, <5>1, <5>2
          <6> QED
            BY <3>1, <6>1, Zenon DEF IsLast
        <5> QED
          BY <2>4, <5>1, <5>2, Zenon DEF IsLast
      <4> QED
        BY <4>1, <4>2
    <3> QED
      BY <1>4, <2>4, <3>1, AfterLost, Zenon
  <2> QED
    BY <2>1, <2>2, <2>3, <2>4, Zenon
<1> QED
  BY <1>1, <1>4, <1>5, <1>6, <1>7, Zenon DEF Taken, n

LEMMA Empty ==
  /\ \A X : ~Has(<<>>, X) /\ Once(<<>>, X)
  /\ \A X, Y : Ordered(<<>>, X, Y)
  /\ \A X, v : After(<<>>, X, v) = v
<1>1. \A i : i \notin DOMAIN <<>>
  BY SMT
<1> QED
  BY <1>1, Zenon DEF Has, Once, Ordered, After

-----------------------------------------------------------------------------
(* Which messages belong to what.                                          *)

LEMMA OfRequest ==
  ASSUME NEW m \in Requests
  PROVE  /\ \A op : m \in Ask(op) <=> m.op = op
         /\ m \in Orders <=> m.op \in Changes \cup {"produce"}
         /\ m.op \in {"consume", "produce", "pause", "resume", "close", "closePipe"}
         /\ m.paused \in BOOLEAN
  BY DEF Requests, Ask, Orders, Changes, Creations

LEMMA OfResponse ==
  ASSUME NEW m \in Responses
  PROVE  /\ m \in From(m.from) /\ m \in Responses \cup Notes /\ ~IsNote(m) /\ m.from \in Workers
         /\ \A w : m \in From(w) <=> m.from = w
         /\ \A w, op : m \in Got(w, op) <=> m.from = w /\ m.op = op
         /\ \A w, op : m \in Yes(w, op) <=> m.from = w /\ m.op = op /\ m.ok
         /\ \A w : m \notin Told(w) /\ m \notin Ends(w)
         /\ \A w : m \in OfSource(w) <=> m.from = w /\ m.ok /\ m.op \in Changes \cup {"produce"}
         /\ \A w : m \in OfReader(w) <=> m.from = w /\ m.ok /\ m.op = "consume"
         /\ m.op \in {"consume", "produce", "pause", "resume"}
         /\ m.ok \in BOOLEAN /\ m.paused \in BOOLEAN
<1>1. /\ m.from \in Workers /\ m.op \in {"consume", "produce", "pause", "resume"}
      /\ m.ok \in BOOLEAN /\ m.paused \in BOOLEAN
  BY DEF Responses, Creations, Changes
<1>2. m \notin Notes /\ ~IsNote(m)
  BY <1>1 DEF Notes, IsNote
<1>3. \A w, op : m \in Got(w, op) <=> m.from = w /\ m.op = op
  BY DEF Got
<1>4. \A w, op : m \in Yes(w, op) <=> m.from = w /\ m.op = op /\ m.ok
  BY <1>3 DEF Yes
<1>5. \A w : m \notin Told(w) /\ m \notin Ends(w)
  BY <1>2 DEF Told, Ends
<1>6. \A w : m \in OfSource(w) <=> m.from = w /\ m.ok /\ m.op \in Changes \cup {"produce"}
  BY <1>4 DEF OfSource, Changes
<1>7. \A w : m \in OfReader(w) <=> m.from = w /\ m.ok /\ m.op = "consume"
  BY <1>4, <1>5 DEF OfReader
<1>8. \A w : m \in From(w) <=> m.from = w
  BY DEF From
<1> QED
  BY <1>1, <1>2, <1>3, <1>4, <1>5, <1>6, <1>7, <1>8

LEMMA OfNote ==
  ASSUME NEW m \in Notes
  PROVE  /\ m \in From(m.from) /\ m \in Responses \cup Notes /\ IsNote(m) /\ m.from \in Workers
         /\ \A w : m \in From(w) <=> m.from = w
         /\ \A w, op : m \notin Got(w, op) /\ m \notin Yes(w, op)
         /\ \A w : m \in Told(w) <=> m.from = w
         /\ \A w : m \in Ends(w) <=> m.from = w /\ m.op = "producerclose"
         /\ \A w : m \notin OfSource(w)
         /\ \A w : m \in OfReader(w) <=> m.from = w /\ m.op # "producerclose"
         /\ m.op \in {"producerpause", "producerresume", "producerclose"}
<1>1. m.from \in Workers /\ m.op \in {"producerpause", "producerresume", "producerclose"}
  BY DEF Notes
<1>2. m \notin Responses /\ IsNote(m)
  BY <1>1 DEF Responses, Creations, Changes, IsNote
<1>3. \A w, op : m \notin Got(w, op) /\ m \notin Yes(w, op)
  BY <1>2 DEF Got, Yes
<1>5. \A w : (m \in Told(w) <=> m.from = w) /\ (m \in Ends(w) <=> m.from = w /\ m.op = "producerclose")
  BY DEF Told, Ends
<1>6. \A w : m \notin OfSource(w)
  BY <1>3 DEF OfSource
<1>7. \A w : m \in OfReader(w) <=> m.from = w /\ m.op # "producerclose"
  BY <1>3, <1>5 DEF OfReader
<1>8. \A w : m \in From(w) <=> m.from = w
  BY DEF From
<1> QED
  BY <1>1, <1>2, <1>3, <1>5, <1>6, <1>7, <1>8

\* A request is written to worker w.
Asks(w, e) ==
  /\ toWorker' \in [Workers -> Seq(Requests)]
  /\ Added(toWorker[w], e, toWorker'[w])
  /\ \A v \in Workers : v # w => toWorker'[v] = toWorker[v]

LEMMA Sends ==
  ASSUME PipeTyped, NEW w \in Workers, NEW e \in Requests,
         toWorker' = [toWorker EXCEPT ![w] = Append(@, e)]
  PROVE  Asks(w, e)
<1>1. toWorker[w] \in Seq(Requests) /\ toWorker'[w] = Append(toWorker[w], e)
      /\ \A v \in Workers : v # w => toWorker'[v] = toWorker[v]
  BY DEF PipeTyped
<1>2. toWorker'[w] \in Seq(Requests) /\ Added(toWorker[w], e, toWorker'[w])
  BY <1>1, Adds, Zenon
<1>3. toWorker' \in [Workers -> Seq(Requests)]
  BY <1>1, <1>2 DEF PipeTyped
<1> QED
  BY <1>1, <1>2, <1>3 DEF Asks

\* What is written creates nothing.
NothingAsked ==
  /\ toWorker' \in [Workers -> Seq(Requests)]
  /\ \A w \in Workers, op \in Creations :
       /\ Has(toWorker'[w], Ask(op)) <=> Has(toWorker[w], Ask(op))
       /\ Once(toWorker'[w], Ask(op)) <=> Once(toWorker[w], Ask(op))
  /\ \A w \in Workers : Closing(w) => Closing(w)'

LEMMA AsksNothing ==
  ASSUME NEW w \in Workers, NEW e \in Requests, e.op \notin Creations, Asks(w, e)
  PROVE  NothingAsked
<1>1. \A op \in Creations : e \notin Ask(op)
  BY OfRequest DEF Creations
<1> QED
  BY Zenon, <1>1 DEF Asks, Added, NothingAsked, Closing

LEMMA SameAsksNothing ==
  ASSUME PipeTyped, toWorker' = toWorker
  PROVE  NothingAsked
  BY DEF PipeTyped, NothingAsked, Closing

\* closePipe is written to the workers of S.
Closes(S) ==
  /\ toWorker' \in [Workers -> Seq(Requests)]
  /\ \A w \in S : Added(toWorker[w], Request("closePipe"), toWorker'[w])
  /\ \A w \in Workers \ S : toWorker'[w] = toWorker[w]

LEMMA SendsClosing ==
  ASSUME PipeTyped, NEW S \in SUBSET Workers,
         toWorker' = [w \in Workers |-> IF w \in S THEN Append(toWorker[w], Request("closePipe"))
                                                  ELSE toWorker[w]]
  PROVE  Closes(S)
<1>1. Request("closePipe") \in Requests
  BY DEF Request, Requests
<1>2. ASSUME NEW w \in S
      PROVE  toWorker'[w] \in Seq(Requests) /\ Added(toWorker[w], Request("closePipe"), toWorker'[w])
  <2>1. toWorker[w] \in Seq(Requests) /\ toWorker'[w] = Append(toWorker[w], Request("closePipe"))
    BY DEF PipeTyped
  <2> QED
    BY <1>1, <2>1, Adds, Zenon
<1>3. \A w \in Workers \ S : toWorker'[w] = toWorker[w] /\ toWorker[w] \in Seq(Requests)
  BY DEF PipeTyped
<1>4. toWorker' \in [Workers -> Seq(Requests)]
  BY ZenonT(30), <1>2, <1>3
<1> QED
  BY Zenon, <1>2, <1>3, <1>4 DEF Closes

LEMMA ClosesOnly ==
  ASSUME NEW S \in SUBSET Workers, Closes(S)
  PROVE  NothingAsked /\ \A w \in S : Closing(w)'
<1>1. Request("closePipe") \in Requests /\ Request("closePipe").op = "closePipe"
  BY DEF Request, Requests
<1>2. \A op : Request("closePipe") \in Ask(op) <=> op = "closePipe"
  BY <1>1, OfRequest
<1> QED
  BY <1>2 DEF Closes, NothingAsked, Added, Closing, Creations

LEMMA SameMessages ==
  ASSUME AskedOnce, NothingAsked, toNode' = toNode, micro' = micro,
         \A w \in Workers, op \in Creations : Waits(w, op) => Waits(w, op)'
  PROVE  AskedOnce'
<1>1. ASSUME NEW w \in Workers, NEW op \in Creations
      PROVE  (Single(w, op) => Single(w, op)') /\ (Pending(w, op)' => Pending(w, op))
  BY <1>1, Zenon DEF NothingAsked, Single, Pending
<1> QED
  BY <1>1, Zenon DEF AskedOnce

LEMMA SameOrder ==
  ASSUME InOrder, Gone, NothingAsked, toNode' = toNode, immediates' = immediates,
         process' = process, sink.state # "none" => sink'.state # "none"
  PROVE  InOrder' /\ Gone'
<1>1. \A w : (Hears(w)' <=> Hears(w)) /\ (Ending(w)' <=> Ending(w))
  BY DEF Hears, Ending
<1>2. \A w \in Workers : Has(toWorker'[w], Ask("consume")) <=> Has(toWorker[w], Ask("consume"))
  BY DEF NothingAsked, Creations
<1> QED
  BY <1>1, <1>2 DEF InOrder, Gone

LEMMA ApplicationFails ==
  ASSUME FailInv, Application
  PROVE  FailInv'
<1>0. PipeTyped /\ AskedOnce /\ Steps /\ Owned /\ InOrder /\ Gone
  BY DEF FailInv
<1>g. UNCHANGED given /\ toNode' = toNode /\ left' = left /\ micro' = micro
      /\ immediates' = immediates /\ process' = process
  BY DEF Application, PauseOrResume, CloseProducer, ConsumePipe, ClosePipe
<1>c. \A w \in Workers : \A op : Coming(w, op)' <=> Coming(w, op)
  BY <1>g DEF Coming
<1>1. CASE PauseOrResume
  <2>1. PICK op \in Changes : toWorker' = Send(1, op)
    BY <1>1 DEF PauseOrResume, Changes
  <2>2. Request(op) \in Requests /\ Request(op).op \notin Creations /\ 1 \in Workers
    BY <2>1 DEF Request, Requests, Changes, Creations, Workers
  <2>3. NothingAsked
    BY Zenon, <1>0, <2>1, <2>2, Sends, AsksNothing DEF Send
  <2>4. UNCHANGED lib
    BY <1>1 DEF PauseOrResume
  <2>5. PipeTyped' /\ Steps'
    BY <1>0, <1>g, <2>3, <2>4 DEF PipeTyped, Steps, NothingAsked, given, lib
  <2>6. AskedOnce'
    BY <1>0, <1>g, <2>3, <2>4, SameMessages DEF lib, Waits
  <2>7. Owned'
    BY <1>0, <1>g, <1>c, <2>3, <2>4 DEF Owned, NothingAsked, lib, Workers
  <2>8. InOrder' /\ Gone'
    BY <1>0, <1>g, <2>3, <2>4, SameOrder DEF lib
  <2> QED
    BY <2>5, <2>6, <2>7, <2>8 DEF FailInv
<1>2. CASE CloseProducer
  <2>2. Request("close") \in Requests /\ Request("close").op \notin Creations /\ 1 \in Workers
    BY DEF Request, Requests, Creations, Workers
  <2>3. NothingAsked
    BY Zenon, <1>0, <1>2, <2>2, Sends, AsksNothing DEF Send, CloseProducer
  <2>4. UNCHANGED <<consumer, pipe, sink, step, wired>>
        /\ producer' = [producer EXCEPT !.closed = TRUE]
    BY <1>2 DEF CloseProducer
  <2>5. PipeTyped' /\ Steps'
    BY ZenonT(30), <1>0, <1>g, <2>3, <2>4 DEF PipeTyped, Steps, NothingAsked,
       given
  <2>6. AskedOnce'
    BY <1>0, <1>g, <2>3, <2>4, SameMessages DEF Waits
  <2>7. Owned'
    BY <1>0, <1>g, <1>c, <2>3, <2>4 DEF Owned, NothingAsked, Workers
  <2>8. InOrder' /\ Gone'
    BY <1>0, <1>g, <2>3, <2>4, SameOrder
  <2> QED
    BY <2>5, <2>6, <2>7, <2>8 DEF FailInv
<1>3. CASE ConsumePipe
  <2>2. Request("consume") \in Requests /\ Request("consume").op = "consume" /\ 2 \in Workers
        /\ "consume" \in Creations
    BY DEF Request, Requests, Creations, Workers
  <2>3. Asks(2, Request("consume"))
    BY Zenon, <1>0, <1>3, <2>2, Sends DEF Send, ConsumePipe
  <2>4. /\ UNCHANGED <<producer, consumer, pipe, step, wired>>
        /\ sink.state = "none" /\ step = "done" /\ sink' = [sink EXCEPT !.state = "consuming"]
    BY <1>3 DEF ConsumePipe
  <2>5. PipeTyped' /\ Steps'
    BY Zenon, <1>0, <1>g, <2>3, <2>4 DEF PipeTyped, Steps, Asks, given
  <2>6. AskedOnce'
    <3>1. \A op : Request("consume") \in Ask(op) <=> op = "consume"
      BY <2>2, OfRequest
    <3>2. ~Pending(2, "consume")
      BY <1>0, <2>2, <2>4 DEF AskedOnce, Waits
    <3>3. \A w \in Workers, op \in Creations : Waits(w, op) => Waits(w, op)'
      BY <2>4 DEF Waits
    <3>4. Waits(2, "consume")'
      BY <1>0, <2>4 DEF Waits, PipeTyped
    <3>5. ASSUME NEW w \in Workers, NEW op \in Creations
          PROVE  Single(w, op)' /\ (Pending(w, op)' => Waits(w, op)')
      <4>1. CASE w = 2 /\ op = "consume"
        BY <1>0, <1>g, <2>3, <3>1, <3>2, <3>4, <4>1, Zenon
           DEF AskedOnce, Single, Pending, Asks, Added
      <4>2. CASE ~(w = 2 /\ op = "consume")
        BY <1>0, <1>g, <2>3, <3>1, <3>3, <4>2, Zenon DEF AskedOnce, Single,
           Pending, Asks, Added
      <4> QED
        BY <4>1, <4>2
    <3> QED
      BY <3>5 DEF AskedOnce
  <2>7. Owned'
    <3>1. \A w \in Workers : Closing(w) => Closing(w)'
      BY <2>3 DEF Closing, Asks, Added
    <3>2. "sink" \notin process.live
      BY Zenon, <1>0, <2>4 DEF Owned
    <3> QED
      BY <1>0, <1>g, <1>c, <2>4, <3>1, <3>2 DEF Owned, Workers
  <2>8. InOrder' /\ Gone'
    <3>1. \A w : (Hears(w)' <=> Hears(w)) /\ (Ending(w)' <=> Ending(w))
      BY <1>g DEF Hears, Ending
    <3>2. toWorker'[1] = toWorker[1]
      BY <2>3 DEF Asks, Workers
    <3>3. "sink" \notin process.live /\ ~Hears(2)
      BY <1>0, <2>4 DEF Owned, Gone
    <3>4. Gone'
      BY <1>0, <1>g, <2>4, <3>1, <3>3 DEF Gone
    <3> QED
      BY <1>0, <1>g, <3>1, <3>2, <3>3, <3>4 DEF InOrder, Workers, Reader
  <2> QED
    BY <2>5, <2>6, <2>7, <2>8 DEF FailInv
<1>4. CASE ClosePipe
  <2>1. /\ UNCHANGED <<producer, sink, step, wired>> /\ step = "done" /\ pipe.state = "open"
        /\ pipe' = [pipe EXCEPT !.state = "closed"]
        /\ consumer' = [consumer EXCEPT !.state = "closed"]
        /\ toWorker' = [w \in Workers |-> Append(toWorker[w], Request("closePipe"))]
    BY <1>0, <1>4 DEF ClosePipe, Steps
  <2>5. NothingAsked /\ \A w \in Workers : Closing(w)'
    <3>1. toWorker' = [w \in Workers |-> IF w \in Workers THEN Append(toWorker[w], Request("closePipe"))
                                                        ELSE toWorker[w]]
      BY <2>1
    <3> QED
      BY Zenon, <1>0, <3>1, SendsClosing, ClosesOnly
  <2>6. PipeTyped' /\ Steps'
    BY Zenon, <1>0, <1>g, <2>1, <2>5 DEF PipeTyped, Steps, NothingAsked, given
  <2>7. AskedOnce'
    BY <1>0, <1>g, <2>1, <2>5, SameMessages DEF Waits
  <2>8. Owned'
    BY <1>0, <1>g, <1>c, <2>1, <2>5 DEF Owned, Workers
  <2>9. InOrder' /\ Gone'
    BY <1>0, <1>g, <2>1, <2>5, SameOrder
  <2> QED
    BY <2>6, <2>7, <2>8, <2>9 DEF FailInv
<1> QED
  BY <1>1, <1>2, <1>3, <1>4 DEF Application

-----------------------------------------------------------------------------
(* The event loop.                                                         *)

\* The 'data' callback of worker w handles m.
Reads(w, m) ==
  /\ toNode' \in [Workers -> Seq(Responses \cup Notes)]
  /\ \A v \in Workers : toNode'[v] \in Seq(From(v))
  /\ left' \in [Workers -> Nat] /\ \A v \in Workers : left'[v] <= Len(toNode'[v])
  /\ Taken(toNode[w], m, toNode'[w]) /\ \A v \in Workers : v # w => toNode'[v] = toNode[v]
  /\ m.from = w
  /\ \/ m \in Notes /\ Added(immediates, m, immediates') /\ micro' = micro
     \/ m \in Responses /\ Added(micro, m, micro') /\ immediates' = immediates
  /\ micro' \in Seq(Responses) /\ immediates' \in Seq(Notes)
  /\ UNCHANGED <<given, lib, process, toWorker>>

LEMMA ReadDoes ==
  ASSUME PipeTyped, Read, UNCHANGED given
  PROVE  \E w \in Workers : \E m : Reads(w, m)
<1>1. PICK w \in Workers :
        /\ \/ NextCallback /\ \E n \in 1..Len(toNode[w]) : left' = [left EXCEPT ![w] = n - 1]
           \/ left[w] > 0 /\ left' = [left EXCEPT ![w] = @ - 1]
        /\ LET m == Head(toNode[w])
           IN  \/ IsNote(m) /\ immediates' = Append(immediates, m) /\ UNCHANGED micro
               \/ ~IsNote(m) /\ micro' = Append(micro, m) /\ UNCHANGED immediates
        /\ toNode' = [toNode EXCEPT ![w] = Tail(@)]
  BY Zenon DEF Read
<1>2. UNCHANGED <<lib, process, toWorker>>
  BY DEF Read
<1> DEFINE m == Head(toNode[w])
<1>3. toNode[w] \in Seq(From(w)) /\ toNode[w] \in Seq(Responses \cup Notes) /\ toNode[w] # <<>>
      /\ toNode'[w] = Tail(toNode[w]) /\ \A v \in Workers : v # w => toNode'[v] = toNode[v]
  BY <1>1 DEF PipeTyped
<1>4. /\ toNode'[w] \in Seq(From(w)) /\ m \in From(w) /\ Len(toNode'[w]) = Len(toNode[w]) - 1
      /\ Len(toNode[w]) \in Nat /\ Taken(toNode[w], m, toNode'[w])
  BY <1>3, Takes, Zenon
<1>5. toNode'[w] \in Seq(Responses \cup Notes)
  BY <1>3
<1>6. toNode' \in [Workers -> Seq(Responses \cup Notes)] /\ \A v \in Workers : toNode'[v] \in Seq(From(v))
  BY Zenon, <1>1, <1>3, <1>4, <1>5 DEF PipeTyped
<1>7. left' \in [Workers -> Nat] /\ \A v \in Workers : left'[v] <= Len(toNode'[v])
  <2>1. ASSUME NEW n \in 1..Len(toNode[w]), left' = [left EXCEPT ![w] = n - 1]
        PROVE  left' \in [Workers -> Nat] /\ \A v \in Workers : left'[v] <= Len(toNode'[v])
    BY <1>3, <1>4, <2>1 DEF PipeTyped
  <2>2. ASSUME left[w] > 0, left' = [left EXCEPT ![w] = @ - 1]
        PROVE  left' \in [Workers -> Nat] /\ \A v \in Workers : left'[v] <= Len(toNode'[v])
    BY <1>3, <1>4, <2>2 DEF PipeTyped
  <2> QED
    BY <1>1, <2>1, <2>2
<1>8. m.from = w /\ m \in Responses \cup Notes
  BY <1>4 DEF From
<1> HIDE DEF m
<1>9. CASE IsNote(m)
  <2>1. m \in Notes
    BY <1>8, <1>9, OfResponse
  <2>2. immediates \in Seq(Notes) /\ immediates' = Append(immediates, m) /\ micro' = micro
        /\ micro \in Seq(Responses)
    BY <1>1, <1>9 DEF PipeTyped, m
  <2>3. immediates' \in Seq(Notes) /\ Added(immediates, m, immediates')
    BY <2>1, <2>2, Adds, Zenon
  <2> QED
    BY Zenon, <1>2, <1>3, <1>4, <1>6, <1>7, <1>8, <2>1, <2>2, <2>3 DEF Reads
<1>10. CASE ~IsNote(m)
  <2>1. m \in Responses
    BY <1>8, <1>10, OfNote
  <2>2. micro \in Seq(Responses) /\ micro' = Append(micro, m) /\ immediates' = immediates
        /\ immediates \in Seq(Notes)
    BY <1>1, <1>10 DEF PipeTyped, m
  <2>3. micro' \in Seq(Responses) /\ Added(micro, m, micro')
    BY <2>1, <2>2, Adds, Zenon
  <2> QED
    BY Zenon, <1>2, <1>3, <1>4, <1>6, <1>7, <1>8, <2>1, <2>2, <2>3 DEF Reads
<1> QED
  BY <1>9, <1>10

LEMMA ReadFails ==
  ASSUME FailInv, NEW w \in Workers, NEW m, Reads(w, m)
  PROVE  FailInv'
<1>0. PipeTyped /\ AskedOnce /\ Steps /\ Owned /\ InOrder /\ Gone
  BY DEF FailInv
<1>1. PipeTyped' /\ Steps'
  BY SMTT(30), <1>0 DEF PipeTyped, Steps, Reads, given, lib
<1>s. UNCHANGED <<producer, consumer, pipe, sink, step, wired, process, toWorker>>
  BY DEF Reads, lib
<1>2. CASE m \in Notes
  <2>1. /\ Taken(toNode[w], m, toNode'[w]) /\ \A v \in Workers : v # w => toNode'[v] = toNode[v]
        /\ Added(immediates, m, immediates') /\ micro' = micro /\ m.from = w
    BY <1>2, OfResponse, OfNote DEF Reads
  <2>2. /\ \A v, op : m \notin Got(v, op) /\ m \notin Yes(v, op)
        /\ \A v : m \in Told(v) <=> v = w
        /\ \A v : m \in Ends(v) <=> v = w /\ m.op = "producerclose"
    BY <1>2, <2>1, OfNote
  <2>3. ASSUME NEW v \in Workers, NEW op
        PROVE  /\ Has(toNode'[v], Got(v, op)) <=> Has(toNode[v], Got(v, op))
               /\ Has(toNode'[v], Yes(v, op)) <=> Has(toNode[v], Yes(v, op))
               /\ Once(toNode[v], Got(v, op)) => Once(toNode'[v], Got(v, op))
    BY <2>1, <2>2, Zenon DEF Taken
  <2>4. AskedOnce'
    BY <1>0, <1>s, <2>1, <2>3, ZenonT(30) DEF AskedOnce, Single, Pending, Waits
  <2>5. Owned'
    BY <1>0, <1>s, <2>1, <2>3, Zenon DEF Owned, Coming, Closing, Workers
  <2>6. ASSUME NEW v \in Workers
        PROVE  (Hears(v)' <=> Hears(v)) /\ (Ending(v)' <=> Ending(v))
    BY <2>1, <2>2, <2>6, Zenon DEF Hears, Ending, Taken, Added
  <2>7. Gone'
    BY <1>0, <1>s, <2>6, Zenon DEF Gone, Workers
  <2>8. ASSUME NEW v \in Workers
        PROVE  /\ Ordered(toNode'[v], Got(v, "consume"), Told(v))
               /\ Has(toNode'[v], Got(v, "consume")) => ~Has(immediates', Told(v))
    <3>1. CASE v = w
      BY <1>0, <2>1, <2>2, <3>1, Zenon DEF InOrder, Taken
    <3>2. CASE v # w
      BY <1>0, <2>1, <2>2, <3>2, Zenon DEF InOrder, Added
    <3> QED
      BY <3>1, <3>2
  <2>9. InOrder'
    BY <1>0, <1>s, <2>6, <2>8, Zenon DEF InOrder
  <2> QED
    BY <1>1, <2>4, <2>5, <2>7, <2>9 DEF FailInv
<1>3. CASE m \in Responses
  <2>1. /\ Taken(toNode[w], m, toNode'[w]) /\ \A v \in Workers : v # w => toNode'[v] = toNode[v]
        /\ Added(micro, m, micro') /\ immediates' = immediates /\ m.from = w
    BY <1>3, OfResponse, OfNote DEF Reads
  <2>2. /\ \A v, op : m \in Got(v, op) => v = w
        /\ \A v, op : m \in Yes(v, op) => v = w
        /\ \A v : m \notin Told(v) /\ m \notin Ends(v)
    BY <1>3, <2>1, OfResponse
  <2>3. ASSUME NEW v \in Workers, NEW op \in Creations
        PROVE  /\ Pending(v, op)' <=> Pending(v, op)
               /\ Single(v, op) => Single(v, op)'
    BY <1>s, <2>1, <2>2, <2>3, Zenon DEF Pending, Single, Taken, Added
  <2>4. AskedOnce'
    BY <1>0, <1>s, <2>3, Zenon DEF AskedOnce, Waits
  <2>5. \A v \in Workers : \A op : Coming(v, op)' <=> Coming(v, op)
    BY <2>1, <2>2, Zenon DEF Coming, Taken, Added
  <2>6. Owned'
    BY <1>0, <1>s, <2>5, Zenon DEF Owned, Closing, Workers
  <2>7. ASSUME NEW v \in Workers
        PROVE  /\ Hears(v)' <=> Hears(v)
               /\ Ending(v)' <=> Ending(v)
               /\ Has(toNode'[v], Got(v, "consume")) => Has(toNode[v], Got(v, "consume"))
               /\ Ordered(toNode[v], Got(v, "consume"), Told(v))
                     => Ordered(toNode'[v], Got(v, "consume"), Told(v))
    BY <2>1, <2>2, <2>7, Zenon DEF Hears, Ending, Taken
  <2>8. Gone'
    BY <1>0, <1>s, <2>7, Zenon DEF Gone, Workers
  <2>9. InOrder'
    BY <1>0, <1>s, <2>1, <2>7, Zenon DEF InOrder
  <2> QED
    BY <1>1, <2>4, <2>6, <2>8, <2>9 DEF FailInv
<1> QED
  BY <1>2, <1>3 DEF Reads

\* The continuation of m runs.
Goes(m) ==
  /\ Taken(micro, m, micro') /\ m \in Responses /\ micro' \in Seq(Responses)
  /\ Continuation(m)
  /\ UNCHANGED <<given, process, toNode, left, immediates>>

LEMMA ContinueDoes ==
  ASSUME PipeTyped, Continue, UNCHANGED given
  PROVE  \E m : Goes(m)
<1> DEFINE m == Head(micro)
<1>1. micro \in Seq(Responses) /\ micro # <<>> /\ micro' = Tail(micro)
  BY DEF PipeTyped, Continue
<1>2. micro' \in Seq(Responses) /\ m \in Responses /\ Taken(micro, m, micro')
  BY <1>1, Takes, Zenon
<1>3. Continuation(m) /\ UNCHANGED <<given, process, toNode, left, immediates>>
  BY DEF Continue
<1> QED
  BY <1>2, <1>3, Zenon DEF Goes

LEMMA AbandonDoes ==
  ASSUME PipeTyped, NEW c, NEW p, Abandon(c, p)
  PROVE  \E S \in SUBSET Workers : /\ Closes(S) /\ (1 \in S <=> c.state = "open")
                                  /\ (2 \in S <=> p.state = "open")
<1> DEFINE S == {w \in Workers : (w = 1 /\ c.state = "open") \/ (w = 2 /\ p.state = "open")}
<1>1. S \in SUBSET Workers /\ (1 \in S <=> c.state = "open") /\ (2 \in S <=> p.state = "open")
  BY DEF Workers
<1>2. toWorker' = [w \in Workers |-> IF w \in S THEN Append(toWorker[w], Request("closePipe"))
                                               ELSE toWorker[w]]
  BY DEF Abandon
<1>3. Closes(S)
  BY <1>1, <1>2, SendsClosing, Zenon
<1> QED
  BY <1>1, <1>3, Zenon

\* The answer waited for has come.
LEMMA Answered ==
  ASSUME AskedOnce, NEW m, Goes(m)
  PROVE  /\ m.op \in Creations => Waits(m.from, m.op)
         /\ \A w, op : Coming(w, op) <=> Coming(w, op)' \/ m \in Yes(w, op)
         /\ \A w, op : m \in Yes(w, op) <=> w = m.from /\ op = m.op /\ m.ok
         /\ m.from \in Workers
<1>0. /\ Taken(micro, m, micro') /\ m \in Responses /\ toNode' = toNode
  BY DEF Goes
<1>1. m.from \in Workers /\ m \in Got(m.from, m.op)
      /\ \A w, op : m \in Yes(w, op) <=> w = m.from /\ op = m.op /\ m.ok
  BY <1>0, OfResponse
<1>2. Has(micro, Got(m.from, m.op))
  BY <1>0, <1>1, Zenon DEF Taken
<1>3. \A w, op : Coming(w, op) <=> Coming(w, op)' \/ m \in Yes(w, op)
  BY <1>0, Zenon DEF Coming, Taken
<1> QED
  BY <1>1, <1>2, <1>3, Zenon DEF AskedOnce, Pending

LEMMA ContinueOnce ==
  ASSUME AskedOnce, NEW m, Goes(m), NothingAsked,
         \A w \in Workers, op \in Creations :
            Waits(w, op) /\ ~(w = m.from /\ op = m.op) => Waits(w, op)'
  PROVE  AskedOnce'
<1>0. Taken(micro, m, micro') /\ m \in Responses /\ toNode' = toNode
  BY DEF Goes
<1>1. \A w, op : m \in Got(w, op) <=> w = m.from /\ op = m.op
  BY <1>0, OfResponse
<1>2. ASSUME NEW w \in Workers, NEW op \in Creations
      PROVE  Single(w, op)' /\ (Pending(w, op)' => Pending(w, op) /\ ~(w = m.from /\ op = m.op))
  BY <1>0, <1>1, <1>2, Zenon DEF AskedOnce, NothingAsked, Single, Pending, Taken
<1> QED
  BY <1>2, Zenon DEF AskedOnce

LEMMA ContinueFails ==
  ASSUME FailInv, NEW m, Goes(m)
  PROVE  FailInv'
<1>0. PipeTyped /\ AskedOnce /\ Steps /\ Owned /\ InOrder /\ Gone
  BY DEF FailInv
<1>1. /\ m.op \in Creations => Waits(m.from, m.op)
      /\ \A w, op : Coming(w, op) <=> Coming(w, op)' \/ m \in Yes(w, op)
      /\ \A w, op : m \in Yes(w, op) <=> w = m.from /\ op = m.op /\ m.ok
      /\ m.from \in Workers
  BY <1>0, Answered
<1>2. UNCHANGED <<data, patient, process, toNode, left, immediates>> /\ micro' \in Seq(Responses)
      /\ m \in Responses
  BY DEF Goes, given
<1>3. m.paused \in BOOLEAN
  BY <1>2, OfResponse
<1>4. CASE m.op = "consume" /\ m.ok /\ m.from = 1 /\ Consumed(m)
  <2> DEFINE e == [op |-> "produce", paused |-> m.paused]
  <2>1. e \in Requests /\ e.op = "produce" /\ 2 \in Workers
    BY <1>3 DEF Requests, Creations, Workers
  <2> HIDE DEF e
  <2>2. /\ consumer' = [state |-> "open", producerPaused |-> m.paused] /\ step' = "produce"
        /\ UNCHANGED <<producer, pipe, sink, wired>>
        /\ toWorker' = [toWorker EXCEPT ![2] = Append(@, e)]
    BY <1>4 DEF Consumed, e
  <2>3. Asks(2, e)
    BY <1>0, <2>1, <2>2, Sends, Zenon
  <2>4. step = "consume"
    BY <1>1, <1>4 DEF Waits, Creations
  <2>5. PipeTyped' /\ Steps'
    BY Zenon, <1>0, <1>2, <1>3, <2>2, <2>3, <2>4 DEF PipeTyped, Steps, Asks
  <2>6. AskedOnce'
    <3>1. \A op : e \in Ask(op) <=> op = "produce"
      BY <2>1, OfRequest
    <3>2. ~Pending(2, "produce")
      BY <1>0, <2>1, <2>4 DEF AskedOnce, Waits, Creations
    <3>3. \A w, op : m \in Got(w, op) <=> w = 1 /\ op = "consume"
      BY <1>2, <1>4, OfResponse
    <3>4. Taken(micro, m, micro')
      BY DEF Goes
    <3>5. ASSUME NEW w \in Workers, NEW op \in Creations
          PROVE  Single(w, op)' /\ (Pending(w, op)' => Waits(w, op)')
      <4>1. CASE w = 2 /\ op = "produce"
        <5>1. Single(w, op)'
          BY <1>0, <1>2, <2>3, <3>1, <3>2, <3>3, <3>4, <4>1, Zenon
             DEF AskedOnce, Single, Pending, Asks, Added, Taken
        <5>2. Waits(w, op)'
          BY <2>2, <4>1 DEF Waits
        <5> QED
          BY <5>1, <5>2
      <4>2. CASE ~(w = 2 /\ op = "produce")
        <5>1. Single(w, op)' /\ (Pending(w, op)' => Pending(w, op) /\ ~(w = 1 /\ op = "consume"))
          BY <1>0, <1>2, <2>3, <3>1, <3>3, <3>4, <3>5, <4>2, Zenon
             DEF AskedOnce, Single, Pending, Asks, Added, Taken
        <5>2. Waits(w, op) /\ ~(w = 1 /\ op = "consume") => Waits(w, op)'
          BY Zenon, <2>2, <4>2 DEF Waits
        <5> QED
          BY <1>0, <3>5, <5>1, <5>2, Zenon DEF AskedOnce
      <4> QED
        BY <4>1, <4>2
    <3> QED
      BY <3>5 DEF AskedOnce
  <2>7. Owned'
    <3>1. \A w \in Workers : Closing(w) => Closing(w)'
      BY ZenonT(30), <2>3 DEF Closing, Asks, Added
    <3> QED
      BY <1>0, <1>1, <1>2, <1>4, <2>2, <3>1 DEF Owned, Workers
  <2>8. InOrder' /\ Gone'
    <3>1. \A w : (Hears(w)' <=> Hears(w)) /\ (Ending(w)' <=> Ending(w))
      BY <1>2 DEF Hears, Ending
    <3>2. \A w \in Workers : Has(toWorker'[w], Ask("consume")) => Has(toWorker[w], Ask("consume"))
      BY <2>1, <2>3, OfRequest DEF Asks, Added
    <3> QED
      BY <1>0, <1>2, <2>2, <3>1, <3>2 DEF InOrder, Gone
  <2> QED
    BY <2>5, <2>6, <2>7, <2>8 DEF FailInv
<1>n. ASSUME NothingAsked, sink.state # "none" => sink'.state # "none",
             \A w \in Workers, op \in Creations :
                Waits(w, op) /\ ~(w = m.from /\ op = m.op) => Waits(w, op)'
      PROVE  AskedOnce' /\ InOrder' /\ Gone'
  BY <1>0, <1>2, <1>n, ContinueOnce, SameOrder
<1>5. CASE m.op = "consume" /\ m.from = 2 /\ SinkConsumed(m)
  <2>1. /\ sink' = IF m.ok THEN [state |-> "open", producerPaused |-> m.paused]
                  ELSE [sink EXCEPT !.state = "closed"]
        /\ UNCHANGED <<producer, consumer, pipe, step, wired, toWorker>>
    BY <1>5 DEF SinkConsumed
  <2>2. sink.state = "consuming"
    BY <1>1, <1>5 DEF Waits, Creations
  <2>3. sink'.state \in {"open", "closed"} /\ NothingAsked
    BY <1>0, <2>1, SameAsksNothing DEF PipeTyped
  <2>4. PipeTyped' /\ Steps'
    BY ZenonT(30), <1>0, <1>2, <1>3, <2>1, <2>2 DEF PipeTyped, Steps
  <2>5. Owned'
    BY <1>0, <1>1, <1>2, <1>5, <2>1, <2>3 DEF Owned, Closing
  <2>6. \A w \in Workers, op \in Creations :
          Waits(w, op) /\ ~(w = m.from /\ op = m.op) => Waits(w, op)'
    BY <1>5, <2>1 DEF Waits
  <2> QED
    BY <1>n, <2>3, <2>4, <2>5, <2>6 DEF FailInv
<1>a. ASSUME NEW p, p \in [state : {"none", "open", "closed"}, paused : BOOLEAN],
             Abandon(consumer, p),
             \/ m.op = "consume" /\ m.from = 1 /\ ~m.ok /\ p = pipe
             \/ m.op = "produce" /\ ~m.ok /\ p = pipe
             \/ m.op \in Changes /\ ~m.ok /\ m.from = 2 /\ step = "sync" /\ p = pipe
             \/ m.op = "produce" /\ m.ok /\ p.state = "open"
      PROVE  FailInv'
  <2>1. PICK S \in SUBSET Workers : /\ Closes(S) /\ (1 \in S <=> consumer.state = "open")
                                  /\ (2 \in S <=> p.state = "open")
    BY <1>0, <1>a, AbandonDoes, Zenon
  <2>2. NothingAsked /\ \A w \in S : Closing(w)'
    BY <2>1, ClosesOnly
  <2>3. /\ step' = "failed" /\ UNCHANGED <<producer, sink, wired>>
        /\ consumer' = IF consumer.state = "open" THEN [consumer EXCEPT !.state = "closed"] ELSE consumer
        /\ pipe' = IF p.state = "open" THEN [p EXCEPT !.state = "closed"] ELSE p
    BY <1>a DEF Abandon
  <2>4. \/ m.op = "consume" /\ m.from = 1 /\ step = "consume"
        \/ m.op = "produce" /\ m.from = 2 /\ step = "produce"
        \/ m.op \notin Creations /\ ~m.ok /\ step = "sync"
    BY <1>1, <1>a DEF Waits, Creations, Changes
  <2>5. consumer'.state # "open" /\ pipe'.state # "open"
    BY <1>0, <1>a, <2>3 DEF PipeTyped
  <2>6. PipeTyped' /\ Steps'
    BY Zenon, <1>0, <1>2, <1>a, <2>2, <2>3, <2>4, <2>5 DEF PipeTyped, Steps,
       NothingAsked
  <2>7. \A w \in Workers, op \in Creations :
          Waits(w, op) /\ ~(w = m.from /\ op = m.op) => Waits(w, op)'
    BY <2>3, <2>4 DEF Waits
  <2>8. \A w \in Workers : Closing(w) => Closing(w)'
    BY Zenon, <2>2 DEF NothingAsked
  <2>9. "consumer" \in process'.live => Coming(1, "consume")' \/ Closing(1)'
    BY ZenonT(30), <1>0, <1>1, <1>2, <1>a, <2>1, <2>2, <2>4, <2>8 DEF Owned, Workers
  <2>10. "pipe" \in process'.live => Coming(2, "produce")' \/ Closing(2)'
    BY <1>0, <1>1, <1>2, <1>a, <2>1, <2>2, <2>4, <2>8 DEF Owned, Workers
  <2>11. Owned'
    BY <1>0, <1>1, <1>2, <1>a, <2>3, <2>4, <2>9, <2>10 DEF Owned
  <2> QED
    BY <1>n, <2>2, <2>3, <2>6, <2>7, <2>11 DEF FailInv
<1>6. CASE m.op = "produce" /\ m.ok /\ Produced(m)
  <2> DEFINE p == [state |-> "open", paused |-> m.paused]
  <2>1. p \in [state : {"none", "open", "closed"}, paused : BOOLEAN] /\ p.state = "open"
    BY <1>3
  <2>2. CASE Abandon(consumer, p)
    BY <1>6, <1>a, <2>1, <2>2
  <2>3. CASE pipe' = p /\ UNCHANGED <<producer, consumer, sink>> /\
             \/ /\ step' = "sync" /\ UNCHANGED wired
                /\ toWorker' = Send(2, IF producer.paused THEN "pause" ELSE "resume")
             \/ Wire /\ UNCHANGED toWorker
    <3>1. m.from = 2 /\ step = "produce"
      BY <1>1, <1>6 DEF Waits, Creations
    <3>2. NothingAsked
      <4>1. ASSUME NEW op \in Changes, toWorker' = Send(2, op)
            PROVE  NothingAsked
        <5>1. Request(op) \in Requests /\ Request(op).op \notin Creations /\ 2 \in Workers
          BY DEF Request, Requests, Changes, Creations, Workers
        <5> QED
          BY Zenon, <1>0, <4>1, <5>1, Sends, AsksNothing DEF Send
      <4> QED
        BY <1>0, <2>3, <4>1, SameAsksNothing DEF Changes
    <3>3. step' \in {"sync", "done"} /\ wired' = (step' = "done")
      BY Zenon, <1>0, <2>3, <3>1 DEF Wire, Steps, PipeTyped
    <3>4. PipeTyped' /\ Steps'
      BY ZenonT(30), <1>0, <1>2, <1>3, <2>1, <2>3, <3>1, <3>2, <3>3 DEF
         PipeTyped, Steps, NothingAsked
    <3>5. Owned'
      BY <1>0, <1>1, <1>2, <1>6, <2>1, <2>3, <3>1, <3>2 DEF Owned,
         NothingAsked, Workers
    <3>6. \A w \in Workers, op \in Creations :
            Waits(w, op) /\ ~(w = m.from /\ op = m.op) => Waits(w, op)'
      BY <1>6, <2>3, <3>1 DEF Waits
    <3> QED
      BY <1>n, <2>3, <3>2, <3>4, <3>5, <3>6 DEF FailInv
  <2> QED
    BY Zenon, <1>6, <2>2, <2>3 DEF Produced, Wire
<1>7. CASE \/ m.op = "consume" /\ ~m.ok /\ m.from = 1 /\ Abandon(consumer, pipe)
           \/ m.op = "produce" /\ ~m.ok /\ Abandon(consumer, pipe)
           \/ m.op \in Changes /\ ~m.ok /\ m.from = 2 /\ step = "sync" /\ Abandon(consumer, pipe)
  BY <1>0, <1>7, <1>a DEF PipeTyped
<1>8. CASE m.op \in Changes /\ UNCHANGED <<consumer, sink, toWorker>> /\
           \/ UNCHANGED lib
           \/ producer' = [producer EXCEPT !.paused = (m.op = "pause")] /\ UNCHANGED <<pipe, step, wired>>
           \/ /\ pipe' = [pipe EXCEPT !.paused = (m.op = "pause")] /\ UNCHANGED producer
              /\ IF step = "sync" THEN Wire ELSE UNCHANGED <<step, wired>>
  <2>1. /\ pipe'.state = pipe.state /\ step' = (IF step = "sync" THEN step' ELSE step)
        /\ step = "sync" => step' \in {"sync", "done"}
        /\ wired' = (step' = "done")
        /\ producer' \in [closed : BOOLEAN, paused : BOOLEAN]
        /\ pipe' \in [state : {"none", "open", "closed"}, paused : BOOLEAN]
        /\ UNCHANGED <<consumer, sink, toWorker>>
    BY ZenonT(30), <1>0, <1>8 DEF PipeTyped, Steps, lib, Wire
  <2>2. NothingAsked
    BY <1>0, <1>8, SameAsksNothing
  <2>3. PipeTyped' /\ Steps'
    BY ZenonT(30), <1>0, <1>2, <2>1 DEF PipeTyped, Steps
  <2>4. \A w, op : op \in Creations => m \notin Yes(w, op)
    BY <1>1, <1>8 DEF Changes, Creations
  <2>5. Owned'
    BY <1>0, <1>1, <1>2, <2>1, <2>2, <2>4 DEF Owned, NothingAsked, Workers,
       Creations
  <2>6. \A w \in Workers, op \in Creations : Waits(w, op) => Waits(w, op)'
    BY <2>1 DEF Waits
  <2> QED
    BY <1>n, <2>1, <2>2, <2>3, <2>5, <2>6 DEF FailInv
<1>9. Continuation(m)
  BY DEF Goes
<1> QED
  BY <1>4, <1>5, <1>6, <1>7, <1>8, <1>9
     DEF Continuation, ProducerChanged, PipeChanged, Changes, lib

\* The notification m is handled.
Notified(m) ==
  \/ View(m.from).state # "open" /\ UNCHANGED <<lib, toWorker>>
  \/ View(m.from).state = "open" /\ m.from = 2 /\ OnSink(m)
  \/ View(m.from).state = "open" /\ m.from = 1 /\ m.op = "producerclose" /\ OnConsumerClose
  \/ View(m.from).state = "open" /\ m.from = 1 /\ m.op = "producerpause" /\ OnConsumerPause(TRUE)
  \/ View(m.from).state = "open" /\ m.from = 1 /\ m.op = "producerresume" /\ OnConsumerPause(FALSE)

Notifies(m) ==
  /\ Taken(immediates, m, immediates') /\ m \in Notes /\ immediates' \in Seq(Notes)
  /\ immediates # <<>> /\ micro = <<>>
  /\ Notified(m)
  /\ UNCHANGED <<given, process, toNode, left, micro>>

LEMMA NotifyDoes ==
  ASSUME PipeTyped, Notify, UNCHANGED given
  PROVE  \E m : Notifies(m)
<1> DEFINE m == Head(immediates)
<1>1. immediates \in Seq(Notes) /\ immediates # <<>> /\ immediates' = Tail(immediates)
  BY DEF PipeTyped, Notify
<1>2. immediates' \in Seq(Notes) /\ m \in Notes /\ Taken(immediates, m, immediates')
  BY <1>1, Takes, Zenon
<1>3. micro = <<>> /\ UNCHANGED <<given, process, toNode, left, micro>>
  BY DEF Notify, NextCallback
<1>4. m.from \in Workers
  BY <1>2, OfNote
<1>5. View(m.from).state = IF m.from = 1 THEN consumer.state ELSE sink.state
  BY SMTT(30) DEF View
<1>6. Notified(m)
  BY Zenon, <1>5 DEF Notify, Notified
<1> QED
  BY <1>1, <1>2, <1>3, <1>6, Zenon DEF Notifies

LEMMA NotifyFails ==
  ASSUME FailInv, NEW m, Notifies(m)
  PROVE  FailInv'
<1>0. PipeTyped /\ AskedOnce /\ Steps /\ Owned /\ InOrder /\ Gone
  BY DEF FailInv
<1>1. UNCHANGED <<data, patient, process, toNode, left, micro>> /\ immediates' \in Seq(Notes)
      /\ m \in Notes /\ Taken(immediates, m, immediates') /\ Notified(m)
  BY DEF Notifies, given
<1>2. \A w : /\ Hears(w)' => Hears(w)
             /\ Ending(w)' => Ending(w)
             /\ Has(immediates', Told(w)) => Has(immediates, Told(w))
  BY <1>1, Zenon DEF Hears, Ending, Taken
<1>3. \A w, op : Coming(w, op)' <=> Coming(w, op)
  BY <1>1 DEF Coming
<1>n. ASSUME NothingAsked, sink.state # "none" => sink'.state # "none",
             \A w \in Workers, op \in Creations : Waits(w, op) => Waits(w, op)'
      PROVE  AskedOnce' /\ InOrder' /\ Gone'
  <2>1. AskedOnce'
    BY <1>0, <1>1, <1>n, SameMessages
  <2>2. Gone'
    BY <1>0, <1>1, <1>2, <1>n, Zenon DEF Gone
  <2>3. \A w \in Workers : Has(toWorker'[w], Ask("consume")) <=> Has(toWorker[w], Ask("consume"))
    BY <1>n DEF NothingAsked, Creations
  <2>4. InOrder'
    BY <1>0, <1>1, <1>2, <2>3, Zenon DEF InOrder
  <2> QED
    BY <2>1, <2>2, <2>4
<1>4. CASE UNCHANGED <<lib, toWorker>>
  <2>1. NothingAsked /\ UNCHANGED <<producer, consumer, pipe, sink, step, wired>>
    BY Zenon, <1>0, <1>4, SameAsksNothing DEF lib
  <2>2. PipeTyped' /\ Steps'
    BY SMTT(30), <1>0, <1>1, <1>4, <2>1 DEF PipeTyped, Steps
  <2>3. Owned'
    BY Zenon, <1>0, <1>1, <1>3, <1>4, <2>1 DEF Owned, Closing
  <2> QED
    BY <1>n, <2>1, <2>2, <2>3 DEF FailInv, Waits
<1>5. CASE sink.state = "open" /\ OnSink(m)
  <2>1. /\ sink' \in [state : {"open", "closed"}, producerPaused : BOOLEAN]
        /\ UNCHANGED <<producer, consumer, pipe, step, wired, toWorker>>
    BY Zenon, <1>0, <1>1, <1>5, OfNote DEF OnSink, PipeTyped
  <2>2. NothingAsked
    BY Zenon, <1>0, <2>1, SameAsksNothing
  <2>3. PipeTyped' /\ Steps'
    BY ZenonT(30), <1>0, <1>1, <1>5, <2>1 DEF PipeTyped, Steps
  <2>4. Owned'
    BY <1>0, <1>1, <1>3, <2>1 DEF Owned, Closing
  <2>5. \A w \in Workers, op \in Creations : Waits(w, op) => Waits(w, op)'
    BY <1>5, <2>1 DEF Waits
  <2> QED
    BY <1>n, <2>1, <2>2, <2>3, <2>4, <2>5 DEF FailInv
<1>6. CASE consumer.state = "open" /\ m.from = 1 /\ m.op = "producerclose" /\ OnConsumerClose
  <2>1. "consumer" \notin process.live
    <3>1. m \in Ends(1)
      BY <1>1, <1>6, OfNote
    <3>2. Ending(1)
      BY <1>1, <3>1, Zenon DEF Ending, Taken
    <3> QED
      BY <1>0, <3>2 DEF Gone, Workers, Reader
  <2>2. /\ consumer' = [consumer EXCEPT !.state = "closed"]
        /\ UNCHANGED <<producer, sink, step, wired>>
        /\ \/ pipe' = [pipe EXCEPT !.state = "closed"] /\ pipe.state = "open" /\ wired
              /\ toWorker' = Send(2, "closePipe")
           \/ UNCHANGED <<pipe, toWorker>>
    BY <1>6 DEF OnConsumerClose
  <2>3. NothingAsked /\ (toWorker' = Send(2, "closePipe") => Closing(2)')
    <3>1. CASE toWorker' = Send(2, "closePipe")
      <4>1. Request("closePipe") \in Requests /\ Request("closePipe").op = "closePipe" /\ 2 \in Workers
        BY DEF Request, Requests, Workers
      <4>2. Asks(2, Request("closePipe"))
        BY Zenon, <1>0, <3>1, <4>1, Sends DEF Send
      <4> QED
        BY <4>1, <4>2, AsksNothing, OfRequest DEF Creations, Asks, Added,
           Closing
    <3> QED
      BY Zenon, <1>0, <2>2, <3>1, SameAsksNothing
  <2>4. PipeTyped' /\ Steps'
    BY ZenonT(30), <1>0, <1>1, <1>6, <2>2, <2>3 DEF PipeTyped, Steps,
       NothingAsked
  <2>5. Owned'
    <3>1. \A w \in Workers : Closing(w) => Closing(w)'
      BY <2>3 DEF NothingAsked
    <3>2. "pipe" \in process'.live => pipe'.state = "open" \/ Coming(2, "produce")' \/ Closing(2)'
      BY <1>0, <1>1, <1>3, <2>2, <2>3, <3>1 DEF Owned, Workers
    <3> QED
      BY <1>0, <1>1, <1>3, <2>1, <2>2, <3>2 DEF Owned
  <2>6. \A w \in Workers, op \in Creations : Waits(w, op) => Waits(w, op)'
    BY <2>2 DEF Waits
  <2> QED
    BY <1>n, <2>2, <2>3, <2>4, <2>5, <2>6 DEF FailInv
<1>7. ASSUME NEW paused \in BOOLEAN, consumer.state = "open", OnConsumerPause(paused)
      PROVE  FailInv'
  <2>1. /\ consumer' = [consumer EXCEPT !.producerPaused = paused]
        /\ UNCHANGED <<producer, pipe, sink, step, wired>>
    BY <1>7 DEF OnConsumerPause
  <2>2. NothingAsked
    <3>1. ASSUME NEW op \in Changes, toWorker' = Send(2, op)
          PROVE  NothingAsked
      <4>1. Request(op) \in Requests /\ Request(op).op \notin Creations /\ 2 \in Workers
        BY DEF Request, Requests, Changes, Creations, Workers
      <4> QED
        BY Zenon, <1>0, <3>1, <4>1, Sends, AsksNothing DEF Send
    <3> QED
      BY <1>0, <1>7, <3>1, SameAsksNothing DEF Changes, OnConsumerPause
  <2>3. PipeTyped' /\ Steps'
    BY ZenonT(30), <1>0, <1>1, <2>1, <2>2 DEF PipeTyped, Steps, NothingAsked
  <2>4. Owned'
    BY <1>0, <1>1, <1>3, <2>1, <2>2 DEF Owned, NothingAsked, Workers, PipeTyped
  <2>5. \A w \in Workers, op \in Creations : Waits(w, op) => Waits(w, op)'
    BY <2>1 DEF Waits
  <2> QED
    BY <1>n, <2>1, <2>2, <2>3, <2>4, <2>5 DEF FailInv
<1>8. CASE m.from = 1
  <2>1. View(m.from) = consumer
    BY <1>8 DEF View
  <2> QED
    <3>1. \/ UNCHANGED <<lib, toWorker>>
          \/ consumer.state = "open" /\ m.op = "producerclose" /\ OnConsumerClose
          \/ consumer.state = "open" /\ OnConsumerPause(TRUE)
          \/ consumer.state = "open" /\ OnConsumerPause(FALSE)
      <4>1. m.from # 2 /\ Notified(m)
        BY <1>1, <1>8
      <4> QED
        BY <2>1, <4>1, Zenon DEF Notified
    <3> QED
      BY <1>4, <1>6, <1>7, <1>8, <3>1, Zenon
<1>9. CASE m.from # 1
  <2>1. View(m.from) = sink
    BY <1>9 DEF View
  <2> QED
    BY <1>1, <1>4, <1>5, <1>9, <2>1, Zenon DEF Notified
<1> QED
  BY <1>8, <1>9

-----------------------------------------------------------------------------
(* The workers.                                                            *)

Answer(w, m, ok, paused) == [from |-> w, op |-> m.op, ok |-> ok, paused |-> paused]
Note(w, op)              == [from |-> w, op |-> op]
PauseNote(w, m)          == Note(w, IF m.op = "pause" THEN "producerpause" ELSE "producerresume")

Wrote(w, e) == Added(toNode[w], e, toNode'[w])

\* What a worker does with the request m.
Handled(w, m) ==
  \/ /\ m.op \in Changes /\ Source(w) \in process.live
     /\ process'.live = process.live
     /\ process'.paused = IF m.op = "pause" THEN process.paused \cup {Source(w)}
                                            ELSE process.paused \ {Source(w)}
     /\ IF Reader(w) \in process.live /\ IsPaused(w) # (m.op = "pause")
        THEN \E s : /\ Added(toNode[w], PauseNote(w, m), s)
                    /\ Added(s, Answer(w, m, TRUE, m.op = "pause"), toNode'[w])
        ELSE Wrote(w, Answer(w, m, TRUE, m.op = "pause"))
  \/ /\ m.op \in Changes /\ (Source(w) \notin process.live \/ step = "sync")
     /\ process' = process /\ Wrote(w, Answer(w, m, FALSE, FALSE))
  \/ /\ m.op \in Creations /\ process' = process /\ Wrote(w, Answer(w, m, FALSE, FALSE))
  \/ /\ m.op = "consume" /\ Source(w) \in process.live
     /\ process'.live = process.live \cup {Reader(w)} /\ process'.paused = process.paused
     /\ Wrote(w, Answer(w, m, TRUE, IsPaused(w)))
  \/ /\ m.op = "produce" /\ process'.live = process.live \cup {"pipe"}
     /\ process'.paused = process.paused \cup (IF m.paused THEN {"pipe"} ELSE {})
     /\ Wrote(w, Answer(w, m, TRUE, m.paused))
  \/ /\ m.op = "close" \/ (m.op = "closePipe" /\ w = 2)
     /\ process'.live = process.live \ {Source(w), Reader(w)}
     /\ process'.paused = process.paused
     /\ IF Reader(w) \in process.live THEN Wrote(w, Note(w, "producerclose")) ELSE toNode' = toNode
  \/ /\ m.op = "closePipe" /\ w = 1
     /\ process'.live = process.live \ {"consumer"}
     /\ process'.paused = process.paused /\ toNode' = toNode

\* What worker w sends keeps its type.
Answers(w) ==
  /\ toNode' \in [Workers -> Seq(Responses \cup Notes)]
  /\ \A v \in Workers : toNode'[v] \in Seq(From(v)) /\ left[v] <= Len(toNode'[v])
  /\ \A v \in Workers : v # w => toNode'[v] = toNode[v]

Works(w, m) ==
  /\ toWorker' \in [Workers -> Seq(Requests)]
  /\ Taken(toWorker[w], m, toWorker'[w]) /\ \A v \in Workers : v # w => toWorker'[v] = toWorker[v]
  /\ m \in Requests /\ Answers(w) /\ Handled(w, m)
  /\ process' \in [live : SUBSET {"producer", "consumer", "pipe", "sink"},
                   paused : SUBSET {"producer", "pipe"}]
  /\ UNCHANGED <<given, lib, left, micro, immediates>>

LEMMA JoinOne ==
  ASSUME NEW S, NEW s \in Seq(S), NEW e \in S
  PROVE  s \o <<e>> = Append(s, e)
OBVIOUS

LEMMA JoinTwo ==
  ASSUME NEW S, NEW s \in Seq(S), NEW d \in S, NEW e \in S
  PROVE  s \o (<<d>> \o <<e>>) = Append(Append(s, d), e)
<1>1. <<d>> \in Seq(S) /\ <<e>> \in Seq(S) /\ Append(s, d) \in Seq(S)
  OBVIOUS
<1>2. s \o (<<d>> \o <<e>>) = (s \o <<d>>) \o <<e>>
  BY <1>1
<1> QED
  BY <1>1, <1>2, JoinOne, Zenon

LEMMA JoinBoth ==
  ASSUME NEW S, NEW s, s \in Seq(S), NEW d \in S, NEW e \in S, NEW t, t = s \o (<<d>> \o <<e>>)
  PROVE  t = Append(Append(s, d), e)
  BY JoinTwo, SMT

LEMMA FromTyped ==
  ASSUME NEW w, NEW S, S = From(w)
  PROVE  \A s \in Seq(S) : s \in Seq(Responses \cup Notes)
<1>1. S \subseteq Responses \cup Notes
  BY DEF From
<1> HIDE DEF From
<1> QED
  BY <1>1

LEMMA Writes ==
  ASSUME PipeTyped, NEW w \in Workers, NEW e \in From(w),
         toNode' = [toNode EXCEPT ![w] = @ \o <<e>>]
  PROVE  Wrote(w, e) /\ Answers(w)
<1>1. toNode[w] \in Seq(From(w))
  BY DEF PipeTyped
<1>a. left \in [Workers -> Nat] /\ \A v \in Workers : left[v] <= Len(toNode[v])
  BY DEF PipeTyped
<1>b. \A S : S = From(w) => \A s \in Seq(S) : s \in Seq(Responses \cup Notes)
  BY FromTyped
<1>2. toNode'[w] = Append(toNode[w], e) /\ \A v \in Workers : v # w => toNode'[v] = toNode[v]
  <2>1. toNode[w] \o <<e>> = Append(toNode[w], e)
    BY <1>1, JoinOne, Zenon
  <2> QED
    BY <2>1 DEF PipeTyped
<1> DEFINE t == toNode'[w]
<1>3. /\ t \in Seq(From(w)) /\ Len(t) = Len(toNode[w]) + 1
      /\ Len(toNode[w]) \in Nat /\ Added(toNode[w], e, t)
  <2> HIDE DEF t
  <2>1. t = Append(toNode[w], e)
    BY <1>2 DEF t
  <2> QED
    BY <1>1, <2>1, Adds, ZenonT(30)
<1>4. t \in Seq(Responses \cup Notes)
  BY <1>3, <1>b, Zenon
<1>5. toNode' \in [Workers -> Seq(Responses \cup Notes)]
  BY <1>2, <1>4 DEF PipeTyped
<1>6. \A v \in Workers : toNode'[v] \in Seq(From(v))
  BY <1>2, <1>3 DEF PipeTyped
<1>7. \A v \in Workers : left[v] <= Len(toNode'[v])
  BY <1>a, <1>2, <1>3
<1> QED
  BY <1>2, <1>3, <1>5, <1>6, <1>7 DEF Answers, Wrote

LEMMA WritesTwo ==
  ASSUME PipeTyped, NEW w \in Workers, NEW d \in From(w), NEW e \in From(w),
         toNode' = [toNode EXCEPT ![w] = Append(Append(@, d), e)]
  PROVE  (\E s : Added(toNode[w], d, s) /\ Added(s, e, toNode'[w])) /\ Answers(w)
<1>1. toNode[w] \in Seq(From(w))
  BY DEF PipeTyped
<1>a. left \in [Workers -> Nat] /\ \A v \in Workers : left[v] <= Len(toNode[v])
  BY DEF PipeTyped
<1>b. \A S : S = From(w) => \A s \in Seq(S) : s \in Seq(Responses \cup Notes)
  BY FromTyped
<1> DEFINE t == toNode'[w]
<1>2. t = Append(Append(toNode[w], d), e) /\ \A v \in Workers : v # w => toNode'[v] = toNode[v]
  BY Zenon DEF PipeTyped
<1>3. /\ t \in Seq(From(w)) /\ Len(t) = Len(toNode[w]) + 2 /\ Len(toNode[w]) \in Nat
      /\ \E s : Added(toNode[w], d, s) /\ Added(s, e, t)
  <2> DEFINE u == Append(toNode[w], d)
  <2>1. t = Append(u, e)
    BY <1>2
  <2> HIDE DEF t, u
  <2>2. u \in Seq(From(w)) /\ Len(u) = Len(toNode[w]) + 1 /\ Len(toNode[w]) \in Nat
        /\ Added(toNode[w], d, u)
    BY <1>1, Adds, ZenonT(60) DEF u
  <2>3. t \in Seq(From(w)) /\ Len(t) = Len(u) + 1 /\ Added(u, e, t)
    BY <2>1, <2>2, Adds, ZenonT(60)
  <2>4. Len(t) = Len(toNode[w]) + 2
    BY <2>2, <2>3
  <2> QED
    BY <2>2, <2>3, <2>4, Zenon
<1>4. t \in Seq(Responses \cup Notes)
  BY <1>3, <1>b, Zenon
<1>5. toNode' \in [Workers -> Seq(Responses \cup Notes)]
  BY <1>2, <1>4 DEF PipeTyped
<1>6. \A v \in Workers : toNode'[v] \in Seq(From(v))
  BY <1>2, <1>3 DEF PipeTyped
<1>7. \A v \in Workers : left[v] <= Len(toNode'[v])
  BY <1>a, <1>2, <1>3
<1> QED
  BY <1>2, <1>3, <1>5, <1>6, <1>7 DEF Answers

LEMMA WritesNone ==
  ASSUME PipeTyped, NEW w \in Workers, toNode' = [toNode EXCEPT ![w] = @ \o <<>>]
  PROVE  toNode' = toNode /\ Answers(w)
<1>1. toNode[w] \in Seq(Responses \cup Notes)
  BY DEF PipeTyped
<1>2. toNode[w] \o <<>> = toNode[w]
  BY <1>1
<1>3. toNode' = toNode
  BY <1>2 DEF PipeTyped
<1> QED
  BY <1>3 DEF PipeTyped, Answers

LEMMA WorkDoes ==
  ASSUME PipeTyped, WorkerHandles
  PROVE  \E w \in Workers : \E m : Works(w, m)
<1>1. PICK w \in Workers :
        /\ toWorker[w] # <<>>
        /\ \E r \in Outcomes(w, Head(toWorker[w])) :
             process' = r[1] /\ toNode' = [toNode EXCEPT ![w] = @ \o r[2]]
        /\ toWorker' = [toWorker EXCEPT ![w] = Tail(@)]
  BY Zenon DEF WorkerHandles
<1>2. UNCHANGED <<given, lib, left, micro, immediates>>
  BY DEF WorkerHandles
<1> DEFINE m == Head(toWorker[w])
<1>3. PICK r \in Outcomes(w, m) : process' = r[1] /\ toNode' = [toNode EXCEPT ![w] = @ \o r[2]]
  BY Zenon, <1>1
<1>4. toWorker[w] \in Seq(Requests) /\ toWorker[w] # <<>> /\ toWorker'[w] = Tail(toWorker[w])
      /\ \A v \in Workers : v # w => toWorker'[v] = toWorker[v]
  BY <1>1 DEF PipeTyped
<1>5. toWorker'[w] \in Seq(Requests) /\ m \in Requests /\ Taken(toWorker[w], m, toWorker'[w])
  BY <1>4, Takes, Zenon
<1>6. toWorker' \in [Workers -> Seq(Requests)]
  BY Zenon, <1>1, <1>4, <1>5 DEF PipeTyped
<1> HIDE DEF m
<1>7. /\ m.op \in {"consume", "produce", "pause", "resume", "close", "closePipe"}
      /\ m.paused \in BOOLEAN
  BY <1>5, OfRequest
<1>p. process \in [live : SUBSET {"producer", "consumer", "pipe", "sink"},
                   paused : SUBSET {"producer", "pipe"}]
  BY DEF PipeTyped
<1> DEFINE P == process' \in [live : SUBSET {"producer", "consumer", "pipe", "sink"},
                              paused : SUBSET {"producer", "pipe"}]
<1>a. \A ok, paused \in BOOLEAN :
        m.op \in Creations \cup Changes => Answer(w, m, ok, paused) \in From(w)
  BY DEF Answer, From, Responses
<1>n. \A op \in {"producerpause", "producerresume", "producerclose"} : Note(w, op) \in From(w)
  BY DEF Note, From, Notes
<1>r. ASSUME process' = process, r[2] = Reply(w, m, FALSE, FALSE), m.op \in Creations \cup Changes
      PROVE  P /\ Answers(w) /\ process' = process /\ Wrote(w, Answer(w, m, FALSE, FALSE))
  <2>1. toNode' = [toNode EXCEPT ![w] = @ \o <<Answer(w, m, FALSE, FALSE)>>]
    BY <1>3, <1>r DEF Reply, Answer
  <2>2. Answer(w, m, FALSE, FALSE) \in From(w)
    BY Zenon, <1>a, <1>r
  <2> QED
    BY Zenon, <1>p, <1>r, <2>1, <2>2, Writes
<1>8. CASE m.op \in Changes
  <2>a. m.op \in Creations \cup Changes
    BY Zenon, <1>8
  <2>b. CASE step = "sync" /\ r = <<process, Reply(w, m, FALSE, FALSE)>>
    <3>1. process' = process /\ r[2] = Reply(w, m, FALSE, FALSE)
      BY <1>3, <2>b
    <3> QED
      BY <1>2, <1>4, <1>5, <1>6, <1>8, <1>r, <2>a, <2>b, <3>1, Zenon DEF Works,
         Handled
  <2>c. (step = "sync" /\ r = <<process, Reply(w, m, FALSE, FALSE)>>) \/ r = HandlePause(w, m)
    <3>1. \/ Outcomes(w, m) = {HandlePause(w, m)}
          \/ /\ step = "sync"
             /\ Outcomes(w, m) = {HandlePause(w, m), <<process, Reply(w, m, FALSE, FALSE)>>}
      BY Zenon, <1>8 DEF Outcomes, Changes
    <3>2. r \in Outcomes(w, m)
      BY <1>3
    <3>3. ASSUME NEW a, NEW b, r \in {a} \/ (step = "sync" /\ r \in {a, b})
          PROVE  (step = "sync" /\ r = b) \/ r = a
      BY Zenon, <3>3
    <3> QED
      BY Zenon, <3>1, <3>2, <3>3
  <2>d. SUFFICES ASSUME r = HandlePause(w, m)
                 PROVE  \E v \in Workers : \E n : Works(v, n)
    BY Zenon, <2>b, <2>c
  <2>1. r = HandlePause(w, m) /\ m.op \in Creations \cup Changes
    BY Zenon, <2>a, <2>d
  <2>2. CASE Source(w) \notin process.live
    <3>1. process' = process /\ r[2] = Reply(w, m, FALSE, FALSE)
      BY Zenon, <1>3, <2>1, <2>2 DEF HandlePause
    <3> QED
      BY <1>2, <1>4, <1>5, <1>6, <1>8, <1>r, <2>1, <2>2, <3>1, Zenon DEF Works,
         Handled
  <2>3. CASE Source(w) \in process.live
    <3> DEFINE e == Answer(w, m, TRUE, m.op = "pause")
               d == PauseNote(w, m)
    <3>1. /\ process' = [process EXCEPT !.paused = IF m.op = "pause" THEN @ \cup {Source(w)}
                                                                  ELSE @ \ {Source(w)}]
          /\ r[2] = (IF IsPaused(w) # (m.op = "pause")
                     THEN Tell(w, IF m.op = "pause" THEN "producerpause" ELSE "producerresume")
                     ELSE <<>>) \o <<e>>
      BY <1>3, <2>1, <2>3 DEF HandlePause, Reply, Answer, IsPaused
    <3>2. P /\ process'.live = process.live
          /\ process'.paused = IF m.op = "pause" THEN process.paused \cup {Source(w)}
                                                 ELSE process.paused \ {Source(w)}
      BY <1>p, <3>1 DEF Source
    <3>3. e \in From(w) /\ d \in From(w)
      <4>1. (m.op = "pause") \in BOOLEAN
        OBVIOUS
      <4> QED
        BY Zenon, <1>a, <1>n, <2>1, <4>1 DEF PauseNote
    <3> HIDE DEF P
    <3>4. CASE Reader(w) \in process.live /\ IsPaused(w) # (m.op = "pause")
      <4>1. r[2] = <<d>> \o <<e>>
        BY Zenon, <3>1, <3>4 DEF Tell, PauseNote, Note
      <4> HIDE DEF d, e
      <4>2. toNode' = [toNode EXCEPT ![w] = @ \o (<<d>> \o <<e>>)] /\ toNode[w] \in Seq(From(w))
        BY <1>3, <4>1 DEF PipeTyped
      <4>3. toNode' = [toNode EXCEPT ![w] = Append(Append(@, d), e)]
        <5>1. PICK u, S, a, b : u = toNode[w] /\ S = From(w) /\ a = d /\ b = e
          BY Zenon
        <5>2. PICK t : t = u \o (<<a>> \o <<b>>)
          BY Zenon
        <5>3. u \in Seq(S) /\ a \in S /\ b \in S
          BY <3>3, <4>2, <5>1
        <5>4. t = Append(Append(u, a), b)
          BY <5>2, <5>3, JoinBoth
        <5>5. toNode' = [toNode EXCEPT ![w] = t]
          BY <4>2, <5>1, <5>2
        <5> QED
          BY <5>1, <5>4, <5>5
      <4>4. (\E s : Added(toNode[w], d, s) /\ Added(s, e, toNode'[w])) /\ Answers(w)
        BY Zenon, <3>3, <4>3, WritesTwo
      <4>5. Handled(w, m)
        BY <1>8, <2>3, <3>2, <3>4, <4>4, Zenon DEF Handled, d, e
      <4> QED
        BY <1>2, <1>4, <1>5, <1>6, <3>2, <4>4, <4>5, Zenon DEF Works, P
    <3>5. CASE ~(Reader(w) \in process.live /\ IsPaused(w) # (m.op = "pause"))
      <4>1. r[2] = <<>> \o <<e>>
        BY Zenon, <3>1, <3>5 DEF Tell
      <4> HIDE DEF d, e
      <4>2. toNode' = [toNode EXCEPT ![w] = @ \o <<e>>]
        BY <1>3, <4>1
      <4>3. Wrote(w, e) /\ Answers(w)
        BY Zenon, <3>3, <4>2, Writes
      <4>4. Handled(w, m)
        BY <1>8, <2>3, <3>2, <3>5, <4>3, Zenon DEF Handled, e
      <4> QED
        BY <1>2, <1>4, <1>5, <1>6, <3>2, <4>3, <4>4, Zenon DEF Works, P
    <3> QED
      BY Zenon, <3>4, <3>5
  <2> QED
    BY <2>2, <2>3
<1>9. CASE m.op \in Creations
  <2>1. CASE process' = process /\ r[2] = Reply(w, m, FALSE, FALSE)
    BY <1>2, <1>4, <1>5, <1>6, <1>9, <1>r, <2>1, Zenon DEF Works, Handled
  <2>2. CASE m.op = "consume" /\ Source(w) \in process.live /\ r = HandleConsume(w, m)
    <3> DEFINE e == Answer(w, m, TRUE, IsPaused(w))
    <3>1. /\ process' = [process EXCEPT !.live = @ \cup {Reader(w)}] /\ r[2] = <<e>>
      BY Zenon, <1>3, <2>2 DEF HandleConsume, Reply, Answer, IsPaused
    <3>2. P /\ process'.live = process.live \cup {Reader(w)} /\ process'.paused = process.paused
      BY <1>p, <3>1 DEF Reader
    <3>3. e \in From(w)
      <4>1. IsPaused(w) \in BOOLEAN
        BY DEF IsPaused
      <4> QED
        BY Zenon, <1>9, <1>a, <4>1
    <3> HIDE DEF P, e
    <3>4. Wrote(w, e) /\ Answers(w)
      BY Zenon, <1>3, <3>1, <3>3, Writes
    <3>5. Handled(w, m)
      BY <2>2, <3>2, <3>4, Zenon DEF Handled, e
    <3> QED
      BY <1>2, <1>4, <1>5, <1>6, <3>2, <3>4, <3>5, Zenon DEF Works, P
  <2>3. CASE m.op = "produce" /\ r = HandleProduce(w, m)
    <3> DEFINE e == Answer(w, m, TRUE, m.paused)
    <3>1. /\ process' = [live |-> process.live \cup {"pipe"},
                         paused |-> process.paused \cup (IF m.paused THEN {"pipe"} ELSE {})]
          /\ r[2] = <<e>>
      BY Zenon, <1>3, <2>3 DEF HandleProduce, Reply, Answer
    <3>2. P /\ process'.live = process.live \cup {"pipe"}
          /\ process'.paused = process.paused \cup (IF m.paused THEN {"pipe"} ELSE {})
      BY <1>p, <3>1
    <3>3. e \in From(w)
      BY Zenon, <1>7, <1>9, <1>a
    <3> HIDE DEF P, e
    <3>4. Wrote(w, e) /\ Answers(w)
      BY Zenon, <1>3, <3>1, <3>3, Writes
    <3>5. Handled(w, m)
      BY <2>3, <3>2, <3>4, Zenon DEF Handled, e
    <3> QED
      BY <1>2, <1>4, <1>5, <1>6, <3>2, <3>4, <3>5, Zenon DEF Works, P
  <2>4. CASE m.op = "consume" /\ Source(w) \in process.live
    <3>1. Outcomes(w, m) = {HandleConsume(w, m), <<process, Reply(w, m, FALSE, FALSE)>>}
      BY Zenon, <2>4 DEF Outcomes
    <3>2. r = HandleConsume(w, m) \/ r = <<process, Reply(w, m, FALSE, FALSE)>>
      BY <1>3, <3>1, Zenon
    <3>3. r = <<process, Reply(w, m, FALSE, FALSE)>> => process' = process /\ r[2] = Reply(w, m, FALSE, FALSE)
      BY <1>3
    <3> QED
      BY <2>1, <2>2, <2>4, <3>2, <3>3, Zenon
  <2>5. CASE m.op = "consume" /\ Source(w) \notin process.live
    <3>1. Outcomes(w, m) = {<<process, Reply(w, m, FALSE, FALSE)>>}
      BY <2>5 DEF Outcomes
    <3> QED
      BY <1>3, <2>1, <3>1
  <2>6. CASE m.op = "produce"
    <3>1. Outcomes(w, m) = {HandleProduce(w, m), <<process, Reply(w, m, FALSE, FALSE)>>}
      BY Zenon, <2>6 DEF Outcomes
    <3>2. r = HandleProduce(w, m) \/ r = <<process, Reply(w, m, FALSE, FALSE)>>
      BY <1>3, <3>1, Zenon
    <3>3. r = <<process, Reply(w, m, FALSE, FALSE)>> => process' = process /\ r[2] = Reply(w, m, FALSE, FALSE)
      BY <1>3
    <3> QED
      BY <2>1, <2>3, <2>6, <3>2, <3>3, Zenon
  <2> QED
    BY <1>9, <2>4, <2>5, <2>6 DEF Creations
<1>10. CASE m.op = "close" \/ (m.op = "closePipe" /\ w = 2)
  <2>1. r = HandleClose(w)
    <3>1. CASE m.op = "close"
      BY <1>3, <3>1 DEF Outcomes
    <3>2. CASE m.op = "closePipe" /\ w = 2
      <4>1. Outcomes(w, m) = {HandleClosePipe(w)}
        BY <3>2 DEF Outcomes
      <4>2. HandleClosePipe(w) = HandleClose(w)
        BY <3>2 DEF HandleClosePipe
      <4> QED
        BY <1>3, <4>1, <4>2, Zenon
    <3> QED
      BY <1>10, <3>1, <3>2
  <2>2. P /\ process'.live = process.live \ {Source(w), Reader(w)} /\ process'.paused = process.paused
        /\ r[2] = IF Reader(w) \in process.live THEN <<Note(w, "producerclose")>> ELSE <<>>
    BY <1>3, <1>p, <2>1 DEF HandleClose, Tell, Note
  <2> HIDE DEF P
  <2>3. CASE Reader(w) \in process.live
    <3>1. Wrote(w, Note(w, "producerclose")) /\ Answers(w)
      BY Zenon, <1>3, <1>n, <2>2, <2>3, Writes
    <3>2. Handled(w, m)
      BY <1>10, <2>2, <2>3, <3>1, Zenon DEF Handled
    <3> QED
      BY <1>2, <1>4, <1>5, <1>6, <2>2, <3>1, <3>2, ZenonT(30) DEF Works, P
  <2>4. CASE Reader(w) \notin process.live
    <3>1. toNode' = toNode /\ Answers(w)
      BY Zenon, <1>3, <2>2, <2>4, WritesNone
    <3>2. Handled(w, m)
      BY <1>10, <2>2, <2>4, <3>1, Zenon DEF Handled
    <3> QED
      BY <1>2, <1>4, <1>5, <1>6, <2>2, <3>1, <3>2, Zenon DEF Works, P
  <2> QED
    BY <2>3, <2>4
<1>11. CASE m.op = "closePipe" /\ w = 1
  <2>1. r = <<[process EXCEPT !.live = @ \ {"consumer"}], <<>>>>
    BY <1>3, <1>11 DEF Outcomes, HandleClosePipe
  <2>2. P /\ process'.live = process.live \ {"consumer"} /\ process'.paused = process.paused
        /\ r[2] = <<>>
    BY <1>3, <1>p, <2>1
  <2> HIDE DEF P
  <2>3. toNode' = toNode /\ Answers(w)
    BY ZenonT(30), <1>3, <2>2, WritesNone
  <2>4. Handled(w, m)
    BY <1>11, <2>2, <2>3, Zenon DEF Handled
  <2> QED
    BY <1>2, <1>4, <1>5, <1>6, <2>2, <2>3, <2>4, Zenon DEF Works, P
<1> QED
  BY <1>7, <1>8, <1>9, <1>10, <1>11 DEF Changes, Creations, Workers

LEMMA EndIsHeard ==
  ASSUME NEW w, Ending(w)
  PROVE  Hears(w)
  BY Zenon DEF Ending, Hears, Has, Ends

LEMMA OfAnswer ==
  ASSUME NEW w \in Workers, NEW m, m.op \in Creations \cup Changes,
         NEW ok \in BOOLEAN, NEW paused \in BOOLEAN
  PROVE  LET e == Answer(w, m, ok, paused) IN
         /\ e \in Responses /\ e.from = w /\ e.op = m.op /\ e.ok = ok /\ e.paused = paused
         /\ Says(e) = IF m.op \in Creations THEN paused ELSE m.op = "pause"
  BY DEF Answer, Responses, Says, Creations, Changes

LEMMA OfOwnNote ==
  ASSUME NEW w \in Workers, NEW op \in {"producerpause", "producerresume", "producerclose"}
  PROVE  /\ Note(w, op) \in Notes /\ Note(w, op).from = w /\ Note(w, op).op = op
         /\ Says(Note(w, op)) = (op = "producerpause")
  BY DEF Note, Notes, Says, Creations

\* Worker w sends nothing about a creation.
NewsOnly(w) ==
  \A v \in Workers :
    /\ \A op \in Creations :
         /\ Has(toNode'[v], Got(v, op)) <=> Has(toNode[v], Got(v, op))
         /\ Has(toNode'[v], Yes(v, op)) <=> Has(toNode[v], Yes(v, op))
         /\ Once(toNode[v], Got(v, op)) => Once(toNode'[v], Got(v, op))
    /\ Ordered(toNode[v], Got(v, "consume"), Told(v)) => Ordered(toNode'[v], Got(v, "consume"), Told(v))
    /\ Has(toNode'[v], Told(v)) => Has(toNode[v], Told(v)) \/ (v = w /\ Reader(w) \in process.live)
    /\ Has(toNode'[v], Ends(v)) => Has(toNode[v], Ends(v)) \/ (v = w /\ Reader(w) \notin process'.live)

\* A message that is no answer to a creation.
IsNews(w, e) ==
  /\ \A v, op : op \in Creations => e \notin Got(v, op) /\ e \notin Yes(v, op)
  /\ e \in Told(w) => Reader(w) \in process.live
  /\ e \in Ends(w) => Reader(w) \notin process'.live

LEMMA WritesNews ==
  ASSUME NEW w \in Workers, NEW e, IsNews(w, e), Wrote(w, e), Answers(w)
  PROVE  NewsOnly(w)
<1>1. "consume" \in Creations
  BY DEF Creations
<1>2. ASSUME NEW v \in Workers
      PROVE  /\ \A op \in Creations :
                  /\ Has(toNode'[v], Got(v, op)) <=> Has(toNode[v], Got(v, op))
                  /\ Has(toNode'[v], Yes(v, op)) <=> Has(toNode[v], Yes(v, op))
                  /\ Once(toNode[v], Got(v, op)) => Once(toNode'[v], Got(v, op))
             /\ Ordered(toNode[v], Got(v, "consume"), Told(v)) => Ordered(toNode'[v], Got(v, "consume"), Told(v))
             /\ Has(toNode'[v], Told(v)) => Has(toNode[v], Told(v)) \/ (v = w /\ Reader(w) \in process.live)
             /\ Has(toNode'[v], Ends(v)) => Has(toNode[v], Ends(v)) \/ (v = w /\ Reader(w) \notin process'.live)
  <2>1. CASE v = w
    BY <1>1, <2>1, Zenon DEF Wrote, Added, IsNews
  <2>2. CASE v # w
    BY <2>2, Zenon DEF Answers
  <2> QED
    BY Zenon, <2>1, <2>2
<1> QED
  BY <1>2, Zenon DEF NewsOnly

LEMMA WritesTwoNews ==
  ASSUME NEW w \in Workers, NEW d, NEW e, IsNews(w, d), IsNews(w, e), Answers(w),
         \E s : Added(toNode[w], d, s) /\ Added(s, e, toNode'[w])
  PROVE  NewsOnly(w)
<1>1. "consume" \in Creations
  BY Zenon DEF Creations
<1>s. PICK s : Added(toNode[w], d, s) /\ Added(s, e, toNode'[w])
  OBVIOUS
<1>2. ASSUME NEW v \in Workers
      PROVE  /\ \A op \in Creations :
                  /\ Has(toNode'[v], Got(v, op)) <=> Has(toNode[v], Got(v, op))
                  /\ Has(toNode'[v], Yes(v, op)) <=> Has(toNode[v], Yes(v, op))
                  /\ Once(toNode[v], Got(v, op)) => Once(toNode'[v], Got(v, op))
             /\ Ordered(toNode[v], Got(v, "consume"), Told(v)) => Ordered(toNode'[v], Got(v, "consume"), Told(v))
             /\ Has(toNode'[v], Told(v)) => Has(toNode[v], Told(v)) \/ (v = w /\ Reader(w) \in process.live)
             /\ Has(toNode'[v], Ends(v)) => Has(toNode[v], Ends(v)) \/ (v = w /\ Reader(w) \notin process'.live)
  <2>1. CASE v = w
    BY <1>1, <1>s, <2>1, Zenon DEF Added, IsNews
  <2>2. CASE v # w
    BY <2>2, Zenon DEF Answers
  <2> QED
    BY Zenon, <2>1, <2>2
<1> QED
  BY <1>2, ZenonT(30) DEF NewsOnly

\* A request that creates nothing.
LEMMA PlainWork ==
  ASSUME NEW w \in Workers, NEW m, Works(w, m), m.op \notin Creations
  PROVE  /\ NewsOnly(w) /\ process'.live \subseteq process.live
         /\ m.op = "closePipe" => Source(w) \notin process'.live \/ w = 1
         /\ m.op = "closePipe" => Reader(w) \notin process'.live
<1>0. Handled(w, m) /\ Answers(w) /\ m \in Requests
  BY DEF Works
<1>a. ASSUME NEW ok \in BOOLEAN, NEW paused \in BOOLEAN, m.op \in Changes
      PROVE  IsNews(w, Answer(w, m, ok, paused))
  <2> DEFINE e == Answer(w, m, ok, paused)
  <2>1. e \in Responses /\ e.op = m.op
    BY <1>a, OfAnswer
  <2> HIDE DEF e
  <2>2. /\ \A v, op : e \in Got(v, op) => op = e.op
        /\ \A v, op : e \in Yes(v, op) => op = e.op
        /\ e \notin Told(w) /\ e \notin Ends(w)
    BY Zenon, <2>1, OfResponse
  <2>3. IsNews(w, e)
    BY <1>a, <2>1, <2>2 DEF IsNews, Changes, Creations
  <2> QED
    BY Zenon, <2>3 DEF e
<1>n. ASSUME NEW op \in {"producerpause", "producerresume", "producerclose"},
             Reader(w) \in process.live, op = "producerclose" => Reader(w) \notin process'.live
      PROVE  IsNews(w, Note(w, op))
  <2> DEFINE e == Note(w, op)
  <2>1. e \in Notes /\ e.op = op
    BY OfOwnNote
  <2> HIDE DEF e
  <2>2. /\ \A v, o : e \notin Got(v, o) /\ e \notin Yes(v, o)
        /\ e \in Ends(w) => op = "producerclose"
    BY Zenon, <2>1, OfNote
  <2>3. IsNews(w, e)
    BY SMTT(30), <1>n, <2>2 DEF IsNews
  <2> QED
    BY <2>3 DEF e
<1>s. toNode' = toNode => NewsOnly(w)
  BY ZenonT(30) DEF NewsOnly
<1>1. CASE m.op \in Changes /\ Source(w) \in process.live /\ process'.live = process.live /\
           IF Reader(w) \in process.live /\ IsPaused(w) # (m.op = "pause")
           THEN \E s : /\ Added(toNode[w], PauseNote(w, m), s)
                       /\ Added(s, Answer(w, m, TRUE, m.op = "pause"), toNode'[w])
           ELSE Wrote(w, Answer(w, m, TRUE, m.op = "pause"))
  <2>1. IsNews(w, Answer(w, m, TRUE, m.op = "pause"))
    BY Zenon, <1>1, <1>a
  <2>2. NewsOnly(w)
    <3>1. CASE Reader(w) \in process.live /\ IsPaused(w) # (m.op = "pause")
      <4>1. IsNews(w, PauseNote(w, m))
        BY <1>n, <3>1 DEF PauseNote
      <4> QED
        BY <1>0, <1>1, <2>1, <3>1, <4>1, WritesTwoNews, Zenon
    <3>2. CASE ~(Reader(w) \in process.live /\ IsPaused(w) # (m.op = "pause"))
      BY <1>0, <1>1, <2>1, <3>2, WritesNews, Zenon
    <3> QED
      BY <3>1, <3>2
  <2> QED
    BY SMTT(30), <1>1, <2>2 DEF Changes
<1>2. CASE m.op \in Changes /\ process' = process /\ Wrote(w, Answer(w, m, FALSE, FALSE))
  <2>1. NewsOnly(w)
    BY Zenon, <1>0, <1>2, <1>a, WritesNews
  <2> QED
    BY <1>2, <2>1 DEF Changes
<1>3. CASE /\ process'.live = process.live \ {Source(w), Reader(w)}
           /\ IF Reader(w) \in process.live THEN Wrote(w, Note(w, "producerclose")) ELSE toNode' = toNode
  <2>1. Reader(w) \notin process'.live /\ Source(w) \notin process'.live
        /\ process'.live \subseteq process.live
    BY Zenon, <1>3
  <2>2. NewsOnly(w)
    BY Zenon, <1>0, <1>3, <1>n, <1>s, <2>1, WritesNews
  <2> QED
    BY Zenon, <2>1, <2>2
<1>4. CASE w = 1 /\ process'.live = process.live \ {"consumer"} /\ toNode' = toNode
  <2>1. Reader(w) \notin process'.live /\ process'.live \subseteq process.live
    BY <1>4 DEF Reader
  <2> QED
    BY Zenon, <1>4, <1>s, <2>1
<1> QED
  BY <1>0, <1>1, <1>2, <1>3, <1>4, Zenon DEF Handled, Creations

LEMMA PlainWorkFails ==
  ASSUME FailInv, NEW w \in Workers, NEW m, Works(w, m), m.op \notin Creations
  PROVE  FailInv'
<1>0. PipeTyped /\ AskedOnce /\ Steps /\ Owned /\ InOrder /\ Gone
  BY Zenon DEF FailInv
<1>1. /\ NewsOnly(w) /\ process'.live \subseteq process.live
      /\ m.op = "closePipe" => Source(w) \notin process'.live \/ w = 1
      /\ m.op = "closePipe" => Reader(w) \notin process'.live
  BY Zenon, PlainWork
<1>2. /\ UNCHANGED <<data, patient, producer, consumer, pipe, sink, step, wired, left, micro, immediates>>
      /\ Taken(toWorker[w], m, toWorker'[w]) /\ \A v \in Workers : v # w => toWorker'[v] = toWorker[v]
      /\ m \in Requests
  BY Zenon DEF Works, given, lib
<1>3. PipeTyped' /\ Steps'
  BY SMTT(30), <1>0, <1>2 DEF PipeTyped, Steps, Works, Answers
<1>4. \A op : m \in Ask(op) <=> m.op = op
  BY <1>2, OfRequest
<1>5. ASSUME NEW v \in Workers, NEW op \in Creations
      PROVE  /\ Has(toWorker'[v], Ask(op)) <=> Has(toWorker[v], Ask(op))
             /\ Once(toWorker[v], Ask(op)) => Once(toWorker'[v], Ask(op))
  <2>1. m \notin Ask(op)
    BY <1>4
  <2> QED
    BY <1>2, <2>1, Zenon DEF Taken
<1>6. AskedOnce'
  BY <1>0, <1>1, <1>2, <1>5, ZenonT(30) DEF AskedOnce, Single, Pending, Waits,
     NewsOnly
<1>7. \A v \in Workers : Closing(v) => Closing(v)' \/ (v = w /\ m.op = "closePipe")
  BY <1>2, <1>4, Zenon DEF Closing, Taken
<1>8. \A v \in Workers, op \in Creations : Coming(v, op)' <=> Coming(v, op)
  BY <1>1, <1>2, Zenon DEF Coming, NewsOnly
<1>9. Owned'
  <2>1. "consumer" \in process'.live => consumer.state = "open" \/ Coming(1, "consume")' \/ Closing(1)'
    BY <1>0, <1>1, <1>7, <1>8 DEF Owned, Reader, Workers, Creations
  <2>2. "pipe" \in process'.live => pipe.state = "open" \/ Coming(2, "produce")' \/ Closing(2)'
    BY <1>0, <1>1, <1>7, <1>8 DEF Owned, Source, Workers, Creations
  <2>3. "sink" \in process'.live =>
           sink.state # "none" /\ (sink.state = "consuming" => Coming(2, "consume")')
    BY <1>0, <1>1, <1>8 DEF Owned, Workers, Creations
  <2> QED
    BY <1>2, <2>1, <2>2, <2>3 DEF Owned
<1>10. ASSUME NEW v \in Workers
       PROVE  /\ Hears(v)' => Hears(v) \/ (v = w /\ Reader(w) \in process.live)
              /\ Ending(v)' => Ending(v) \/ (v = w /\ Reader(w) \notin process'.live)
  BY <1>1, <1>2, Zenon DEF Hears, Ending, NewsOnly
<1>11. InOrder'
  <2>1. "consume" \in Creations
    BY Zenon DEF Creations
  <2>2. \A v \in Workers : Reader(v) \notin process.live => Reader(v) \notin process'.live
    BY Zenon, <1>1
  <2> QED
    BY <1>0, <1>1, <1>2, <1>5, <1>10, <2>1, <2>2, Zenon DEF InOrder, NewsOnly
<1>12. Gone'
  <2>1. \A v \in Workers : Ending(v)' => Reader(v) \notin process'.live
    BY Zenon, <1>0, <1>1, <1>10 DEF Gone
  <2>2. Hears(2)' => sink'.state # "none"
    BY <1>0, <1>2, <1>10 DEF Gone, Owned, Workers, Reader
  <2> QED
    BY Zenon, <2>1, <2>2 DEF Gone
<1> QED
  BY <1>3, <1>6, <1>9, <1>11, <1>12 DEF FailInv

\* The answer e to a request that creates something.
Creates(w, m, e) ==
  /\ Wrote(w, e) /\ e \in Responses /\ e.from = w /\ e.op = m.op
  /\ Says(e) = e.paused /\ m.op \in Creations
  /\ \/ e.ok = FALSE /\ process' = process
     \/ /\ e.ok = TRUE /\ m.op = "consume" /\ Source(w) \in process.live /\ e.paused = IsPaused(w)
        /\ process'.live = process.live \cup {Reader(w)} /\ process'.paused = process.paused
     \/ /\ e.ok = TRUE /\ m.op = "produce" /\ e.paused = m.paused
        /\ process'.live = process.live \cup {"pipe"}
        /\ process'.paused = process.paused \cup (IF m.paused THEN {"pipe"} ELSE {})

LEMMA CreationDoes ==
  ASSUME NEW w \in Workers, NEW m, Works(w, m), m.op \in Creations
  PROVE  \E e : Creates(w, m, e)
<1>0. Handled(w, m) /\ m.paused \in BOOLEAN /\ IsPaused(w) \in BOOLEAN
  BY OfRequest DEF Works, IsPaused
<1>1. ASSUME NEW ok \in BOOLEAN, NEW paused \in BOOLEAN
      PROVE  LET e == Answer(w, m, ok, paused) IN
             /\ e \in Responses /\ e.from = w /\ e.op = m.op /\ e.ok = ok /\ e.paused = paused
             /\ Says(e) = e.paused
  BY OfAnswer
<1>2. CASE process' = process /\ Wrote(w, Answer(w, m, FALSE, FALSE))
  <2>1. Creates(w, m, Answer(w, m, FALSE, FALSE))
    BY <1>1, <1>2, Zenon DEF Creates
  <2> QED
    BY Zenon, <2>1
<1>3. CASE /\ m.op = "consume" /\ Source(w) \in process.live
           /\ process'.live = process.live \cup {Reader(w)} /\ process'.paused = process.paused
           /\ Wrote(w, Answer(w, m, TRUE, IsPaused(w)))
  <2>1. Creates(w, m, Answer(w, m, TRUE, IsPaused(w)))
    BY <1>0, <1>1, <1>3, Zenon DEF Creates
  <2> QED
    BY Zenon, <2>1
<1>4. CASE /\ m.op = "produce" /\ process'.live = process.live \cup {"pipe"}
           /\ process'.paused = process.paused \cup (IF m.paused THEN {"pipe"} ELSE {})
           /\ Wrote(w, Answer(w, m, TRUE, m.paused))
  <2>1. Creates(w, m, Answer(w, m, TRUE, m.paused))
    BY <1>0, <1>1, <1>4, Zenon DEF Creates
  <2> QED
    BY ZenonT(30), <2>1
<1>5. m.op \notin Changes /\ m.op # "close" /\ m.op # "closePipe"
  BY DEF Creations, Changes
<1> QED
  BY <1>0, <1>2, <1>3, <1>4, <1>5, Zenon DEF Handled

LEMMA CreationFails ==
  ASSUME FailInv, NEW w \in Workers, NEW m, Works(w, m), NEW e, Creates(w, m, e)
  PROVE  FailInv'
<1>0. PipeTyped /\ AskedOnce /\ Steps /\ Owned /\ InOrder /\ Gone
  BY Zenon DEF FailInv
<1>2. /\ UNCHANGED <<data, patient, producer, consumer, pipe, sink, step, wired, left, micro, immediates>>
      /\ Taken(toWorker[w], m, toWorker'[w]) /\ \A v \in Workers : v # w => toWorker'[v] = toWorker[v]
      /\ m \in Requests /\ \A v \in Workers : v # w => toNode'[v] = toNode[v]
  BY ZenonT(30) DEF Works, given, lib, Answers
<1>e. /\ Added(toNode[w], e, toNode'[w]) /\ m.op \in Creations
      /\ \A v, op : e \in Got(v, op) <=> v = w /\ op = m.op
      /\ \A v, op : e \in Yes(v, op) <=> v = w /\ op = m.op /\ e.ok
      /\ \A v : e \notin Told(v) /\ e \notin Ends(v)
  BY OfResponse DEF Creates, Wrote
<1>3. PipeTyped' /\ Steps'
  BY SMTT(30), <1>0, <1>2 DEF PipeTyped, Steps, Works, Answers
<1>4. \A op : m \in Ask(op) <=> m.op = op
  BY ZenonT(30), <1>2, OfRequest
<1>5. ASSUME NEW v \in Workers, NEW op \in Creations
      PROVE  /\ Single(v, op)'
             /\ Pending(v, op)' => Pending(v, op)
             /\ v = w /\ op = m.op => ~Has(toWorker'[v], Ask(op)) /\ Has(toWorker[v], Ask(op))
             /\ Has(toWorker'[v], Ask(op)) => Has(toWorker[v], Ask(op))
  <2>1. CASE v = w /\ op = m.op
    BY <1>0, <1>2, <1>e, <1>4, <1>5, <2>1, Zenon DEF AskedOnce, Single,
       Pending, Taken, Added
  <2>2. CASE ~(v = w /\ op = m.op)
    BY <1>0, <1>2, <1>e, <1>4, <1>5, <2>2, Zenon DEF AskedOnce, Single,
       Pending, Taken, Added
  <2> QED
    BY Zenon, <2>1, <2>2
<1>6. AskedOnce'
  BY <1>0, <1>2, <1>5, Zenon DEF AskedOnce, Waits
<1>w. Waits(w, m.op)
  BY <1>0, <1>5, <1>e, Zenon DEF AskedOnce, Pending
<1>7. \A v \in Workers : Closing(v) => Closing(v)'
  <2>1. m \notin Ask("closePipe")
    BY <1>4, <1>e DEF Creations
  <2> QED
    BY <1>2, <2>1, ZenonT(60) DEF Closing, Taken
<1>8. \A v \in Workers, op \in Creations :
        Coming(v, op)' <=> Coming(v, op) \/ (v = w /\ op = m.op /\ e.ok)
  BY <1>2, <1>e, Zenon DEF Coming, Added
<1>l. /\ process'.live \subseteq process.live \cup {Reader(w), "pipe"}
      /\ "pipe" \in process'.live => "pipe" \in process.live \/ (m.op = "produce" /\ e.ok)
      /\ \A v \in Workers : Reader(v) \in process'.live =>
            Reader(v) \in process.live \/ (v = w /\ m.op = "consume" /\ e.ok)
  BY Zenon DEF Creates, Reader, Workers
<1>9. Owned'
  <2>1. "consumer" \in process'.live => consumer.state = "open" \/ Coming(1, "consume")' \/ Closing(1)'
    BY Zenon, <1>0, <1>7, <1>8, <1>l DEF Owned, Reader, Workers, Creations
  <2>2. "pipe" \in process'.live => pipe.state = "open" \/ Coming(2, "produce")' \/ Closing(2)'
    BY Zenon, <1>0, <1>7, <1>8, <1>l, <1>w DEF Owned, Workers, Creations,
       Waits
  <2>3. "sink" \in process'.live =>
           sink.state # "none" /\ (sink.state = "consuming" => Coming(2, "consume")')
    BY ZenonT(30), <1>0, <1>8, <1>l, <1>w DEF Owned, Reader, Workers, Creations, Waits
  <2> QED
    BY Zenon, <1>2, <2>1, <2>2, <2>3 DEF Owned
<1>10. ASSUME NEW v \in Workers
       PROVE  (Hears(v)' <=> Hears(v)) /\ (Ending(v)' <=> Ending(v))
  BY <1>2, <1>e, <1>10, Zenon DEF Hears, Ending, Added
<1>c. m.op = "consume" => ~Hears(w)
  BY <1>0, <1>5, <1>e, ZenonT(30) DEF InOrder
<1>11. InOrder'
  <2>1. "consume" \in Creations
    BY DEF Creations
  <2>2. ASSUME NEW v \in Workers, Has(toWorker'[v], Ask("consume"))
        PROVE  Reader(v) \notin process'.live /\ ~Hears(v)'
    BY <1>0, <1>5, <1>10, <1>l, <2>1, <2>2, Zenon DEF InOrder
  <2>3. ASSUME NEW v \in Workers
        PROVE  /\ Ordered(toNode'[v], Got(v, "consume"), Told(v))
               /\ Has(toNode'[v], Got(v, "consume")) => ~Has(immediates', Told(v))
    <3>1. CASE v = w /\ m.op = "consume"
      BY Zenon, <1>0, <1>2, <1>e, <1>c, <3>1 DEF InOrder, Added, Hears
    <3>3. CASE v = w /\ m.op # "consume"
      <4>1. e \notin Got(w, "consume")
        BY SMTT(60), <1>e, <3>3
      <4> QED
        BY <1>0, <1>2, <1>e, <3>3, <4>1, ZenonT(30) DEF InOrder, Added
    <3>2. CASE v # w
      BY <1>0, <1>2, <3>2, ZenonT(30) DEF InOrder
    <3> QED
      BY SMTT(30), <3>1, <3>2, <3>3
  <2> QED
    BY ZenonT(30), <2>2, <2>3 DEF InOrder
<1>12. Gone'
  <2>1. \A v \in Workers : Ending(v)' => Reader(v) \notin process'.live
    BY <1>0, <1>10, <1>c, <1>l, EndIsHeard, Zenon DEF Gone
  <2>2. Hears(2)' => sink'.state # "none"
    BY Zenon, <1>0, <1>2, <1>10 DEF Gone, Workers
  <2> QED
    BY Zenon, <2>1, <2>2 DEF Gone
<1> QED
  BY <1>3, <1>6, <1>9, <1>11, <1>12 DEF FailInv

LEMMA OneRequest ==
  ASSUME NEW s, s = <<Request("consume")>>
  PROVE  /\ s \in Seq(Requests) /\ \A X : Once(s, X)
         /\ \A X : Has(s, X) <=> Request("consume") \in X
<1>1. Request("consume") \in Requests
  BY DEF Request, Requests, Creations
<1>2. s \in Seq(Requests) /\ DOMAIN s = {1} /\ s[1] = Request("consume")
  BY <1>1
<1> QED
  BY <1>2 DEF Has, Once

LEMMA InitFails ==
  ASSUME Init
  PROVE  FailInv
<1>1. /\ toWorker[1] = <<Request("consume")>> /\ toWorker[2] = <<>> /\ toNode[1] = <<>>
      /\ toNode[2] = <<>> /\ micro = <<>> /\ immediates = <<>> /\ left[1] = 0 /\ left[2] = 0
  BY DEF Init
<1>2. /\ consumer.state = "none" /\ pipe.state = "none" /\ sink.state = "none" /\ step = "consume"
      /\ wired = FALSE /\ process.live = {"producer"}
  BY DEF Init
<1>3. Request("consume") \in Requests /\ \A op : Request("consume") \in Ask(op) <=> op = "consume"
  <2>1. Request("consume") \in Requests /\ Request("consume").op = "consume"
    BY Zenon DEF Request, Requests, Creations
  <2> QED
    BY <2>1, OfRequest
<1>4. PipeTyped
  <2>0. /\ <<>> \in Seq(Requests) /\ <<>> \in Seq(Responses \cup Notes)
        /\ \A w : <<>> \in Seq(From(w))
        /\ 0 <= Len(<<>>) /\ 0 \in Nat
    OBVIOUS
  <2>1. PICK paused \in BOOLEAN :
          /\ producer = [closed |-> FALSE, paused |-> paused]
          /\ consumer = [state |-> "none", producerPaused |-> FALSE]
          /\ pipe = [state |-> "none", paused |-> FALSE]
          /\ sink = [state |-> "none", producerPaused |-> FALSE]
          /\ process = [live |-> {"producer"}, paused |-> IF paused THEN {"producer"} ELSE {}]
    BY Zenon DEF Init
  <2>2. /\ data \in BOOLEAN /\ patient \in BOOLEAN /\ wired \in BOOLEAN
        /\ step \in {"consume", "produce", "sync", "done", "failed"}
    BY Zenon, <1>2 DEF Init
  <2>3. /\ toWorker \in [Workers -> Seq(Requests)] /\ toNode \in [Workers -> Seq(Responses \cup Notes)]
        /\ left \in [Workers -> Nat]
    <3>1. DOMAIN toWorker = Workers /\ DOMAIN toNode = Workers /\ DOMAIN left = Workers
      BY DEF Init, Workers
    <3>2. /\ toWorker = [w \in Workers |-> toWorker[w]] /\ toNode = [w \in Workers |-> toNode[w]]
          /\ left = [w \in Workers |-> left[w]]
      BY <3>1 DEF Init
    <3>3. \A w \in Workers : /\ toWorker[w] \in Seq(Requests) /\ toNode[w] \in Seq(Responses \cup Notes)
                             /\ left[w] \in Nat
      <4>1. toWorker[1] \in Seq(Requests)
        BY ZenonT(30), <1>1, OneRequest
      <4> QED
        BY <1>1, <2>0, <4>1, Zenon DEF Workers
    <3> QED
      BY Zenon, <3>2, <3>3
  <2>4. \A w \in Workers : toNode[w] \in Seq(From(w)) /\ left[w] <= Len(toNode[w])
    <3>1. \A w \in Workers : toNode[w] = <<>> /\ left[w] = 0
      BY <1>1 DEF Workers
    <3> QED
      BY <2>0, <3>1, Zenon
  <2>5. micro \in Seq(Responses) /\ immediates \in Seq(Notes)
    BY <1>1
  <2> QED
    BY Zenon, <2>1, <2>2, <2>3, <2>4, <2>5 DEF PipeTyped
<1>5. /\ \A w \in Workers : \A X : ~Has(toNode[w], X) /\ Once(toNode[w], X)
      /\ \A w \in Workers : \A X, Y : Ordered(toNode[w], X, Y)
      /\ \A X : ~Has(micro, X) /\ Once(micro, X) /\ ~Has(immediates, X) /\ ~Has(toWorker[2], X)
      /\ \A w \in Workers : \A X : Once(toWorker[w], X)
      /\ \A X : Has(toWorker[1], X) <=> Request("consume") \in X
  BY <1>1, Empty, OneRequest DEF Workers
<1>6. AskedOnce
  BY Zenon, <1>2, <1>3, <1>5 DEF AskedOnce, Single, Pending, Waits, Workers
<1>7. Steps /\ Owned
  BY Zenon, <1>2 DEF Steps, Owned
<1>8. InOrder /\ Gone
  BY Zenon, <1>2, <1>5 DEF InOrder, Gone, Hears, Ending, Reader, Workers
<1> QED
  BY Zenon, <1>4, <1>6, <1>7, <1>8 DEF FailInv

LEMMA StutterFails ==
  ASSUME FailInv, UNCHANGED vars
  PROVE  FailInv'
<1>1. UNCHANGED <<data, patient, producer, consumer, pipe, sink, step, wired, process, toWorker,
                  toNode, left, micro, immediates>>
  BY Zenon DEF vars, given, lib
<1>2. PipeTyped'
  BY SMTT(30), <1>1 DEF FailInv, PipeTyped
<1>t. Steps'
  BY ZenonT(60), <1>1 DEF FailInv, Steps
<1>3. AskedOnce' /\ Owned'
  BY SMTT(30), <1>1 DEF FailInv, AskedOnce, Single, Pending, Waits, Owned,
     Coming, Closing
<1>4. InOrder' /\ Gone'
  BY Zenon, <1>1 DEF FailInv, InOrder, Gone, Hears, Ending
<1> QED
  BY Zenon, <1>2, <1>t, <1>3, <1>4 DEF FailInv

LEMMA NextFails ==
  ASSUME FailInv, [Next]_vars
  PROVE  FailInv'
<1>0. PipeTyped
  BY DEF FailInv
<1>1. CASE Application
  BY <1>1, ApplicationFails
<1>2. CASE Loop
  <2>1. UNCHANGED given
    BY <1>2 DEF Loop
  <2>2. CASE Read
    BY Zenon, <1>0, <2>1, <2>2, ReadDoes, ReadFails
  <2>3. CASE Continue
    BY Zenon, <1>0, <2>1, <2>3, ContinueDoes, ContinueFails
  <2>4. CASE Notify
    BY Zenon, <1>0, <2>1, <2>4, NotifyDoes, NotifyFails
  <2> QED
    BY <1>2, <2>2, <2>3, <2>4 DEF Loop
<1>3. CASE WorkerHandles
  <2>1. PICK w \in Workers : \E m : Works(w, m)
    BY <1>0, <1>3, WorkDoes, Zenon
  <2>2. PICK m : Works(w, m)
    BY Zenon, <2>1
  <2> QED
    BY <2>2, PlainWorkFails, CreationDoes, CreationFails
<1> QED
  BY <1>1, <1>2, <1>3, StutterFails DEF Next

LEMMA NothingComes ==
  ASSUME Quiet
  PROVE  /\ \A w \in Workers : \A X : ~Has(toNode[w], X) /\ ~Has(toWorker[w], X)
         /\ \A X : ~Has(micro, X) /\ ~Has(immediates, X)
         /\ \A w \in Workers : \A op : ~Coming(w, op) /\ ~Closing(w) /\ ~Ending(w)
<1>1. \A w \in Workers : toNode[w] = <<>> /\ toWorker[w] = <<>>
  BY DEF Quiet, Workers
<1>2. micro = <<>> /\ immediates = <<>>
  BY DEF Quiet
<1> QED
  BY Zenon, <1>1, <1>2, Empty DEF Coming, Closing, Ending

LEMMA FailedHolds ==
  ASSUME FailInv
  PROVE  FailedLeavesNothing
<1> SUFFICES ASSUME Quiet, step = "failed"
             PROVE  /\ consumer.state # "open" /\ pipe.state # "open"
                    /\ process.live \subseteq {"producer"}
  BY DEF FailedLeavesNothing
<1>1. consumer.state # "open" /\ pipe.state # "open" /\ sink.state = "none"
  BY Zenon DEF FailInv, Steps
<1>2. "consumer" \notin process.live /\ "pipe" \notin process.live /\ "sink" \notin process.live
  BY Zenon, <1>1, NothingComes DEF FailInv, Owned, Workers
<1>3. process.live \subseteq {"producer", "consumer", "pipe", "sink"}
  BY DEF FailInv, PipeTyped
<1> QED
  BY <1>1, <1>2, <1>3

-----------------------------------------------------------------------------
(* What the library knows.                                                 *)

LEMMA AskTopics ==
  ASSUME NEW w \in Workers, NEW e \in Requests, Asks(w, e)
  PROVE  /\ \A v \in Workers : \A op :
              Has(toWorker'[v], Ask(op)) <=> Has(toWorker[v], Ask(op)) \/ (v = w /\ op = e.op)
         /\ \A v \in Workers : \A x :
              After(toWorker'[v], Orders, x) =
                IF v = w /\ e.op \in Changes \cup {"produce"} THEN Says(e)
                ELSE After(toWorker[v], Orders, x)
<1>1. (\A op : e \in Ask(op) <=> e.op = op) /\ (e \in Orders <=> e.op \in Changes \cup {"produce"})
  BY OfRequest
<1> QED
  BY <1>1, Zenon DEF Asks, Added

LEMMA CloseTopics ==
  ASSUME NEW S \in SUBSET Workers, Closes(S)
  PROVE  /\ \A v \in Workers : \A op :
              Has(toWorker'[v], Ask(op)) <=> Has(toWorker[v], Ask(op)) \/ (v \in S /\ op = "closePipe")
         /\ \A v \in Workers : \A x : After(toWorker'[v], Orders, x) = After(toWorker[v], Orders, x)
<1> DEFINE e == Request("closePipe")
<1>1. e \in Requests /\ e.op = "closePipe"
  BY DEF Request, Requests
<1>2. (\A op : e \in Ask(op) <=> e.op = op) /\ e \notin Orders
  BY <1>1, OfRequest DEF Changes
<1> HIDE DEF e
<1>3. /\ \A w \in S : Added(toWorker[w], e, toWorker'[w])
      /\ \A w \in Workers \ S : toWorker'[w] = toWorker[w]
  BY ZenonT(30) DEF Closes, e
<1>4. ASSUME NEW v \in Workers
      PROVE  /\ \A op : Has(toWorker'[v], Ask(op)) <=> Has(toWorker[v], Ask(op)) \/ (v \in S /\ op = "closePipe")
             /\ \A x : After(toWorker'[v], Orders, x) = After(toWorker[v], Orders, x)
  <2>1. CASE v \in S
    <3>1. Added(toWorker[v], e, toWorker'[v])
      BY <1>3, <2>1
    <3>2. \A op : Has(toWorker'[v], Ask(op)) <=> Has(toWorker[v], Ask(op)) \/ op = "closePipe"
      BY <1>1, <1>2, <3>1, Zenon DEF Added
    <3>3. \A x : After(toWorker'[v], Orders, x) = After(toWorker[v], Orders, x)
      BY <1>2, <3>1, Zenon DEF Added
    <3> QED
      BY Zenon, <2>1, <3>2, <3>3
  <2>2. CASE v \notin S
    BY <1>3, <2>2, Zenon
  <2> QED
    BY Zenon, <2>1, <2>2
<1> QED
  BY <1>4, Zenon

LEMMA SameTopics ==
  ASSUME toWorker' = toWorker
  PROVE  /\ \A v \in Workers : \A op : Has(toWorker'[v], Ask(op)) <=> Has(toWorker[v], Ask(op))
         /\ \A v \in Workers : \A x : After(toWorker'[v], Orders, x) = After(toWorker[v], Orders, x)
  OBVIOUS

\* Requests written one by one by the library.
LEMMA OwnRequest ==
  ASSUME NEW op \in {"consume", "pause", "resume", "close", "closePipe"}
  PROVE  Request(op) \in Requests /\ Request(op).op = op
  BY DEF Request, Requests, Creations, Changes

LEMMA OwnChange ==
  Says(Request("pause")) = TRUE /\ Says(Request("resume")) = FALSE
  BY DEF Request, Creations, Says

LEMMA SameViews ==
  ASSUME Known, toNode' = toNode, micro' = micro, immediates' = immediates, process' = process,
         \A w \in Workers : SourcePaused(w)' = SourcePaused(w),
         \A w \in Workers : View(w)'.producerPaused = View(w).producerPaused,
         \A w \in Workers : View(w).state = "closed" => View(w)'.state = "closed"
  PROVE  Known'
<1>1. ASSUME NEW w \in Workers
      PROVE  /\ SourceView(w)' = SourceView(w) /\ ReaderView(w)' = ReaderView(w)
             /\ IsPaused(w)' = IsPaused(w)
  BY <1>1, Zenon DEF SourceView, ReaderView, IsPaused
<1> QED
  BY <1>1, Zenon DEF Known

LEMMA ApplicationPipes ==
  ASSUME PipeInv, Application, FailInv'
  PROVE  PipeInv'
<1>0. PipeTyped /\ AskedOnce /\ Steps /\ Known /\ Ended /\ (patient => Early /\ Together)
  BY DEF PipeInv, FailInv
<1>g. UNCHANGED <<data, patient, toNode, left, micro, immediates, process>>
  BY Zenon DEF Application, PauseOrResume, CloseProducer, ConsumePipe, ClosePipe,
     given
<1>c. /\ \A w, op : Coming(w, op)' <=> Coming(w, op)
      /\ \A w : (Ending(w)' <=> Ending(w)) /\ IsPaused(w)' = IsPaused(w)
  BY Zenon, <1>g DEF Coming, Ending, IsPaused
<1>p. /\ Has(toWorker[2], Ask("produce")) \/ Coming(2, "produce") => step = "produce"
  <2>1. Coming(2, "produce") => Pending(2, "produce")
    BY Zenon DEF Coming, Pending, Has, Yes
  <2> QED
    BY <1>0, <2>1 DEF AskedOnce, Pending, Waits, Workers, Creations
<1>1. CASE PauseOrResume
  <2>1. PICK op \in Changes : toWorker' = Send(1, op)
    BY Zenon, <1>1 DEF PauseOrResume, Changes
  <2>2. UNCHANGED <<producer, consumer, pipe, sink, step, wired>> /\ MayCall
    BY <1>1 DEF PauseOrResume, lib
  <2>3. Request(op) \in Requests /\ Request(op).op = op /\ 1 \in Workers
    BY <2>1, OwnRequest DEF Changes, Workers
  <2>4. Asks(1, Request(op))
    BY <1>0, <2>1, <2>3, Sends, ZenonT(30) DEF Send
  <2>5. /\ \A v \in Workers : \A o :
             Has(toWorker'[v], Ask(o)) <=> Has(toWorker[v], Ask(o)) \/ (v = 1 /\ o = op)
        /\ \A x : After(toWorker'[2], Orders, x) = After(toWorker[2], Orders, x)
    BY <2>3, <2>4, AskTopics DEF Workers
  <2>6. Known'
    BY Zenon, <1>0, <1>g, <2>2, SameViews DEF SourcePaused, View
  <2>7. Ended'
    BY Zenon, <1>0, <1>g, <1>c, <2>2, <2>5 DEF Ended, Closing, View,
       Changes, Workers
  <2>8. patient => Early' /\ Together'
    BY Zenon, <1>0, <1>g, <1>c, <2>2, <2>5 DEF Early, Together, MayCall,
       Changes, Workers
  <2> QED
    BY Zenon, <1>g, <2>6, <2>7, <2>8 DEF PipeInv
<1>2. CASE CloseProducer
  <2>2. UNCHANGED <<consumer, pipe, sink, step, wired>> /\ MayCall /\ toWorker' = Send(1, "close")
        /\ producer' = [producer EXCEPT !.closed = TRUE]
    BY <1>2 DEF CloseProducer
  <2>3. Request("close") \in Requests /\ Request("close").op = "close" /\ 1 \in Workers
    BY OwnRequest DEF Workers
  <2>4. Asks(1, Request("close"))
    BY <1>0, <2>2, <2>3, Sends, ZenonT(30) DEF Send
  <2>5. /\ \A v \in Workers : \A o :
             Has(toWorker'[v], Ask(o)) <=> Has(toWorker[v], Ask(o)) \/ (v = 1 /\ o = "close")
        /\ \A x : After(toWorker'[2], Orders, x) = After(toWorker[2], Orders, x)
    BY <2>3, <2>4, AskTopics DEF Workers
  <2>6. Known'
    BY Zenon, <1>0, <1>g, <2>2, SameViews DEF SourcePaused, View, PipeTyped
  <2>7. Ended'
    BY <1>0, <1>g, <1>c, <2>2, <2>5 DEF Ended, Closing, View, Workers, PipeTyped
  <2>8. patient => Early' /\ Together'
    BY Zenon, <1>0, <1>g, <1>c, <2>2, <2>5 DEF Early, Together, MayCall, Workers
  <2> QED
    BY <1>g, <2>6, <2>7, <2>8 DEF PipeInv
<1>3. CASE ConsumePipe
  <2>2. UNCHANGED <<producer, consumer, pipe, step, wired>> /\ toWorker' = Send(2, "consume")
        /\ sink' = [sink EXCEPT !.state = "consuming"] /\ step = "done" /\ sink.state = "none"
    BY <1>3 DEF ConsumePipe
  <2>3. Request("consume") \in Requests /\ Request("consume").op = "consume" /\ 2 \in Workers
    BY OwnRequest DEF Workers
  <2>4. Asks(2, Request("consume"))
    BY <1>0, <2>2, <2>3, Sends, ZenonT(30) DEF Send
  <2>5. /\ \A v \in Workers : \A o :
             Has(toWorker'[v], Ask(o)) <=> Has(toWorker[v], Ask(o)) \/ (v = 2 /\ o = "consume")
        /\ \A x : After(toWorker'[2], Orders, x) = After(toWorker[2], Orders, x)
    BY <2>3, <2>4, AskTopics DEF Workers, Changes
  <2>6. Known'
    BY Zenon, <1>0, <1>g, <2>2, SameViews DEF SourcePaused, View, PipeTyped
  <2>7. Ended'
    BY ZenonT(30), <1>0, <1>g, <1>c, <2>2, <2>5 DEF Ended, Closing, View, Workers, PipeTyped
  <2>8. patient => Early' /\ Together'
    BY SMTT(30), <1>0, <1>g, <1>c, <2>2, <2>5 DEF Early, Together, Workers
  <2> QED
    BY <1>g, <2>6, <2>7, <2>8 DEF PipeInv
<1>4. CASE ClosePipe
  <2>2. /\ UNCHANGED <<producer, sink, step, wired>> /\ step = "done" /\ pipe.state = "open"
        /\ pipe' = [pipe EXCEPT !.state = "closed"]
        /\ consumer' = [consumer EXCEPT !.state = "closed"]
    BY Zenon, <1>0, <1>4 DEF ClosePipe, Steps
  <2>4. Closes(Workers)
    <3>1. toWorker' = [w \in Workers |-> IF w \in Workers THEN Append(toWorker[w], Request("closePipe"))
                                                        ELSE toWorker[w]]
      BY Zenon, <1>4 DEF ClosePipe
    <3> QED
      BY <1>0, <3>1, SendsClosing
  <2>5. /\ \A v \in Workers : \A o :
             Has(toWorker'[v], Ask(o)) <=> Has(toWorker[v], Ask(o)) \/ o = "closePipe"
        /\ \A x : After(toWorker'[2], Orders, x) = After(toWorker[2], Orders, x)
    BY <2>4, CloseTopics DEF Workers
  <2>6. Known'
    BY Zenon, <1>0, <1>g, <2>2, SameViews DEF SourcePaused, View, PipeTyped
  <2>7. Ended'
    BY Zenon, <1>0, <1>g, <1>c, <1>p, <2>2, <2>5 DEF Ended, Closing, View, Workers,
       PipeTyped
  <2>8. patient => Early' /\ Together'
    BY Zenon, <1>0, <1>g, <1>c, <1>p, <2>2, <2>5 DEF Early, Together, Workers,
       PipeTyped
  <2> QED
    BY <1>g, <2>6, <2>7, <2>8 DEF PipeInv
<1> QED
  BY Zenon, <1>1, <1>2, <1>3, <1>4 DEF Application

\* Only a Consumer's notifications are put off.
LEMMA PutOff ==
  ASSUME NEW s \in Seq(Notes), NEW w
  PROVE  Has(s, OfReader(w)) => Has(s, Told(w))
<1>1. \A i \in DOMAIN s : s[i] \in Notes
  OBVIOUS
<1>2. \A m \in Notes : m \in OfReader(w) => m \in Told(w)
  BY ZenonT(30), OfNote
<1> QED
  BY <1>1, <1>2, Zenon DEF Has
\* A message that moves from the head of one queue to the end of the queue behind which
\* it was read leaves what the two together say.
LEMMA MovesOver ==
  ASSUME NEW s, NEW t, NEW p, NEW q, NEW e, NEW X, NEW x, Taken(s, e, t), Added(p, e, q)
  PROVE  After(t, X, After(q, X, x)) = After(s, X, After(p, X, x))
<1>1. \A y : After(s, X, y) = After(t, X, IF e \in X THEN Says(e) ELSE y)
  BY Zenon DEF Taken
<1>2. After(q, X, x) = IF e \in X THEN Says(e) ELSE After(p, X, x)
  BY Zenon DEF Added
<1>3. After(s, X, After(p, X, x)) = After(t, X, IF e \in X THEN Says(e) ELSE After(p, X, x))
  BY Zenon, <1>1
<1> QED
  BY SMT, <1>2, <1>3

\* A message of another topic that is added leaves what a queue says.
LEMMA PassesBy ==
  ASSUME NEW p, NEW q, NEW e, NEW X, NEW x, Added(p, e, q), e \notin X
  PROVE  After(q, X, x) = After(p, X, x)
  BY Zenon DEF Added

LEMMA ReadViews ==
  ASSUME FailInv, NEW w \in Workers, NEW m, Reads(w, m), NEW v \in Workers
  PROVE  /\ SourceView(v)' = SourceView(v) /\ ReaderView(v)' = ReaderView(v)
         /\ \A op : Coming(v, op)' <=> Coming(v, op)
         /\ Ending(v)' <=> Ending(v)
<1>u. /\ View(v)' = View(v) /\ SourcePaused(v)' = SourcePaused(v)
      /\ Taken(toNode[w], m, toNode'[w]) /\ (v # w => toNode'[v] = toNode[v]) /\ m.from = w
  BY Zenon DEF Reads, lib, View, SourcePaused
<1>1. CASE m \in Notes /\ Added(immediates, m, immediates') /\ micro' = micro
  <2>1. /\ \A op : m \notin Yes(v, op)
        /\ m \notin OfSource(v) /\ (v # w => m \notin OfReader(v) /\ m \notin Ends(v))
    BY <1>1, <1>u, OfNote
  <2>2. SourceView(v)' = SourceView(v)
    <3>1. \A x : After(toNode'[v], OfSource(v), x) = After(toNode[v], OfSource(v), x)
      BY <1>u, <2>1, Zenon DEF Taken
    <3> QED
      BY <1>1, <1>u, <3>1, Zenon DEF SourceView
  <2>3. ReaderView(v)' = ReaderView(v)
    <3> DEFINE r == After(micro, OfReader(v), View(v).producerPaused)
    <3>1. r' = r
      BY <1>1, <1>u, ZenonT(30)
    <3> HIDE DEF r
    <3>2. After(toNode'[v], OfReader(v), After(immediates', OfReader(v), r))
            = After(toNode[v], OfReader(v), After(immediates, OfReader(v), r))
      <4>1. CASE v = w
        <5>1. Taken(toNode[v], m, toNode'[v])
          BY Zenon, <1>u, <4>1
        <5>2. Added(immediates, m, immediates')
          BY Zenon, <1>1
        <5> QED
          BY SMT, <5>1, <5>2, MovesOver
      <4>2. CASE v # w
        <5>1. toNode'[v] = toNode[v] /\ m \notin OfReader(v)
          BY Zenon, <1>u, <2>1, <4>2
        <5>2. Added(immediates, m, immediates')
          BY Zenon, <1>1
        <5> QED
          BY SMT, <5>1, <5>2, PassesBy
      <4> QED
        BY ZenonT(60), <4>1, <4>2
    <3>3. /\ ReaderView(v) = After(toNode[v], OfReader(v), After(immediates, OfReader(v), r))
          /\ ReaderView(v)' = After(toNode'[v], OfReader(v), After(immediates', OfReader(v), r'))
      BY Zenon DEF ReaderView, r
    <3> QED
      BY <3>1, <3>2, <3>3, Zenon
  <2>4. \A op : Coming(v, op)' <=> Coming(v, op)
    BY <1>1, <1>u, <2>1, Zenon DEF Coming, Taken
  <2>5. Ending(v)' <=> Ending(v)
    BY <1>1, <1>u, <2>1, Zenon DEF Ending, Taken, Added
  <2> QED
    BY ZenonT(30), <2>2, <2>3, <2>4, <2>5
<1>2. CASE m \in Responses /\ Added(micro, m, micro') /\ immediates' = immediates
  <2>1. /\ m \notin Ends(v) /\ (m \in OfReader(v) => m \in Got(v, "consume"))
        /\ v # w => m \notin OfReader(v) /\ m \notin OfSource(v) /\ \A op : m \notin Yes(v, op)
    BY Zenon, <1>2, <1>u, OfResponse
  <2>2. SourceView(v)' = SourceView(v)
    <3>1. After(toNode'[v], OfSource(v), After(micro', OfSource(v), SourcePaused(v)))
            = After(toNode[v], OfSource(v), After(micro, OfSource(v), SourcePaused(v)))
      <4>1. CASE v = w
        <5>1. Taken(toNode[v], m, toNode'[v])
          BY Zenon, <1>u, <4>1
        <5>2. Added(micro, m, micro')
          BY Zenon, <1>2
        <5> QED
          BY SMT, <5>1, <5>2, MovesOver
      <4>2. CASE v # w
        <5>1. toNode'[v] = toNode[v] /\ m \notin OfSource(v)
          BY Zenon, <1>u, <2>1, <4>2
        <5>2. Added(micro, m, micro')
          BY Zenon, <1>2
        <5> QED
          BY SMT, <5>1, <5>2, PassesBy
      <4> QED
        BY Zenon, <4>1, <4>2
    <3> QED
      BY <1>u, <3>1, ZenonT(30) DEF SourceView
  <2>3. ReaderView(v)' = ReaderView(v)
    <3> DEFINE x == View(v).producerPaused
    <3>x. x' = x
      BY <1>u, Zenon
    <3> HIDE DEF x
    <3>v. /\ ReaderView(v) = After(toNode[v], OfReader(v), After(immediates, OfReader(v), After(micro, OfReader(v), x)))
          /\ ReaderView(v)' = After(toNode'[v], OfReader(v), After(immediates', OfReader(v), After(micro', OfReader(v), x')))
      BY Zenon DEF ReaderView, x
    <3>1. CASE m \in OfReader(v)
      <4>1. Has(toNode[v], Got(v, "consume")) /\ v = w
        BY <1>u, <2>1, <3>1, Zenon DEF Taken
      <4>2. ~Has(immediates, Told(v)) /\ immediates \in Seq(Notes)
        BY ZenonT(30), <4>1 DEF FailInv, InOrder, PipeTyped
      <4>3. ~Has(immediates, OfReader(v))
        BY <4>2, PutOff
      <4>4. \A y : After(immediates, OfReader(v), y) = y
        BY <4>3, AfterNone, Zenon
      <4>5. After(micro', OfReader(v), x) = Says(m)
        BY <1>2, <3>1, Zenon DEF Added
      <4>6. \A y : After(toNode[v], OfReader(v), y) = After(toNode'[v], OfReader(v), Says(m))
        BY <1>u, <4>1, <3>1, Zenon DEF Taken
      <4> QED
        BY <1>2, <3>x, <3>v, <4>4, <4>5, <4>6, Zenon
    <3>2. CASE m \notin OfReader(v)
      <4>1. \A y : After(micro', OfReader(v), y) = After(micro, OfReader(v), y)
        BY <1>2, <3>2, Zenon DEF Added
      <4>2. \A y : After(toNode'[v], OfReader(v), y) = After(toNode[v], OfReader(v), y)
        BY <1>u, <3>2, Zenon DEF Taken
      <4> QED
        BY <1>2, <3>x, <3>v, <4>1, <4>2, Zenon
    <3> QED
      BY <3>1, <3>2
  <2>4. \A op : Coming(v, op)' <=> Coming(v, op)
    BY <1>2, <1>u, <2>1, Zenon DEF Coming, Taken, Added
  <2>5. Ending(v)' <=> Ending(v)
    BY <1>2, <1>u, <2>1, Zenon DEF Ending, Taken
  <2> QED
    BY <2>2, <2>3, <2>4, <2>5
<1> QED
  BY ZenonT(30), <1>1, <1>2 DEF Reads

LEMMA ReadPipes ==
  ASSUME PipeInv, NEW w \in Workers, NEW m, Reads(w, m), FailInv'
  PROVE  PipeInv'
<1>0. FailInv /\ Known /\ Ended /\ (patient => Early /\ Together)
  BY Zenon DEF PipeInv
<1>u. UNCHANGED <<patient, producer, consumer, pipe, sink, step, wired, process, toWorker>>
  BY DEF Reads, lib, given
<1>1. \A v \in Workers :
         /\ SourceView(v)' = SourceView(v) /\ ReaderView(v)' = ReaderView(v)
         /\ IsPaused(v)' = IsPaused(v) /\ View(v)' = View(v)
         /\ \A op : Coming(v, op)' <=> Coming(v, op)
         /\ (Ending(v)' <=> Ending(v)) /\ (Closing(v)' <=> Closing(v))
  <2>1. ASSUME NEW v \in Workers
        PROVE  IsPaused(v)' = IsPaused(v) /\ View(v)' = View(v) /\ (Closing(v)' <=> Closing(v))
    BY <1>u DEF IsPaused, View, Closing
  <2> QED
    BY Zenon, <1>0, <2>1, ReadViews
<1>2. Known'
  BY <1>0, <1>1, <1>u, ZenonT(30) DEF Known
<1>3. Ended'
  BY Zenon, <1>0, <1>1, <1>u DEF Ended, Workers
<1>4. ASSUME patient PROVE Early'
  <2>1. SUFFICES ASSUME step \in {"consume", "produce", "sync"} PROVE Early'
    BY <1>u DEF Early
  <2>2. Early
    BY Zenon, <1>0, <1>4
  <2>3. ~Has(toNode[w], Told(w)) /\ immediates = <<>>
    BY Zenon, <2>1, <2>2 DEF Early
  <2>4. m \notin Told(w) /\ m.from = w
    BY ZenonT(30), <2>3 DEF Reads, Taken
  <2>5. m \in Responses /\ Added(micro, m, micro') /\ immediates' = <<>>
    BY Zenon, <2>3, <2>4, OfNote DEF Reads
  <2>6. ASSUME NEW v \in Workers
        PROVE  /\ \A X : Has(toNode'[v], X) => Has(toNode[v], X)
               /\ \A X : Has(micro', X) <=> Has(micro, X) \/ m \in X
               /\ \A op : m \in Got(v, op) => v = w /\ Has(toNode[v], Got(v, op))
    <3>1. Taken(toNode[w], m, toNode'[w]) /\ (v # w => toNode'[v] = toNode[v])
      BY DEF Reads
    <3>2. \A X : Has(toNode'[v], X) => Has(toNode[v], X)
      BY <3>1, Zenon DEF Taken
    <3>3. \A op : m \in Got(v, op) => v = w
      BY <2>4, <2>5, OfResponse
    <3>4. \A op : m \in Got(v, op) => Has(toNode[v], Got(v, op))
      BY <3>1, <3>3, Zenon DEF Taken
    <3> QED
      BY <2>5, <3>2, <3>3, <3>4, ZenonT(60) DEF Added
  <2> QED
    BY ZenonT(30), <1>u, <2>1, <2>2, <2>5, <2>6 DEF Early
<1>5. ASSUME patient PROVE Together'
  BY Zenon, <1>0, <1>1, <1>5, <1>u DEF Together, Workers
<1> QED
  BY Zenon, <1>2, <1>3, <1>4, <1>5, <1>u DEF PipeInv

LEMMA ResponseSays ==
  ASSUME NEW m \in Responses
  PROVE  Says(m) = IF m.op \in Creations THEN m.paused ELSE m.op = "pause"
<1>1. m.op \in {"consume", "produce", "pause", "resume"}
  BY OfResponse
<1> QED
  BY <1>1 DEF Says, Creations

LEMMA SourceTopics ==
  ASSUME NEW s, NEW w, Has(s, OfSource(w))
  PROVE  \E op \in Changes \cup {"produce"} : Has(s, Got(w, op))
  BY Zenon DEF Has, OfSource, Changes, Yes

LEMMA ReaderTopics ==
  ASSUME NEW s, NEW w, Has(s, OfReader(w))
  PROVE  Has(s, Got(w, "consume")) \/ Has(s, Told(w))
  BY Zenon DEF Has, OfReader, Yes

LEMMA OrderTopics ==
  ASSUME NEW s, Has(s, Orders)
  PROVE  \E op \in Changes \cup {"produce"} : Has(s, Ask(op))
  BY Zenon DEF Has, Orders, Changes

LEMMA MicroTopics ==
  ASSUME NEW s \in Seq(Responses), NEW w
  PROVE  ~Has(s, Told(w))
<1>1. \A i \in DOMAIN s : s[i] \in Responses
  OBVIOUS
<1> QED
  BY <1>1, OfResponse, Zenon DEF Has

LEMMA ContinueKnown ==
  ASSUME Known, NEW m, Goes(m),
         \A v \in Workers :
           /\ SourcePaused(v)' = IF m \in OfSource(v) THEN Says(m) ELSE SourcePaused(v)
           /\ View(v)'.producerPaused = IF m \in OfReader(v) THEN Says(m) ELSE View(v).producerPaused
           /\ View(v).state = "closed" => View(v)'.state = "closed"
  PROVE  Known'
<1>0. Taken(micro, m, micro') /\ UNCHANGED <<process, toNode, immediates>>
  BY DEF Goes
<1>1. ASSUME NEW v \in Workers
      PROVE  /\ SourceView(v)' = SourceView(v) /\ ReaderView(v)' = ReaderView(v)
             /\ IsPaused(v)' = IsPaused(v)
  <2>1. After(micro', OfSource(v), SourcePaused(v)') = After(micro, OfSource(v), SourcePaused(v))
    BY <1>0, <1>1, Zenon DEF Taken
  <2>2. After(micro', OfReader(v), View(v)'.producerPaused)
          = After(micro, OfReader(v), View(v).producerPaused)
    BY <1>0, <1>1, Zenon DEF Taken
  <2> QED
    BY <1>0, <2>1, <2>2, Zenon DEF SourceView, ReaderView, IsPaused
<1> QED
  BY <1>0, <1>1, Zenon DEF Known

\* What pipeToRouter() relies on when produce() returns: while it waited nothing was
\* changed, and the Producer is as the pipe Consumer was told.
LEMMA Unchanged ==
  ASSUME FailInv, Known, Ended, Early, Together, step = "produce", Coming(2, "produce")
  PROVE  /\ consumer.state = "open" /\ producer.paused = consumer.producerPaused
         /\ consumer.producerPaused = IsPaused(2)
<1>0. PipeTyped /\ AskedOnce /\ Steps /\ InOrder
  BY Zenon DEF FailInv
<1>1. /\ ~producer.closed /\ immediates = <<>> /\ consumer.state # "closed"
      /\ \A w \in Workers, op \in Changes :
           ~Has(toWorker[w], Ask(op)) /\ ~Has(toNode[w], Got(w, op)) /\ ~Has(micro, Got(w, op))
      /\ \A w \in Workers : ~Has(toNode[w], Told(w))
  BY DEF Early
<1>2. /\ ~Pending(1, "consume") /\ ~Pending(1, "produce") /\ Single(2, "produce")
  BY SMTT(30), <1>0 DEF AskedOnce, Waits, Workers, Creations
<1>3. ~Has(toWorker[2], Ask("produce"))
  <2>1. Has(toNode[2], Got(2, "produce")) \/ Has(micro, Got(2, "produce"))
    BY Zenon DEF Coming, Has, Yes
  <2> QED
    BY <1>2, <2>1 DEF Single
<1>4. consumer.state = "open"
  BY <1>0, <1>1 DEF Steps, PipeTyped
<1>5. \A X : ~Has(immediates, X)
  BY <1>1, Empty, Zenon
<1>6. "consumer" \in process.live
  <2>1. ~Ending(1)
    BY Zenon, <1>1, <1>5, EndIsHeard DEF Hears, Workers
  <2> QED
    BY Zenon, <1>4, <2>1 DEF Ended, View, Reader, Workers
<1>7. ~Has(toNode[1], OfSource(1)) /\ ~Has(micro, OfSource(1))
  BY Zenon, <1>1, <1>2, SourceTopics DEF Pending, Workers
<1>8. ~Has(toNode[1], OfReader(1)) /\ ~Has(micro, OfReader(1))
  BY Zenon, <1>0, <1>1, <1>2, ReaderTopics, MicroTopics DEF Pending,
     Workers, PipeTyped
<1>9. producer.paused = IsPaused(1)
  <2>1. SourceView(1) = producer.paused
    BY <1>7, AfterNone, Zenon DEF SourceView, SourcePaused
  <2> QED
    BY <2>1 DEF Known, Workers
<1>10. consumer.producerPaused = IsPaused(1)
  <2>1. ReaderView(1) = consumer.producerPaused
    BY <1>5, <1>8, AfterNone, ZenonT(30) DEF ReaderView, View
  <2>2. Reader(1) = "consumer" /\ View(1).state # "closed" /\ 1 \in Workers
    BY <1>4 DEF Reader, View, Workers
  <2> QED
    BY ZenonT(30), <1>6, <2>1, <2>2 DEF Known
<1>11. After(toWorker[2], Orders, IsPaused(2)) = IsPaused(2)
  <2>1. ~Has(toWorker[2], Orders)
    BY <1>1, <1>3, OrderTopics DEF Workers
  <2> QED
    BY <2>1, AfterNone, Zenon
<1>12. After(toWorker[2], Orders, IsPaused(2)) = consumer.producerPaused
  BY DEF Together
<1> QED
  BY <1>4, <1>9, <1>10, <1>11, <1>12, Zenon

LEMMA ContinuePipes ==
  ASSUME PipeInv, NEW m, Goes(m), FailInv'
  PROVE  PipeInv'
<1>0. /\ FailInv /\ PipeTyped /\ AskedOnce /\ Steps /\ Known /\ Ended /\ (patient => Early /\ Together)
      /\ AskedOnce'
  BY DEF PipeInv, FailInv
<1>1. /\ m.op \in Creations => Waits(m.from, m.op)
      /\ \A w, op : Coming(w, op) <=> Coming(w, op)' \/ m \in Yes(w, op)
      /\ \A w, op : m \in Yes(w, op) <=> w = m.from /\ op = m.op /\ m.ok
      /\ m.from \in Workers
  BY SMTT(30), <1>0, Answered
<1>2. /\ UNCHANGED <<data, patient, process, toNode, left, immediates>>
      /\ m \in Responses /\ Taken(micro, m, micro')
      /\ \A w : (Ending(w)' <=> Ending(w)) /\ IsPaused(w)' = IsPaused(w)
  BY Zenon DEF Goes, given, Ending, IsPaused
<1>3. /\ m.paused \in BOOLEAN /\ m.ok \in BOOLEAN /\ m.op \in {"consume", "produce", "pause", "resume"}
      /\ \A w : m \in OfSource(w) <=> m.from = w /\ m.ok /\ m.op \in Changes \cup {"produce"}
      /\ \A w : m \in OfReader(w) <=> m.from = w /\ m.ok /\ m.op = "consume"
      /\ Says(m) = IF m.op \in Creations THEN m.paused ELSE m.op = "pause"
  BY Zenon, <1>2, OfResponse, ResponseSays
<1>k. ASSUME \A v \in Workers :
               /\ SourcePaused(v)' = IF m \in OfSource(v) THEN Says(m) ELSE SourcePaused(v)
               /\ View(v)'.producerPaused = IF m \in OfReader(v) THEN Says(m) ELSE View(v).producerPaused
               /\ View(v).state = "closed" => View(v)'.state = "closed"
      PROVE  Known'
  BY Zenon, <1>0, <1>k, ContinueKnown
<1>p. Coming(2, "produce")' \/ Has(toWorker'[2], Ask("produce")) => step' = "produce"
  <2>1. Coming(2, "produce")' => Pending(2, "produce")'
    BY Zenon DEF Coming, Pending, Has, Yes
  <2> QED
    BY <1>0, <2>1 DEF AskedOnce, Pending, Waits, Workers, Creations
<1>4. CASE m.op = "consume" /\ m.ok /\ m.from = 1 /\ Consumed(m)
  <2> DEFINE e == [op |-> "produce", paused |-> m.paused]
  <2>1. e \in Requests /\ e.op = "produce" /\ 2 \in Workers /\ Says(e) = m.paused
    BY Zenon, <1>3 DEF Requests, Creations, Workers, Says
  <2> HIDE DEF e
  <2>2. /\ consumer' = [state |-> "open", producerPaused |-> m.paused] /\ step' = "produce"
        /\ UNCHANGED <<producer, pipe, sink, wired>>
        /\ toWorker' = [toWorker EXCEPT ![2] = Append(@, e)]
    BY <1>4 DEF Consumed, e
  <2>3. Asks(2, e)
    BY <1>0, <2>1, <2>2, Sends, Zenon
  <2>4. step = "consume" /\ consumer.state = "none"
    BY SMTT(30), <1>0, <1>1, <1>4 DEF Waits, Creations, Steps
  <2>5. /\ \A v \in Workers : \A o :
             Has(toWorker'[v], Ask(o)) <=> Has(toWorker[v], Ask(o)) \/ (v = 2 /\ o = "produce")
        /\ \A x : After(toWorker'[2], Orders, x) = m.paused
    BY Zenon, <2>1, <2>3, AskTopics DEF Workers
  <2>6. Known'
    BY Zenon, <1>3, <1>4, <1>k, <2>2, <2>4 DEF SourcePaused, View, Workers,
       Changes, Creations
  <2>7. Ended'
    <3>1. \A v \in Workers :
            Reader(v) \notin process'.live /\ (View(v)'.state = "open" \/ Coming(v, "consume")')
              => Ending(v)'
      <4>1. \A v \in Workers : Reader(v) \notin process.live /\ Coming(v, "consume") => Ending(v)
        BY <1>0, Zenon DEF Ended
      <4>2. Coming(1, "consume") /\ View(2)' = View(2)
        BY <1>1, <1>4, <2>2 DEF View
      <4> QED
        BY ZenonT(30), <1>0, <1>1, <1>2, <4>1, <4>2 DEF Ended, View, Workers
    <3>2. \A v \in Workers : Closing(v)' <=> Closing(v)
      BY <2>5, Zenon DEF Closing
    <3> QED
      BY ZenonT(30), <1>0, <1>1, <1>2, <2>2, <2>4, <2>5, <3>1, <3>2 DEF Ended, Closing, Workers
  <2>8. patient => Early'
    <3>1. \A X : Has(micro', X) => Has(micro, X)
      BY <1>2, Zenon DEF Taken
    <3> QED
      BY Zenon, <1>0, <1>2, <2>2, <2>4, <2>5, <3>1 DEF Early, Workers, Changes
  <2>9. Together'
    BY Zenon, <2>2, <2>5 DEF Together
  <2> QED
    BY Zenon, <1>2, <2>6, <2>7, <2>8, <2>9 DEF PipeInv
<1>5. CASE m.op = "consume" /\ m.from = 2 /\ SinkConsumed(m)
  <2>1. /\ sink' = IF m.ok THEN [state |-> "open", producerPaused |-> m.paused]
                  ELSE [sink EXCEPT !.state = "closed"]
        /\ UNCHANGED <<producer, consumer, pipe, step, wired, toWorker>>
    BY Zenon, <1>5 DEF SinkConsumed
  <2>2. sink.state = "consuming" /\ step = "done"
    BY <1>0, <1>1, <1>5 DEF Waits, Creations, Steps
  <2>3. Known'
    BY <1>0, <1>3, <1>5, <1>k, <2>1, <2>2 DEF SourcePaused, View, Workers,
       Changes, Creations, PipeTyped
  <2>4. Ended'
    BY <1>0, <1>1, <1>2, <1>5, <2>1, <2>2 DEF Ended, Closing, View, Reader,
       Workers, PipeTyped
  <2>5. patient => Early' /\ Together'
    BY Zenon, <1>0, <1>1, <1>2, <2>1, <2>2 DEF Early, Together
  <2> QED
    BY Zenon, <1>2, <2>3, <2>4, <2>5 DEF PipeInv
<1>a. ASSUME NEW p, p \in [state : {"none", "open", "closed"}, paused : BOOLEAN],
             Abandon(consumer, p),
             \/ m.op = "consume" /\ m.from = 1 /\ ~m.ok /\ p = pipe
             \/ m.op = "produce" /\ ~m.ok /\ p = pipe
             \/ m.op \in Changes /\ ~m.ok /\ m.from = 2 /\ step = "sync" /\ p = pipe
             \/ m.op = "produce" /\ m.ok /\ p.state = "open" /\ p.paused = m.paused
      PROVE  PipeInv'
  <2>1. PICK S \in SUBSET Workers : /\ Closes(S) /\ (1 \in S <=> consumer.state = "open")
                                  /\ (2 \in S <=> p.state = "open")
    BY <1>0, <1>a, AbandonDoes, Zenon
  <2>2. \A v \in Workers : \A o :
          Has(toWorker'[v], Ask(o)) <=> Has(toWorker[v], Ask(o)) \/ (v \in S /\ o = "closePipe")
    BY <2>1, CloseTopics
  <2>3. /\ step' = "failed" /\ UNCHANGED <<producer, sink, wired>>
        /\ consumer' = IF consumer.state = "open" THEN [consumer EXCEPT !.state = "closed"] ELSE consumer
        /\ pipe' = IF p.state = "open" THEN [p EXCEPT !.state = "closed"] ELSE p
    BY Zenon, <1>a DEF Abandon
  <2>4. /\ \/ m.op = "consume" /\ m.from = 1 /\ step = "consume" /\ ~m.ok
           \/ m.op = "produce" /\ m.from = 2 /\ step = "produce"
           \/ m.op \notin Creations /\ ~m.ok /\ step = "sync" /\ p = pipe
        /\ pipe.state = "none" \/ p = pipe
    BY <1>0, <1>1, <1>a DEF Waits, Creations, Changes, Steps
  <2>5. /\ consumer'.state = IF consumer.state = "open" THEN "closed" ELSE consumer.state
        /\ pipe'.state = IF p.state = "open" THEN "closed" ELSE p.state
        /\ consumer'.producerPaused = consumer.producerPaused /\ pipe'.paused = p.paused
    BY <1>0, <1>a, <2>3 DEF PipeTyped
  <2>p. p.paused = IF m.ok THEN m.paused ELSE pipe.paused
    <3>1. m.ok => p.paused = m.paused
      BY Zenon, <1>a
    <3>2. ~m.ok => p.paused = pipe.paused
      BY Zenon, <1>a
    <3> QED
      BY Zenon, <3>1, <3>2
  <2>6. Known'
    BY <1>3, <1>a, <1>k, <2>3, <2>4, <2>5, <2>p DEF SourcePaused, View, Workers,
       Changes, Creations
  <2>7. Ended'
    <3>1. /\ \A v \in Workers : Closing(v)' <=> Closing(v) \/ v \in S
          /\ \A v \in Workers : Has(toWorker'[v], Ask("close")) <=> Has(toWorker[v], Ask("close"))
          /\ Has(toWorker'[2], Ask("produce")) => Has(toWorker[2], Ask("produce"))
      BY <2>2 DEF Closing, Workers
    <3>2. \A v \in Workers :
            Reader(v) \notin process'.live /\ (View(v)'.state = "open" \/ Coming(v, "consume")')
              => Ending(v)'
      BY Zenon, <1>0, <1>1, <1>2, <2>3, <2>5 DEF Ended, View, Workers
    <3>3. /\ Closing(1)' => consumer'.state = "closed"
          /\ Closing(2)' => pipe'.state = "closed"
      BY Zenon, <1>0, <2>1, <2>4, <2>5, <3>1 DEF Ended, Workers
    <3>4. /\ pipe'.state = "closed" /\ "pipe" \in process'.live => Closing(2)'
          /\ pipe'.state = "open" \/ Coming(2, "produce")' => "pipe" \in process'.live
      BY Zenon, <1>0, <1>1, <1>2, <1>a, <2>1, <2>4, <2>5, <3>1 DEF Ended, Workers
    <3> QED
      BY Zenon, <1>0, <1>2, <2>3, <3>1, <3>2, <3>3, <3>4 DEF Ended, Workers
  <2>8. Early' /\ Together'
    BY SMTT(30), <1>p, <2>3 DEF Early, Together
  <2> QED
    BY Zenon, <1>2, <2>6, <2>7, <2>8 DEF PipeInv
<1>6. CASE m.op = "produce" /\ m.ok /\ Produced(m)
  <2> DEFINE p == [state |-> "open", paused |-> m.paused]
  <2>1. p \in [state : {"none", "open", "closed"}, paused : BOOLEAN] /\ p.state = "open" /\ p.paused = m.paused
    BY Zenon, <1>3
  <2>2. CASE Abandon(consumer, p)
    BY Zenon, <1>6, <1>a, <2>1, <2>2
  <2>3. CASE pipe' = p /\ UNCHANGED <<producer, consumer, sink>> /\
             \/ /\ step' = "sync" /\ UNCHANGED wired /\ m.paused # producer.paused
                /\ toWorker' = Send(2, IF producer.paused THEN "pause" ELSE "resume")
             \/ Wire /\ UNCHANGED toWorker
    <3>1. m.from = 2 /\ step = "produce" /\ pipe.state = "none" /\ Coming(2, "produce")
      BY Zenon, <1>0, <1>1, <1>6 DEF Waits, Creations, Steps
    <3>2. \A v \in Workers : \A o : o \notin Changes =>
             (Has(toWorker'[v], Ask(o)) <=> Has(toWorker[v], Ask(o)))
      <4>1. ASSUME NEW op \in Changes, toWorker' = Send(2, op)
            PROVE  \A v \in Workers : \A o : o \notin Changes =>
                     (Has(toWorker'[v], Ask(o)) <=> Has(toWorker[v], Ask(o)))
        <5>1. Request(op) \in Requests /\ Request(op).op = op /\ 2 \in Workers
          BY OwnRequest DEF Changes, Workers
        <5>2. Asks(2, Request(op))
          BY <1>0, <4>1, <5>1, Sends, ZenonT(30) DEF Send
        <5> QED
          BY Zenon, <4>1, <5>1, <5>2, AskTopics
      <4> QED
        BY Zenon, <2>3, <4>1 DEF Changes
    <3>3. step' \in {"sync", "done"}
      BY Zenon, <2>3 DEF Wire
    <3>4. Known'
      BY SMTT(30), <1>3, <1>6, <1>k, <2>3, <3>1 DEF SourcePaused, View,
         Workers, Changes, Creations
    <3>5. Ended'
      BY ZenonT(30), <1>0, <1>1, <1>2, <2>1, <2>3, <3>1, <3>2, <3>3
         DEF Ended, Closing, View, Reader, Workers, Changes
    <3>6. ASSUME patient PROVE Early' /\ Together'
      <4>1. Early /\ Together
        BY Zenon, <1>0, <3>6
      <4>2. /\ consumer.state = "open" /\ producer.paused = consumer.producerPaused
            /\ consumer.producerPaused = IsPaused(2)
        BY Zenon, <1>0, <3>1, <4>1, Unchanged
      <4>3. m.paused = IsPaused(2)
        <5>1. ~Pending(2, "produce")'
          BY Zenon, <1>0, <3>3 DEF AskedOnce, Waits, Workers, Creations
        <5>2. \A op \in Changes : ~Has(toNode'[2], Got(2, op)) /\ ~Has(micro', Got(2, op))
          <6>1. \A X : Has(micro', X) => Has(micro, X)
            BY <1>2, Zenon DEF Taken
          <6> QED
            BY ZenonT(30), <1>2, <3>1, <4>1, <6>1 DEF Early, Workers
        <5>3. ~Has(toNode'[2], OfSource(2)) /\ ~Has(micro', OfSource(2))
          BY Zenon, <5>1, <5>2, SourceTopics DEF Pending
        <5>4. SourceView(2)' = SourcePaused(2)'
          BY <5>3, AfterNone, ZenonT(30) DEF SourceView
        <5>5. SourcePaused(2)' = m.paused
          BY <2>3 DEF SourcePaused
        <5> QED
          BY Zenon, <1>2, <3>4, <5>4, <5>5 DEF Known, Workers
      <4>4. step' = "done" /\ toWorker' = toWorker
        BY Zenon, <2>3, <4>2, <4>3 DEF Wire
      <4>5. After(toWorker[2], Orders, IsPaused(2)) = consumer.producerPaused
        BY <3>1, <4>1 DEF Together
      <4>6. After(toWorker'[2], Orders, IsPaused(2)') = consumer'.producerPaused
        BY <1>2, <2>3, <4>4, <4>5, ZenonT(30)
      <4>7. consumer'.state = "open" /\ pipe'.state = "open"
        BY Zenon, <2>1, <2>3, <4>2
      <4> QED
        BY Zenon, <4>4, <4>6, <4>7 DEF Early, Together
    <3> QED
      BY Zenon, <1>2, <3>4, <3>5, <3>6 DEF PipeInv
  <2> QED
    BY Zenon, <1>6, <2>2, <2>3 DEF Produced, Wire
<1>7. CASE \/ m.op = "consume" /\ ~m.ok /\ m.from = 1 /\ Abandon(consumer, pipe)
           \/ m.op = "produce" /\ ~m.ok /\ Abandon(consumer, pipe)
           \/ m.op \in Changes /\ ~m.ok /\ m.from = 2 /\ step = "sync" /\ Abandon(consumer, pipe)
  BY Zenon, <1>0, <1>7, <1>a DEF PipeTyped
<1>8. CASE m.op \in Changes /\ UNCHANGED <<consumer, sink, toWorker>> /\
           \/ ~m.ok /\ UNCHANGED lib
           \/ /\ m.ok /\ m.from = 1
              /\ producer' = [producer EXCEPT !.paused = (m.op = "pause")] /\ UNCHANGED <<pipe, step, wired>>
           \/ /\ m.ok /\ m.from = 2
              /\ pipe' = [pipe EXCEPT !.paused = (m.op = "pause")] /\ UNCHANGED producer
              /\ IF step = "sync" THEN Wire ELSE UNCHANGED <<step, wired>>
  <2>1. /\ pipe'.state = pipe.state /\ producer'.closed = producer.closed
        /\ step' = step \/ (step = "sync" /\ step' = "done")
        /\ UNCHANGED <<consumer, sink, toWorker>>
    BY <1>0, <1>8 DEF PipeTyped, lib, Wire
  <2>2. \A w, op : op \in Creations => m \notin Yes(w, op)
    BY <1>1, <1>8 DEF Changes, Creations
  <2>3. /\ producer'.paused = IF m.ok /\ m.from = 1 THEN m.op = "pause" ELSE producer.paused
        /\ pipe'.paused = IF m.ok /\ m.from = 2 THEN m.op = "pause" ELSE pipe.paused
        /\ Says(m) = (m.op = "pause") /\ \A w : m \notin OfReader(w)
        /\ \A w : m \in OfSource(w) <=> m.from = w /\ m.ok
    BY SMTT(30), <1>0, <1>3, <1>8 DEF PipeTyped, lib, Changes, Creations
  <2>4. Known'
    BY Zenon, <1>k, <2>1, <2>3 DEF SourcePaused, View, Workers
  <2>5. Ended'
    BY ZenonT(30), <1>0, <1>1, <1>2, <2>1, <2>2 DEF Ended, Closing, View, Reader,
       Workers, Creations
  <2>6. ASSUME patient PROVE Early' /\ Together'
    <3>1. Early /\ Together
      BY <1>0, <2>6
    <3>2. Has(micro, Got(m.from, m.op))
      <4>1. m \in Got(m.from, m.op)
        BY <1>2, OfResponse
      <4> QED
        BY <1>2, <4>1, Zenon DEF Taken
    <3>3. step \notin {"consume", "produce", "sync"} /\ step' = step
      BY Zenon, <1>1, <1>8, <2>1, <3>1, <3>2 DEF Early
    <3>4. After(toWorker'[2], Orders, IsPaused(2)') = After(toWorker[2], Orders, IsPaused(2))
      BY <1>2, <2>1, Zenon
    <3> QED
      BY Zenon, <1>1, <2>1, <2>2, <3>1, <3>3, <3>4 DEF Early, Together,
         Creations
  <2> QED
    BY <1>2, <2>4, <2>5, <2>6 DEF PipeInv
<1>9. Continuation(m)
  BY DEF Goes
<1> QED
  BY <1>4, <1>5, <1>6, <1>7, <1>8, <1>9
     DEF Continuation, ProducerChanged, PipeChanged, Changes, lib

LEMMA NotifyKnown ==
  ASSUME Known, NEW m, Notifies(m),
         \A v \in Workers :
           /\ SourcePaused(v)' = SourcePaused(v)
           /\ View(v).state = "closed" => View(v)'.state = "closed"
           /\ Reader(v) \in process.live /\ View(v)'.state # "closed" =>
                View(v)'.producerPaused = IF m \in OfReader(v) THEN Says(m) ELSE View(v).producerPaused
  PROVE  Known'
<1>0. Taken(immediates, m, immediates') /\ UNCHANGED <<process, toNode, micro>> /\ micro = <<>>
  BY DEF Notifies
<1>e. \A X : ~Has(micro, X)
  BY <1>0, Empty, Zenon
<1>1. ASSUME NEW v \in Workers
      PROVE  SourceView(v)' = SourceView(v) /\ IsPaused(v)' = IsPaused(v)
  BY <1>0, <1>1, Zenon DEF SourceView, IsPaused
<1>2. ASSUME NEW v \in Workers, Reader(v) \in process.live, View(v)'.state # "closed"
      PROVE  ReaderView(v)' = ReaderView(v)
  <2>1. \A x : After(micro, OfReader(v), x) = x
    BY <1>e, AfterNone, ZenonT(30)
  <2>2. View(v)'.producerPaused = IF m \in OfReader(v) THEN Says(m) ELSE View(v).producerPaused
    BY <1>2
  <2>3. After(immediates', OfReader(v), View(v)'.producerPaused)
          = After(immediates, OfReader(v), View(v).producerPaused)
    BY <1>0, <2>2, Zenon DEF Taken
  <2>4. After(immediates', OfReader(v), After(micro', OfReader(v), View(v)'.producerPaused))
          = After(immediates, OfReader(v), After(micro, OfReader(v), View(v).producerPaused))
    BY <1>0, <2>1, <2>3, Zenon
  <2> QED
    BY <1>0, <2>4, Zenon DEF ReaderView
<1> QED
  BY <1>0, <1>1, <1>2, ZenonT(60) DEF Known

LEMMA NoteSays ==
  ASSUME NEW m \in Notes
  PROVE  (m.op = "producerpause" => Says(m) = TRUE) /\ (m.op = "producerresume" => Says(m) = FALSE)
  BY DEF Says, Creations

LEMMA NotifyPipes ==
  ASSUME PipeInv, NEW m, Notifies(m), FailInv'
  PROVE  PipeInv'
<1>0. /\ FailInv /\ PipeTyped /\ AskedOnce /\ Steps /\ Owned /\ InOrder
      /\ Known /\ Ended /\ (patient => Early /\ Together)
  BY Zenon DEF PipeInv, FailInv
<1>1. /\ UNCHANGED <<data, patient, process, toNode, left, micro>> /\ micro = <<>>
      /\ m \in Notes /\ Taken(immediates, m, immediates') /\ Notified(m) /\ immediates # <<>>
  BY DEF Notifies, given
<1>2. /\ m.from \in Workers /\ m.op \in {"producerpause", "producerresume", "producerclose"}
      /\ \A w : m \in Told(w) <=> m.from = w
      /\ \A w : m \in Ends(w) <=> m.from = w /\ m.op = "producerclose"
      /\ \A w : m \in OfReader(w) <=> m.from = w /\ m.op # "producerclose"
      /\ m.op = "producerpause" => Says(m) = TRUE
      /\ m.op = "producerresume" => Says(m) = FALSE
  BY ZenonT(30), <1>1, OfNote, NoteSays
<1>3. /\ \A w, op : Coming(w, op)' <=> Coming(w, op)
      /\ \A w : IsPaused(w)' = IsPaused(w)
      /\ \A w : Ending(w) <=> Ending(w)' \/ m \in Ends(w)
  BY <1>1, Zenon DEF Coming, IsPaused, Ending, Taken
<1>4. ~Coming(m.from, "consume")
  <2>1. Has(immediates, Told(m.from))
    BY <1>1, <1>2, Zenon DEF Taken
  <2>2. \A X : ~Has(micro, X)
    BY <1>1, Empty, Zenon
  <2>3. ~Has(toNode[m.from], Got(m.from, "consume"))
    BY ZenonT(30), <1>0, <1>2, <2>1 DEF InOrder
  <2> QED
    BY <2>2, <2>3, Zenon DEF Coming, Has, Yes
<1>5. Reader(m.from) \in process.live /\ View(m.from).state # "closed" => View(m.from).state = "open"
  BY Zenon, <1>0, <1>2, <1>4 DEF Owned, Ended, Reader, View, Workers,
     PipeTyped
<1>e. patient => step \in {"done", "failed"}
  BY Zenon, <1>0, <1>1 DEF Early, PipeTyped
<1>p. step # "produce" => ~Coming(2, "produce") /\ ~Has(toWorker[2], Ask("produce"))
  <2>1. Coming(2, "produce") => Pending(2, "produce")
    BY Zenon DEF Coming, Pending, Has, Yes
  <2> QED
    BY Zenon, <1>0, <2>1 DEF AskedOnce, Pending, Waits, Workers, Creations
<1>6. CASE View(m.from).state # "open" /\ UNCHANGED <<lib, toWorker>>
  <2>1. UNCHANGED <<producer, consumer, pipe, sink, step, wired, toWorker>>
    BY SMTT(30), <1>6 DEF lib
  <2>2. Known'
    BY ZenonT(30), <1>0, <1>2, <1>5, <1>6, <2>1, NotifyKnown DEF View,
       SourcePaused
  <2>3. Ended'
    BY ZenonT(30), <1>0, <1>1, <1>2, <1>3, <1>4, <1>6, <2>1 DEF Ended, Closing,
       View, Reader, Workers
  <2>4. patient => Early' /\ Together'
    BY Zenon, <1>0, <1>3, <1>e, <2>1 DEF Early, Together
  <2> QED
    BY ZenonT(30), <1>1, <2>2, <2>3, <2>4 DEF PipeInv
<1>7. CASE View(m.from).state = "open" /\ m.from = 2 /\ OnSink(m)
  <2>1. /\ UNCHANGED <<producer, consumer, pipe, step, wired, toWorker>>
        /\ sink'.state = IF m.op = "producerclose" THEN "closed" ELSE sink.state
        /\ m.op # "producerclose" => sink'.producerPaused = Says(m)
    BY Zenon, <1>0, <1>2, <1>7 DEF OnSink, PipeTyped
  <2>2. Known'
    <3>1. View(1)' = View(1) /\ \A v : SourcePaused(v)' = SourcePaused(v)
      BY <2>1, Zenon DEF View, SourcePaused
    <3>2. View(2) = sink /\ View(2)' = sink'
      BY SMT DEF View
    <3>3. ASSUME NEW v \in Workers, v # 2
          PROVE  v = 1 /\ m \notin OfReader(v)
      BY Zenon, <1>2, <1>7, <3>3 DEF Workers
    <3>4. /\ View(2).state = "closed" => View(2)'.state = "closed"
          /\ View(2)'.state # "closed" =>
               View(2)'.producerPaused = IF m \in OfReader(2) THEN Says(m) ELSE View(2).producerPaused
      BY Zenon, <1>2, <1>7, <2>1, <3>2
    <3> QED
      BY Zenon, <1>0, <3>1, <3>3, <3>4, NotifyKnown
  <2>3. Ended'
    <3>1. \A v \in Workers :
            Reader(v) \notin process'.live /\ (View(v)'.state = "open" \/ Coming(v, "consume")')
              => Ending(v)'
      <4>1. \A v \in Workers :
              Reader(v) \notin process.live /\ (View(v).state = "open" \/ Coming(v, "consume"))
                => Ending(v)
        BY <1>0, Zenon DEF Ended
      <4>2. /\ ~Coming(2, "consume") /\ View(1)' = View(1) /\ ~(m \in Ends(1))
            /\ View(2)'.state = "open" => View(2).state = "open" /\ ~(m \in Ends(2))
        BY <1>2, <1>4, <1>7, <2>1 DEF View
      <4> QED
        BY <1>1, <1>3, <4>1, <4>2 DEF Workers
    <3> QED
      BY <1>0, <1>1, <1>3, <2>1, <3>1, Zenon DEF Ended, Closing
  <2>4. patient => Early' /\ Together'
    BY Zenon, <1>0, <1>3, <1>e, <2>1 DEF Early, Together
  <2> QED
    BY <1>1, <2>2, <2>3, <2>4 DEF PipeInv
<1>8. CASE m.from = 1 /\ m.op = "producerclose" /\ consumer.state = "open" /\ OnConsumerClose
  <2>1. /\ UNCHANGED <<producer, sink, step, wired>>
        /\ consumer' = [consumer EXCEPT !.state = "closed"]
        /\ IF wired /\ pipe.state = "open"
           THEN pipe' = [pipe EXCEPT !.state = "closed"] /\ toWorker' = Send(2, "closePipe")
           ELSE UNCHANGED <<pipe, toWorker>>
    BY <1>8 DEF OnConsumerClose
  <2>2. /\ consumer'.state = "closed" /\ pipe'.paused = pipe.paused
        /\ pipe'.state = IF wired /\ pipe.state = "open" THEN "closed" ELSE pipe.state
    BY <1>0, <2>1 DEF PipeTyped
  <2>3. \A v \in Workers : \A o :
          Has(toWorker'[v], Ask(o)) <=> \/ Has(toWorker[v], Ask(o))
                                        \/ wired /\ pipe.state = "open" /\ v = 2 /\ o = "closePipe"
    <3>1. Request("closePipe") \in Requests /\ Request("closePipe").op = "closePipe" /\ 2 \in Workers
      BY OwnRequest DEF Workers
    <3>2. toWorker' = Send(2, "closePipe") => Asks(2, Request("closePipe"))
      BY <1>0, <3>1, Sends, Zenon DEF Send
    <3> QED
      BY Zenon, <2>1, <3>1, <3>2, AskTopics, SameTopics
  <2>4. Known'
    BY Zenon, <1>0, <1>2, <1>8, <2>1, <2>2, NotifyKnown DEF View,
       SourcePaused, Workers
  <2>5. Ended'
    BY SMTT(30), <1>0, <1>1, <1>2, <1>3, <1>4, <1>8, <2>1, <2>2, <2>3 DEF
       Ended, Closing, View, Reader, Workers
  <2>6. patient => Early' /\ Together'
    BY Zenon, <1>0, <1>3, <1>8, <1>e, <1>p, <2>1, <2>2, <2>3 DEF Early,
       Together, Steps, Workers
  <2> QED
    BY <1>1, <2>4, <2>5, <2>6 DEF PipeInv
<1>9. ASSUME NEW paused \in BOOLEAN, OnConsumerPause(paused), m.from = 1, consumer.state = "open",
             m.op # "producerclose", Says(m) = paused
      PROVE  PipeInv'
  <2>1. /\ UNCHANGED <<producer, pipe, sink, step, wired>>
        /\ consumer' = [consumer EXCEPT !.producerPaused = paused]
        /\ toWorker' = IF wired /\ consumer.producerPaused # paused
                       THEN Send(2, IF paused THEN "pause" ELSE "resume") ELSE toWorker
    BY <1>9 DEF OnConsumerPause
  <2>2. consumer'.state = "open" /\ consumer'.producerPaused = paused
    BY Zenon, <1>0, <1>9, <2>1 DEF PipeTyped
  <2>3. /\ \A v \in Workers : \A o : o \notin Changes =>
             (Has(toWorker'[v], Ask(o)) <=> Has(toWorker[v], Ask(o)))
        /\ wired /\ consumer.producerPaused # paused => \A x : After(toWorker'[2], Orders, x) = paused
    <3>1. CASE wired /\ consumer.producerPaused # paused
      <4>1. PICK op \in Changes : toWorker' = Send(2, op) /\ Says(Request(op)) = paused
        BY Zenon, <2>1, <3>1, OwnChange DEF Changes
      <4>2. Request(op) \in Requests /\ Request(op).op = op /\ 2 \in Workers
        BY OwnRequest DEF Changes, Workers
      <4>3. Asks(2, Request(op))
        BY <1>0, <4>1, <4>2, Sends, Zenon DEF Send
      <4> QED
        BY ZenonT(30), <4>1, <4>2, <4>3, AskTopics
    <3>2. CASE ~(wired /\ consumer.producerPaused # paused)
      BY <2>1, <3>2
    <3> QED
      BY Zenon, <3>1, <3>2
  <2>4. Known'
    BY Zenon, <1>0, <1>2, <1>9, <2>1, <2>2, NotifyKnown DEF View, SourcePaused, Workers
  <2>5. Ended'
    BY Zenon, <1>0, <1>1, <1>2, <1>3, <1>9, <2>1, <2>2, <2>3 DEF Ended,
       Closing, View, Reader, Workers, Changes
  <2>6. ASSUME patient PROVE Early' /\ Together'
    <3>1. step = "done" /\ wired
      BY Zenon, <1>0, <1>9, <1>e, <2>6 DEF Steps
    <3>2. Together
      BY Zenon, <1>0, <2>6
    <3>3. pipe.state = "open"
      BY Zenon, <1>9, <3>1, <3>2 DEF Together
    <3>4. After(toWorker'[2], Orders, IsPaused(2)') = paused
      <4>1. CASE consumer.producerPaused # paused
        BY Zenon, <2>3, <3>1, <4>1
      <4>2. CASE consumer.producerPaused = paused
        <5>1. After(toWorker[2], Orders, IsPaused(2)) = paused /\ toWorker' = toWorker
          BY Zenon, <2>1, <3>1, <3>2, <3>3, <4>2 DEF Together
        <5> QED
          BY <1>3, <5>1, Zenon
      <4> QED
        BY Zenon, <4>1, <4>2
    <3> QED
      BY Zenon, <2>1, <2>2, <3>1, <3>3, <3>4 DEF Early, Together
  <2> QED
    BY Zenon, <1>1, <2>4, <2>5, <2>6 DEF PipeInv
<1> QED
  BY Zenon, <1>1, <1>2, <1>6, <1>7, <1>8, <1>9 DEF Notified, View

\* What the library is told by one more message of worker w.
LEMMA WroteViews ==
  ASSUME NEW w \in Workers, NEW e, Wrote(w, e), UNCHANGED <<lib, micro, immediates>>
  PROVE  /\ SourceView(w)' = IF e \in OfSource(w) THEN Says(e) ELSE SourceView(w)
         /\ ReaderView(w)' = IF e \in OfReader(w) THEN Says(e) ELSE ReaderView(w)
         /\ Ending(w)' <=> Ending(w) \/ e \in Ends(w)
         /\ \A op : Coming(w, op)' <=> Coming(w, op) \/ e \in Yes(w, op)
<1>1. SourcePaused(w)' = SourcePaused(w) /\ View(w)' = View(w) /\ UNCHANGED <<micro, immediates>>
  BY DEF lib, SourcePaused, View
<1>2. SourceView(w)' = After(toNode'[w], OfSource(w), After(micro, OfSource(w), SourcePaused(w)))
  BY <1>1, Zenon DEF SourceView
<1>3. ReaderView(w)' = After(toNode'[w], OfReader(w),
         After(immediates, OfReader(w), After(micro, OfReader(w), View(w).producerPaused)))
  BY <1>1, Zenon DEF ReaderView
<1>4. SourceView(w)' = IF e \in OfSource(w) THEN Says(e) ELSE SourceView(w)
  BY <1>2, Zenon DEF SourceView, Wrote, Added
<1>5. ReaderView(w)' = IF e \in OfReader(w) THEN Says(e) ELSE ReaderView(w)
  BY <1>3, Zenon DEF ReaderView, Wrote, Added
<1>6. /\ Ending(w)' <=> Ending(w) \/ e \in Ends(w)
      /\ \A op : Coming(w, op)' <=> Coming(w, op) \/ e \in Yes(w, op)
  BY <1>1, ZenonT(30) DEF Ending, Coming, Wrote, Added
<1> QED
  BY Zenon, <1>4, <1>5, <1>6

LEMMA WroteTwoViews ==
  ASSUME NEW w \in Workers, NEW d, NEW e, UNCHANGED <<lib, micro, immediates>>,
         \E s : Added(toNode[w], d, s) /\ Added(s, e, toNode'[w]),
         d \notin OfSource(w), e \notin OfReader(w)
  PROVE  /\ SourceView(w)' = IF e \in OfSource(w) THEN Says(e) ELSE SourceView(w)
         /\ ReaderView(w)' = IF d \in OfReader(w) THEN Says(d) ELSE ReaderView(w)
         /\ Ending(w) => Ending(w)'
<1>0. PICK s : Added(toNode[w], d, s) /\ Added(s, e, toNode'[w])
  OBVIOUS
<1>1. SourcePaused(w)' = SourcePaused(w) /\ View(w)' = View(w) /\ UNCHANGED <<micro, immediates>>
  BY DEF lib, SourcePaused, View
<1>2. SourceView(w)' = After(toNode'[w], OfSource(w), After(micro, OfSource(w), SourcePaused(w)))
  BY <1>1, Zenon DEF SourceView
<1>3. ReaderView(w)' = After(toNode'[w], OfReader(w),
         After(immediates, OfReader(w), After(micro, OfReader(w), View(w).producerPaused)))
  BY <1>1, Zenon DEF ReaderView
<1>4. \A x : After(toNode'[w], OfSource(w), x)
               = IF e \in OfSource(w) THEN Says(e) ELSE After(toNode[w], OfSource(w), x)
  <2>1. \A x : After(s, OfSource(w), x) = After(toNode[w], OfSource(w), x)
    BY <1>0, Zenon DEF Added
  <2>2. \A x : After(toNode'[w], OfSource(w), x)
                 = IF e \in OfSource(w) THEN Says(e) ELSE After(s, OfSource(w), x)
    BY <1>0, Zenon DEF Added
  <2> QED
    BY <2>1, <2>2, Zenon
<1>5. \A x : After(toNode'[w], OfReader(w), x)
               = IF d \in OfReader(w) THEN Says(d) ELSE After(toNode[w], OfReader(w), x)
  <2>1. \A x : After(s, OfReader(w), x)
                 = IF d \in OfReader(w) THEN Says(d) ELSE After(toNode[w], OfReader(w), x)
    BY <1>0, Zenon DEF Added
  <2>2. \A x : After(toNode'[w], OfReader(w), x) = After(s, OfReader(w), x)
    BY <1>0, Zenon DEF Added
  <2> QED
    BY <2>1, <2>2, Zenon
<1>6. Ending(w) => Ending(w)'
  BY <1>0, <1>1, Zenon DEF Ending, Added
<1>7. SourceView(w)' = IF e \in OfSource(w) THEN Says(e) ELSE SourceView(w)
  BY <1>2, <1>4, Zenon DEF SourceView
<1>8. ReaderView(w)' = IF d \in OfReader(w) THEN Says(d) ELSE ReaderView(w)
  BY <1>3, <1>5, Zenon DEF ReaderView
<1> QED
  BY ZenonT(30), <1>6, <1>7, <1>8

LEMMA SilentViews ==
  ASSUME NEW w \in Workers, toNode'[w] = toNode[w], UNCHANGED <<lib, micro, immediates>>
  PROVE  /\ SourceView(w)' = SourceView(w) /\ ReaderView(w)' = ReaderView(w)
         /\ (Ending(w)' <=> Ending(w)) /\ \A op : Coming(w, op)' <=> Coming(w, op)
<1>1. SourcePaused(w)' = SourcePaused(w) /\ View(w)' = View(w) /\ UNCHANGED <<micro, immediates>>
  BY DEF lib, SourcePaused, View
<1> QED
  BY <1>1, Zenon DEF SourceView, ReaderView, Ending, Coming

\* A pause, a resume or a close, seen from the library.
LEMMA PlainEffect ==
  ASSUME NEW w \in Workers, NEW m, Works(w, m), m.op \notin Creations, Known
  PROVE  /\ \/ /\ m.op \in Changes /\ process'.live = process.live
               /\ Source(w) \in process.live /\ step # "sync" => IsPaused(w)' = (m.op = "pause")
               /\ Source(w) \notin process.live => IsPaused(w)' = IsPaused(w)
            \/ /\ m.op = "close" \/ (m.op = "closePipe" /\ w = 2)
               /\ process'.live = process.live \ {Source(w), Reader(w)}
               /\ IsPaused(w)' = IsPaused(w)
               /\ Reader(w) \in process.live => Ending(w)'
            \/ /\ m.op = "closePipe" /\ w = 1 /\ process'.live = process.live \ {"consumer"}
               /\ IsPaused(w)' = IsPaused(w)
         /\ \A v \in Workers : Ending(v) => Ending(v)'
         /\ \A v \in Workers : v # w => IsPaused(v)' = IsPaused(v)
         /\ Known'
<1>0. /\ Handled(w, m) /\ Answers(w) /\ m \in Requests
      /\ UNCHANGED <<producer, consumer, pipe, sink, lib, micro, immediates>>
  BY DEF Works, lib
<1>1. \A v \in Workers : v # w => toNode'[v] = toNode[v]
  BY Zenon, <1>0 DEF Answers
<1>2. \A v \in Workers : v # w =>
         /\ SourceView(v)' = SourceView(v) /\ ReaderView(v)' = ReaderView(v)
         /\ Ending(v)' <=> Ending(v)
  BY Zenon, <1>0, <1>1, SilentViews
<1>3. \A v \in Workers : v # w => Source(v) # Source(w)
  BY DEF Workers, Source
<1>k. ASSUME process'.live \subseteq process.live, SourceView(w)' = IsPaused(w)',
             Reader(w) \in process'.live /\ View(w).state # "closed" => ReaderView(w)' = IsPaused(w)',
             \A v \in Workers : v # w => IsPaused(v)' = IsPaused(v)
      PROVE  Known'
  <2>1. \A v \in Workers : View(v)' = View(v)
    BY Zenon, <1>0 DEF View
  <2> QED
    BY <1>2, <1>k, <2>1, Zenon DEF Known
<1>s. process'.paused = process.paused => \A v \in Workers : IsPaused(v)' = IsPaused(v)
  BY Zenon DEF IsPaused
<1>a. ASSUME NEW ok \in BOOLEAN, NEW paused \in BOOLEAN, m.op \in Changes
      PROVE  LET e == Answer(w, m, ok, paused)
             IN  /\ e \notin OfReader(w) /\ e \notin Ends(w) /\ (e \in OfSource(w) <=> ok)
                 /\ Says(e) = (m.op = "pause")
  <2> DEFINE e == Answer(w, m, ok, paused)
  <2>1. /\ e \in Responses /\ e.op = m.op /\ e.from = w /\ e.ok = ok
        /\ Says(e) = IF m.op \in Creations THEN paused ELSE m.op = "pause"
    BY SMTT(30), <1>a, OfAnswer
  <2> HIDE DEF e
  <2>2. e \notin OfReader(w) /\ e \notin Ends(w) /\ (e \in OfSource(w) <=> ok)
    BY Zenon, <1>a, <2>1, OfResponse DEF Changes
  <2>3. Says(e) = (m.op = "pause")
    BY <2>1, ZenonT(30)
  <2> QED
    BY Zenon, <2>2, <2>3 DEF e
<1>4. CASE /\ m.op \in Changes /\ Source(w) \in process.live
           /\ process'.live = process.live
           /\ process'.paused = IF m.op = "pause" THEN process.paused \cup {Source(w)}
                                                  ELSE process.paused \ {Source(w)}
           /\ IF Reader(w) \in process.live /\ IsPaused(w) # (m.op = "pause")
              THEN \E s : /\ Added(toNode[w], PauseNote(w, m), s)
                          /\ Added(s, Answer(w, m, TRUE, m.op = "pause"), toNode'[w])
              ELSE Wrote(w, Answer(w, m, TRUE, m.op = "pause"))
  <2> DEFINE e == Answer(w, m, TRUE, m.op = "pause")
  <2>1. e \notin OfReader(w) /\ e \notin Ends(w) /\ e \in OfSource(w) /\ Says(e) = (m.op = "pause")
    BY ZenonT(30), <1>4, <1>a
  <2>2. IsPaused(w)' = (m.op = "pause") /\ \A v \in Workers : v # w => IsPaused(v)' = IsPaused(v)
    <3>1. process'.paused = IF m.op = "pause" THEN process.paused \cup {Source(w)}
                                              ELSE process.paused \ {Source(w)}
      BY <1>4, Zenon
    <3>2. \A v \in Workers : v # w => Source(v) \notin {Source(w)}
      BY ZenonT(60), <1>3
    <3>3. CASE m.op = "pause"
      BY SMT, <3>1, <3>2, <3>3 DEF IsPaused
    <3>4. CASE m.op # "pause"
      BY SMT, <3>1, <3>2, <3>4 DEF IsPaused
    <3> QED
      BY Zenon, <3>3, <3>4
  <2>3. CASE Reader(w) \in process.live /\ IsPaused(w) # (m.op = "pause")
    <3> DEFINE d == PauseNote(w, m)
    <3>1. d \in Notes /\ d.from = w /\ d.op # "producerclose" /\ Says(d) = (m.op = "pause")
      <4>1. CASE m.op = "pause"
        <5>1. d = Note(w, "producerpause")
          BY Zenon, <4>1 DEF PauseNote
        <5> QED
          BY ZenonT(30), <4>1, <5>1, OfOwnNote
      <4>2. CASE m.op # "pause"
        <5>1. d = Note(w, "producerresume")
          BY SMTT(30), <4>2 DEF PauseNote
        <5> QED
          BY <4>2, <5>1, OfOwnNote
      <4> QED
        BY Zenon, <4>1, <4>2
    <3>2. \E s : Added(toNode[w], d, s) /\ Added(s, e, toNode'[w])
      BY Zenon, <1>4, <2>3
    <3> HIDE DEF d, e
    <3>3. d \in OfReader(w) /\ d \notin OfSource(w)
      BY Zenon, <3>1, OfNote
    <3>4. SourceView(w)' = Says(e) /\ ReaderView(w)' = Says(d) /\ (Ending(w) => Ending(w)')
      BY ZenonT(30), <1>0, <2>1, <3>2, <3>3, WroteTwoViews
    <3>5. Known'
      BY ZenonT(30), <1>4, <1>k, <2>1, <2>2, <3>1, <3>4
    <3> QED
      BY ZenonT(30), <1>2, <1>4, <2>2, <3>4, <3>5
  <2>4. CASE ~(Reader(w) \in process.live /\ IsPaused(w) # (m.op = "pause"))
    <3>1. Wrote(w, e)
      BY Zenon, <1>4, <2>4
    <3> HIDE DEF e
    <3>2. SourceView(w)' = Says(e) /\ ReaderView(w)' = ReaderView(w) /\ (Ending(w) => Ending(w)')
      BY Zenon, <1>0, <2>1, <3>1, WroteViews
    <3>3. Reader(w) \in process'.live /\ View(w).state # "closed" => ReaderView(w)' = IsPaused(w)'
      BY ZenonT(30), <1>4, <2>2, <2>4, <3>2 DEF Known
    <3>4. Known'
      BY ZenonT(30), <1>4, <1>k, <2>1, <2>2, <3>2, <3>3
    <3> QED
      BY ZenonT(30), <1>2, <1>4, <2>2, <3>2, <3>4
  <2> QED
    BY ZenonT(30), <2>3, <2>4
<1>5. CASE m.op \in Changes /\ (Source(w) \notin process.live \/ step = "sync") /\ process' = process
           /\ Wrote(w, Answer(w, m, FALSE, FALSE))
  <2> DEFINE e == Answer(w, m, FALSE, FALSE)
  <2>1. e \notin OfReader(w) /\ e \notin Ends(w) /\ e \notin OfSource(w) /\ Wrote(w, e)
    BY ZenonT(30), <1>5, <1>a
  <2> HIDE DEF e
  <2>2. SourceView(w)' = SourceView(w) /\ ReaderView(w)' = ReaderView(w) /\ (Ending(w) => Ending(w)')
    BY ZenonT(30), <1>0, <2>1, WroteViews
  <2>3. \A v \in Workers : IsPaused(v)' = IsPaused(v)
    BY Zenon, <1>5, <1>s
  <2>4. Known'
    BY ZenonT(30), <1>5, <1>k, <2>2, <2>3 DEF Known
  <2> QED
    BY ZenonT(30), <1>2, <1>5, <2>2, <2>3, <2>4
<1>6. CASE /\ m.op = "close" \/ (m.op = "closePipe" /\ w = 2)
           /\ process'.live = process.live \ {Source(w), Reader(w)}
           /\ process'.paused = process.paused
           /\ IF Reader(w) \in process.live THEN Wrote(w, Note(w, "producerclose")) ELSE toNode' = toNode
  <2> DEFINE e == Note(w, "producerclose")
  <2>1. e \in Notes /\ e.from = w /\ e.op = "producerclose"
    BY Zenon, OfOwnNote
  <2>2. Reader(w) \in process.live => Wrote(w, e)
    BY Zenon, <1>6
  <2>3. Reader(w) \notin process.live => toNode'[w] = toNode[w]
    BY Zenon, <1>6
  <2> HIDE DEF e
  <2>4. e \in Ends(w) /\ e \notin OfSource(w) /\ e \notin OfReader(w)
    BY Zenon, <2>1, OfNote
  <2>5. /\ SourceView(w)' = SourceView(w) /\ ReaderView(w)' = ReaderView(w)
        /\ (Ending(w) => Ending(w)') /\ (Reader(w) \in process.live => Ending(w)')
    BY ZenonT(30), <1>0, <2>2, <2>3, <2>4, WroteViews, SilentViews
  <2>6. \A v \in Workers : IsPaused(v)' = IsPaused(v)
    BY ZenonT(30), <1>6, <1>s
  <2>7. Known'
    BY ZenonT(30), <1>6, <1>k, <2>5, <2>6 DEF Known
  <2> QED
    BY Zenon, <1>2, <1>6, <2>5, <2>6, <2>7
<1>7. CASE /\ m.op = "closePipe" /\ w = 1
           /\ process'.live = process.live \ {"consumer"}
           /\ process'.paused = process.paused /\ toNode' = toNode
  <2>5. /\ SourceView(w)' = SourceView(w) /\ ReaderView(w)' = ReaderView(w)
        /\ (Ending(w) => Ending(w)')
    BY ZenonT(30), <1>0, <1>7, SilentViews
  <2>6. \A v \in Workers : IsPaused(v)' = IsPaused(v)
    BY ZenonT(30), <1>7, <1>s
  <2>7. Known'
    BY ZenonT(30), <1>7, <1>k, <2>5, <2>6 DEF Known
  <2> QED
    BY Zenon, <1>2, <1>7, <2>5, <2>6, <2>7
<1> QED
  BY <1>0, <1>4, <1>5, <1>6, <1>7, Zenon DEF Handled, Creations

LEMMA WorkTopics ==
  ASSUME NEW w \in Workers, NEW m, Works(w, m)
  PROVE  /\ \A v \in Workers : \A o :
              Has(toWorker[v], Ask(o)) <=> Has(toWorker'[v], Ask(o)) \/ (v = w /\ o = m.op)
         /\ \A v \in Workers : \A x :
              After(toWorker[v], Orders, x) =
                After(toWorker'[v], Orders, IF v = w /\ m.op \in Changes \cup {"produce"} THEN Says(m) ELSE x)
<1>0. /\ Taken(toWorker[w], m, toWorker'[w]) /\ m \in Requests
      /\ \A v \in Workers : v # w => toWorker'[v] = toWorker[v]
  BY Zenon DEF Works
<1>1. (\A op : m \in Ask(op) <=> m.op = op) /\ (m \in Orders <=> m.op \in Changes \cup {"produce"})
  BY ZenonT(30), <1>0, OfRequest
<1>2. ASSUME NEW v \in Workers
      PROVE  /\ \A o : Has(toWorker[v], Ask(o)) <=> Has(toWorker'[v], Ask(o)) \/ (v = w /\ o = m.op)
             /\ \A x : After(toWorker[v], Orders, x) =
                         After(toWorker'[v], Orders, IF v = w /\ m.op \in Changes \cup {"produce"}
                                                     THEN Says(m) ELSE x)
  <2>1. CASE v = w
    <3>1. \A o : Has(toWorker[v], Ask(o)) <=> Has(toWorker'[v], Ask(o)) \/ o = m.op
      BY <1>0, <1>1, <2>1, Zenon DEF Taken
    <3>2. \A x : After(toWorker[v], Orders, x) =
                   After(toWorker'[v], Orders, IF m.op \in Changes \cup {"produce"} THEN Says(m) ELSE x)
      BY <1>0, <1>1, <2>1, Zenon DEF Taken
    <3> QED
      BY Zenon, <2>1, <3>1, <3>2
  <2>2. CASE v # w
    BY <1>0, <2>2, ZenonT(30)
  <2> QED
    BY ZenonT(30), <2>1, <2>2
<1> QED
  BY <1>2, Zenon

LEMMA PlainPipes ==
  ASSUME PipeInv, NEW w \in Workers, NEW m, Works(w, m), m.op \notin Creations, FailInv'
  PROVE  PipeInv'
<1>0. /\ PipeTyped /\ AskedOnce /\ Steps /\ Owned
      /\ Known /\ Ended /\ (patient => Early /\ Together)
  BY SMTT(30) DEF PipeInv, FailInv
<1>1. /\ UNCHANGED <<patient, producer, consumer, pipe, sink, step, wired, micro, immediates>>
      /\ m \in Requests /\ NewsOnly(w)
  BY ZenonT(30), PlainWork DEF Works, lib, given
<1>2. /\ \/ /\ m.op \in Changes /\ process'.live = process.live
            /\ Source(w) \in process.live /\ step # "sync" => IsPaused(w)' = (m.op = "pause")
            /\ Source(w) \notin process.live => IsPaused(w)' = IsPaused(w)
         \/ /\ m.op = "close" \/ (m.op = "closePipe" /\ w = 2)
            /\ process'.live = process.live \ {Source(w), Reader(w)}
            /\ IsPaused(w)' = IsPaused(w)
            /\ Reader(w) \in process.live => Ending(w)'
         \/ /\ m.op = "closePipe" /\ w = 1 /\ process'.live = process.live \ {"consumer"}
            /\ IsPaused(w)' = IsPaused(w)
      /\ \A v \in Workers : Ending(v) => Ending(v)'
      /\ \A v \in Workers : v # w => IsPaused(v)' = IsPaused(v)
      /\ Known'
  BY Zenon, <1>0, PlainEffect
<1>3. \A v \in Workers, op \in Creations : Coming(v, op)' <=> Coming(v, op)
  BY <1>1, ZenonT(30) DEF Coming, NewsOnly
<1>4. /\ \A v \in Workers : \A o :
           Has(toWorker[v], Ask(o)) <=> Has(toWorker'[v], Ask(o)) \/ (v = w /\ o = m.op)
      /\ \A x : After(toWorker[2], Orders, x) =
                  After(toWorker'[2], Orders, IF w = 2 /\ m.op \in Changes THEN Says(m) ELSE x)
  BY Zenon, WorkTopics DEF Workers, Creations
<1>5. \A v \in Workers, op \in Creations :
         /\ Coming(v, op) => Waits(v, op) /\ ~Has(toWorker[v], Ask(op))
         /\ Has(toWorker[v], Ask(op)) => Waits(v, op)
  <2>1. \A v, op : Coming(v, op) => Has(toNode[v], Got(v, op)) \/ Has(micro, Got(v, op))
    BY Zenon DEF Coming, Has, Yes
  <2> QED
    BY <1>0, <2>1, Zenon DEF AskedOnce, Pending, Single
<1>6. m.op \in Changes => Says(m) = (m.op = "pause")
  BY SMTT(30) DEF Says, Changes, Creations
<1>7. /\ m.op = "close" => w = 1 /\ producer.closed
      /\ m.op = "closePipe" /\ w = 2 => pipe.state = "closed"
      /\ m.op = "closePipe" /\ w = 1 => consumer.state = "closed"
  BY Zenon, <1>0, <1>4 DEF Ended, Closing, Workers
<1>8. ~Coming(2, "produce") \/ pipe.state = "none"
  BY Zenon, <1>0, <1>5 DEF Waits, Steps, Workers, Creations
<1>9. Ended'
  <2>1. \A v \in Workers :
          Reader(v) \notin process'.live /\ (View(v)'.state = "open" \/ Coming(v, "consume")') => Ending(v)'
    <3>1. \A v \in Workers : View(v)' = View(v)
      BY Zenon, <1>1 DEF View
    <3>2. m.op = "closePipe" /\ w = 1 => ~Coming(1, "consume")
      BY SMTT(30), <1>0, <1>5, <1>7 DEF Waits, Steps, Workers, Creations
    <3>3. ASSUME NEW v \in Workers, Reader(v) \notin process'.live,
                 View(v).state = "open" \/ Coming(v, "consume")
          PROVE  Ending(v)'
      <4>1. Reader(v) \notin process.live => Ending(v)
        BY ZenonT(30), <1>0, <3>3 DEF Ended
      <4>2. CASE Reader(v) \in process.live
        BY Zenon, <1>2, <1>7, <3>2, <3>3, <4>2 DEF Workers, Reader, Source,
           View
      <4> QED
        BY ZenonT(30), <1>2, <4>1, <4>2
    <3> QED
      BY Zenon, <1>3, <3>1, <3>3 DEF Creations
  <2>2. \A v \in Workers : Closing(v)' => Closing(v)
    BY Zenon, <1>4 DEF Closing
  <2>3. Closing(2) /\ ~(m.op = "closePipe" /\ w = 2) => Closing(2)'
    BY Zenon, <1>4 DEF Closing, Workers
  <2>4. step = "consume" \/ Has(toWorker'[2], Ask("produce")) => ~IsPaused(2)'
    <3>1. SUFFICES ASSUME step = "consume" \/ Has(toWorker[2], Ask("produce"))
                   PROVE  ~IsPaused(2)'
      BY Zenon, <1>4 DEF Workers
    <3>2. ~IsPaused(2) /\ pipe.state = "none" /\ ~Coming(2, "produce")
      BY ZenonT(30), <1>0, <1>5, <3>1 DEF Ended, Steps, Waits, Workers, Creations
    <3>3. "pipe" \notin process.live
      BY ZenonT(30), <1>0, <3>2 DEF Owned, Ended
    <3>4. w = 2 /\ m.op \in Changes => IsPaused(2)' = IsPaused(2)
      <4>1. Source(2) = "pipe" /\ "close" \notin Changes /\ "closePipe" \notin Changes
        BY SMT DEF Source, Changes
      <4> QED
        BY ZenonT(30), <1>2, <3>3, <4>1
    <3> QED
      BY Zenon, <1>2, <3>2, <3>4 DEF Workers
  <2>5. /\ "pipe" \notin process'.live => "sink" \notin process'.live
        /\ "producer" \notin process'.live => "consumer" \notin process'.live /\ producer'.closed
        /\ producer'.closed /\ "producer" \in process'.live => Has(toWorker'[1], Ask("close"))
        /\ pipe'.state = "closed" /\ "pipe" \in process'.live => Closing(2)'
        /\ pipe'.state = "open" \/ Coming(2, "produce")' => "pipe" \in process'.live
    <3>1. /\ "pipe" \notin process.live => "sink" \notin process.live
          /\ "producer" \notin process.live => "consumer" \notin process.live /\ producer.closed
          /\ producer.closed /\ "producer" \in process.live => Has(toWorker[1], Ask("close"))
          /\ pipe.state = "closed" /\ "pipe" \in process.live => Closing(2)
          /\ pipe.state = "open" \/ Coming(2, "produce") => "pipe" \in process.live
      BY <1>0, Zenon DEF Ended
    <3>2. CASE m.op \in Changes /\ process'.live = process.live
      BY Zenon, <1>1, <1>3, <1>4, <2>3, <3>1, <3>2 DEF Workers, Changes, Creations
    <3>3. CASE /\ m.op = "close" \/ (m.op = "closePipe" /\ w = 2)
               /\ process'.live = process.live \ {Source(w), Reader(w)}
      <4>0. /\ producer' = producer /\ pipe' = pipe
            /\ Coming(2, "produce")' <=> Coming(2, "produce")
            /\ Has(toWorker[1], Ask("close")) => Has(toWorker'[1], Ask("close")) \/ m.op = "close"
        BY Zenon, <1>1, <1>3, <1>4 DEF Workers, Creations
      <4>1. CASE m.op = "close"
        <5>1. process'.live = process.live \ {"producer", "consumer"} /\ producer.closed
          <6>1. Source(1) = "producer" /\ Reader(1) = "consumer"
            BY SMT DEF Source, Reader
          <6> QED
            BY Zenon, <1>7, <3>3, <4>1, <6>1
        <5> QED
          BY Zenon, <2>3, <3>1, <4>0, <4>1, <5>1
      <4>2. CASE m.op = "closePipe" /\ w = 2
        <5>1. /\ process'.live = process.live \ {"pipe", "sink"}
              /\ pipe.state = "closed" /\ ~Coming(2, "produce")
          <6>1. Source(2) = "pipe" /\ Reader(2) = "sink" /\ "closed" # "none"
            BY SMT DEF Source, Reader
          <6> QED
            BY Zenon, <1>7, <1>8, <3>3, <4>2, <6>1
        <5> QED
          BY Zenon, <3>1, <4>0, <4>2, <5>1
      <4> QED
        BY Zenon, <3>3, <4>1, <4>2
    <3>4. CASE m.op = "closePipe" /\ w = 1 /\ process'.live = process.live \ {"consumer"}
      <4>1. /\ producer' = producer /\ pipe' = pipe /\ m.op # "close"
            /\ Coming(2, "produce")' <=> Coming(2, "produce")
            /\ Has(toWorker[1], Ask("close")) => Has(toWorker'[1], Ask("close"))
            /\ Closing(2) => Closing(2)'
        <5>1. m.op # "close" /\ w # 2
          BY SMT, <3>4
        <5> QED
          BY Zenon, <1>1, <1>3, <1>4, <2>3, <5>1 DEF Workers, Creations
      <4>2. \A x : x # "consumer" => (x \in process'.live <=> x \in process.live)
        BY SMT, <3>4
      <4>3. "consumer" \notin process'.live
        BY ZenonT(30), <3>4
      <4> QED
        BY Zenon, <3>1, <4>1, <4>2, <4>3
    <3> QED
      BY <1>2, <3>2, <3>3, <3>4, Zenon
  <2>6. /\ Closing(1)' => consumer'.state = "closed"
        /\ Closing(2)' => pipe'.state = "closed"
        /\ Has(toWorker'[1], Ask("close")) => producer'.closed
        /\ ~Has(toWorker'[2], Ask("close"))
    BY <1>0, <1>1, <1>4, <2>2 DEF Ended, Workers
  <2> QED
    BY <1>1, <2>1, <2>4, <2>5, <2>6, Zenon DEF Ended
<1>10. ASSUME patient PROVE Early'
  <2>1. SUFFICES ASSUME step \in {"consume", "produce", "sync"} PROVE FALSE
    BY Zenon, <1>1 DEF Early
  <2>2. Early
    BY SMTT(30), <1>0, <1>10
  <2>3. /\ step # "sync" /\ ~producer.closed /\ consumer.state # "closed"
        /\ \A op \in Changes : ~Has(toWorker[w], Ask(op))
    BY Zenon, <2>1, <2>2 DEF Early
  <2> QED
    BY ZenonT(30), <1>0, <1>2, <1>4, <1>7, <2>1, <2>3 DEF Steps
<1>11. ASSUME patient PROVE Together'
  <2>1. Early /\ Together
    BY Zenon, <1>0, <1>11
  <2>2. SUFFICES ASSUME \/ step = "done" /\ pipe.state = "open"
                        \/ Has(toWorker'[2], Ask("produce"))
                        \/ Coming(2, "produce")
                 PROVE  After(toWorker'[2], Orders, IsPaused(2)') = consumer.producerPaused
    BY ZenonT(30), <1>1, <1>3, <2>1 DEF Together, Workers, Creations
  <2>3. After(toWorker[2], Orders, IsPaused(2)) = consumer.producerPaused
    BY Zenon, <1>4, <2>1, <2>2 DEF Together, Workers
  <2>4. IsPaused(2)' = IF w = 2 /\ m.op \in Changes THEN Says(m) ELSE IsPaused(2)
    <3>1. CASE w = 2 /\ m.op \in Changes
      <4>1. ~Has(toWorker[2], Ask("produce"))
        BY ZenonT(30), <1>4, <1>5, <2>1, <3>1 DEF Early, Waits, Workers,
           Creations
      <4>2. "pipe" \in process.live
        BY ZenonT(30), <1>0, <1>4, <2>2, <4>1 DEF Ended, Workers
      <4> QED
        <5>1. Source(w) = "pipe"
          BY SMT, <3>1 DEF Source
        <5>2. m.op # "close" /\ m.op # "closePipe"
          BY Zenon, <3>1 DEF Changes
        <5>3. IsPaused(w)' = (m.op = "pause")
          BY Zenon, <1>2, <2>1, <4>2, <5>1, <5>2 DEF Early
        <5> QED
          BY Zenon, <1>6, <3>1, <5>3
    <3>2. CASE ~(w = 2 /\ m.op \in Changes)
      BY ZenonT(30), <1>2, <3>2 DEF Workers
    <3> QED
      BY Zenon, <3>1, <3>2
  <2> QED
    BY <1>4, <2>3, <2>4, Zenon
<1> QED
  BY Zenon, <1>1, <1>2, <1>9, <1>10, <1>11 DEF PipeInv

LEMMA CreationPipes ==
  ASSUME PipeInv, NEW w \in Workers, NEW m, Works(w, m), NEW e, Creates(w, m, e), FailInv'
  PROVE  PipeInv'
<1>0. /\ PipeTyped /\ AskedOnce /\ Steps /\ Owned /\ AskedOnce'
      /\ Known /\ Ended /\ (patient => Early /\ Together)
  BY SMTT(30) DEF PipeInv, FailInv
<1>1. /\ UNCHANGED <<patient, producer, consumer, pipe, sink, step, wired, micro, immediates, lib>>
      /\ m \in Requests /\ \A v \in Workers : v # w => toNode'[v] = toNode[v]
  BY ZenonT(30) DEF Works, lib, given, Answers
<1>2. /\ Wrote(w, e) /\ e \in Responses /\ e.from = w /\ e.op = m.op /\ m.op \in Creations
      /\ Says(e) = e.paused /\ e.ok \in BOOLEAN
  BY Zenon, OfResponse DEF Creates
<1>3. /\ \A op : e \in Yes(w, op) <=> op = m.op /\ e.ok
      /\ \A v, op : e \in Got(v, op) <=> v = w /\ op = m.op
      /\ \A v : e \notin Told(v) /\ e \notin Ends(v)
      /\ e \in OfSource(w) <=> e.ok /\ m.op = "produce"
      /\ e \in OfReader(w) <=> e.ok /\ m.op = "consume"
  BY SMTT(30), <1>2, OfResponse DEF Changes, Creations
<1>4. /\ \A v \in Workers : \A o :
           Has(toWorker[v], Ask(o)) <=> Has(toWorker'[v], Ask(o)) \/ (v = w /\ o = m.op)
      /\ \A x : After(toWorker[2], Orders, x) =
                  After(toWorker'[2], Orders, IF w = 2 /\ m.op = "produce" THEN Says(m) ELSE x)
  BY ZenonT(30), <1>2, WorkTopics DEF Workers, Creations, Changes
<1>5. /\ SourceView(w)' = IF e.ok /\ m.op = "produce" THEN e.paused ELSE SourceView(w)
      /\ ReaderView(w)' = IF e.ok /\ m.op = "consume" THEN e.paused ELSE ReaderView(w)
      /\ Ending(w)' <=> Ending(w)
      /\ \A op : Coming(w, op)' <=> Coming(w, op) \/ (op = m.op /\ e.ok)
  BY ZenonT(30), <1>1, <1>2, <1>3, WroteViews
<1>6. \A v \in Workers : v # w =>
         /\ SourceView(v)' = SourceView(v) /\ ReaderView(v)' = ReaderView(v)
         /\ (Ending(v)' <=> Ending(v)) /\ \A op : Coming(v, op)' <=> Coming(v, op)
  BY ZenonT(30), <1>1, SilentViews
<1>7. /\ Waits(w, m.op) /\ ~Coming(w, m.op) /\ ~Has(toWorker'[w], Ask(m.op))
      /\ \A v \in Workers, op \in Creations : Has(toWorker[v], Ask(op)) \/ Coming(v, op) => Waits(v, op)
      /\ \A v \in Workers, op \in Creations : ~(Has(toWorker[v], Ask(op)) /\ Coming(v, op))
  <2>1. \A v, op : Coming(v, op) => Has(toNode[v], Got(v, op)) \/ Has(micro, Got(v, op))
    BY Zenon DEF Coming, Has, Yes
  <2>2. /\ \A v \in Workers, op \in Creations : Has(toWorker[v], Ask(op)) \/ Coming(v, op) => Waits(v, op)
        /\ \A v \in Workers, op \in Creations : ~(Has(toWorker[v], Ask(op)) /\ Coming(v, op))
    BY <1>0, <2>1, ZenonT(30) DEF AskedOnce, Pending, Single
  <2>3. Has(toWorker[w], Ask(m.op))
    BY Zenon, <1>4
  <2>4. Has(toNode'[w], Got(w, m.op))
    BY <1>2, <1>3, Zenon DEF Wrote, Added
  <2>5. ~Has(toWorker'[w], Ask(m.op))
    BY <1>0, <1>2, <2>4, ZenonT(30) DEF AskedOnce, Single
  <2> QED
    BY Zenon, <1>2, <2>2, <2>3, <2>5
<1>p. /\ m.op = "produce" => w = 2 /\ step = "produce" /\ pipe.state = "none" /\ ~IsPaused(2)
                               /\ "sink" \notin process.live
      /\ m.op = "consume" => (w = 1 /\ step = "consume") \/ (w = 2 /\ sink.state = "consuming")
  BY ZenonT(30), <1>0, <1>4, <1>7 DEF Waits, Steps, Ended, Owned, Workers
<1>8. \/ e.ok = FALSE /\ process' = process
      \/ /\ e.ok = TRUE /\ m.op = "consume" /\ Source(w) \in process.live /\ e.paused = IsPaused(w)
         /\ process'.live = process.live \cup {Reader(w)}
         /\ \A v \in Workers : IsPaused(v)' = IsPaused(v)
      \/ /\ e.ok = TRUE /\ m.op = "produce" /\ e.paused = m.paused
         /\ process'.live = process.live \cup {"pipe"}
         /\ IsPaused(1)' = IsPaused(1) /\ IsPaused(2)' = m.paused
  <2>1. m.paused \in BOOLEAN
    BY ZenonT(30), <1>1, OfRequest
  <2> QED
    <3>1. CASE e.ok = FALSE /\ process' = process
      BY Zenon, <3>1
    <3>2. CASE /\ e.ok = TRUE /\ m.op = "consume" /\ Source(w) \in process.live
               /\ e.paused = IsPaused(w)
               /\ process'.live = process.live \cup {Reader(w)}
               /\ process'.paused = process.paused
      BY ZenonT(60), <3>2 DEF IsPaused
    <3>3. CASE /\ e.ok = TRUE /\ m.op = "produce" /\ e.paused = m.paused
               /\ process'.live = process.live \cup {"pipe"}
               /\ process'.paused = process.paused \cup (IF m.paused THEN {"pipe"} ELSE {})
      <4>1. Source(1) = "producer" /\ Source(2) = "pipe" /\ ~IsPaused(2)
        BY <1>p, <3>3 DEF Source
      <4> QED
        BY <2>1, <3>3, <4>1 DEF IsPaused
    <3> QED
      BY Zenon, <3>1, <3>2, <3>3 DEF Creates
<1>9. \A v \in Workers : View(v)' = View(v)
  BY <1>1 DEF View
<1>10. Known'
  <2>1. CASE e.ok = FALSE /\ process' = process
    <3>1. \A v \in Workers : /\ SourceView(v)' = SourceView(v) /\ ReaderView(v)' = ReaderView(v)
                             /\ IsPaused(v)' = IsPaused(v)
      BY Zenon, <1>5, <1>6, <2>1 DEF IsPaused
    <3> QED
      BY <1>0, <1>9, <2>1, <3>1, Zenon DEF Known
  <2>2. CASE /\ e.ok = TRUE /\ m.op = "consume" /\ e.paused = IsPaused(w)
             /\ process'.live = process.live \cup {Reader(w)}
             /\ \A v \in Workers : IsPaused(v)' = IsPaused(v)
    BY ZenonT(30), <1>0, <1>5, <1>6, <1>9, <2>2 DEF Known, Reader, Workers
  <2>3. CASE /\ e.ok = TRUE /\ m.op = "produce" /\ e.paused = m.paused
             /\ process'.live = process.live \cup {"pipe"}
             /\ IsPaused(1)' = IsPaused(1) /\ IsPaused(2)' = m.paused
    BY ZenonT(30), <1>0, <1>5, <1>6, <1>9, <1>p, <2>3 DEF Known, Reader,
       Workers
  <2> QED
    BY ZenonT(30), <1>8, <2>1, <2>2, <2>3
<1>11. Ended'
  <2>1. \A v \in Workers : Closing(v)' <=> Closing(v)
    BY ZenonT(30), <1>2, <1>4 DEF Closing, Creations
  <2>2. \A v \in Workers :
          Reader(v) \notin process'.live /\ (View(v)'.state = "open" \/ Coming(v, "consume")') => Ending(v)'
    BY ZenonT(30), <1>0, <1>5, <1>6, <1>8, <1>9 DEF Ended, Reader, Workers
  <2>3. step = "consume" \/ Has(toWorker'[2], Ask("produce")) => ~IsPaused(2)'
    <3>1. process' = process => IsPaused(2)' = IsPaused(2)
      BY SMTT(30) DEF IsPaused
    <3> QED
      BY ZenonT(30), <1>0, <1>4, <1>7, <1>8, <1>p, <3>1 DEF Ended, Workers
  <2>4. pipe.state = "open" \/ Coming(2, "produce")' => "pipe" \in process'.live
    BY ZenonT(30), <1>0, <1>5, <1>6, <1>8, <1>p DEF Ended, Workers
  <2> QED
    BY ZenonT(30), <1>0, <1>1, <1>2, <1>4, <1>8, <1>p, <2>1, <2>2, <2>3, <2>4
       DEF Ended, Source, Reader, Workers, Creations
<1>12. ASSUME patient PROVE Early'
  <2>1. SUFFICES ASSUME step \in {"consume", "produce", "sync"} PROVE Early'
    BY Zenon, <1>1 DEF Early
  <2>2. Early
    BY <1>0, <1>12
  <2>3. ASSUME NEW v \in Workers
        PROVE  /\ \A op \in Changes : Has(toNode'[v], Got(v, op)) <=> Has(toNode[v], Got(v, op))
               /\ Has(toNode'[v], Told(v)) <=> Has(toNode[v], Told(v))
    <3>1. \A op \in Changes : e \notin Got(v, op)
      BY Zenon, <1>2, <1>3 DEF Changes, Creations
    <3> QED
      BY <1>1, <1>2, <1>3, <2>3, <3>1, ZenonT(30) DEF Wrote, Added
  <2> QED
    BY ZenonT(30), <1>1, <1>4, <2>1, <2>2, <2>3 DEF Early
<1>13. ASSUME patient PROVE Together'
  <2>1. Together
    BY ZenonT(30), <1>0, <1>13
  <2>2. SUFFICES ASSUME \/ step = "done" /\ pipe.state = "open"
                        \/ Has(toWorker'[2], Ask("produce"))
                        \/ Coming(2, "produce")'
                 PROVE  After(toWorker'[2], Orders, IsPaused(2)') = consumer.producerPaused
    BY Zenon, <1>1, <2>1 DEF Together
  <2>3. CASE m.op = "produce"
    <3>1. e.ok = TRUE
      BY ZenonT(30), <1>5, <1>7, <1>p, <2>2, <2>3
    <3>2. IsPaused(2)' = Says(m)
      BY Zenon, <1>8, <2>3, <3>1 DEF Says, Creations
    <3>3. After(toWorker[2], Orders, IsPaused(2)) = consumer.producerPaused
      BY Zenon, <1>4, <1>p, <2>1, <2>3 DEF Together, Workers
    <3>4. After(toWorker[2], Orders, IsPaused(2)) = After(toWorker'[2], Orders, Says(m))
      BY Zenon, <1>4, <1>p, <2>3
    <3> QED
      BY <3>2, <3>3, <3>4, ZenonT(30)
  <2>4. CASE m.op = "consume"
    <3>1. IsPaused(2)' = IsPaused(2)
      BY ZenonT(30), <1>8, <2>4 DEF Workers, IsPaused
    <3>2. After(toWorker[2], Orders, IsPaused(2)) = consumer.producerPaused
      BY ZenonT(30), <1>4, <1>5, <1>6, <2>1, <2>2, <2>4 DEF Together, Workers
    <3>3. After(toWorker[2], Orders, IsPaused(2)) = After(toWorker'[2], Orders, IsPaused(2))
      BY Zenon, <1>4, <2>4
    <3> QED
      BY <3>1, <3>2, <3>3, ZenonT(30)
  <2> QED
    BY Zenon, <1>2, <2>3, <2>4 DEF Creations
<1> QED
  BY Zenon, <1>1, <1>10, <1>11, <1>12, <1>13 DEF PipeInv

LEMMA InitPipes ==
  ASSUME Init
  PROVE  PipeInv
<1>0. FailInv
  BY Zenon, InitFails
<1>1. /\ toWorker[1] = <<Request("consume")>> /\ toWorker[2] = <<>> /\ toNode[1] = <<>>
      /\ toNode[2] = <<>> /\ micro = <<>> /\ immediates = <<>>
  BY DEF Init
<1>2. /\ consumer.state = "none" /\ pipe.state = "none" /\ sink.state = "none" /\ step = "consume"
      /\ process.live = {"producer"} /\ producer.closed = FALSE
      /\ producer.paused \in BOOLEAN /\ (producer.paused <=> "producer" \in process.paused)
      /\ pipe.paused \in BOOLEAN /\ (pipe.paused <=> "pipe" \in process.paused)
      /\ "pipe" \notin process.paused
  <2>1. PICK paused \in BOOLEAN :
          /\ producer = [closed |-> FALSE, paused |-> paused]
          /\ consumer = [state |-> "none", producerPaused |-> FALSE]
          /\ pipe = [state |-> "none", paused |-> FALSE]
          /\ sink = [state |-> "none", producerPaused |-> FALSE]
          /\ process = [live |-> {"producer"}, paused |-> IF paused THEN {"producer"} ELSE {}]
          /\ step = "consume"
    BY ZenonT(30) DEF Init
  <2> QED
    BY Zenon, <2>1
<1>3. \A op : Request("consume") \in Ask(op) <=> op = "consume"
  BY Zenon, OwnRequest, OfRequest
<1>4. /\ \A w \in Workers : \A X : ~Has(toNode[w], X)
      /\ \A X : ~Has(micro, X) /\ ~Has(immediates, X) /\ ~Has(toWorker[2], X)
      /\ \A X : Has(toWorker[1], X) <=> Request("consume") \in X
  BY <1>1, Empty, OneRequest DEF Workers
<1>5. Known
  <2>1. \A w \in Workers : SourceView(w) = SourcePaused(w)
    BY <1>4, AfterNone, Zenon DEF SourceView
  <2>2. \A w \in Workers : SourcePaused(w) = IsPaused(w) /\ Reader(w) \notin process.live
    <3>1. producer.paused = ("producer" \in process.paused)
      BY <1>2
    <3>2. pipe.paused = ("pipe" \in process.paused)
      BY <1>2
    <3>3. /\ SourcePaused(1) = producer.paused /\ SourcePaused(2) = pipe.paused
          /\ Source(1) = "producer" /\ Source(2) = "pipe"
      BY DEF SourcePaused, Source
    <3>4. \A w \in Workers : SourcePaused(w) = IsPaused(w)
      BY <3>1, <3>2, <3>3, Zenon DEF IsPaused, Workers
    <3> QED
      BY <1>2, <3>4 DEF Reader, Workers
  <2> QED
    BY <2>1, <2>2, Zenon DEF Known
<1>6. Ended
  BY Zenon, <1>2, <1>3, <1>4 DEF Ended, Coming, Closing, View, IsPaused, Source,
     Workers
<1>7. Early /\ Together
  BY Zenon, <1>1, <1>2, <1>3, <1>4 DEF Early, Together, Coming, Changes, Workers
<1> QED
  BY Zenon, <1>0, <1>5, <1>6, <1>7 DEF PipeInv

LEMMA StutterPipes ==
  ASSUME PipeInv, UNCHANGED vars
  PROVE  PipeInv'
<1>1. UNCHANGED <<data, patient, producer, consumer, pipe, sink, step, wired, process, toWorker,
                  toNode, left, micro, immediates>>
  BY DEF vars, given, lib
<1>2. FailInv'
  BY Zenon, StutterFails DEF PipeInv
<1>3. Known'
  BY Zenon, <1>1 DEF PipeInv, Known, SourceView, ReaderView, SourcePaused, View,
     IsPaused
<1>4. Ended'
  BY Zenon, <1>1 DEF PipeInv, Ended, Coming, Closing, Ending, View, IsPaused
<1>5. patient => Early' /\ Together'
  BY Zenon, <1>1 DEF PipeInv, Early, Together, Coming, IsPaused
<1> QED
  BY Zenon, <1>1, <1>2, <1>3, <1>4, <1>5 DEF PipeInv

LEMMA NextPipes ==
  ASSUME PipeInv, [Next]_vars
  PROVE  PipeInv'
<1>0. PipeTyped /\ FailInv /\ FailInv'
  BY NextFails DEF PipeInv, FailInv
<1>1. CASE Application
  BY Zenon, <1>0, <1>1, ApplicationPipes
<1>2. CASE Loop
  <2>1. UNCHANGED given
    BY <1>2 DEF Loop
  <2>2. CASE Read
    BY Zenon, <1>0, <2>1, <2>2, ReadDoes, ReadPipes
  <2>3. CASE Continue
    BY Zenon, <1>0, <2>1, <2>3, ContinueDoes, ContinuePipes
  <2>4. CASE Notify
    BY Zenon, <1>0, <2>1, <2>4, NotifyDoes, NotifyPipes
  <2> QED
    BY <1>2, <2>2, <2>3, <2>4 DEF Loop
<1>3. CASE WorkerHandles
  <2>1. PICK w \in Workers : \E m : Works(w, m)
    BY <1>0, <1>3, WorkDoes, Zenon
  <2>2. PICK m : Works(w, m)
    BY Zenon, <2>1
  <2> QED
    BY Zenon, <1>0, <2>2, PlainPipes, CreationDoes, CreationPipes
<1> QED
  BY <1>1, <1>2, <1>3, StutterPipes DEF Next

LEMMA PipedHolds ==
  ASSUME PipeInv
  PROVE  PipedTogether
<1> SUFFICES ASSUME Quiet, patient, step = "done"
             PROVE  /\ producer.closed => pipe.state = "closed" /\ sink.state # "open"
                    /\ pipe.state = "open" =>
                         /\ pipe.paused = producer.paused
                         /\ sink.state = "open" => sink.producerPaused = producer.paused
  BY DEF PipedTogether
<1>0. PipeTyped /\ Steps /\ Known /\ Ended /\ Together
  BY Zenon DEF PipeInv, FailInv
<1>1. /\ \A w \in Workers : \A X : ~Has(toNode[w], X) /\ ~Has(toWorker[w], X)
      /\ \A X : ~Has(micro, X) /\ ~Has(immediates, X)
      /\ \A w \in Workers : \A op : ~Coming(w, op) /\ ~Closing(w) /\ ~Ending(w)
  BY ZenonT(30), NothingComes
<1>2. ASSUME NEW w \in Workers
      PROVE  /\ SourcePaused(w) = IsPaused(w)
             /\ Reader(w) \notin process.live => View(w).state # "open"
             /\ View(w).state = "open" => View(w).producerPaused = IsPaused(w)
  <2>0. \A X, x : /\ After(toNode[w], X, x) = x /\ After(micro, X, x) = x
                  /\ After(immediates, X, x) = x
    BY <1>1, <1>2, AfterNone, Zenon
  <2>1. SourceView(w) = SourcePaused(w) /\ ReaderView(w) = View(w).producerPaused
    BY <2>0, Zenon DEF SourceView, ReaderView
  <2> QED
    BY <1>0, <1>1, <2>1 DEF Known, Ended
<1>3. pipe.state = "open" => IsPaused(2) = consumer.producerPaused
  <2>1. After(toWorker[2], Orders, IsPaused(2)) = IsPaused(2)
    BY <1>1, AfterNone, Zenon DEF Workers
  <2> QED
    BY <1>0, <2>1 DEF Together
<1>4. producer.closed => pipe.state = "closed" /\ sink.state # "open"
  BY <1>0, <1>1, <1>2 DEF Ended, Steps, Together, Reader, View, Workers,
     PipeTyped
<1>5. pipe.state = "open" => consumer.state = "open"
  BY <1>0 DEF Together
<1> QED
  BY <1>2, <1>3, <1>4, <1>5 DEF SourcePaused, View, Workers
=============================================================================
