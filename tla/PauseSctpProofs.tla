-------------------------- MODULE PauseSctpProofs ---------------------------
(***************************************************************************)
(* Two mechanisms in which the library and the worker must agree in the    *)
(* end.                                                                    *)
(*                                                                         *)
(* PauseState: the flags and the last events of the library are those of   *)
(* the worker.  FlagsAgree is about a state in which nothing is on its     *)
(* way.  PauseInv says what it was before: the last message about a flag,  *)
(* in the order in which the library will see them, carries the value that *)
(* the worker process has (Latest, Told).  EventInv adds the events, while *)
(* no call overlaps another.                                               *)
(*                                                                         *)
(* SctpStreams: no two DataConsumers share a stream, and the marks are     *)
(* exact.  StreamsExact is not inductive: an id that is taken again must   *)
(* be behind the request that closes its last user, so SctpInv says what   *)
(* is on its way for each DataConsumer, and in which order (Asked,         *)
(* Answered, CloseAhead).                                                  *)
(***************************************************************************)
EXTENDS PauseState, TLAPS

CONSTANTS DataConsumers, MIS

VARIABLES
  status, streamId, used, next, live, sctpOut, sctpIn, sctpLeft, sctpMicro, sctpImmediates

Sctp == INSTANCE SctpStreams WITH
          toWorker <- sctpOut, toNode <- sctpIn, left <- sctpLeft,
          micro <- sctpMicro, immediates <- sctpImmediates

-----------------------------------------------------------------------------
(* Queues.                                                                 *)

LEMMA Shorter ==
  ASSUME NEW S, NEW s \in Seq(S), s # <<>>
  PROVE  /\ Tail(s) \in Seq(S) /\ Head(s) = s[1] /\ s[1] \in S /\ 1 \in DOMAIN s
         /\ Len(s) \in Nat \ {0} /\ DOMAIN s = 1..Len(s)
         /\ Len(Tail(s)) = Len(s) - 1 /\ DOMAIN Tail(s) = 1..(Len(s) - 1)
         /\ \A i \in 1..(Len(s) - 1) : Tail(s)[i] = s[i + 1]
OBVIOUS

LEMMA Longer ==
  ASSUME NEW S, NEW s \in Seq(S), NEW e \in S
  PROVE  /\ Append(s, e) \in Seq(S) /\ Len(s) \in Nat /\ DOMAIN s = 1..Len(s)
         /\ Len(Append(s, e)) = Len(s) + 1 /\ DOMAIN Append(s, e) = 1..(Len(s) + 1)
         /\ \A i \in 1..Len(s) : Append(s, e)[i] = s[i]
         /\ Append(s, e)[Len(s) + 1] = e
OBVIOUS

LEMMA Member ==
  ASSUME NEW S, NEW s \in Seq(S), NEW i \in DOMAIN s
  PROVE  s[i] \in S
OBVIOUS

-----------------------------------------------------------------------------
(* SCTP streams.                                                           *)

\* The DataConsumers whose mark is set.
Holders == {c \in DataConsumers : status[c] \in {"consuming", "open", "rejected"}}

Answer(m) == m.op \in {"accepted", "rejected"}

SctpTyped ==
  /\ MIS \in Nat \ {0}
  /\ status \in [DataConsumers ->
                   {"none", "full", "consuming", "open", "rejected", "closed"}]
  /\ streamId \in [DataConsumers -> Sctp!StreamIds]
  /\ next \in 0..MIS
  /\ live \subseteq DataConsumers
  /\ sctpOut \in Seq([op : {"consume", "close"}, of : DataConsumers])
  /\ sctpIn \in Seq([op : {"accepted", "rejected", "dataproducerclose"}, of : DataConsumers])
  /\ sctpLeft \in 0..Len(sctpIn)
  /\ sctpMicro \in Seq([op : {"accepted", "rejected"}, of : DataConsumers])
  /\ sctpImmediates \in Seq([op : {"dataproducerclose"}, of : DataConsumers])

\* The marks are those of the holders, which have a stream each.
Marked ==
  /\ used = {streamId[c] : c \in Holders}
  /\ \A c, d \in Holders : streamId[c] = streamId[d] => c = d

\* A request to consume is the only message about its DataConsumer.
Asked ==
  \A i \in DOMAIN sctpOut : sctpOut[i].op = "consume" =>
    /\ status[sctpOut[i].of] = "consuming" /\ sctpOut[i].of \notin live
    /\ \A j \in DOMAIN sctpOut : sctpOut[j].of = sctpOut[i].of => j = i
    /\ \A j \in DOMAIN sctpIn : sctpIn[j].of # sctpOut[i].of
    /\ \A j \in DOMAIN sctpMicro : sctpMicro[j].of # sctpOut[i].of
    /\ \A j \in DOMAIN sctpImmediates : sctpImmediates[j].of # sctpOut[i].of

\* It is answered once.
Answered ==
  /\ \A i \in DOMAIN sctpIn : Answer(sctpIn[i]) =>
       /\ status[sctpIn[i].of] = "consuming"
       /\ \A j \in DOMAIN sctpIn : Answer(sctpIn[j]) /\ sctpIn[j].of = sctpIn[i].of => j = i
       /\ \A j \in DOMAIN sctpMicro : sctpMicro[j].of # sctpIn[i].of
  /\ \A i \in DOMAIN sctpMicro :
       /\ status[sctpMicro[i].of] = "consuming"
       /\ \A j \in DOMAIN sctpMicro : sctpMicro[j].of = sctpMicro[i].of => j = i

\* A DataConsumer whose end is announced is not in the worker.
Dropped ==
  /\ \A i \in DOMAIN sctpIn : sctpIn[i].op = "dataproducerclose" =>
       sctpIn[i].of \notin live /\ status[sctpIn[i].of] \notin {"none", "full"}
  /\ \A i \in DOMAIN sctpImmediates :
       sctpImmediates[i].of \notin live /\ status[sctpImmediates[i].of] \notin {"none", "full"}

\* What is about DataConsumers that were asked for.
Begun ==
  /\ \A c \in live : status[c] \notin {"none", "full"}
  /\ \A i \in DOMAIN sctpOut : status[sctpOut[i].of] \notin {"none", "full"}

\* c is about to be closed in the worker, before another with its stream is made.
CloseAhead(c) ==
  /\ \E i \in DOMAIN sctpOut : sctpOut[i] = [op |-> "close", of |-> c]
  /\ \A j \in DOMAIN sctpOut :
       sctpOut[j].op = "consume" /\ streamId[sctpOut[j].of] = streamId[c] =>
         \E i \in DOMAIN sctpOut : i < j /\ sctpOut[i] = [op |-> "close", of |-> c]

\* So is every one that is closed only in the library.
Behind == \A c \in live : status[c] = "closed" => CloseAhead(c)

LiveApart == \A c, d \in live : streamId[c] = streamId[d] => c = d

SctpInv ==
  SctpTyped /\ Marked /\ Asked /\ Answered /\ Dropped /\ Begun /\ Behind /\ LiveApart

LEMMA SctpInvImplies == SctpInv => Sctp!StreamsExact
<1> SUFFICES ASSUME SctpInv PROVE Sctp!StreamsExact
  OBVIOUS
<1>1. used = {streamId[c] : c \in Holders}
  BY DEF SctpInv, Marked
<1>2. \A c, d \in live : streamId[c] = streamId[d] => c = d
  BY DEF SctpInv, LiveApart
<1>3. \A c, d \in DataConsumers :
        status[c] \in {"consuming", "open"} /\ status[d] = "open"
          /\ streamId[c] = streamId[d] => c = d
  BY DEF SctpInv, Marked, Holders
<1> QED
  BY <1>1, <1>2, <1>3, Zenon DEF Sctp!StreamsExact, Holders

\* The messages are about DataConsumers.
LEMMA SctpMessages ==
  ASSUME SctpTyped
  PROVE  /\ \A i \in DOMAIN sctpOut :
              sctpOut[i].op \in {"consume", "close"} /\ sctpOut[i].of \in DataConsumers
         /\ \A i \in DOMAIN sctpIn :
              /\ Answer(sctpIn[i]) \/ sctpIn[i].op = "dataproducerclose"
              /\ sctpIn[i].of \in DataConsumers
         /\ \A i \in DOMAIN sctpMicro :
              Answer(sctpMicro[i]) /\ sctpMicro[i].of \in DataConsumers
         /\ \A i \in DOMAIN sctpImmediates :
              /\ sctpImmediates[i].op = "dataproducerclose"
              /\ sctpImmediates[i].of \in DataConsumers
<1>1. \A i \in DOMAIN sctpOut : sctpOut[i] \in [op : {"consume", "close"}, of : DataConsumers]
  BY Member, Zenon DEF SctpTyped
<1>2. \A i \in DOMAIN sctpIn :
        sctpIn[i] \in [op : {"accepted", "rejected", "dataproducerclose"}, of : DataConsumers]
  BY Member, Zenon DEF SctpTyped
<1>3. \A i \in DOMAIN sctpMicro :
        sctpMicro[i] \in [op : {"accepted", "rejected"}, of : DataConsumers]
  BY Member, Zenon DEF SctpTyped
<1>4. \A i \in DOMAIN sctpImmediates :
        sctpImmediates[i] \in [op : {"dataproducerclose"}, of : DataConsumers]
  BY Member, Zenon DEF SctpTyped
<1> QED
  BY <1>1, <1>2, <1>3, <1>4 DEF Answer

LEMMA SctpInitially ==
  ASSUME MIS \in Nat \ {0}, Sctp!Init
  PROVE  SctpInv
<1> USE DEF Sctp!Init
<1>1. SctpTyped
  BY DEF SctpTyped, Sctp!StreamIds
<1>2. Marked
  BY DEF Marked, Holders
<1>3. Asked /\ Answered /\ Dropped /\ Begun /\ Behind /\ LiveApart
  BY DEF Asked, Answered, Dropped, Begun, Behind, CloseAhead, LiveApart
<1> QED
  BY <1>1, <1>2, <1>3 DEF SctpInv

\* No stream is free.
LEMMA ConsumeDataFull ==
  ASSUME SctpInv, NEW c \in DataConsumers, status[c] = "none",
         status' = [status EXCEPT ![c] = "full"],
         UNCHANGED <<streamId, used, next, sctpOut, live, sctpIn, sctpLeft, sctpMicro,
                     sctpImmediates>>
  PROVE  SctpInv'
<1>1. /\ \A d \in DataConsumers : d # c => status'[d] = status[d]
      /\ status'[c] = "full" /\ c \in DataConsumers
  BY DEF SctpInv, SctpTyped
<1>2. SctpTyped'
  BY DEF SctpInv, SctpTyped
<1>3. Holders' = Holders
  BY <1>1 DEF Holders
<1>4. Marked'
  BY SMTT(30), <1>3 DEF SctpInv, Marked
<1>5. Asked'
  BY SMTT(30), <1>1 DEF SctpInv, SctpTyped, Asked
<1>6. Answered'
  BY SMTT(30), <1>1 DEF SctpInv, SctpTyped, Answered
<1>7. Dropped' /\ Begun'
  BY SMTT(30), <1>1 DEF SctpInv, SctpTyped, Dropped, Begun
<1>8. Behind'
  BY <1>1 DEF SctpInv, SctpTyped, Behind, CloseAhead
<1>9. LiveApart'
  BY DEF SctpInv, LiveApart
<1> QED
  BY SMTT(30), <1>2, <1>4, <1>5, <1>6, <1>7, <1>8, <1>9 DEF SctpInv

\* A stream is taken.
LEMMA ConsumeDataTakes ==
  ASSUME SctpInv, NEW c \in DataConsumers, status[c] = "none",
         NEW n \in Sctp!StreamIds, n \notin used,
         status' = [status EXCEPT ![c] = "consuming"],
         streamId' = [streamId EXCEPT ![c] = n],
         used' = used \cup {n}, next' = n + 1,
         sctpOut' = Append(sctpOut, [op |-> "consume", of |-> c]),
         UNCHANGED <<live, sctpIn, sctpLeft, sctpMicro, sctpImmediates>>
  PROVE  SctpInv'
<1> DEFINE k == Len(sctpOut) + 1
<1>1. /\ \A d \in DataConsumers : d # c => status'[d] = status[d] /\ streamId'[d] = streamId[d]
      /\ status'[c] = "consuming" /\ streamId'[c] = n
  BY DEF SctpInv, SctpTyped
<1>2. /\ k \in Nat /\ DOMAIN sctpOut = 1..(k - 1) /\ DOMAIN sctpOut' = 1..k
      /\ \A i \in 1..(k - 1) : sctpOut'[i] = sctpOut[i]
      /\ sctpOut'[k] = [op |-> "consume", of |-> c]
      /\ sctpOut' \in Seq([op : {"consume", "close"}, of : DataConsumers])
  BY Longer, SMTT(30) DEF SctpInv, SctpTyped
<1>3. SctpTyped'
  BY SMTT(30), <1>2 DEF SctpInv, SctpTyped, Sctp!StreamIds
<1>4. Marked'
  <2>1. Holders' = Holders \cup {c} /\ c \notin Holders
    BY <1>1 DEF Holders
  <2>2. \A d \in Holders : streamId'[d] = streamId[d] /\ streamId[d] # n
    BY <1>1, <2>1 DEF SctpInv, Marked, Holders
  <2>3. used' = {streamId'[d] : d \in Holders'}
    BY SMTT(30), <1>1, <2>1, <2>2 DEF SctpInv, Marked
  <2>4. ASSUME NEW d \in Holders', NEW e \in Holders', streamId'[d] = streamId'[e]
        PROVE  d = e
    BY ZenonT(30), <1>1, <2>1, <2>2, <2>4 DEF SctpInv, Marked
  <2> QED
    BY <2>3, <2>4 DEF Marked
<1>5. \* nothing is on its way for c
      /\ c \notin live
      /\ \A i \in DOMAIN sctpOut : sctpOut[i].of # c
      /\ \A i \in DOMAIN sctpIn : sctpIn[i].of # c
      /\ \A i \in DOMAIN sctpMicro : sctpMicro[i].of # c
      /\ \A i \in DOMAIN sctpImmediates : sctpImmediates[i].of # c
  <2>1. \A i \in DOMAIN sctpIn : Answer(sctpIn[i]) \/ sctpIn[i].op = "dataproducerclose"
    BY Zenon, SctpMessages DEF SctpInv
  <2> QED
    BY Zenon, <2>1 DEF SctpInv, Answered, Dropped, Begun
<1> HIDE DEF k
<1>6. Asked'
  BY SMTT(30), <1>1, <1>2, <1>5 DEF SctpInv, SctpTyped, Asked
<1>7. Answered'
  BY SMTT(30), <1>1, <1>5 DEF SctpInv, SctpTyped, Answered
<1>8. Dropped' /\ Begun'
  BY <1>1, <1>2, <1>5 DEF SctpInv, SctpTyped, Dropped, Begun
<1>9. Behind'
  <2> SUFFICES ASSUME NEW d \in live, status'[d] = "closed"
               PROVE  CloseAhead(d)'
    BY SMTT(30) DEF Behind
  <2>1. d \in DataConsumers /\ d # c /\ status[d] = "closed" /\ streamId'[d] = streamId[d]
    BY SMTT(30), <1>1 DEF SctpInv, SctpTyped
  <2>2. PICK i \in DOMAIN sctpOut : sctpOut[i] = [op |-> "close", of |-> d]
    BY Zenon, <2>1 DEF SctpInv, Behind, CloseAhead
  <2>3. i \in DOMAIN sctpOut' /\ i < k /\ sctpOut'[i] = [op |-> "close", of |-> d]
    BY SMTT(30), <1>2, <2>2
  <2>4. ASSUME NEW j \in DOMAIN sctpOut, sctpOut'[j].op = "consume",
               streamId'[sctpOut'[j].of] = streamId'[d]
        PROVE  \E h \in DOMAIN sctpOut' : h < j /\ sctpOut'[h] = [op |-> "close", of |-> d]
    <3>1. sctpOut'[j] = sctpOut[j] /\ sctpOut[j].of \in DataConsumers \ {c}
      BY Zenon, <1>2, <1>5, SctpMessages DEF SctpInv
    <3>2. streamId[sctpOut[j].of] = streamId[d]
      BY <1>1, <2>1, <2>4, <3>1
    <3>3. PICK h \in DOMAIN sctpOut : h < j /\ sctpOut[h] = [op |-> "close", of |-> d]
      <4>1. sctpOut[j].op = "consume"
        BY SMTT(30), <2>4, <3>1
      <4> QED
        BY <2>1, <3>2, <4>1, ZenonT(30) DEF SctpInv, Behind, CloseAhead
    <3> QED
      BY SMTT(30), <1>2, <3>3
  <2>5. ASSUME NEW j \in DOMAIN sctpOut', sctpOut'[j].op = "consume",
               streamId'[sctpOut'[j].of] = streamId'[d]
        PROVE  \E h \in DOMAIN sctpOut' : h < j /\ sctpOut'[h] = [op |-> "close", of |-> d]
    <3>1. CASE j \in DOMAIN sctpOut
      BY <2>4, <2>5, <3>1, Zenon
    <3>2. CASE j = k
      BY <2>3, <3>2, Zenon
    <3> QED
      BY <1>2, <3>1, <3>2
  <2> QED
    BY <2>3, <2>5, ZenonT(30) DEF CloseAhead
<1>10. LiveApart'
  BY <1>1, <1>5 DEF SctpInv, SctpTyped, LiveApart
<1> QED
  BY SMTT(30), <1>3, <1>4, <1>6, <1>7, <1>8, <1>9, <1>10 DEF SctpInv

\* The mark of a DataConsumer that is closed is cleared.
LEMMA MarkCleared ==
  ASSUME SctpInv, NEW c \in DataConsumers, status[c] = "open",
         status' = [status EXCEPT ![c] = "closed"],
         used' = used \ {streamId[c]}, UNCHANGED streamId
  PROVE  /\ Marked' /\ status'[c] = "closed"
         /\ \A d \in DataConsumers : d # c => status'[d] = status[d]
<1>1. /\ \A d \in DataConsumers : d # c => status'[d] = status[d]
      /\ status'[c] = "closed"
  BY DEF SctpInv, SctpTyped
<1>2. Holders' = Holders \ {c} /\ c \in Holders
  BY <1>1 DEF Holders
<1>3. \A d, e \in Holders : streamId[d] = streamId[e] => d = e
  BY DEF SctpInv, Marked
<1>4. used' = {streamId[d] : d \in Holders \ {c}}
  BY <1>2, <1>3 DEF SctpInv, Marked
<1> QED
  BY <1>1, <1>2, <1>3, <1>4 DEF Marked

LEMMA CloseDataConsumerSound ==
  ASSUME SctpInv, NEW c \in DataConsumers, Sctp!CloseDataConsumer(c)
  PROVE  SctpInv'
<1> USE DEF Sctp!CloseDataConsumer
<1> DEFINE k == Len(sctpOut) + 1
<1>1. /\ \A d \in DataConsumers : d # c => status'[d] = status[d]
      /\ status[c] = "open" /\ status'[c] = "closed" /\ Marked'
  BY MarkCleared, ZenonT(60)
<1>2. /\ k \in Nat /\ DOMAIN sctpOut = 1..(k - 1) /\ DOMAIN sctpOut' = 1..k
      /\ \A i \in 1..(k - 1) : sctpOut'[i] = sctpOut[i]
      /\ sctpOut'[k] = [op |-> "close", of |-> c]
      /\ sctpOut' \in Seq([op : {"consume", "close"}, of : DataConsumers])
  BY Longer, SMTT(30) DEF SctpInv, SctpTyped
<1>3. SctpTyped'
  BY Zenon, <1>2 DEF SctpInv, SctpTyped
<1> HIDE DEF k
<1>4. \* c is neither asked for nor answered
      /\ \A i \in DOMAIN sctpOut : sctpOut[i].op = "consume" => sctpOut[i].of # c
      /\ \A i \in DOMAIN sctpIn : Answer(sctpIn[i]) => sctpIn[i].of # c
      /\ \A i \in DOMAIN sctpMicro : sctpMicro[i].of # c
  BY Zenon, <1>1 DEF SctpInv, Asked, Answered
<1>5. Asked'
  BY SMTT(30), <1>1, <1>2, <1>4, SctpMessages DEF SctpInv, Asked
<1>6. Answered'
  BY SMTT(60), <1>1, <1>4, SctpMessages DEF SctpInv, Answered
<1>7. Dropped' /\ Begun'
  BY <1>1, <1>2, SctpMessages DEF SctpInv, SctpTyped, Dropped, Begun
<1>8. Behind'
  <2> SUFFICES ASSUME NEW d \in live, status'[d] = "closed"
               PROVE  CloseAhead(d)'
    BY DEF Behind
  <2>1. CASE d = c
    \* those that are asked for are holders, with streams of their own
    <3>1. \A j \in DOMAIN sctpOut : sctpOut[j].op = "consume" =>
            streamId[sctpOut[j].of] # streamId[c]
      BY SMTT(30), <1>1, <1>4, SctpMessages DEF SctpInv, Marked, Holders, Asked
    <3>2. \A j \in DOMAIN sctpOut' : sctpOut'[j].op = "consume" =>
            streamId[sctpOut'[j].of] # streamId[c]
      BY SMTT(60), <1>2, <3>1
    <3> QED
      BY SMTT(30), <1>2, <2>1, <3>2 DEF CloseAhead
  <2>2. CASE d # c
    <3>1. d \in DataConsumers /\ status[d] = "closed"
      BY Zenon, <1>1, <2>2 DEF SctpInv, SctpTyped
    <3>2. \E i \in DOMAIN sctpOut' : sctpOut'[i] = [op |-> "close", of |-> d]
      BY <1>2, <3>1 DEF SctpInv, Behind, CloseAhead
    <3>3. ASSUME NEW j \in DOMAIN sctpOut', sctpOut'[j].op = "consume",
                 streamId[sctpOut'[j].of] = streamId[d]
          PROVE  \E h \in DOMAIN sctpOut' : h < j /\ sctpOut'[h] = [op |-> "close", of |-> d]
      <4>1. j \in DOMAIN sctpOut /\ sctpOut'[j] = sctpOut[j]
        BY SMTT(30), <1>2, <3>3
      <4>2. sctpOut[j].op = "consume" /\ streamId[sctpOut[j].of] = streamId[d]
        BY <3>3, <4>1
      <4>3. PICK h \in DOMAIN sctpOut : h < j /\ sctpOut[h] = [op |-> "close", of |-> d]
        BY <3>1, <4>1, <4>2, Zenon DEF SctpInv, Behind, CloseAhead
      <4> QED
        BY SMTT(30), <1>2, <4>3
    <3> QED
      BY <3>2, <3>3 DEF CloseAhead
  <2> QED
    BY <2>1, <2>2
<1>9. LiveApart'
  BY DEF SctpInv, LiveApart
<1> QED
  BY <1>1, <1>3, <1>5, <1>6, <1>7, <1>8, <1>9 DEF SctpInv

\* An answer is read.
LEMMA ReadAnswer ==
  ASSUME SctpInv, sctpIn # <<>>, Answer(sctpIn[1]), SctpTyped',
         sctpMicro' = Append(sctpMicro, sctpIn[1]), sctpIn' = Tail(sctpIn),
         UNCHANGED <<status, streamId, used, next, sctpOut, live, sctpImmediates>>
  PROVE  SctpInv'
<1> DEFINE k == Len(sctpMicro) + 1
<1>1. /\ Len(sctpIn) \in Nat \ {0} /\ DOMAIN sctpIn = 1..Len(sctpIn) /\ 1 \in DOMAIN sctpIn
      /\ DOMAIN sctpIn' = 1..(Len(sctpIn) - 1)
      /\ \A i \in 1..(Len(sctpIn) - 1) : sctpIn'[i] = sctpIn[i + 1]
  BY Shorter, SMT DEF SctpInv, SctpTyped
<1>2. sctpIn[1] \in [op : {"accepted", "rejected"}, of : DataConsumers]
  <2>1. sctpIn[1] \in [op : {"accepted", "rejected", "dataproducerclose"}, of : DataConsumers]
    BY <1>1, Member, Zenon DEF SctpInv, SctpTyped
  <2> QED
    BY <2>1 DEF Answer
<1>3. /\ k \in Nat /\ DOMAIN sctpMicro = 1..(k - 1) /\ DOMAIN sctpMicro' = 1..k
      /\ \A i \in 1..(k - 1) : sctpMicro'[i] = sctpMicro[i]
      /\ sctpMicro'[k] = sctpIn[1]
  BY <1>2, Longer, SMTT(30) DEF SctpInv, SctpTyped
<1> HIDE DEF k
<1>4. Marked' /\ Begun' /\ Behind' /\ LiveApart'
  BY SMTT(30) DEF SctpInv, Marked, Holders, Begun, Behind, CloseAhead,
     LiveApart
<1>5. Asked'
  BY SMTT(30), <1>1, <1>3 DEF SctpInv, Asked
<1>6. Answered'
  BY <1>1, <1>3 DEF SctpInv, Answered
<1>7. Dropped'
  BY <1>1 DEF SctpInv, Dropped
<1> QED
  BY SMTT(30), <1>4, <1>5, <1>6, <1>7 DEF SctpInv

\* A notification is read.
LEMMA ReadNotification ==
  ASSUME SctpInv, sctpIn # <<>>, sctpIn[1].op = "dataproducerclose", SctpTyped',
         sctpImmediates' = Append(sctpImmediates, sctpIn[1]), sctpIn' = Tail(sctpIn),
         UNCHANGED <<status, streamId, used, next, sctpOut, live, sctpMicro>>
  PROVE  SctpInv'
<1> DEFINE k == Len(sctpImmediates) + 1
<1>1. /\ Len(sctpIn) \in Nat \ {0} /\ DOMAIN sctpIn = 1..Len(sctpIn) /\ 1 \in DOMAIN sctpIn
      /\ DOMAIN sctpIn' = 1..(Len(sctpIn) - 1)
      /\ \A i \in 1..(Len(sctpIn) - 1) : sctpIn'[i] = sctpIn[i + 1]
  BY Shorter, SMT DEF SctpInv, SctpTyped
<1>2. sctpIn[1] \in [op : {"dataproducerclose"}, of : DataConsumers]
  <2>1. sctpIn[1] \in [op : {"accepted", "rejected", "dataproducerclose"}, of : DataConsumers]
    BY <1>1, Member, Zenon DEF SctpInv, SctpTyped
  <2> QED
    BY <2>1
<1>3. /\ k \in Nat /\ DOMAIN sctpImmediates = 1..(k - 1) /\ DOMAIN sctpImmediates' = 1..k
      /\ \A i \in 1..(k - 1) : sctpImmediates'[i] = sctpImmediates[i]
      /\ sctpImmediates'[k] = sctpIn[1]
  BY <1>2, Longer, SMTT(30) DEF SctpInv, SctpTyped
<1> HIDE DEF k
<1>4. Marked' /\ Begun' /\ Behind' /\ LiveApart'
  BY SMTT(30) DEF SctpInv, Marked, Holders, Begun, Behind, CloseAhead,
     LiveApart
<1>5. Asked'
  BY SMTT(30), <1>1, <1>3 DEF SctpInv, Asked
<1>6. Answered'
  BY SMTT(30), <1>1 DEF SctpInv, Answered
<1>7. Dropped'
  BY SMTT(30), <1>1, <1>3 DEF SctpInv, Dropped
<1> QED
  BY SMTT(30), <1>4, <1>5, <1>6, <1>7 DEF SctpInv

LEMMA SctpReadSound ==
  ASSUME SctpInv, Sctp!Read
  PROVE  SctpInv'
<1>1. sctpIn # <<>> /\ sctpLeft' \in 0..(Len(sctpIn) - 1)
  BY DEF SctpInv, SctpTyped, Sctp!Read, Sctp!NextCallback
<1>2. /\ Tail(sctpIn) \in Seq([op : {"accepted", "rejected", "dataproducerclose"},
                               of : DataConsumers])
      /\ Len(Tail(sctpIn)) = Len(sctpIn) - 1 /\ Head(sctpIn) = sctpIn[1] /\ 1 \in DOMAIN sctpIn
      /\ sctpIn[1] \in [op : {"accepted", "rejected", "dataproducerclose"}, of : DataConsumers]
  BY <1>1, Shorter, Zenon DEF SctpInv, SctpTyped
<1>3. CASE sctpIn[1].op = "dataproducerclose"
  <2>1. /\ sctpImmediates' = Append(sctpImmediates, sctpIn[1]) /\ sctpIn' = Tail(sctpIn)
        /\ UNCHANGED <<status, streamId, used, next, sctpOut, live, sctpMicro>>
    BY <1>2, <1>3, ZenonT(30) DEF Sctp!Read
  <2>2. sctpImmediates' \in Seq([op : {"dataproducerclose"}, of : DataConsumers])
    BY <1>2, <1>3, <2>1 DEF SctpInv, SctpTyped
  <2>3. SctpTyped'
    BY <1>1, <1>2, <2>1, <2>2 DEF SctpInv, SctpTyped
  <2> QED
    BY <1>1, <1>3, <2>1, <2>3, ReadNotification, Zenon
<1>4. CASE Answer(sctpIn[1])
  <2>0. sctpIn[1].op # "dataproducerclose"
    BY <1>4 DEF Answer
  <2>1. /\ sctpMicro' = Append(sctpMicro, sctpIn[1]) /\ sctpIn' = Tail(sctpIn)
        /\ UNCHANGED <<status, streamId, used, next, sctpOut, live, sctpImmediates>>
    BY <1>2, <2>0, Zenon DEF Sctp!Read
  <2>2. sctpMicro' \in Seq([op : {"accepted", "rejected"}, of : DataConsumers])
    BY <1>2, <1>4, <2>1 DEF SctpInv, SctpTyped, Answer
  <2>3. SctpTyped'
    BY <1>1, <1>2, <2>1, <2>2 DEF SctpInv, SctpTyped
  <2> QED
    BY <1>1, <1>4, <2>1, <2>3, ReadAnswer, Zenon
<1> QED
  BY <1>2, <1>3, <1>4, SctpMessages DEF SctpInv

\* consumeData() returns or throws.
LEMMA SctpContinueSound ==
  ASSUME SctpInv, Sctp!Continue
  PROVE  SctpInv'
<1> DEFINE c == sctpMicro[1].of
<1>1. /\ Len(sctpMicro) \in Nat \ {0} /\ DOMAIN sctpMicro = 1..Len(sctpMicro)
      /\ 1 \in DOMAIN sctpMicro /\ Head(sctpMicro) = sctpMicro[1]
      /\ sctpMicro' \in Seq([op : {"accepted", "rejected"}, of : DataConsumers])
      /\ DOMAIN sctpMicro' = 1..(Len(sctpMicro) - 1)
      /\ \A i \in 1..(Len(sctpMicro) - 1) : sctpMicro'[i] = sctpMicro[i + 1]
  BY Shorter, SMTT(30) DEF SctpInv, SctpTyped, Sctp!Continue
<1>2. c \in DataConsumers /\ status[c] = "consuming"
  BY <1>1, SctpMessages DEF SctpInv, Answered
<1>3. PICK s \in {"open", "rejected"} : status' = [status EXCEPT ![c] = s]
  BY <1>1, Zenon DEF Sctp!Continue
<1>4. UNCHANGED <<streamId, used, next, sctpOut, live, sctpIn, sctpLeft, sctpImmediates>>
  BY DEF Sctp!Continue
<1> HIDE DEF c
<1>5. status'[c] = s /\ \A d \in DataConsumers : d # c => status'[d] = status[d]
  BY <1>2, <1>3 DEF SctpInv, SctpTyped
<1>6. SctpTyped'
  BY <1>1, <1>3, <1>4, Zenon DEF SctpInv, SctpTyped
<1>7. Holders' = Holders
  BY <1>2, <1>5 DEF Holders
<1>8. Marked'
  BY Zenon, <1>4, <1>7 DEF SctpInv, Marked
<1>9. \* this was the only answer for c
      /\ \A i \in DOMAIN sctpMicro : i # 1 => sctpMicro[i].of # c
      /\ \A i \in DOMAIN sctpIn : Answer(sctpIn[i]) => sctpIn[i].of # c
      /\ \A i \in DOMAIN sctpOut : sctpOut[i].op = "consume" => sctpOut[i].of # c
  BY <1>1 DEF SctpInv, Answered, Asked, c
<1>10. \A i \in DOMAIN sctpMicro' : i + 1 \in DOMAIN sctpMicro /\ i + 1 # 1
  BY SMTT(30), <1>1
<1>11. Asked'
  BY <1>1, <1>4, <1>5, <1>9, <1>10, SctpMessages, SMTT(30) DEF SctpInv, Asked
<1>12. Answered'
  BY <1>1, <1>4, <1>5, <1>9, <1>10, SctpMessages, SMTT(30) DEF SctpInv,
     Answered
<1>13. Dropped' /\ Begun'
  BY <1>4, <1>5, SctpMessages DEF SctpInv, SctpTyped, Dropped, Begun
<1>14. Behind' /\ LiveApart'
  BY <1>4, <1>5, ZenonT(30) DEF SctpInv, SctpTyped, Behind, CloseAhead,
     LiveApart
<1> QED
  BY SMTT(30), <1>6, <1>8, <1>11, <1>12, <1>13, <1>14 DEF SctpInv

LEMMA OnDataProducerCloseSound ==
  ASSUME SctpInv, Sctp!OnDataProducerClose
  PROVE  SctpInv'
<1> DEFINE c == sctpImmediates[1].of
<1>1. /\ Len(sctpImmediates) \in Nat \ {0} /\ DOMAIN sctpImmediates = 1..Len(sctpImmediates)
      /\ 1 \in DOMAIN sctpImmediates /\ Head(sctpImmediates) = sctpImmediates[1]
      /\ sctpImmediates' \in Seq([op : {"dataproducerclose"}, of : DataConsumers])
      /\ DOMAIN sctpImmediates' = 1..(Len(sctpImmediates) - 1)
      /\ \A i \in 1..(Len(sctpImmediates) - 1) : sctpImmediates'[i] = sctpImmediates[i + 1]
  BY Shorter, Zenon DEF SctpInv, SctpTyped, Sctp!OnDataProducerClose
<1>2. c \in DataConsumers /\ c \notin live
  BY <1>1, SctpMessages DEF SctpInv, Dropped
<1>3. \/ /\ status[c] = "open" /\ status' = [status EXCEPT ![c] = "closed"]
         /\ used' = used \ {streamId[c]}
      \/ UNCHANGED <<status, used>>
  BY <1>1 DEF Sctp!OnDataProducerClose
<1>4. UNCHANGED <<streamId, next, sctpOut, live, sctpIn, sctpLeft, sctpMicro>>
  BY DEF Sctp!OnDataProducerClose
<1> HIDE DEF c
<1>5. SctpTyped'
  <2>1. status' \in [DataConsumers -> {"none", "full", "consuming", "open", "rejected", "closed"}]
    BY Zenon, <1>3 DEF SctpInv, SctpTyped
  <2>2. /\ streamId' = streamId /\ next' = next /\ sctpOut' = sctpOut /\ live' = live
        /\ sctpIn' = sctpIn /\ sctpLeft' = sctpLeft /\ sctpMicro' = sctpMicro
    BY <1>4
  <2> QED
    BY <1>1, <2>1, <2>2, Zenon DEF SctpInv, SctpTyped, Sctp!StreamIds
<1>6. /\ Marked'
      /\ \A d \in DataConsumers :
           \/ status'[d] = status[d]
           \/ d = c /\ status[d] = "open" /\ status'[d] = "closed"
  <2>1. CASE UNCHANGED <<status, used>>
    <3>1. Holders' = Holders /\ status' = status /\ used' = used /\ streamId' = streamId
      BY <1>4, <2>1 DEF Holders
    <3> QED
      BY <3>1, Zenon DEF SctpInv, Marked
  <2>2. CASE status[c] = "open" /\ status' = [status EXCEPT ![c] = "closed"]
             /\ used' = used \ {streamId[c]}
    <3>1. /\ Marked' /\ status'[c] = "closed"
          /\ \A d \in DataConsumers : d # c => status'[d] = status[d]
      <4>1. streamId' = streamId
        BY <1>4
      <4> QED
        BY <1>2, <2>2, <4>1, MarkCleared, Zenon
    <3> QED
      BY <2>2, <3>1, Zenon
  <2> QED
    BY <1>3, <2>1, <2>2
<1>7. /\ \A d \in DataConsumers : status[d] = "consuming" => status'[d] = "consuming"
      /\ \A i \in DOMAIN sctpImmediates' :
           i + 1 \in DOMAIN sctpImmediates /\ sctpImmediates'[i] = sctpImmediates[i + 1]
  BY <1>1, <1>6
<1>8. Asked' /\ Answered'
  <2>1. Asked'
    BY SMTT(60), <1>4, <1>7, SctpMessages DEF SctpInv, Asked
  <2>2. Answered'
    BY <1>4, <1>7, SctpMessages DEF SctpInv, Answered
  <2> QED
    BY Zenon, <2>1, <2>2
<1>9. Dropped' /\ Begun'
  <2>1. \A d \in DataConsumers : status[d] \notin {"none", "full"} =>
          status'[d] \notin {"none", "full"}
    BY <1>6, Zenon
  <2>2. Dropped'
    BY <1>4, <1>7, <2>1, SctpMessages DEF SctpInv, Dropped
  <2>3. Begun'
    BY Zenon, <1>4, <2>1, SctpMessages DEF SctpInv, SctpTyped, Begun
  <2> QED
    BY <2>2, <2>3
<1>10. Behind' /\ LiveApart'
  BY SMTT(30), <1>2, <1>4, <1>6 DEF SctpInv, SctpTyped, Behind, CloseAhead,
     LiveApart
<1> QED
  BY <1>5, <1>6, <1>8, <1>9, <1>10 DEF SctpInv

LEMMA WorkerDropsSound ==
  ASSUME SctpInv, NEW c \in DataConsumers, Sctp!WorkerDrops(c)
  PROVE  SctpInv'
<1> USE DEF Sctp!WorkerDrops
<1> DEFINE k == Len(sctpIn) + 1
<1>1. /\ k \in Nat /\ DOMAIN sctpIn = 1..(k - 1) /\ DOMAIN sctpIn' = 1..k
      /\ \A i \in 1..(k - 1) : sctpIn'[i] = sctpIn[i]
      /\ sctpIn'[k] = [op |-> "dataproducerclose", of |-> c]
      /\ sctpIn' \in Seq([op : {"accepted", "rejected", "dataproducerclose"}, of : DataConsumers])
      /\ Len(sctpIn') = k
  BY Longer, SMTT(30) DEF SctpInv, SctpTyped
<1>2. SctpTyped'
  BY SMTT(30), <1>1 DEF SctpInv, SctpTyped
<1> HIDE DEF k
<1>3. ~Answer(sctpIn'[k])
  BY SMTT(30), <1>1 DEF Answer
<1>4. Marked' /\ Begun' /\ Behind' /\ LiveApart'
  BY SMTT(30) DEF SctpInv, Marked, Holders, Begun, Behind, CloseAhead,
     LiveApart
<1>5. Asked'
  BY SMTT(60), <1>1 DEF SctpInv, Asked
<1>6. Answered'
  BY <1>1, <1>3, SMTT(30) DEF SctpInv, Answered
<1>7. Dropped'
  BY <1>1, SMTT(30) DEF SctpInv, Dropped, Begun
<1> QED
  BY Zenon, <1>2, <1>4, <1>5, <1>6, <1>7 DEF SctpInv

\* The first request, which is not the one that closes d, is taken.
LEMMA BehindMovesUp ==
  ASSUME SctpInv, sctpOut # <<>>, sctpOut' = Tail(sctpOut), UNCHANGED streamId,
         NEW d \in live, status[d] = "closed", sctpOut[1] # [op |-> "close", of |-> d]
  PROVE  CloseAhead(d)'
<1>1. /\ Len(sctpOut) \in Nat \ {0} /\ DOMAIN sctpOut = 1..Len(sctpOut) /\ 1 \in DOMAIN sctpOut
      /\ DOMAIN sctpOut' = 1..(Len(sctpOut) - 1)
      /\ \A i \in 1..(Len(sctpOut) - 1) : sctpOut'[i] = sctpOut[i + 1]
  BY Shorter, Zenon DEF SctpInv, SctpTyped
<1>2. \A i \in DOMAIN sctpOut : sctpOut[i] = [op |-> "close", of |-> d] =>
        i - 1 \in DOMAIN sctpOut' /\ sctpOut'[i - 1] = [op |-> "close", of |-> d]
  BY <1>1
<1>3. PICK i \in DOMAIN sctpOut : sctpOut[i] = [op |-> "close", of |-> d]
  BY DEF SctpInv, Behind, CloseAhead
<1>4. ASSUME NEW j \in DOMAIN sctpOut', sctpOut'[j].op = "consume",
             streamId[sctpOut'[j].of] = streamId[d]
      PROVE  \E h \in DOMAIN sctpOut' : h < j /\ sctpOut'[h] = [op |-> "close", of |-> d]
  <2>1. j + 1 \in DOMAIN sctpOut /\ sctpOut'[j] = sctpOut[j + 1]
    BY <1>1
  <2>2. sctpOut[j + 1].op = "consume" /\ streamId[sctpOut[j + 1].of] = streamId[d]
    BY <1>4, <2>1
  <2>3. PICK h \in DOMAIN sctpOut : h < j + 1 /\ sctpOut[h] = [op |-> "close", of |-> d]
    BY <2>1, <2>2, Zenon DEF SctpInv, Behind, CloseAhead
  <2>4. h - 1 \in DOMAIN sctpOut' /\ sctpOut'[h - 1] = [op |-> "close", of |-> d]
    BY <1>2, <2>3
  <2>5. h - 1 < j
    BY SMTT(30), <1>1, <2>3
  <2> QED
    BY <2>4, <2>5
<1> QED
  BY Zenon, <1>2, <1>3, <1>4 DEF CloseAhead

\* The worker closes c.
LEMMA WorkerCloses ==
  ASSUME SctpInv, sctpOut # <<>>, sctpOut[1].op = "close",
         sctpOut' = Tail(sctpOut), live' = live \ {sctpOut[1].of},
         UNCHANGED <<status, streamId, used, next, sctpIn, sctpLeft, sctpMicro, sctpImmediates>>
  PROVE  SctpInv'
<1>1. /\ Len(sctpOut) \in Nat \ {0} /\ DOMAIN sctpOut = 1..Len(sctpOut) /\ 1 \in DOMAIN sctpOut
      /\ sctpOut' \in Seq([op : {"consume", "close"}, of : DataConsumers])
      /\ DOMAIN sctpOut' = 1..(Len(sctpOut) - 1)
      /\ \A i \in 1..(Len(sctpOut) - 1) : sctpOut'[i] = sctpOut[i + 1]
  BY Shorter, SMTT(30) DEF SctpInv, SctpTyped
<1>2. SctpTyped'
  BY <1>1, Zenon DEF SctpInv, SctpTyped
<1>3. Marked' /\ Answered' /\ Dropped' /\ LiveApart'
  BY SMTT(30) DEF SctpInv, Marked, Holders, Answered, Dropped, LiveApart
<1>4. Asked' /\ Begun'
  BY SMTT(60), <1>1 DEF SctpInv, Asked, Begun
<1>5. Behind'
  <2>1. \A d \in live' : d \in live /\ sctpOut[1] # [op |-> "close", of |-> d]
    BY SMTT(30)
  <2> QED
    BY <2>1, BehindMovesUp, Zenon DEF Behind
<1> QED
  BY Zenon, <1>2, <1>3, <1>4, <1>5 DEF SctpInv

\* The worker answers a request to consume.
LEMMA WorkerAnswers ==
  ASSUME SctpInv, sctpOut # <<>>, sctpOut[1].op = "consume",
         NEW op \in {"accepted", "rejected"},
         sctpOut' = Tail(sctpOut), live' \in {live, live \cup {sctpOut[1].of}},
         sctpIn' = Append(sctpIn, [op |-> op, of |-> sctpOut[1].of]),
         UNCHANGED <<status, streamId, used, next, sctpLeft, sctpMicro, sctpImmediates>>
  PROVE  SctpInv'
<1> DEFINE c == sctpOut[1].of
           k == Len(sctpIn) + 1
<1>1. /\ Len(sctpOut) \in Nat \ {0} /\ DOMAIN sctpOut = 1..Len(sctpOut) /\ 1 \in DOMAIN sctpOut
      /\ sctpOut' \in Seq([op : {"consume", "close"}, of : DataConsumers])
      /\ DOMAIN sctpOut' = 1..(Len(sctpOut) - 1)
      /\ \A i \in 1..(Len(sctpOut) - 1) : sctpOut'[i] = sctpOut[i + 1]
  BY Shorter, Zenon DEF SctpInv, SctpTyped
<1>2. c \in DataConsumers
  BY Zenon, <1>1, SctpMessages DEF SctpInv
<1>3. /\ k \in Nat /\ DOMAIN sctpIn = 1..(k - 1) /\ DOMAIN sctpIn' = 1..k
      /\ \A i \in 1..(k - 1) : sctpIn'[i] = sctpIn[i]
      /\ sctpIn'[k] = [op |-> op, of |-> c]
      /\ sctpIn' \in Seq([op : {"accepted", "rejected", "dataproducerclose"}, of : DataConsumers])
      /\ Len(sctpIn') = k
  BY <1>2, Longer, SMTT(30) DEF SctpInv, SctpTyped
<1>4. /\ status[c] = "consuming" /\ c \notin live
      /\ \A j \in DOMAIN sctpOut : j # 1 => sctpOut[j].of # c
      /\ \A j \in DOMAIN sctpIn : sctpIn[j].of # c
      /\ \A j \in DOMAIN sctpMicro : sctpMicro[j].of # c
      /\ \A j \in DOMAIN sctpImmediates : sctpImmediates[j].of # c
  BY Zenon, <1>1 DEF SctpInv, Asked
<1>5. live' = live \/ live' = live \cup {c}
  OBVIOUS
<1>6. SctpTyped'
  BY <1>1, <1>2, <1>3, <1>5 DEF SctpInv, SctpTyped
<1> HIDE DEF c, k
<1>7. Marked'
  BY Zenon DEF SctpInv, Marked, Holders
<1>8. \A i \in DOMAIN sctpOut' :
        i + 1 \in DOMAIN sctpOut /\ i + 1 # 1 /\ sctpOut'[i] = sctpOut[i + 1]
  BY <1>1, SMTT(30)
<1>9. Asked' /\ Begun'
  <2>1. Asked'
    BY <1>1, <1>3, <1>4, <1>5, <1>8, SMTT(30) DEF SctpInv, Asked
  <2>2. Begun'
    BY <1>4, <1>5, <1>8, Zenon DEF SctpInv, Begun
  <2> QED
    BY <2>1, <2>2, Zenon
<1>10. Answered'
  BY <1>3, <1>4, SMTT(30) DEF SctpInv, Answered
<1>11. Dropped'
  BY <1>3, <1>4, <1>5 DEF SctpInv, Dropped
<1>12. Behind'
  <2>1. \A d \in live' : status[d] = "closed" => d \in live
    BY SMTT(30), <1>4, <1>5
  <2>2. \A d : sctpOut[1] # [op |-> "close", of |-> d]
    OBVIOUS
  <2> QED
    BY <2>1, <2>2, BehindMovesUp, Zenon DEF Behind
<1>13. LiveApart'
  \* those with the stream of c in the worker were closed before c was asked for
  <2>1. ASSUME NEW d \in live, streamId[d] = streamId[c]
        PROVE  FALSE
    <3>1. d \in DataConsumers /\ d # c /\ c \in Holders
      BY <1>2, <1>4, Zenon DEF SctpInv, SctpTyped, Holders
    <3>2. d \notin Holders
      BY Zenon, <2>1, <3>1 DEF SctpInv, Marked
    <3>3. status[d] = "closed"
      BY <3>1, <3>2, SMTT(30) DEF SctpInv, SctpTyped, Begun, Holders
    <3>4. PICK h \in DOMAIN sctpOut : h < 1
      BY <1>1, <2>1, <3>3, Zenon DEF SctpInv, Behind, CloseAhead, c
    <3> QED
      BY SMTT(30), <1>1, <3>4
  <2> QED
    BY SMTT(30), <1>5, <2>1 DEF SctpInv, LiveApart
<1> QED
  BY Zenon, <1>6, <1>7, <1>9, <1>10, <1>11, <1>12, <1>13 DEF SctpInv

LEMMA SctpWorkerSound ==
  ASSUME SctpInv, Sctp!WorkerHandles
  PROVE  SctpInv'
<1>1. sctpOut # <<>> /\ sctpOut' = Tail(sctpOut) /\ Head(sctpOut) = sctpOut[1]
  BY SMTT(30) DEF SctpInv, SctpTyped, Sctp!WorkerHandles
<1>2. UNCHANGED <<status, streamId, used, next, sctpLeft, sctpMicro, sctpImmediates>>
  BY DEF Sctp!WorkerHandles
<1>3. CASE sctpOut[1].op = "close"
  BY Zenon, <1>1, <1>2, <1>3, WorkerCloses DEF Sctp!WorkerHandles
<1>4. CASE sctpOut[1].op = "consume"
  <2>1. \E op \in {"accepted", "rejected"} :
          /\ sctpIn' = Append(sctpIn, [op |-> op, of |-> sctpOut[1].of])
          /\ live' \in {live, live \cup {sctpOut[1].of}}
    BY <1>1, <1>4 DEF Sctp!WorkerHandles
  <2> QED
    BY <1>1, <1>2, <1>4, <2>1, WorkerAnswers, Zenon
<1> QED
  BY Zenon, <1>1, <1>3, <1>4 DEF Sctp!WorkerHandles

-----------------------------------------------------------------------------
(* Pausing.                                                                *)

Flags ==
  [producer : BOOLEAN, consumer : BOOLEAN, rtpObserver : BOOLEAN,
   producerPaused : BOOLEAN, exists : BOOLEAN]

PauseRequest  == [op : {"pause", "resume", "consume"}, on : Things, was : BOOLEAN]
Accepted ==
  [op : {"pause", "resume", "consume"}, on : Things, was : BOOLEAN, producer : BOOLEAN]
PauseResponse == Accepted \cup {Refusal}
Note == [op : {"producerpause", "producerresume"}]

OfConsumer(m) == m.op = "consume" => m.on = "consumer"

PauseTyped ==
  /\ lib \in Flags /\ process \in Flags
  /\ observed \in [Things -> {"pause", "resume"}]
  /\ toWorker \in Seq(PauseRequest) /\ toNode \in Seq(PauseResponse \cup Note)
  /\ micro \in Seq(PauseResponse) /\ immediates \in Seq(Note)
  /\ left \in 0..Len(toNode)
  /\ \A i \in DOMAIN toWorker : OfConsumer(toWorker[i])
  /\ \A i \in DOMAIN toNode : OfConsumer(toNode[i])
  /\ \A i \in DOMAIN micro : OfConsumer(micro[i])

\* What a message is about: one of Things, "note", or "none" for a refusal.
On(m, x) == IF m.op \in {"producerpause", "producerresume"} THEN x = "note" ELSE m.on = x

NoneOn(s, x)    == \A i \in DOMAIN s : ~On(s[i], x)
LastOn(s, x, i) == i \in DOMAIN s /\ On(s[i], x) /\ \A j \in DOMAIN s : j > i => ~On(s[j], x)

\* The value of the flag after the message.
Sets(m) == IF m.op = "consume" THEN m.was ELSE m.op \in {"pause", "producerpause"}

\* The responses.
Latest ==
  \A x \in Things :
    /\ \A i \in DOMAIN toNode : LastOn(toNode, x, i) => Sets(toNode[i]) = process[x]
    /\ NoneOn(toNode, x) =>
         /\ \A i \in DOMAIN micro :
              LastOn(micro, x, i) => Sets(micro[i]) = process[x]
         /\ NoneOn(micro, x) => lib[x] = process[x]

\* The response that makes the Consumer is right, or a notification comes after it.
MadeRight(s, paused) ==
  \A i \in DOMAIN s : s[i].op = "consume" =>
    \/ s[i].producer = paused
    \/ \E j \in DOMAIN s : j > i /\ On(s[j], "note")

\* The notifications, and the response that makes the Consumer.
Told ==
  /\ MadeRight(toNode, process.producer)
  /\ \A i \in DOMAIN toNode :
       LastOn(toNode, "note", i) => Sets(toNode[i]) = process.producer
  /\ NoneOn(toNode, "note") =>
       /\ \A i \in DOMAIN immediates :
            LastOn(immediates, "note", i) =>
              Sets(immediates[i]) = process.producer
       /\ immediates = <<>> =>
            /\ \A i \in DOMAIN micro :
                 micro[i].op = "consume" => micro[i].producer = process.producer
            /\ lib.exists => lib.producerPaused = process.producer

\* The Consumer is made once, and told of nothing before it is in the worker process.
MadeOnce ==
  /\ lib.exists => process.exists
  /\ \A i \in DOMAIN toWorker : toWorker[i].op = "consume" =>
       /\ ~process.exists
       /\ \A j \in DOMAIN toWorker : toWorker[j].op = "consume" => j = i
  /\ \A i \in DOMAIN toNode : toNode[i].op = "consume" =>
       /\ process.exists /\ ~lib.exists
       /\ \A j \in DOMAIN toNode : toNode[j].op = "consume" => j = i
       /\ \A j \in DOMAIN micro : micro[j].op # "consume"
  /\ \A i \in DOMAIN micro : micro[i].op = "consume" =>
       /\ process.exists /\ ~lib.exists
       /\ \A j \in DOMAIN micro : micro[j].op = "consume" => j = i
  /\ process.exists =>
       \/ lib.exists
       \/ \E i \in DOMAIN toNode : toNode[i].op = "consume"
       \/ \E i \in DOMAIN micro : micro[i].op = "consume"
  /\ immediates # <<>> \/ ~NoneOn(toNode, "note") => process.exists

PauseInv == PauseTyped /\ Latest /\ Told /\ MadeOnce

\* As long as calls do not overlap, a call of the Consumer's is alone, and the last
\* event is right at every moment.
OfPause(m) == m.op \in {"pause", "resume"} /\ m.on = "consumer"
EventRight == observed["consumer"] = Event(WasPaused("consumer"))

EventInv ==
  ~overlapped =>
    /\ lib.exists => EventRight
    /\ \A i \in DOMAIN toWorker : OfPause(toWorker[i]) =>
         /\ Len(toWorker) = 1 /\ toNode = <<>> /\ micro = <<>> /\ immediates = <<>>
         /\ toWorker[i].was = WasPaused("consumer")
    /\ \A i \in DOMAIN toNode : OfPause(toNode[i]) =>
         /\ toWorker = <<>> /\ Len(toNode) = 1 /\ micro = <<>> /\ immediates = <<>>
         /\ toNode[i].was = WasPaused("consumer")
    /\ \A i \in DOMAIN micro : OfPause(micro[i]) =>
         /\ toWorker = <<>> /\ toNode = <<>> /\ Len(micro) = 1 /\ immediates = <<>>
         /\ micro[i].was = WasPaused("consumer")

\* The last message about x, when a message is added or taken.
LEMMA LastIsNew ==
  ASSUME NEW S, NEW s \in Seq(S), NEW e \in S, NEW x, On(e, x)
  PROVE  ~NoneOn(Append(s, e), x) /\ \A i : LastOn(Append(s, e), x, i) => Append(s, e)[i] = e
<1> DEFINE t == Append(s, e)
           n == Len(s)
<1>1. n \in Nat /\ DOMAIN t = 1..(n + 1) /\ t[n + 1] = e
  BY Longer, SMT
<1> HIDE DEF t, n
<1>2. ~NoneOn(t, x) /\ \A i : LastOn(t, x, i) => t[i] = e
  BY <1>1 DEF NoneOn, LastOn
<1> QED
  BY <1>2, Zenon DEF t

LEMMA LastIsOld ==
  ASSUME NEW S, NEW s \in Seq(S), NEW e \in S, NEW x, ~On(e, x)
  PROVE  /\ NoneOn(Append(s, e), x) <=> NoneOn(s, x)
         /\ \A i : LastOn(Append(s, e), x, i) => LastOn(s, x, i) /\ Append(s, e)[i] = s[i]
<1> DEFINE t == Append(s, e)
           n == Len(s)
<1>1. /\ n \in Nat /\ DOMAIN s = 1..n /\ DOMAIN t = 1..(n + 1)
      /\ \A i \in 1..n : t[i] = s[i]
      /\ t[n + 1] = e
  BY Longer, SMT
<1> HIDE DEF t, n
<1>2. NoneOn(t, x) <=> NoneOn(s, x)
  BY <1>1 DEF NoneOn
<1>3. ASSUME NEW i, LastOn(t, x, i)
      PROVE  LastOn(s, x, i) /\ t[i] = s[i]
  BY <1>1, <1>3 DEF LastOn
<1> QED
  BY <1>2, <1>3, Zenon DEF t

LEMMA LastShifted ==
  ASSUME NEW S, NEW s \in Seq(S), s # <<>>, NEW t, t = Tail(s), NEW x
  PROVE  /\ \A i : LastOn(t, x, i) =>
              i + 1 \in DOMAIN s /\ LastOn(s, x, i + 1) /\ t[i] = s[i + 1]
         /\ NoneOn(t, x) => IF On(s[1], x) THEN LastOn(s, x, 1) ELSE NoneOn(s, x)
         /\ NoneOn(s, x) => NoneOn(t, x)
<1> DEFINE n == Len(s)
<1>1. /\ n \in Nat \ {0} /\ DOMAIN s = 1..n /\ DOMAIN t = 1..(n - 1) /\ 1 \in DOMAIN s
      /\ \A i \in 1..(n - 1) : t[i] = s[i + 1]
  BY Shorter, SMT
<1> HIDE DEF n
<1>2. \A j \in DOMAIN s : j # 1 => (j - 1 \in DOMAIN t /\ s[j] = t[j - 1])
  BY <1>1
<1>3. ASSUME NEW i, LastOn(t, x, i)
      PROVE  i + 1 \in DOMAIN s /\ LastOn(s, x, i + 1) /\ t[i] = s[i + 1]
  <2>1. i \in 1..(n - 1) /\ On(t[i], x) /\ \A j \in DOMAIN t : j > i => ~On(t[j], x)
    BY <1>1, <1>3 DEF LastOn
  <2>2. i + 1 \in DOMAIN s /\ t[i] = s[i + 1]
    BY <1>1, <2>1
  <2>3. ASSUME NEW j \in DOMAIN s, j > i + 1
        PROVE  ~On(s[j], x)
    <3>1. j - 1 \in DOMAIN t /\ s[j] = t[j - 1] /\ j - 1 > i
      BY <1>1, <1>2, <2>1, <2>3
    <3> QED
      BY <2>1, <3>1, Zenon
  <2> QED
    BY <2>1, <2>2, <2>3, Zenon DEF LastOn
<1>4. ASSUME NoneOn(t, x)
      PROVE  IF On(s[1], x) THEN LastOn(s, x, 1) ELSE NoneOn(s, x)
  <2>1. ASSUME NEW j \in DOMAIN s, j # 1
        PROVE  ~On(s[j], x)
    BY <1>2, <1>4, <2>1, Zenon DEF NoneOn
  <2> QED
    BY <1>1, <2>1 DEF LastOn, NoneOn
<1>5. NoneOn(s, x) => NoneOn(t, x)
  BY <1>1 DEF NoneOn
<1> QED
  BY <1>3, <1>4, <1>5, Zenon

LEMMA PauseInitially == Init => PauseInv /\ EventInv
<1> SUFFICES ASSUME Init PROVE PauseInv /\ EventInv
  OBVIOUS
<1>1. PICK paused \in BOOLEAN :
        /\ lib = Fresh(paused) /\ process = Fresh(paused)
        /\ observed = [x \in Things |-> Event(x = "producer" /\ paused)]
        /\ toWorker = <<>> /\ toNode = <<>> /\ left = 0 /\ micro = <<>>
        /\ immediates = <<>>
  BY DEF Init, Things
<1>2. PauseTyped
  BY <1>1 DEF PauseTyped, Flags, Fresh, Event
<1>3. Latest /\ Told /\ MadeOnce
  BY <1>1 DEF Latest, Told, MadeRight, MadeOnce, NoneOn, LastOn, Fresh
<1>4. EventInv
  BY <1>1 DEF EventInv, Fresh
<1> QED
  BY <1>2, <1>3, <1>4 DEF PauseInv

LEMMA ThingsAre == Things = {"producer", "consumer", "rtpObserver"}
  BY DEF Things

LEMMA FlagsHave ==
  ASSUME NEW f \in Flags
  PROVE  /\ \A x \in Things : f[x] \in BOOLEAN
         /\ f.producerPaused \in BOOLEAN /\ f.exists \in BOOLEAN
  BY ThingsAre DEF Flags

LEMMA PauseMessages ==
  ASSUME PauseTyped
  PROVE  /\ \A i \in DOMAIN toWorker : toWorker[i] \in PauseRequest
         /\ \A i \in DOMAIN toNode : toNode[i] \in PauseResponse \cup Note
         /\ \A i \in DOMAIN micro : micro[i] \in PauseResponse
         /\ \A i \in DOMAIN immediates : immediates[i] \in Note
  BY Member, Zenon DEF PauseTyped

\* pause(), resume() and consume() write a request.
LEMMA PauseCallSound ==
  ASSUME PauseInv, NEW op \in {"pause", "resume", "consume"}, NEW x \in Things,
         NEW arg \in BOOLEAN, Call(op, x, arg),
         op = "consume" => /\ x = "consumer" /\ ~process.exists
                           /\ \A i \in DOMAIN toWorker : toWorker[i].op # "consume"
  PROVE  PauseInv'
<1> DEFINE m == [op |-> op, on |-> x, was |-> arg]
           k == Len(toWorker) + 1
<1>1. m \in PauseRequest /\ OfConsumer(m) /\ m.op = op
  BY Zenon DEF PauseRequest, OfConsumer
<1>2. toWorker' = Append(toWorker, m)
  BY Zenon DEF Call
<1>3. /\ k \in Nat /\ DOMAIN toWorker = 1..(k - 1) /\ DOMAIN toWorker' = 1..k
      /\ \A i \in 1..(k - 1) : toWorker'[i] = toWorker[i]
      /\ toWorker'[k] = m /\ toWorker' \in Seq(PauseRequest)
  <2> HIDE DEF m
  <2> QED
    BY <1>1, <1>2, Longer, SMT DEF PauseInv, PauseTyped
<1>4. /\ lib' = lib /\ observed' = observed /\ process' = process
      /\ toNode' = toNode /\ left' = left /\ micro' = micro
      /\ immediates' = immediates
  BY Zenon DEF Call
<1> HIDE DEF m, k
<1>5. PauseTyped'
  BY <1>1, <1>3, <1>4 DEF PauseInv, PauseTyped
<1>6. Latest' /\ Told'
  BY Zenon, <1>4 DEF PauseInv, Latest, Told
<1>7. MadeOnce'
  BY <1>1, <1>3, <1>4 DEF PauseInv, MadeOnce
<1> QED
  BY Zenon, <1>5, <1>6, <1>7 DEF PauseInv

LEMMA ApplicationSound ==
  ASSUME PauseInv,
         (\E x \in Things : Pause(x) \/ Resume(x)) \/ Consume
  PROVE  PauseInv'
<1>1. \A x \in Things : WasPaused(x) \in BOOLEAN
  BY FlagsHave DEF PauseInv, PauseTyped, WasPaused
<1>2. ASSUME NEW x \in Things, Pause(x) \/ Resume(x)
      PROVE  PauseInv'
  BY Zenon, <1>1, <1>2, PauseCallSound DEF Pause, Resume
<1>3. CASE Consume
  BY <1>3, PauseCallSound, ThingsAre DEF Consume
<1> QED
  BY <1>2, <1>3, Zenon

\* Which messages are about what.
LEMMA OnWhat ==
  /\ \A m \in Note : On(m, "note") /\ IsNote(m) /\ (\A x \in Things : ~On(m, x))
                     /\ m.op # "consume" /\ m.op \in {"producerpause", "producerresume"}
  /\ \A m \in PauseResponse : ~On(m, "note") /\ ~IsNote(m)
                              /\ (\A x : On(m, x) <=> m.on = x)
                              /\ m.op \in {"pause", "resume", "consume", "refused"}
  BY ThingsAre DEF On, Note, PauseResponse, Accepted, Refusal, IsNote

\* What reading a message does to the messages that are left.
LEMMA InShifts ==
  ASSUME PauseTyped, toNode # <<>>, toNode' = Tail(toNode)
  PROVE  /\ toNode[1] \in PauseResponse \cup Note /\ 1 \in DOMAIN toNode
         /\ toNode' \in Seq(PauseResponse \cup Note) /\ Len(toNode') = Len(toNode) - 1
         /\ \A i \in DOMAIN toNode' :
              i \in Nat \ {0} /\ i + 1 \in DOMAIN toNode /\ toNode'[i] = toNode[i + 1]
         /\ \A j \in DOMAIN toNode : j # 1 =>
              (j - 1 \in DOMAIN toNode' /\ toNode[j] = toNode'[j - 1])
         /\ DOMAIN toNode \subseteq Nat \ {0}
<1>1. /\ toNode' \in Seq(PauseResponse \cup Note) /\ Len(toNode) \in Nat \ {0}
      /\ toNode[1] \in PauseResponse \cup Note
      /\ DOMAIN toNode = 1..Len(toNode) /\ Len(toNode') = Len(toNode) - 1
      /\ DOMAIN toNode' = 1..(Len(toNode) - 1)
      /\ \A i \in 1..(Len(toNode) - 1) : toNode'[i] = toNode[i + 1]
  BY Shorter, SMT DEF PauseTyped
<1> QED
  BY <1>1

LEMMA RightShifts ==
  ASSUME PauseTyped, toNode # <<>>, toNode' = Tail(toNode), NEW paused,
         MadeRight(toNode, paused)
  PROVE  MadeRight(toNode', paused)
<1>1. /\ \A i \in DOMAIN toNode' :
           i \in Nat \ {0} /\ i + 1 \in DOMAIN toNode /\ toNode'[i] = toNode[i + 1]
      /\ \A j \in DOMAIN toNode : j # 1 =>
           (j - 1 \in DOMAIN toNode' /\ toNode[j] = toNode'[j - 1])
      /\ DOMAIN toNode \subseteq Nat \ {0}
  BY Zenon, InShifts
<1> SUFFICES ASSUME NEW i \in DOMAIN toNode', toNode'[i].op = "consume",
                    toNode'[i].producer # paused
             PROVE  \E j \in DOMAIN toNode' : j > i /\ On(toNode'[j], "note")
  BY Zenon DEF MadeRight
<1>2. i \in Nat \ {0} /\ i + 1 \in DOMAIN toNode /\ toNode'[i] = toNode[i + 1]
  BY Zenon, <1>1
<1>3. PICK j \in DOMAIN toNode : j > i + 1 /\ On(toNode[j], "note")
  BY Zenon, <1>2 DEF MadeRight
<1>4. j - 1 \in DOMAIN toNode' /\ toNode[j] = toNode'[j - 1] /\ j - 1 > i
  BY <1>1, <1>2, <1>3
<1> QED
  BY Zenon, <1>3, <1>4

LEMMA ReadNote ==
  ASSUME PauseInv, PauseTyped', toNode # <<>>, toNode[1] \in Note,
         toNode' = Tail(toNode), immediates' = Append(immediates, toNode[1]),
         UNCHANGED <<lib, observed, toWorker, process, micro>>
  PROVE  PauseInv'
<1> DEFINE e == toNode[1]
<1>1. /\ \A i \in DOMAIN toNode' :
           i \in Nat \ {0} /\ i + 1 \in DOMAIN toNode /\ toNode'[i] = toNode[i + 1]
      /\ \A j \in DOMAIN toNode : j # 1 =>
           (j - 1 \in DOMAIN toNode' /\ toNode[j] = toNode'[j - 1])
      /\ DOMAIN toNode \subseteq Nat \ {0} /\ 1 \in DOMAIN toNode
  BY Zenon, InShifts DEF PauseInv
<1>2. On(e, "note") /\ e.op # "consume" /\ \A x \in Things : ~On(e, x)
  BY OnWhat
<1>3. \A x : /\ \A i : LastOn(toNode', x, i) =>
                   i + 1 \in DOMAIN toNode /\ LastOn(toNode, x, i + 1)
                     /\ toNode'[i] = toNode[i + 1]
             /\ NoneOn(toNode', x) =>
                  IF On(e, x) THEN LastOn(toNode, x, 1) ELSE NoneOn(toNode, x)
  BY LastShifted, Zenon DEF PauseInv, PauseTyped
<1>4. /\ immediates' # <<>>
      /\ \A i : LastOn(immediates', "note", i) => immediates'[i] = e
  <2>1. \A i : LastOn(immediates', "note", i) => immediates'[i] = e
    <3>1. immediates \in Seq(Note) /\ e \in Note
      BY DEF PauseInv, PauseTyped
    <3>2. immediates' = Append(immediates, e)
      OBVIOUS
    <3> HIDE DEF e
    <3>3. \A i : LastOn(Append(immediates, e), "note", i) =>
                   Append(immediates, e)[i] = e
      BY <1>2, <3>1, LastIsNew, Zenon
    <3> QED
      BY <3>2, <3>3, Zenon
  <2>2. immediates' # <<>>
    BY SMTT(30) DEF PauseInv, PauseTyped
  <2> QED
    BY <2>1, <2>2, Zenon
<1>5. NoneOn(toNode', "note") => Sets(e) = process.producer
  BY <1>1, <1>2, <1>3 DEF PauseInv, Told
<1>6. MadeRight(toNode', process.producer)
  BY RightShifts DEF PauseInv, Told
<1> HIDE DEF e
<1>7. Latest'
  <2> SUFFICES ASSUME NEW x \in Things
               PROVE  /\ \A i \in DOMAIN toNode' :
                           LastOn(toNode', x, i) => Sets(toNode'[i]) = process[x]
                      /\ NoneOn(toNode', x) =>
                           /\ \A i \in DOMAIN micro :
                                LastOn(micro, x, i) => Sets(micro[i]) = process[x]
                           /\ NoneOn(micro, x) => lib[x] = process[x]
    BY DEF Latest
  <2>1. NoneOn(toNode', x) => NoneOn(toNode, x)
    BY <1>2, <1>3
  <2> QED
    BY <1>3, <2>1 DEF PauseInv, Latest
<1>8. Told'
  <2>1. \A i \in DOMAIN toNode' :
          LastOn(toNode', "note", i) => Sets(toNode'[i]) = process.producer
    BY <1>3 DEF PauseInv, Told
  <2> QED
    BY <1>4, <1>5, <1>6, <2>1 DEF Told
<1>9. MadeOnce'
  <2>1. process.exists
    BY Zenon, <1>1, <1>2 DEF PauseInv, MadeOnce, NoneOn, e
  <2>2. \A i \in DOMAIN toNode' : toNode'[i].op = "consume" =>
          /\ process.exists /\ ~lib.exists
          /\ \A j \in DOMAIN toNode' : toNode'[j].op = "consume" => j = i
          /\ \A j \in DOMAIN micro : micro[j].op # "consume"
    BY <1>1 DEF PauseInv, MadeOnce
  <2>3. \A i \in DOMAIN toNode : toNode[i].op = "consume" =>
          \E j \in DOMAIN toNode' : toNode'[j].op = "consume"
    BY <1>1, <1>2, Zenon DEF e
  <2> QED
    BY <2>1, <2>2, <2>3, Zenon DEF PauseInv, MadeOnce
<1> QED
  BY Zenon, <1>7, <1>8, <1>9 DEF PauseInv

LEMMA ReadResponse ==
  ASSUME PauseInv, PauseTyped', toNode # <<>>, toNode[1] \in PauseResponse,
         toNode' = Tail(toNode), micro' = Append(micro, toNode[1]),
         UNCHANGED <<lib, observed, toWorker, process, immediates>>
  PROVE  PauseInv'
<1> DEFINE e == toNode[1]
           k == Len(micro) + 1
<1>1. /\ \A i \in DOMAIN toNode' :
           i \in Nat \ {0} /\ i + 1 \in DOMAIN toNode /\ toNode'[i] = toNode[i + 1]
      /\ \A j \in DOMAIN toNode : j # 1 =>
           (j - 1 \in DOMAIN toNode' /\ toNode[j] = toNode'[j - 1])
      /\ DOMAIN toNode \subseteq Nat \ {0} /\ 1 \in DOMAIN toNode
  BY Zenon, InShifts DEF PauseInv
<1>2. ~On(e, "note")
  BY OnWhat
<1>3. \A x : /\ \A i : LastOn(toNode', x, i) =>
                   i + 1 \in DOMAIN toNode /\ LastOn(toNode, x, i + 1)
                     /\ toNode'[i] = toNode[i + 1]
             /\ NoneOn(toNode', x) =>
                  IF On(e, x) THEN LastOn(toNode, x, 1) ELSE NoneOn(toNode, x)
  BY LastShifted, Zenon DEF PauseInv, PauseTyped
<1>4. /\ k \in Nat /\ DOMAIN micro = 1..(k - 1) /\ DOMAIN micro' = 1..k
      /\ \A i \in 1..(k - 1) : micro'[i] = micro[i]
      /\ micro'[k] = e
  BY Longer, SMT DEF PauseInv, PauseTyped
<1>5. micro' = Append(micro, e) /\ e \in PauseResponse
      /\ micro \in Seq(PauseResponse)
  BY DEF PauseInv, PauseTyped
<1> HIDE DEF e, k
<1>6. ASSUME NEW x, On(e, x)
      PROVE  /\ ~NoneOn(micro', x)
             /\ \A i : LastOn(micro', x, i) => micro'[i] = e
  <2>1. /\ ~NoneOn(Append(micro, e), x)
        /\ \A i : LastOn(Append(micro, e), x, i) => Append(micro, e)[i] = e
    BY <1>5, <1>6, LastIsNew, Zenon
  <2> QED
    BY <1>5, <2>1, Zenon
<1>7. ASSUME NEW x, ~On(e, x)
      PROVE  /\ NoneOn(micro', x) <=> NoneOn(micro, x)
             /\ \A i : LastOn(micro', x, i) =>
                         LastOn(micro, x, i) /\ micro'[i] = micro[i]
  <2>1. /\ NoneOn(Append(micro, e), x) <=> NoneOn(micro, x)
        /\ \A i : LastOn(Append(micro, e), x, i) =>
                    LastOn(micro, x, i) /\ Append(micro, e)[i] = micro[i]
    BY <1>5, <1>7, LastIsOld, Zenon
  <2> QED
    BY <1>5, <2>1, Zenon
<1>8. Latest'
  <2> SUFFICES ASSUME NEW x \in Things
               PROVE  /\ \A i \in DOMAIN toNode' :
                           LastOn(toNode', x, i) => Sets(toNode'[i]) = process[x]
                      /\ NoneOn(toNode', x) =>
                           /\ \A i \in DOMAIN micro' :
                                LastOn(micro', x, i) =>
                                  Sets(micro'[i]) = process[x]
                           /\ NoneOn(micro', x) => lib[x] = process[x]
    BY Zenon DEF Latest
  <2>1. \A i \in DOMAIN toNode' :
          LastOn(toNode', x, i) => Sets(toNode'[i]) = process[x]
    BY <1>3 DEF PauseInv, Latest
  <2>2. CASE On(e, x)
    <3>1. NoneOn(toNode', x) => Sets(e) = process[x]
      BY Zenon, <1>1, <1>3, <2>2 DEF PauseInv, Latest, e
    <3> QED
      BY Zenon, <1>6, <2>1, <2>2, <3>1
  <2>3. CASE ~On(e, x)
    <3>1. NoneOn(toNode', x) => NoneOn(toNode, x)
      BY <1>3, <2>3
    <3>2. \A i : LastOn(micro, x, i) => i \in DOMAIN micro
      BY DEF LastOn
    <3> QED
      BY <1>7, <2>1, <2>3, <3>1, <3>2 DEF PauseInv, Latest
  <2> QED
    BY Zenon, <2>2, <2>3
<1>9. NoneOn(toNode', "note") <=> NoneOn(toNode, "note")
  <2>1. NoneOn(toNode, "note") => NoneOn(toNode', "note")
    BY LastShifted, Zenon DEF PauseInv, PauseTyped
  <2> QED
    BY <1>2, <1>3, <2>1
<1>10. Told'
  <2>1. \A i \in DOMAIN toNode' :
          LastOn(toNode', "note", i) => Sets(toNode'[i]) = process.producer
    BY <1>3 DEF PauseInv, Told
  <2>2. ASSUME NoneOn(toNode', "note")
        PROVE  \A i \in DOMAIN immediates :
                 LastOn(immediates, "note", i) =>
                   Sets(immediates[i]) = process.producer
    BY Zenon, <1>9, <2>2 DEF PauseInv, Told
  <2>3. ASSUME NoneOn(toNode', "note"), immediates = <<>>
        PROVE  /\ \A i \in DOMAIN micro' :
                    micro'[i].op = "consume" =>
                      micro'[i].producer = process.producer
               /\ lib.exists => lib.producerPaused = process.producer
    <3>1. /\ \A i \in DOMAIN micro :
               micro[i].op = "consume" => micro[i].producer = process.producer
          /\ lib.exists => lib.producerPaused = process.producer
      BY Zenon, <1>9, <2>3 DEF PauseInv, Told
    <3>2. e.op = "consume" => e.producer = process.producer
      BY Zenon, <1>1, <1>9, <2>3 DEF e, PauseInv, Told, MadeRight, NoneOn
    <3> QED
      BY <1>4, <3>1, <3>2
  <2>4. MadeRight(toNode', process.producer)
    BY Zenon, RightShifts DEF PauseInv, Told
  <2> QED
    BY Zenon, <2>1, <2>2, <2>3, <2>4 DEF Told
<1>11. MadeOnce'
  <2>1. CASE e.op = "consume"
    <3>1. /\ process.exists /\ ~lib.exists
          /\ \A j \in DOMAIN toNode : toNode[j].op = "consume" => j = 1
          /\ \A j \in DOMAIN micro : micro[j].op # "consume"
      BY Zenon, <1>1, <2>1 DEF PauseInv, MadeOnce, e
    <3>2. \A i \in DOMAIN toNode' : toNode'[i].op # "consume"
      BY <1>1, <3>1
    <3>3. /\ \A i \in DOMAIN micro' : micro'[i].op = "consume" => i = k
          /\ k \in DOMAIN micro' /\ micro'[k].op = "consume"
      BY <1>4, <2>1, <3>1
    <3> QED
      BY <3>1, <3>2, <3>3, ZenonT(30) DEF PauseInv, MadeOnce
  <2>2. CASE e.op # "consume"
    <3>1. \A i \in DOMAIN micro' : micro'[i].op = "consume" =>
            i \in DOMAIN micro /\ micro[i].op = "consume"
      BY <1>4, <2>2
    <3>2. \A i \in DOMAIN micro : micro[i].op = "consume" =>
            i \in DOMAIN micro' /\ micro'[i].op = "consume"
      BY <1>4
    <3>3. \A i \in DOMAIN toNode : toNode[i].op = "consume" =>
            \E j \in DOMAIN toNode' : toNode'[j].op = "consume"
      BY <1>1, <2>2, Zenon DEF e
    <3>4. \A i \in DOMAIN toNode' : toNode'[i].op = "consume" =>
            /\ process.exists /\ ~lib.exists
            /\ \A j \in DOMAIN toNode' : toNode'[j].op = "consume" => j = i
            /\ \A j \in DOMAIN micro' : micro'[j].op # "consume"
      BY <1>1, <3>1 DEF PauseInv, MadeOnce
    <3> QED
      BY Zenon, <1>9, <3>1, <3>2, <3>3, <3>4 DEF PauseInv, MadeOnce
  <2> QED
    BY <2>1, <2>2
<1> QED
  BY <1>8, <1>10, <1>11 DEF PauseInv

LEMMA PauseReadSound ==
  ASSUME PauseInv, Read
  PROVE  PauseInv'
<1>1. toNode # <<>> /\ left' \in 0..(Len(toNode) - 1)
  BY DEF PauseInv, PauseTyped, Read, NextCallback
<1>2. toNode' = Tail(toNode) /\ Head(toNode) = toNode[1]
      /\ UNCHANGED <<lib, observed, toWorker, process>>
  BY Zenon, <1>1, Shorter DEF PauseInv, PauseTyped, Read
<1>3. /\ toNode[1] \in PauseResponse \cup Note /\ 1 \in DOMAIN toNode
      /\ toNode' \in Seq(PauseResponse \cup Note) /\ Len(toNode') = Len(toNode) - 1
      /\ \A i \in DOMAIN toNode' : i + 1 \in DOMAIN toNode /\ toNode'[i] = toNode[i + 1]
  BY Zenon, <1>1, <1>2, InShifts DEF PauseInv
<1>4. \A i \in DOMAIN toNode' : OfConsumer(toNode'[i])
  BY <1>3 DEF PauseInv, PauseTyped
<1>5. CASE toNode[1] \in Note
  <2>1. immediates' = Append(immediates, toNode[1]) /\ micro' = micro
    BY <1>2, <1>5, OnWhat, Zenon DEF Read
  <2>2. immediates' \in Seq(Note)
    BY <1>5, <2>1, Longer, Zenon DEF PauseInv, PauseTyped
  <2>3. PauseTyped'
    BY <1>1, <1>2, <1>3, <1>4, <2>1, <2>2, Zenon DEF PauseInv, PauseTyped
  <2> QED
    BY <1>1, <1>2, <1>5, <2>1, <2>3, ReadNote
<1>6. CASE toNode[1] \in PauseResponse
  <2>1. micro' = Append(micro, toNode[1]) /\ immediates' = immediates
    BY <1>2, <1>6, OnWhat, Zenon DEF Read
  <2>2. /\ micro' \in Seq(PauseResponse)
        /\ \A i \in DOMAIN micro' :
             \/ micro'[i] = toNode[1]
             \/ i \in DOMAIN micro /\ micro'[i] = micro[i]
    BY <1>6, <2>1, Longer, SMT DEF PauseInv, PauseTyped
  <2>3. \A i \in DOMAIN micro' : OfConsumer(micro'[i])
    BY <1>3, <2>2, Zenon DEF PauseInv, PauseTyped
  <2>4. PauseTyped'
    BY Zenon, <1>1, <1>2, <1>3, <1>4, <2>1, <2>2, <2>3 DEF PauseInv, PauseTyped
  <2> QED
    BY <1>1, <1>2, <1>6, <2>1, <2>4, ReadResponse
<1> QED
  BY Zenon, <1>3, <1>5, <1>6

\* The event after a response to pause() or resume().
Emitted(m) ==
  IF m.op = "pause" THEN IF m.was THEN observed[m.on] ELSE "pause"
  ELSE IF m.was /\ ~(m.on = "consumer" /\ lib.producerPaused) THEN "resume"
  ELSE observed[m.on]

\* What the continuation of a call makes of the state.
LEMMA PausedOrResumed ==
  ASSUME NEW m \in Accepted, m.op # "consume",
         NEW s, s = Continuation(Now, m)
  PROVE  /\ s.lib = [lib EXCEPT ![m.on] = Sets(m)]
         /\ s.observed = [observed EXCEPT ![m.on] = Emitted(m)]
<1> DEFINE n == Now
<1>1. n = [lib |-> lib, observed |-> observed]
  BY DEF Now
<1>2. /\ m.op \in {"pause", "resume"} /\ m.on \in {"producer", "consumer", "rtpObserver"}
  BY ThingsAre DEF Accepted
<1> HIDE DEF n
<1>3. CASE m.op = "pause" /\ m.on = "producer"
  <2>1. s = ProducerPause(n, m)
    BY <1>3 DEF Continuation, n
  <2>2. /\ s.lib = [lib EXCEPT !["producer"] = TRUE]
        /\ s.observed = [observed EXCEPT !["producer"] = IF m.was THEN observed["producer"] ELSE "pause"]
    BY <1>1, <2>1, Zenon DEF ProducerPause
  <2>3. /\ Sets(m) = TRUE
        /\ Emitted(m) = IF m.was THEN observed["producer"] ELSE "pause"
    BY <1>3 DEF Sets, Emitted
  <2> QED
    BY <1>3, <2>2, <2>3, Zenon
<1>4. CASE m.op = "resume" /\ m.on = "producer"
  <2>1. s = ProducerResume(n, m)
    BY <1>4 DEF Continuation, n
  <2>2. /\ s.lib = [lib EXCEPT !["producer"] = FALSE]
        /\ s.observed = [observed EXCEPT !["producer"] = IF m.was THEN "resume" ELSE observed["producer"]]
    BY <1>1, <2>1, Zenon DEF ProducerResume
  <2>3. /\ Sets(m) = FALSE
        /\ Emitted(m) = IF m.was THEN "resume" ELSE observed["producer"]
    BY <1>4 DEF Sets, Emitted
  <2> QED
    BY <1>4, <2>2, <2>3, Zenon
<1>5. CASE m.op = "pause" /\ m.on = "consumer"
  <2>1. s = ConsumerPause(n, m)
    BY <1>5 DEF Continuation, n
  <2>2. /\ s.lib = [lib EXCEPT !["consumer"] = TRUE]
        /\ s.observed = [observed EXCEPT !["consumer"] = IF m.was THEN observed["consumer"] ELSE "pause"]
    BY <1>1, <2>1, Zenon DEF ConsumerPause
  <2>3. /\ Sets(m) = TRUE
        /\ Emitted(m) = IF m.was THEN observed["consumer"] ELSE "pause"
    BY <1>5 DEF Sets, Emitted
  <2> QED
    BY <1>5, <2>2, <2>3, Zenon
<1>6. CASE m.op = "resume" /\ m.on = "consumer"
  <2>1. s = ConsumerResume(n, m)
    BY <1>6 DEF Continuation, n
  <2>2. /\ s.lib = [lib EXCEPT !["consumer"] = FALSE]
        /\ s.observed = [observed EXCEPT !["consumer"] = IF m.was /\ ~lib.producerPaused THEN "resume" ELSE observed["consumer"]]
    BY <1>1, <2>1, Zenon DEF ConsumerResume
  <2>3. /\ Sets(m) = FALSE
        /\ Emitted(m) = IF m.was /\ ~lib.producerPaused THEN "resume" ELSE observed["consumer"]
    BY <1>6 DEF Sets, Emitted
  <2> QED
    BY <1>6, <2>2, <2>3, Zenon
<1>7. CASE m.op = "pause" /\ m.on = "rtpObserver"
  <2>1. s = RtpObserverPause(n, m)
    BY <1>7 DEF Continuation, n
  <2>2. /\ s.lib = [lib EXCEPT !["rtpObserver"] = TRUE]
        /\ s.observed = [observed EXCEPT !["rtpObserver"] = IF m.was THEN observed["rtpObserver"] ELSE "pause"]
    BY <1>1, <2>1, Zenon DEF RtpObserverPause
  <2>3. /\ Sets(m) = TRUE
        /\ Emitted(m) = IF m.was THEN observed["rtpObserver"] ELSE "pause"
    BY <1>7 DEF Sets, Emitted
  <2> QED
    BY <1>7, <2>2, <2>3, Zenon
<1>8. CASE m.op = "resume" /\ m.on = "rtpObserver"
  <2>1. s = RtpObserverResume(n, m)
    BY <1>8 DEF Continuation, n
  <2>2. /\ s.lib = [lib EXCEPT !["rtpObserver"] = FALSE]
        /\ s.observed = [observed EXCEPT !["rtpObserver"] = IF m.was THEN "resume" ELSE observed["rtpObserver"]]
    BY <1>1, <2>1, Zenon DEF RtpObserverResume
  <2>3. /\ Sets(m) = FALSE
        /\ Emitted(m) = IF m.was THEN "resume" ELSE observed["rtpObserver"]
    BY <1>8 DEF Sets, Emitted
  <2> QED
    BY <1>8, <2>2, <2>3, Zenon
<1> QED
  BY ZenonT(30), <1>2, <1>3, <1>4, <1>5, <1>6, <1>7, <1>8

Continued(m, l, o) ==
  /\ l \in Flags /\ o \in [Things -> {"pause", "resume"}]
  /\ \A x \in Things : l[x] = IF m.on = x THEN Sets(m) ELSE lib[x]
  /\ l.exists = (lib.exists \/ m.op = "consume")
  /\ l.producerPaused = IF m.op = "consume" THEN m.producer ELSE lib.producerPaused
  /\ o["consumer"] = IF m.op = "consume" THEN Event(m.was \/ m.producer)
                     ELSE IF m.on = "consumer" THEN Emitted(m)
                     ELSE observed["consumer"]

LEMMA ContinuationDoes ==
  ASSUME PauseTyped, NEW m \in PauseResponse, OfConsumer(m),
         NEW s, s = Continuation(Now, m)
  PROVE  Continued(m, s.lib, s.observed)
<1>1. lib \in Flags /\ observed \in [Things -> {"pause", "resume"}]
  BY DEF PauseTyped
<1>a. CASE m = Refusal
  <2>1. m.op = "refused" /\ m.on = "none"
    BY <1>a DEF Refusal
  <2>2. s.lib = lib /\ s.observed = observed
    BY <2>1 DEF Continuation, Now
  <2>3. m.on \notin Things /\ m.op # "consume" /\ m.on # "consumer"
    BY <2>1, ThingsAre
  <2>4. lib.exists \in BOOLEAN
    BY <1>1 DEF Flags
  <2> QED
    BY Zenon, <1>1, <2>2, <2>3, <2>4 DEF Continued
<1> SUFFICES ASSUME m # Refusal PROVE Continued(m, s.lib, s.observed)
  BY <1>a
<1>2. /\ m \in Accepted /\ m.op \in {"pause", "resume", "consume"} /\ m.on \in Things
      /\ m.was \in BOOLEAN /\ m.producer \in BOOLEAN
  BY DEF PauseResponse, Accepted
<1>3. CASE m.op = "consume"
  <2>1. s = NewConsumer(Now, m) /\ m.on = "consumer"
    BY <1>3 DEF Continuation, OfConsumer
  <2>2. /\ s.lib = [lib EXCEPT !["exists"] = TRUE, !["consumer"] = m.was,
                               !["producerPaused"] = m.producer]
        /\ s.observed = [observed EXCEPT !["consumer"] = Event(m.was \/ m.producer)]
    BY <2>1, Zenon DEF NewConsumer, Now
  <2>3. /\ s.lib \in Flags /\ s.lib.exists = TRUE /\ s.lib.producerPaused = m.producer
        /\ \A x \in Things : s.lib[x] = IF x = "consumer" THEN m.was ELSE lib[x]
    BY <1>1, <1>2, <2>2, ThingsAre, Zenon DEF Flags
  <2>4. Event(m.was \/ m.producer) \in {"pause", "resume"} /\ "consumer" \in Things
    BY Zenon, ThingsAre DEF Event
  <2>5. /\ s.observed \in [Things -> {"pause", "resume"}]
        /\ s.observed["consumer"] = Event(m.was \/ m.producer)
    BY <1>1, <2>2, <2>4
  <2>6. Sets(m) = m.was
    BY Zenon, <1>3 DEF Sets
  <2> QED
    BY <1>3, <2>1, <2>3, <2>5, <2>6, Zenon DEF Continued
<1>4. CASE m.op # "consume"
  <2>1. /\ s.lib = [lib EXCEPT ![m.on] = Sets(m)]
        /\ s.observed = [observed EXCEPT ![m.on] = Emitted(m)]
    BY <1>2, <1>4, PausedOrResumed
  <2>2. Sets(m) \in BOOLEAN
    BY <1>2, <1>4 DEF Sets
  <2>3. /\ s.lib \in Flags
        /\ s.lib.exists = lib.exists /\ s.lib.producerPaused = lib.producerPaused
        /\ \A x \in Things : s.lib[x] = IF x = m.on THEN Sets(m) ELSE lib[x]
    <3>1. CASE m.on = "producer"
      BY Zenon, <1>1, <2>1, <2>2, <3>1, ThingsAre DEF Flags
    <3>2. CASE m.on = "consumer"
      BY Zenon, <1>1, <2>1, <2>2, <3>2, ThingsAre DEF Flags
    <3>3. CASE m.on = "rtpObserver"
      BY Zenon, <1>1, <2>1, <2>2, <3>3, ThingsAre DEF Flags
    <3> QED
      BY Zenon, <1>2, <3>1, <3>2, <3>3, ThingsAre
  <2>4. Emitted(m) \in {"pause", "resume"} /\ "consumer" \in Things
    BY <1>1, <1>2, ThingsAre DEF Emitted
  <2>5. s.observed \in [Things -> {"pause", "resume"}]
    BY <1>1, <2>1, <2>4, Zenon
  <2>6. s.observed["consumer"] = IF m.on = "consumer" THEN Emitted(m) ELSE observed["consumer"]
    BY <1>1, <2>1, <2>4
  <2>7. lib.exists \in BOOLEAN
    BY <1>1 DEF Flags
  <2> QED
    BY Zenon, <1>4, <2>3, <2>5, <2>6, <2>7 DEF Continued
<1> QED
  BY Zenon, <1>3, <1>4

\* What taking a continuation leaves.
LEMMA MicroShifts ==
  ASSUME PauseTyped, micro # <<>>, micro' = Tail(micro)
  PROVE  /\ Head(micro) = micro[1] /\ micro[1] \in PauseResponse
         /\ 1 \in DOMAIN micro /\ OfConsumer(micro[1])
         /\ micro' \in Seq(PauseResponse) /\ Len(micro') = Len(micro) - 1
         /\ \A i \in DOMAIN micro' :
              i + 1 \in DOMAIN micro /\ i + 1 # 1 /\ micro'[i] = micro[i + 1]
         /\ \A j \in DOMAIN micro : j # 1 =>
              (j - 1 \in DOMAIN micro' /\ micro[j] = micro'[j - 1])
<1>1. /\ micro' \in Seq(PauseResponse) /\ Len(micro) \in Nat \ {0}
      /\ micro[1] \in PauseResponse /\ Head(micro) = micro[1]
      /\ DOMAIN micro = 1..Len(micro) /\ Len(micro') = Len(micro) - 1
      /\ DOMAIN micro' = 1..(Len(micro) - 1)
      /\ \A i \in 1..(Len(micro) - 1) : micro'[i] = micro[i + 1]
  BY Shorter, Zenon DEF PauseTyped
<1>2. OfConsumer(micro[1])
  BY <1>1 DEF PauseTyped
<1> QED
  BY <1>1, <1>2

LEMMA PauseContinueSound ==
  ASSUME PauseInv, Continue
  PROVE  PauseInv'
<1> DEFINE m == micro[1]
<1>1. micro # <<>> /\ micro' = Tail(micro)
      /\ UNCHANGED <<toWorker, process, toNode, left, immediates>>
  BY Zenon DEF Continue
<1>2. /\ Head(micro) = m /\ m \in PauseResponse /\ 1 \in DOMAIN micro /\ OfConsumer(m)
      /\ micro' \in Seq(PauseResponse)
      /\ \A i \in DOMAIN micro' :
           i + 1 \in DOMAIN micro /\ i + 1 # 1 /\ micro'[i] = micro[i + 1]
      /\ \A j \in DOMAIN micro : j # 1 =>
           (j - 1 \in DOMAIN micro' /\ micro[j] = micro'[j - 1])
  BY <1>1, MicroShifts DEF PauseInv
<1>3. \A x : /\ \A i : LastOn(micro', x, i) =>
                   i + 1 \in DOMAIN micro /\ LastOn(micro, x, i + 1)
                     /\ micro'[i] = micro[i + 1]
             /\ NoneOn(micro', x) =>
                  IF On(m, x) THEN LastOn(micro, x, 1) ELSE NoneOn(micro, x)
  BY <1>1, LastShifted, Zenon DEF PauseInv, PauseTyped
<1> HIDE DEF m
<1>4. /\ lib' \in Flags /\ observed' \in [Things -> {"pause", "resume"}]
      /\ \A x \in Things : lib'[x] = IF m.on = x THEN Sets(m) ELSE lib[x]
      /\ lib'.exists = (lib.exists \/ m.op = "consume")
      /\ lib'.producerPaused = IF m.op = "consume" THEN m.producer ELSE lib.producerPaused
  <2>1. PICK s : s = Continuation(Now, m)
    OBVIOUS
  <2>2. lib' = s.lib /\ observed' = s.observed
    BY <1>2, <2>1, Zenon DEF Continue
  <2>3. PauseTyped
    BY DEF PauseInv
  <2>4. Continued(m, s.lib, s.observed)
    BY <1>2, <2>1, <2>3, ContinuationDoes, Zenon
  <2>5. Continued(m, lib', observed')
    BY <2>2, <2>4, Zenon
  <2> QED
    BY <2>5, Zenon DEF Continued
<1>5. \A x : On(m, x) <=> m.on = x
  BY Zenon, <1>2, OnWhat
<1>6. PauseTyped'
  <2>1. \A i \in DOMAIN micro' : OfConsumer(micro'[i])
    BY Zenon, <1>2 DEF PauseInv, PauseTyped
  <2> QED
    BY <1>1, <1>2, <1>4, <2>1, Zenon DEF PauseInv, PauseTyped
<1>7. Latest'
  <2> SUFFICES ASSUME NEW x \in Things
               PROVE  /\ \A i \in DOMAIN toNode :
                           LastOn(toNode, x, i) => Sets(toNode[i]) = process[x]
                      /\ NoneOn(toNode, x) =>
                           /\ \A i \in DOMAIN micro' :
                                LastOn(micro', x, i) =>
                                  Sets(micro'[i]) = process[x]
                           /\ NoneOn(micro', x) => lib'[x] = process[x]
    BY Zenon, <1>1 DEF Latest
  <2>1. \A i \in DOMAIN toNode : LastOn(toNode, x, i) => Sets(toNode[i]) = process[x]
    BY Zenon DEF PauseInv, Latest
  <2>2. ASSUME NoneOn(toNode, x)
        PROVE  \A i \in DOMAIN micro' :
                 LastOn(micro', x, i) => Sets(micro'[i]) = process[x]
    BY <1>3, <2>2 DEF PauseInv, Latest
  <2>3. ASSUME NoneOn(toNode, x), NoneOn(micro', x)
        PROVE  lib'[x] = process[x]
    <3>1. CASE On(m, x)
      <4>1. Sets(m) = process[x]
        BY Zenon, <1>2, <1>3, <2>3, <3>1 DEF PauseInv, Latest, m
      <4> QED
        BY <1>4, <1>5, <3>1, <4>1, ZenonT(30)
    <3>2. CASE ~On(m, x)
      <4>1. lib[x] = process[x]
        BY Zenon, <1>3, <2>3, <3>2 DEF PauseInv, Latest
      <4> QED
        BY <1>4, <1>5, <3>2, <4>1, Zenon
    <3> QED
      BY <3>1, <3>2
  <2> QED
    BY Zenon, <2>1, <2>2, <2>3
<1>8. Told'
  <2>1. ASSUME NoneOn(toNode, "note"), immediates = <<>>
        PROVE  /\ \A i \in DOMAIN micro' :
                    micro'[i].op = "consume" =>
                      micro'[i].producer = process.producer
               /\ lib'.exists => lib'.producerPaused = process.producer
    <3>1. /\ \A i \in DOMAIN micro :
               micro[i].op = "consume" => micro[i].producer = process.producer
          /\ lib.exists => lib.producerPaused = process.producer
      BY Zenon, <2>1 DEF PauseInv, Told
    <3>2. m.op = "consume" => m.producer = process.producer
      BY Zenon, <1>2, <3>1 DEF m
    <3>3. CASE m.op = "consume"
      BY <1>2, <1>4, <3>1, <3>2, <3>3, SMTT(30)
    <3>4. CASE m.op # "consume"
      <4>1. lib'.producerPaused = lib.producerPaused /\ (lib'.exists <=> lib.exists)
        BY <1>4, <3>4, Zenon
      <4> QED
        BY <1>2, <3>1, <4>1
    <3> QED
      BY Zenon, <3>3, <3>4
  <2> QED
    BY Zenon, <1>1, <2>1 DEF PauseInv, Told
<1>9. MadeOnce'
  <2>1. CASE m.op = "consume"
    <3>1. /\ process.exists
          /\ \A j \in DOMAIN micro : micro[j].op = "consume" => j = 1
          /\ \A i \in DOMAIN toNode : toNode[i].op # "consume"
      BY Zenon, <1>2, <2>1 DEF PauseInv, MadeOnce, m
    <3>2. \A i \in DOMAIN micro' : micro'[i].op # "consume"
      BY Zenon, <1>2, <3>1
    <3> QED
      BY <1>1, <1>4, <2>1, <3>1, <3>2, Zenon DEF PauseInv, MadeOnce
  <2>2. CASE m.op # "consume"
    <3>1. \A i \in DOMAIN micro : micro[i].op = "consume" =>
            \E j \in DOMAIN micro' : micro'[j].op = "consume"
      BY <1>2, <2>2 DEF m
    <3>2. lib'.exists = lib.exists
      BY Zenon, <1>4, <2>2 DEF PauseInv, PauseTyped, Flags
    <3>3. \A i \in DOMAIN micro' : micro'[i].op = "consume" =>
            /\ process.exists /\ ~lib.exists
            /\ \A j \in DOMAIN micro' : micro'[j].op = "consume" => j = i
      BY <1>2 DEF PauseInv, MadeOnce
    <3>4. \A i \in DOMAIN toNode : toNode[i].op = "consume" =>
            \A j \in DOMAIN micro' : micro'[j].op # "consume"
      BY <1>2, ZenonT(30) DEF PauseInv, MadeOnce
    <3> QED
      BY Zenon, <1>1, <3>1, <3>2, <3>3, <3>4 DEF PauseInv, MadeOnce
  <2> QED
    BY <2>1, <2>2, SMTT(30)
<1> QED
  BY Zenon, <1>6, <1>7, <1>8, <1>9 DEF PauseInv

\* What a notification makes of the state of a Consumer that exists.
LEMMA NotificationDoes ==
  ASSUME PauseTyped, NEW e \in Note, NEW s,
         s = IF e.op = "producerpause" THEN OnProducerPause(Now)
             ELSE OnProducerResume(Now)
  PROVE  /\ s.lib \in Flags /\ s.observed \in [Things -> {"pause", "resume"}]
         /\ \A x \in Things : s.lib[x] = lib[x]
         /\ s.lib.exists = lib.exists /\ s.lib.producerPaused = Sets(e)
         /\ s.observed["consumer"] = IF lib.consumer \/ lib.producerPaused = Sets(e)
                                     THEN observed["consumer"] ELSE Event(Sets(e))
<1> DEFINE n == Now
<1>1. n = [lib |-> lib, observed |-> observed] /\ n.lib = lib /\ n.observed = observed
  BY Zenon DEF Now
<1>2. /\ lib \in Flags /\ observed \in [Things -> {"pause", "resume"}]
      /\ lib.consumer \in BOOLEAN /\ lib.producerPaused \in BOOLEAN /\ "consumer" \in Things
  BY ThingsAre DEF PauseTyped, Flags
<1>3. e.op \in {"producerpause", "producerresume"}
  BY Zenon DEF Note
<1> HIDE DEF n
<1>4. CASE e.op = "producerpause"
  <2>1. s = OnProducerPause(n) /\ Sets(e) = TRUE
    BY <1>4 DEF n, Sets
  <2>2. CASE lib.producerPaused
    <3>1. s = n
      BY <1>1, <2>1, <2>2 DEF OnProducerPause
    <3> QED
      BY <1>1, <1>2, <2>1, <2>2, <3>1, Zenon
  <2>3. CASE ~lib.producerPaused
    <3>1. /\ s.lib = [lib EXCEPT !["producerPaused"] = TRUE]
          /\ s.observed = [observed EXCEPT !["consumer"] = IF lib.consumer THEN observed["consumer"]
                                                           ELSE "pause"]
      BY <1>1, <2>1, <2>3, Zenon DEF OnProducerPause
    <3>2. /\ s.lib \in Flags /\ \A x \in Things : s.lib[x] = lib[x]
          /\ s.lib.exists = lib.exists /\ s.lib.producerPaused = TRUE
      BY <1>2, <3>1, ThingsAre, Zenon DEF Flags
    <3>3. /\ s.observed \in [Things -> {"pause", "resume"}]
          /\ s.observed["consumer"] = IF lib.consumer THEN observed["consumer"] ELSE "pause"
      BY <1>2, <3>1, Zenon
    <3> QED
      BY <1>2, <2>1, <2>3, <3>2, <3>3, Zenon DEF Event
  <2> QED
    BY <2>2, <2>3
<1>5. CASE e.op = "producerresume"
  <2>1. s = OnProducerResume(n) /\ Sets(e) = FALSE
    BY <1>5 DEF n, Sets
  <2>2. CASE ~lib.producerPaused
    <3>1. s = n
      BY <1>1, <2>1, <2>2 DEF OnProducerResume
    <3> QED
      BY <1>1, <1>2, <2>1, <2>2, <3>1, Zenon
  <2>3. CASE lib.producerPaused
    <3>1. /\ s.lib = [lib EXCEPT !["producerPaused"] = FALSE]
          /\ s.observed = [observed EXCEPT !["consumer"] = IF lib.consumer THEN observed["consumer"]
                                                           ELSE "resume"]
      BY <1>1, <2>1, <2>3, Zenon DEF OnProducerResume
    <3>2. /\ s.lib \in Flags /\ \A x \in Things : s.lib[x] = lib[x]
          /\ s.lib.exists = lib.exists /\ s.lib.producerPaused = FALSE
      BY <1>2, <3>1, ThingsAre, Zenon DEF Flags
    <3>3. /\ s.observed \in [Things -> {"pause", "resume"}]
          /\ s.observed["consumer"] = IF lib.consumer THEN observed["consumer"] ELSE "resume"
      BY <1>2, <3>1, Zenon
    <3> QED
      BY <1>2, <2>1, <2>3, <3>2, <3>3, Zenon DEF Event
  <2> QED
    BY <2>2, <2>3
<1> QED
  BY Zenon, <1>3, <1>4, <1>5

\* A notification changes nothing where the Consumer has not been made.
LEMMA Notified ==
  ASSUME PauseInv, Notify
  PROVE  /\ immediates # <<>> /\ micro = <<>>
         /\ Head(immediates) = immediates[1] /\ immediates[1] \in Note
         /\ 1 \in DOMAIN immediates
         /\ immediates' = Tail(immediates)
         /\ UNCHANGED <<toWorker, process, toNode, left, micro,
                        calls, overlapped>>
         /\ lib' \in Flags /\ observed' \in [Things -> {"pause", "resume"}]
         /\ \A x \in Things : lib'[x] = lib[x]
         /\ lib'.exists = lib.exists
         /\ lib.exists =>
              /\ lib'.producerPaused = Sets(immediates[1])
              /\ observed'["consumer"] =
                   IF lib.consumer \/ lib.producerPaused = Sets(immediates[1])
                   THEN observed["consumer"] ELSE Event(Sets(immediates[1]))
<1> DEFINE e == immediates[1]
<1>1. /\ immediates # <<>> /\ micro = <<>> /\ immediates' = Tail(immediates)
      /\ UNCHANGED <<toWorker, process, toNode, left, micro,
                     calls, overlapped>>
  BY DEF Notify, NextCallback
<1>3. /\ Head(immediates) = e /\ e \in Note /\ 1 \in DOMAIN immediates
  BY <1>1, Shorter, Zenon DEF PauseInv, PauseTyped
<1>2. CASE ~lib.exists
  <2>1. lib' = lib /\ observed' = observed
    BY Zenon, <1>2 DEF Notify, Now
  <2> QED
    BY Zenon, <1>1, <1>2, <1>3, <2>1 DEF PauseInv, PauseTyped
<1> SUFFICES ASSUME lib.exists
             PROVE  /\ lib' \in Flags /\ observed' \in [Things -> {"pause", "resume"}]
                    /\ \A x \in Things : lib'[x] = lib[x]
                    /\ lib'.exists = lib.exists /\ lib'.producerPaused = Sets(e)
                    /\ observed'["consumer"] =
                         IF lib.consumer \/ lib.producerPaused = Sets(e)
                         THEN observed["consumer"] ELSE Event(Sets(e))
  BY Zenon, <1>1, <1>2, <1>3
<1>4. PICK s : s = IF e.op = "producerpause" THEN OnProducerPause(Now)
                   ELSE OnProducerResume(Now)
  OBVIOUS
<1> HIDE DEF e
<1>5. lib' = s.lib /\ observed' = s.observed
  BY <1>3, <1>4, Zenon DEF Notify
<1>6. PauseTyped
  BY DEF PauseInv
<1>7. /\ s.lib \in Flags /\ s.observed \in [Things -> {"pause", "resume"}]
      /\ \A x \in Things : s.lib[x] = lib[x]
      /\ s.lib.exists = lib.exists /\ s.lib.producerPaused = Sets(e)
      /\ s.observed["consumer"] = IF lib.consumer \/ lib.producerPaused = Sets(e)
                                  THEN observed["consumer"] ELSE Event(Sets(e))
  BY <1>3, <1>4, <1>6, NotificationDoes, ZenonT(60)
<1> QED
  BY Zenon, <1>5, <1>7

LEMMA PauseNotifySound ==
  ASSUME PauseInv, Notify
  PROVE  PauseInv'
<1> DEFINE e == immediates[1]
<1>1. /\ immediates # <<>> /\ e \in Note /\ immediates' = Tail(immediates)
      /\ UNCHANGED <<toWorker, process, toNode, left, micro>>
      /\ lib' \in Flags /\ observed' \in [Things -> {"pause", "resume"}]
      /\ \A x \in Things : lib'[x] = lib[x]
      /\ lib'.exists = lib.exists /\ (lib.exists => lib'.producerPaused = Sets(e))
      /\ micro = <<>> /\ 1 \in DOMAIN immediates
  BY Notified, ZenonT(30)
<1>2. /\ \A i : LastOn(immediates', "note", i) =>
                  i + 1 \in DOMAIN immediates /\ LastOn(immediates, "note", i + 1)
                     /\ immediates'[i] = immediates[i + 1]
      /\ NoneOn(immediates', "note") =>
           IF On(e, "note") THEN LastOn(immediates, "note", 1)
           ELSE NoneOn(immediates, "note")
  <2>1. immediates \in Seq(Note) /\ immediates # <<>> /\ immediates' = Tail(immediates)
    BY <1>1, Zenon DEF PauseInv, PauseTyped
  <2> QED
    BY <2>1, LastShifted, Zenon
<1>3. On(e, "note")
  BY Zenon, <1>1 DEF On, Note
<1>4. immediates' \in Seq(Note)
  BY <1>1 DEF PauseInv, PauseTyped
<1> HIDE DEF e
<1>5. PauseTyped'
  BY <1>1, <1>4 DEF PauseInv, PauseTyped
<1>6. Latest'
  BY Zenon, <1>1 DEF PauseInv, Latest
<1>7. process.exists /\ \A i \in DOMAIN micro : micro[i].op # "consume"
  BY <1>1, SMTT(30) DEF PauseInv, MadeOnce
<1>8. Told'
  <2>1. ASSUME NoneOn(toNode, "note")
        PROVE  /\ \A i \in DOMAIN immediates' :
                    LastOn(immediates', "note", i) =>
                      Sets(immediates'[i]) = process.producer
               /\ immediates' = <<>> => Sets(e) = process.producer
    <3>1. \A i \in DOMAIN immediates : LastOn(immediates, "note", i) =>
            Sets(immediates[i]) = process.producer
      BY <2>1 DEF PauseInv, Told
    <3>2. immediates' = <<>> => NoneOn(immediates', "note")
      BY SMTT(30) DEF NoneOn
    <3> QED
      BY <1>1, <1>2, <1>3, <3>1, <3>2, SMTT(30) DEF e
  <2> QED
    BY <1>1, <1>7, <2>1, Zenon DEF PauseInv, Told
<1>9. MadeOnce'
  BY <1>1, <1>7 DEF PauseInv, MadeOnce
<1> QED
  BY <1>5, <1>6, <1>8, <1>9 DEF PauseInv

\* What taking a request leaves.
LEMMA OutShifts ==
  ASSUME PauseTyped, toWorker # <<>>, toWorker' = Tail(toWorker)
  PROVE  /\ Head(toWorker) = toWorker[1] /\ toWorker[1] \in PauseRequest
         /\ 1 \in DOMAIN toWorker /\ OfConsumer(toWorker[1])
         /\ toWorker' \in Seq(PauseRequest) /\ Len(toWorker') = Len(toWorker) - 1
         /\ \A i \in DOMAIN toWorker' :
              i + 1 \in DOMAIN toWorker /\ i + 1 # 1 /\ toWorker'[i] = toWorker[i + 1]
              /\ OfConsumer(toWorker'[i])
<1>1. /\ toWorker' \in Seq(PauseRequest) /\ Len(toWorker) \in Nat \ {0}
      /\ toWorker[1] \in PauseRequest /\ Head(toWorker) = toWorker[1]
      /\ DOMAIN toWorker = 1..Len(toWorker) /\ Len(toWorker') = Len(toWorker) - 1
      /\ DOMAIN toWorker' = 1..(Len(toWorker) - 1)
      /\ \A i \in 1..(Len(toWorker) - 1) : toWorker'[i] = toWorker[i + 1]
  BY Shorter, SMT DEF PauseTyped
<1>2. 1 \in DOMAIN toWorker /\ OfConsumer(toWorker[1])
  <2>1. 1 \in DOMAIN toWorker
    BY <1>1
  <2> QED
    BY <2>1, Zenon DEF PauseTyped
<1>3. \A i \in DOMAIN toWorker' :
        i + 1 \in DOMAIN toWorker /\ i + 1 # 1 /\ toWorker'[i] = toWorker[i + 1]
  BY <1>1
<1>4. \A i \in DOMAIN toWorker' : OfConsumer(toWorker'[i])
  BY <1>3 DEF PauseTyped
<1> QED
  BY <1>1, <1>2, <1>3, <1>4, Zenon

\* t is s with a response after it, and a notification before that one if told.
Reply(s, t, r, told, n) ==
  /\ t \in Seq(PauseResponse \cup Note) /\ Len(s) \in Nat /\ Len(t) \in Nat /\ Len(t) > Len(s)
  /\ \A i \in DOMAIN s : i \in DOMAIN t /\ i <= Len(s) /\ t[i] = s[i]
  /\ \A j \in DOMAIN t : \/ j \in DOMAIN s
                         \/ j > Len(s) /\ j = Len(t) /\ t[j] = r
                         \/ j > Len(s) /\ told /\ t[j] = n
  /\ Len(t) \in DOMAIN t /\ t[Len(t)] = r
  /\ \A x \in Things : On(r, x) =>
       ~NoneOn(t, x) /\ \A i : LastOn(t, x, i) => t[i] = r
  /\ \A x \in Things : ~On(r, x) =>
       /\ NoneOn(t, x) => NoneOn(s, x)
       /\ \A i : LastOn(t, x, i) => LastOn(s, x, i) /\ t[i] = s[i]
  /\ told => ~NoneOn(t, "note") /\ \A i : LastOn(t, "note", i) => t[i] = n
  /\ told => \A i \in DOMAIN s : \E j \in DOMAIN t : j > i /\ On(t[j], "note")
  /\ ~told => /\ NoneOn(t, "note") => NoneOn(s, "note")
              /\ \A i : LastOn(t, "note", i) => LastOn(s, "note", i) /\ t[i] = s[i]

LEMMA Replied ==
  ASSUME NEW s \in Seq(PauseResponse \cup Note), NEW r \in PauseResponse,
         NEW told \in BOOLEAN, NEW n \in Note, NEW t,
         t = IF told THEN Append(Append(s, n), r) ELSE Append(s, r)
  PROVE  Reply(s, t, r, told, n)
<1> DEFINE S == PauseResponse \cup Note
<1>1. /\ r \in S /\ n \in S /\ ~On(r, "note") /\ On(n, "note") /\ \A x \in Things : ~On(n, x)
  BY OnWhat
<1>4. s \in Seq(S)
  OBVIOUS
<1> HIDE DEF S
<1>2. CASE ~told
  <2>1. t = Append(s, r)
    BY Zenon, <1>2
  <2>2. /\ t \in Seq(S) /\ Len(s) \in Nat /\ Len(t) = Len(s) + 1
        /\ DOMAIN s = 1..Len(s) /\ DOMAIN t = 1..(Len(s) + 1)
        /\ \A i \in 1..Len(s) : t[i] = s[i]
        /\ t[Len(s) + 1] = r
    BY <1>1, <1>4, <2>1, Longer, SMT
  <2>3. \A x : On(r, x) => ~NoneOn(t, x) /\ \A i : LastOn(t, x, i) => t[i] = r
    <3>1. \A x : On(r, x) => /\ ~NoneOn(Append(s, r), x)
                            /\ \A i : LastOn(Append(s, r), x, i) => Append(s, r)[i] = r
      BY <1>1, <1>4, LastIsNew, Zenon
    <3> QED
      BY <2>1, <3>1, Zenon
  <2>4. \A x : ~On(r, x) =>
          /\ NoneOn(t, x) <=> NoneOn(s, x)
          /\ \A i : LastOn(t, x, i) => LastOn(s, x, i) /\ t[i] = s[i]
    <3>1. \A x : ~On(r, x) =>
            /\ NoneOn(Append(s, r), x) <=> NoneOn(s, x)
            /\ \A i : LastOn(Append(s, r), x, i) => LastOn(s, x, i) /\ Append(s, r)[i] = s[i]
      BY <1>1, <1>4, LastIsOld, Zenon
    <3> QED
      BY <2>1, <3>1, Zenon
  <2>5. /\ Len(t) \in Nat /\ Len(t) > Len(s)
        /\ \A i \in DOMAIN s : i \in DOMAIN t /\ i <= Len(s) /\ t[i] = s[i]
        /\ \A j \in DOMAIN t : j \in DOMAIN s \/ (j > Len(s) /\ j = Len(t) /\ t[j] = r)
        /\ Len(t) \in DOMAIN t /\ t[Len(t)] = r
    BY <2>2
  <2> QED
    BY <1>1, <1>4, <1>2, <2>2, <2>3, <2>4, <2>5, ZenonT(60) DEF S, Reply
<1>3. CASE told
  <2> DEFINE u == Append(s, n)
  <2>1. t = Append(u, r)
    BY Zenon, <1>3
  <2>2. /\ u \in Seq(S) /\ Len(s) \in Nat /\ Len(u) = Len(s) + 1
        /\ DOMAIN s = 1..Len(s) /\ DOMAIN u = 1..(Len(s) + 1)
        /\ \A i \in 1..Len(s) : u[i] = s[i]
        /\ u[Len(s) + 1] = n
    BY <1>1, <1>4, Longer, SMT
  <2>3. \A x : On(n, x) => ~NoneOn(u, x) /\ \A i : LastOn(u, x, i) => u[i] = n
    BY <1>1, <1>4, LastIsNew, Zenon
  <2>4. \A x : ~On(n, x) =>
          /\ NoneOn(u, x) <=> NoneOn(s, x)
          /\ \A i : LastOn(u, x, i) => LastOn(s, x, i) /\ u[i] = s[i]
    BY <1>1, <1>4, LastIsOld, ZenonT(60)
  <2> HIDE DEF u
  <2>5. /\ t \in Seq(S) /\ Len(t) = Len(u) + 1
        /\ DOMAIN t = 1..(Len(u) + 1)
        /\ \A i \in 1..Len(u) : t[i] = u[i]
        /\ t[Len(u) + 1] = r
    BY <1>1, <1>4, <2>1, <2>2, Longer, SMTT(30)
  <2>6. \A x : On(r, x) => ~NoneOn(t, x) /\ \A i : LastOn(t, x, i) => t[i] = r
    <3>1. \A x : On(r, x) => /\ ~NoneOn(Append(u, r), x)
                            /\ \A i : LastOn(Append(u, r), x, i) => Append(u, r)[i] = r
      BY <1>1, <1>4, <2>2, LastIsNew, Zenon
    <3> QED
      BY <2>1, <3>1, Zenon
  <2>7. \A x : ~On(r, x) =>
          /\ NoneOn(t, x) <=> NoneOn(u, x)
          /\ \A i : LastOn(t, x, i) => LastOn(u, x, i) /\ t[i] = u[i]
    <3>1. \A x : ~On(r, x) =>
            /\ NoneOn(Append(u, r), x) <=> NoneOn(u, x)
            /\ \A i : LastOn(Append(u, r), x, i) => LastOn(u, x, i) /\ Append(u, r)[i] = u[i]
      BY <1>1, <1>4, <2>2, LastIsOld, ZenonT(60)
    <3> QED
      BY <2>1, <3>1, Zenon
  <2>8. /\ Len(t) \in Nat /\ Len(t) > Len(s)
        /\ \A i \in DOMAIN s : i \in DOMAIN t /\ i <= Len(s) /\ t[i] = s[i]
        /\ \A j \in DOMAIN t : \/ j \in DOMAIN s
                               \/ j > Len(s) /\ j = Len(t) /\ t[j] = r
                               \/ j > Len(s) /\ told /\ t[j] = n
        /\ Len(t) \in DOMAIN t /\ t[Len(t)] = r
    BY <1>3, <2>2, <2>5
  <2>9. /\ ~NoneOn(t, "note")
        /\ \A i : LastOn(t, "note", i) => t[i] = n
    BY <1>1, <1>4, <2>3, <2>7, Zenon
  <2>10. \A x \in Things : ~On(r, x) =>
           /\ NoneOn(t, x) => NoneOn(s, x)
           /\ \A i : LastOn(t, x, i) => LastOn(s, x, i) /\ t[i] = s[i]
    BY <1>1, <1>4, <2>4, <2>7, Zenon
  <2>11. \A i \in DOMAIN s : \E j \in DOMAIN t : j > i /\ On(t[j], "note")
    <3>1. /\ Len(s) + 1 \in DOMAIN t /\ t[Len(s) + 1] = n
          /\ \A i \in DOMAIN s : Len(s) + 1 > i
      BY <2>2, <2>5
    <3> QED
      BY Zenon, <1>1, <3>1
  <2> QED
    BY <1>1, <1>4, <1>3, <2>2, <2>5, <2>6, <2>8, <2>9, <2>10, <2>11, ZenonT(60) DEF S, Reply
<1> QED
  BY Zenon, <1>2, <1>3

LEMMA Joined ==
  ASSUME NEW s \in Seq(PauseResponse \cup Note), NEW r \in PauseResponse,
         NEW told \in BOOLEAN, NEW n \in Note, NEW p, p = IF told THEN <<n>> ELSE <<>>
  PROVE  s \o p \o <<r>> = IF told THEN Append(Append(s, n), r) ELSE Append(s, r)
<1>1. CASE told
  <2> DEFINE u == Append(s, n)
  <2>1. s \o <<n>> = u /\ u \in Seq(PauseResponse \cup Note)
    OBVIOUS
  <2> HIDE DEF u
  <2>2. u \o <<r>> = Append(u, r)
    BY <2>1
  <2> QED
    BY <1>1, <2>1, <2>2, Zenon DEF u
<1>2. CASE ~told
  BY <1>2, SMTT(30)
<1> QED
  BY <1>1, <1>2

\* What the worker process writes for pause() and resume().
Wrote(m) ==
  \E told \in BOOLEAN, n \in Note :
    /\ told <=> /\ m.on = "producer" /\ process.exists
                /\ process.producer # (m.op = "pause")
    /\ Sets(n) = (m.op = "pause")
    /\ toNode' = IF told THEN Append(Append(toNode, n), Response(m))
                 ELSE Append(toNode, Response(m))

LEMMA WorkerWrites ==
  ASSUME PauseTyped, NEW m \in PauseRequest, m.op \in {"pause", "resume"},
         toNode' = toNode \o (IF m.on = "producer" THEN Notice(m.op = "pause") ELSE <<>>)
                          \o <<Response(m)>>
  PROVE  Wrote(m)
<1> DEFINE n == [op |-> IF m.op = "pause" THEN "producerpause" ELSE "producerresume"]
           told == /\ m.on = "producer" /\ process.exists
                   /\ process.producer # (m.op = "pause")
           r == Response(m)
           p == IF m.on = "producer" THEN Notice(m.op = "pause") ELSE <<>>
<1>1. n \in Note /\ Sets(n) = (m.op = "pause") /\ told \in BOOLEAN
  BY DEF Note, Sets
<1>2. p = IF told THEN <<n>> ELSE <<>>
  BY Zenon DEF Notice
<1>3. toNode \in Seq(PauseResponse \cup Note) /\ toNode' = toNode \o p \o <<r>>
  BY Zenon DEF PauseTyped
<1>4. r \in PauseResponse
  BY Zenon DEF Response, PauseRequest, PauseResponse, Accepted, PauseTyped, Flags
<1> HIDE DEF r, p, n
<1>5. toNode' = IF told THEN Append(Append(toNode, n), r) ELSE Append(toNode, r)
  BY <1>1, <1>2, <1>3, <1>4, Joined, Zenon
<1> QED
  BY <1>1, <1>5, Zenon DEF r, Wrote

\* The response that makes the Consumer.
LEMMA WorkerConsumes ==
  ASSUME PauseInv, toWorker # <<>>, toWorker' = Tail(toWorker), toWorker[1].op = "consume",
         process' = [process EXCEPT !.exists = TRUE, !.consumer = toWorker[1].was],
         toNode' = toNode \o FirstNotice \o <<Response(toWorker[1])>>,
         UNCHANGED <<lib, observed, left, micro, immediates>>
  PROVE  PauseInv'
<1> DEFINE m == toWorker[1]
           r == Response(m)
           n == [op |-> "producerpause"]
           told == process.producer
<1>1. /\ m \in PauseRequest /\ 1 \in DOMAIN toWorker /\ OfConsumer(m)
      /\ toWorker' \in Seq(PauseRequest)
      /\ \A i \in DOMAIN toWorker' :
           i + 1 \in DOMAIN toWorker /\ i + 1 # 1 /\ toWorker'[i] = toWorker[i + 1]
           /\ OfConsumer(toWorker'[i])
  BY OutShifts DEF PauseInv
<1>2. /\ PauseTyped /\ process \in Flags /\ toNode \in Seq(PauseResponse \cup Note)
      /\ left \in 0..Len(toNode) /\ told \in BOOLEAN
  BY DEF PauseInv, PauseTyped, Flags
<1>3. /\ r \in PauseResponse /\ r.op = "consume" /\ r.on = "consumer" /\ r.was = m.was
      /\ r.producer = process.producer /\ OfConsumer(r)
  BY <1>1, <1>2 DEF Response, PauseRequest, PauseResponse, Accepted, OfConsumer, Flags
<1>4. /\ process' \in Flags /\ process'.exists = TRUE
      /\ process'.consumer = m.was /\ process'.producer = process.producer
      /\ process'.rtpObserver = process.rtpObserver
  BY <1>1, <1>2, Zenon DEF Flags, PauseRequest
<1>5. n \in Note /\ Sets(n) = TRUE /\ n.op # "consume" /\ OfConsumer(n)
  BY DEF Note, Sets, OfConsumer
<1>6. Reply(toNode, toNode', r, told, n)
  <2> DEFINE p == FirstNotice
  <2>1. toNode' = toNode \o p \o <<r>> /\ p = IF told THEN <<n>> ELSE <<>>
    BY Zenon DEF FirstNotice
  <2> HIDE DEF p, r, n
  <2>2. toNode' = IF told THEN Append(Append(toNode, n), r) ELSE Append(toNode, r)
    BY <1>2, <1>3, <1>5, <2>1, Joined, Zenon
  <2> QED
    BY <1>2, <1>3, <1>5, <2>2, Replied, Zenon
<1> HIDE DEF r, m, n
<1>7. /\ toNode' \in Seq(PauseResponse \cup Note) /\ Len(toNode) \in Nat /\ Len(toNode') \in Nat
      /\ Len(toNode') > Len(toNode)
      /\ \A i \in DOMAIN toNode : i \in DOMAIN toNode' /\ toNode'[i] = toNode[i]
      /\ \A j \in DOMAIN toNode' : \/ j \in DOMAIN toNode
                                   \/ j = Len(toNode') /\ toNode'[j] = r
                                   \/ toNode'[j] = n
      /\ Len(toNode') \in DOMAIN toNode' /\ toNode'[Len(toNode')] = r
      /\ \A x \in Things : On(r, x) =>
           ~NoneOn(toNode', x) /\ \A i : LastOn(toNode', x, i) => toNode'[i] = r
      /\ \A x \in Things : ~On(r, x) =>
           /\ NoneOn(toNode', x) => NoneOn(toNode, x)
           /\ \A i : LastOn(toNode', x, i) => LastOn(toNode, x, i) /\ toNode'[i] = toNode[i]
      /\ told => \A i : LastOn(toNode', "note", i) => toNode'[i] = n
      /\ ~told => \A i : LastOn(toNode', "note", i) => LastOn(toNode, "note", i)
  BY <1>6, ZenonT(30) DEF Reply
<1>8. /\ ~process.exists
      /\ \A i \in DOMAIN toWorker' : toWorker'[i].op # "consume"
  BY <1>1 DEF PauseInv, MadeOnce, m
<1>9. /\ ~lib.exists /\ immediates = <<>> /\ NoneOn(toNode, "note")
      /\ \A i \in DOMAIN toNode : toNode[i].op # "consume"
      /\ \A i \in DOMAIN micro : micro[i].op # "consume"
  BY <1>8 DEF PauseInv, MadeOnce
<1>10. \A x \in Things : On(r, x) <=> x = "consumer"
  BY <1>3, OnWhat
<1>11. PICK k \in DOMAIN toNode' :
         /\ toNode'[k] = r
         /\ \A i \in DOMAIN toNode' : toNode'[i].op = "consume" => i = k
  <2>1. ASSUME NEW i \in DOMAIN toNode', toNode'[i].op = "consume"
        PROVE  i = Len(toNode')
    <3>1. i \notin DOMAIN toNode
      BY <1>7, <1>9, <2>1, Zenon
    <3>2. toNode'[i] # n
      BY <1>5, <2>1, Zenon
    <3> QED
      BY <1>7, <3>1, <3>2, Zenon
  <2>2. Len(toNode') \in DOMAIN toNode' /\ toNode'[Len(toNode')] = r
    BY <1>7, Zenon
  <2> QED
    BY <2>1, <2>2, Zenon
<1>12. PauseTyped'
  <2>1. \A i \in DOMAIN toNode' : OfConsumer(toNode'[i])
    BY <1>2, <1>3, <1>5, <1>7, Zenon DEF PauseTyped
  <2>2. left' \in 0..Len(toNode')
    BY <1>2, <1>7
  <2> QED
    BY <1>1, <1>2, <1>4, <1>7, <2>1, <2>2, Zenon DEF PauseTyped
<1>13. Latest'
  <2> SUFFICES ASSUME NEW x \in Things
               PROVE  /\ \A i \in DOMAIN toNode' :
                           LastOn(toNode', x, i) => Sets(toNode'[i]) = process'[x]
                      /\ NoneOn(toNode', x) =>
                           /\ \A i \in DOMAIN micro :
                                LastOn(micro, x, i) =>
                                  Sets(micro[i]) = process'[x]
                           /\ NoneOn(micro, x) => lib[x] = process'[x]
    BY DEF Latest
  <2>1. CASE x = "consumer"
    <3>1. Sets(r) = process'[x]
      BY <1>3, <1>4, <2>1 DEF Sets
    <3> QED
      BY <1>7, <1>10, <2>1, <3>1, Zenon
  <2>2. CASE x # "consumer"
    <3>1. process'[x] = process[x] /\ ~On(r, x)
      BY <1>4, <1>10, <2>2, ThingsAre, Zenon
    <3>2. \A i : LastOn(toNode, x, i) => i \in DOMAIN toNode
      BY DEF LastOn
    <3>3. /\ NoneOn(toNode', x) => NoneOn(toNode, x)
          /\ \A i : LastOn(toNode', x, i) => LastOn(toNode, x, i) /\ toNode'[i] = toNode[i]
      BY <1>7, <3>1, Zenon
    <3> QED
      BY <3>1, <3>2, <3>3, Zenon DEF PauseInv, Latest
  <2> QED
    BY <2>1, <2>2
<1>14. Told'
  <2>1. \A i \in DOMAIN toNode' : LastOn(toNode', "note", i) =>
          Sets(toNode'[i]) = process.producer
    <3>1. ~\E i : LastOn(toNode, "note", i)
      BY <1>9 DEF LastOn, NoneOn
    <3> QED
      BY <1>2, <1>5, <1>7, <3>1, Zenon
  <2>2. MadeRight(toNode', process.producer)
    BY <1>3, <1>11, Zenon DEF MadeRight
  <2>3. ~\E i \in DOMAIN immediates : TRUE
    BY <1>9
  <2> QED
    BY <1>4, <1>9, <2>1, <2>2, <2>3, Zenon DEF Told
<1>15. MadeOnce'
  BY <1>3, <1>4, <1>8, <1>9, <1>11, ZenonT(30) DEF MadeOnce
<1> QED
  BY Zenon, <1>12, <1>13, <1>14, <1>15 DEF PauseInv

\* pause() and resume() in the worker process.
OutMoved ==
  /\ toWorker' \in Seq(PauseRequest)
  /\ \A i \in DOMAIN toWorker' :
       i + 1 \in DOMAIN toWorker /\ i + 1 # 1 /\ toWorker'[i] = toWorker[i + 1]
       /\ OfConsumer(toWorker'[i])

LEMMA PausedKeeps ==
  ASSUME PauseInv, NEW m \in PauseRequest, NEW r \in PauseResponse, NEW n \in Note,
         NEW told \in BOOLEAN, Reply(toNode, toNode', r, told, n),
         r.op = m.op, r.on = m.on, m.op # "consume",
         Sets(r) = (m.op = "pause"), Sets(n) = (m.op = "pause"),
         told <=> /\ m.on = "producer" /\ process.exists
                  /\ process.producer # (m.op = "pause"),
         process' \in Flags, process'.exists = process.exists,
         \A x \in Things : process'[x] = IF m.on = x THEN m.op = "pause"
                                         ELSE process[x],
         OutMoved, lib' = lib, observed' = observed, left' = left,
         micro' = micro, immediates' = immediates
  PROVE  PauseInv'
<1>1. /\ toWorker' \in Seq(PauseRequest)
      /\ \A i \in DOMAIN toWorker' :
           i + 1 \in DOMAIN toWorker /\ i + 1 # 1 /\ toWorker'[i] = toWorker[i + 1]
           /\ OfConsumer(toWorker'[i])
  BY Zenon DEF OutMoved
<1>2. /\ PauseTyped /\ process \in Flags
      /\ toNode \in Seq(PauseResponse \cup Note)
      /\ left \in 0..Len(toNode) /\ m.on \in Things
  BY Zenon DEF PauseInv, PauseTyped, PauseRequest
<1>3. /\ Sets(r) = (m.op = "pause") /\ OfConsumer(r)
  BY Zenon DEF OfConsumer
<1>4. /\ process' \in Flags /\ process'.exists = process.exists
      /\ \A x \in Things : process'[x] = IF m.on = x THEN m.op = "pause"
                                         ELSE process[x]
  OBVIOUS
<1>5. /\ told <=> /\ m.on = "producer" /\ process.exists
                  /\ process.producer # (m.op = "pause")
      /\ Sets(n) = (m.op = "pause")
  OBVIOUS
<1>6. /\ toNode' \in Seq(PauseResponse \cup Note) /\ Len(toNode) \in Nat /\ Len(toNode') \in Nat
      /\ Len(toNode') > Len(toNode)
      /\ \A i \in DOMAIN toNode :
           i \in DOMAIN toNode' /\ i <= Len(toNode) /\ toNode'[i] = toNode[i]
      /\ \A j \in DOMAIN toNode' : \/ j \in DOMAIN toNode
                                   \/ j > Len(toNode) /\ toNode'[j] = r
                                   \/ j > Len(toNode) /\ told /\ toNode'[j] = n
      /\ \A x \in Things : On(r, x) =>
           ~NoneOn(toNode', x) /\ \A i : LastOn(toNode', x, i) => toNode'[i] = r
      /\ \A x \in Things : ~On(r, x) =>
           /\ NoneOn(toNode', x) => NoneOn(toNode, x)
           /\ \A i : LastOn(toNode', x, i) => LastOn(toNode, x, i) /\ toNode'[i] = toNode[i]
      /\ told => /\ ~NoneOn(toNode', "note")
                 /\ \A i : LastOn(toNode', "note", i) => toNode'[i] = n
      /\ ~told => /\ NoneOn(toNode', "note") => NoneOn(toNode, "note")
                  /\ \A i : LastOn(toNode', "note", i) =>
                       LastOn(toNode, "note", i) /\ toNode'[i] = toNode[i]
  BY ZenonT(60) DEF Reply
<1>7. /\ ~On(r, "note") /\ (\A x : On(r, x) <=> m.on = x) /\ r.op # "consume"
      /\ n.op # "consume" /\ OfConsumer(n)
  BY ZenonT(30), <1>3, <1>5, OnWhat DEF OfConsumer
<1>8. /\ \A s, x, i : LastOn(s, x, i) => i \in DOMAIN s
  BY DEF LastOn
<1>9. PauseTyped'
  <2>1. \A i \in DOMAIN toNode' : OfConsumer(toNode'[i])
    BY <1>2, <1>3, <1>6, <1>7, ZenonT(60) DEF PauseTyped
  <2>2. left' \in 0..Len(toNode')
    BY <1>2, <1>6
  <2>3. /\ lib' \in Flags /\ observed' \in [Things -> {"pause", "resume"}]
        /\ micro' \in Seq(PauseResponse) /\ immediates' \in Seq(Note)
        /\ \A i \in DOMAIN micro' : OfConsumer(micro'[i])
    BY Zenon, <1>2 DEF PauseTyped
  <2> QED
    BY <1>1, <1>4, <1>6, <2>1, <2>2, <2>3, Zenon DEF PauseTyped
<1>10. Latest'
  <2> SUFFICES ASSUME NEW x \in Things
               PROVE  /\ \A i \in DOMAIN toNode' :
                           LastOn(toNode', x, i) => Sets(toNode'[i]) = process'[x]
                      /\ NoneOn(toNode', x) =>
                           /\ \A i \in DOMAIN micro :
                                LastOn(micro, x, i) =>
                                  Sets(micro[i]) = process'[x]
                           /\ NoneOn(micro, x) => lib[x] = process'[x]
    BY DEF Latest
  <2>1. CASE m.on = x
    <3>1. ~NoneOn(toNode', x) /\ \A i : LastOn(toNode', x, i) => toNode'[i] = r
      BY <1>6, <1>7, <2>1, ZenonT(60)
    <3>2. process'[x] = Sets(r)
      BY <1>3, <1>4, <2>1, Zenon
    <3> QED
      BY <3>1, <3>2, Zenon
  <2>2. CASE m.on # x
    <3>1. process'[x] = process[x] /\ ~On(r, x)
      BY <1>4, <1>7, <2>2, Zenon
    <3>2. /\ NoneOn(toNode', x) => NoneOn(toNode, x)
          /\ \A i : LastOn(toNode', x, i) => LastOn(toNode, x, i) /\ toNode'[i] = toNode[i]
      BY <1>6, <3>1, Zenon
    <3> QED
      BY <1>8, <3>1, <3>2, ZenonT(30) DEF PauseInv, Latest
  <2> QED
    BY ZenonT(60), <2>1, <2>2
<1>11. \A i \in DOMAIN toNode' : toNode'[i].op = "consume" =>
         i \in DOMAIN toNode /\ toNode'[i] = toNode[i]
  BY <1>6, <1>7, ZenonT(60)
<1>12. \A i \in DOMAIN toNode : i \in DOMAIN toNode' /\ toNode'[i] = toNode[i]
  BY <1>6, Zenon
<1>13. Told'
  <2>1. "producer" \in Things
    BY ThingsAre
  <2>5. told => \A i \in DOMAIN toNode :
          \E j \in DOMAIN toNode' : j > i /\ On(toNode'[j], "note")
    BY ZenonT(30) DEF Reply
  <2>2. CASE told
    <3>1. process'.producer = Sets(n)
      BY <1>4, <1>5, <2>1, <2>2, Zenon
    <3>2. MadeRight(toNode', process'.producer)
      BY <1>11, <2>2, <2>5, Zenon DEF MadeRight
    <3> QED
      BY <1>6, <2>2, <3>1, <3>2, ZenonT(60) DEF Told
  <2>3. CASE ~told /\ ~process.exists
    <3>1. /\ ~lib.exists /\ immediates = <<>> /\ NoneOn(toNode, "note")
          /\ \A i \in DOMAIN toNode : toNode[i].op # "consume"
          /\ \A i \in DOMAIN micro : micro[i].op # "consume"
      BY <2>3 DEF PauseInv, MadeOnce
    <3>2. ~\E i : LastOn(toNode', "note", i)
      BY <1>6, <2>3, <3>1, ZenonT(30) DEF LastOn, NoneOn
    <3>3. \A i \in DOMAIN toNode' : toNode'[i].op # "consume"
      BY <1>11, <3>1, ZenonT(60)
    <3>4. ~\E i \in DOMAIN immediates : TRUE
      BY <3>1, SMTT(30)
    <3> QED
      BY <3>1, <3>2, <3>3, <3>4, ZenonT(60) DEF Told, MadeRight
  <2>4. CASE ~told /\ process.exists
    <3>1. process'.producer = process.producer
      BY Zenon, <1>2, <1>4, <1>5, <2>1, <2>4 DEF Flags
    <3>2. /\ NoneOn(toNode', "note") => NoneOn(toNode, "note")
          /\ \A i : LastOn(toNode', "note", i) =>
               LastOn(toNode, "note", i) /\ toNode'[i] = toNode[i]
      BY <1>6, <2>4, Zenon
    <3>3. MadeRight(toNode', process'.producer)
      BY <1>11, <1>12, <3>1, Zenon DEF PauseInv, Told, MadeRight
    <3> QED
      BY Zenon, <1>8, <1>11, <3>1, <3>2, <3>3 DEF PauseInv, Told
  <2> QED
    BY Zenon, <2>2, <2>3, <2>4
<1>14. MadeOnce'
  <2>1. \A i \in DOMAIN toNode' : toNode'[i].op = "consume" =>
          /\ process.exists /\ ~lib.exists
          /\ \A j \in DOMAIN toNode' : toNode'[j].op = "consume" => j = i
          /\ \A j \in DOMAIN micro : micro[j].op # "consume"
    BY <1>11 DEF PauseInv, MadeOnce
  <2>3. \A i \in DOMAIN toWorker' : toWorker'[i].op = "consume" =>
          /\ ~process.exists
          /\ \A j \in DOMAIN toWorker' : toWorker'[j].op = "consume" => j = i
    <3>1. \A i, j \in DOMAIN toWorker' : i + 1 = j + 1 => i = j
      BY <1>1
    <3> QED
      BY <1>1, <3>1 DEF PauseInv, MadeOnce
  <2>4. process.exists =>
          \/ lib.exists
          \/ \E i \in DOMAIN toNode' : toNode'[i].op = "consume"
          \/ \E i \in DOMAIN micro : micro[i].op = "consume"
    BY <1>12, ZenonT(30) DEF PauseInv, MadeOnce
  <2>5. immediates # <<>> \/ ~NoneOn(toNode', "note") => process.exists
    <3>1. CASE told
      BY <1>5, <3>1, Zenon
    <3>2. CASE ~told
      <4>1. NoneOn(toNode, "note") => NoneOn(toNode', "note")
        BY <1>6, <1>7, <3>2, ZenonT(60) DEF NoneOn
      <4> QED
        BY <4>1 DEF PauseInv, MadeOnce
    <3> QED
      BY <3>1, <3>2, SMTT(30)
  <2>6. \A i \in DOMAIN micro : micro[i].op = "consume" =>
          /\ process.exists /\ ~lib.exists
          /\ \A j \in DOMAIN micro : micro[j].op = "consume" => j = i
    BY Zenon DEF PauseInv, MadeOnce
  <2>7. lib.exists => process.exists
    BY DEF PauseInv, MadeOnce
  <2> QED
    BY <1>4, <2>1, <2>3, <2>4, <2>5, <2>6, <2>7, ZenonT(30) DEF MadeOnce
<1> QED
  BY <1>9, <1>10, <1>13, <1>14, Zenon DEF PauseInv

LEMMA WorkerPauses ==
  ASSUME PauseInv, toWorker # <<>>, toWorker' = Tail(toWorker),
         NEW m, m = toWorker[1], m.op \in {"pause", "resume"},
         process' = [process EXCEPT ![m.on] = (m.op = "pause")],
         toNode' = toNode \o (IF m.on = "producer" THEN Notice(m.op = "pause") ELSE <<>>)
                          \o <<Response(m)>>,
         UNCHANGED <<lib, observed, left, micro, immediates>>
  PROVE  PauseInv'
<1> DEFINE r == Response(m)
<1>1. m \in PauseRequest /\ OutMoved /\ PauseTyped
  BY Zenon, OutShifts DEF PauseInv, OutMoved
<1>2. /\ process \in Flags /\ toNode \in Seq(PauseResponse \cup Note) /\ m.on \in Things
  BY <1>1, Zenon DEF PauseTyped, PauseRequest
<1>3. /\ r \in PauseResponse /\ r.op = m.op /\ r.on = m.on
      /\ Sets(r) = (m.op = "pause")
  BY <1>1, <1>2, SMTT(30) DEF Response, PauseRequest, PauseResponse, Accepted, Flags, Sets
<1>4. /\ process' \in Flags /\ process'.exists = process.exists
      /\ \A x \in Things : process'[x] = IF m.on = x THEN m.op = "pause"
                                         ELSE process[x]
  BY <1>2, ThingsAre, Zenon DEF Flags
<1>5. Wrote(m)
  BY <1>1, WorkerWrites, Zenon
<1>6. m.op # "consume" /\ lib' = lib /\ observed' = observed /\ left' = left
      /\ micro' = micro /\ immediates' = immediates
  OBVIOUS
<1>7. PICK told \in BOOLEAN, n \in Note :
        /\ told <=> /\ m.on = "producer" /\ process.exists
                    /\ process.producer # (m.op = "pause")
        /\ Sets(n) = (m.op = "pause")
        /\ toNode' = IF told THEN Append(Append(toNode, n), r) ELSE Append(toNode, r)
  BY <1>5, Zenon DEF Wrote
<1> HIDE DEF r
<1>8. Reply(toNode, toNode', r, told, n)
  BY <1>2, <1>3, <1>7, Replied, ZenonT(60)
<1> QED
  BY <1>1, <1>3, <1>4, <1>6, <1>7, <1>8, PausedKeeps, ZenonT(60)

\* A refused request leaves everything but the queues.
LEMMA WorkerRefuses ==
  ASSUME PauseInv, OutMoved, toNode' = Append(toNode, Refusal),
         UNCHANGED <<process, lib, observed, left, micro, immediates>>
  PROVE  PauseInv'
<1> DEFINE r == Refusal
           n == [op |-> "producerpause"]
<1>1. r \in PauseResponse /\ r.op # "consume" /\ OfConsumer(r) /\ \A x \in Things : ~On(r, x)
  BY ThingsAre DEF PauseResponse, Refusal, OfConsumer, On
<1>2. n \in Note /\ toNode \in Seq(PauseResponse \cup Note) /\ left \in 0..Len(toNode)
  BY DEF Note, PauseInv, PauseTyped
<1> HIDE DEF r, n
<1>3. Reply(toNode, toNode', r, FALSE, n)
  <2>1. toNode' = IF FALSE THEN Append(Append(toNode, n), r) ELSE Append(toNode, r)
    BY Zenon DEF r
  <2> QED
    BY <1>1, <1>2, <2>1, Replied, Zenon
<1>4. /\ toNode' \in Seq(PauseResponse \cup Note) /\ Len(toNode) \in Nat /\ Len(toNode') \in Nat
      /\ Len(toNode') > Len(toNode)
      /\ \A i \in DOMAIN toNode : i \in DOMAIN toNode' /\ toNode'[i] = toNode[i]
      /\ \A j \in DOMAIN toNode' : j \in DOMAIN toNode \/ toNode'[j] = r
      /\ \A x \in Things \cup {"note"} :
           /\ NoneOn(toNode', x) => NoneOn(toNode, x)
           /\ \A i : LastOn(toNode', x, i) => LastOn(toNode, x, i) /\ toNode'[i] = toNode[i]
  BY <1>1, <1>3, ZenonT(30) DEF Reply
<1>5. \A s, x, i : LastOn(s, x, i) => i \in DOMAIN s
  BY DEF LastOn
<1>6. \A i \in DOMAIN toNode' : toNode'[i].op = "consume" =>
        i \in DOMAIN toNode /\ toNode'[i] = toNode[i]
  BY <1>1, <1>4, Zenon
<1>7. PauseTyped'
  <2>1. \A i \in DOMAIN toNode' : OfConsumer(toNode'[i])
    BY <1>1, <1>4, Zenon DEF PauseInv, PauseTyped
  <2>2. left' \in 0..Len(toNode')
    BY <1>2, <1>4
  <2> QED
    BY <1>4, <2>1, <2>2, Zenon DEF PauseInv, PauseTyped, OutMoved
<1>8. Latest'
  BY <1>4, <1>5, Zenon DEF PauseInv, Latest
<1>9. Told'
  <2>1. MadeRight(toNode', process.producer)
    BY <1>4, <1>6, Zenon DEF PauseInv, Told, MadeRight
  <2> QED
    BY <1>4, <1>5, <2>1, Zenon DEF PauseInv, Told
<1>10. MadeOnce'
  <2>1. \A i \in DOMAIN toWorker' : toWorker'[i].op = "consume" =>
          /\ ~process.exists
          /\ \A j \in DOMAIN toWorker' : toWorker'[j].op = "consume" => j = i
    <3>1. \A i, j \in DOMAIN toWorker' : i + 1 = j + 1 => i = j
      BY DEF OutMoved
    <3> QED
      BY <3>1 DEF PauseInv, MadeOnce, OutMoved
  <2>2. NoneOn(toNode, "note") => NoneOn(toNode', "note")
    <3>1. ~On(r, "note")
      BY <1>1, OnWhat, Zenon
    <3> QED
      BY <1>4, <3>1, Zenon DEF NoneOn
  <2>3. \A i \in DOMAIN toNode' : toNode'[i].op = "consume" =>
          /\ process.exists /\ ~lib.exists
          /\ \A j \in DOMAIN toNode' : toNode'[j].op = "consume" => j = i
          /\ \A j \in DOMAIN micro : micro[j].op # "consume"
    BY <1>6, ZenonT(60) DEF PauseInv, MadeOnce
  <2>4. process.exists =>
          \/ lib.exists
          \/ \E i \in DOMAIN toNode' : toNode'[i].op = "consume"
          \/ \E i \in DOMAIN micro : micro[i].op = "consume"
    BY <1>4, ZenonT(30) DEF PauseInv, MadeOnce
  <2>5. immediates # <<>> \/ ~NoneOn(toNode', "note") => process.exists
    BY <2>2, Zenon DEF PauseInv, MadeOnce
  <2>6. /\ lib.exists => process.exists
        /\ \A i \in DOMAIN micro : micro[i].op = "consume" =>
             /\ process.exists /\ ~lib.exists
             /\ \A j \in DOMAIN micro : micro[j].op = "consume" => j = i
    BY Zenon DEF PauseInv, MadeOnce
  <2> QED
    BY <2>1, <2>3, <2>4, <2>5, <2>6, ZenonT(30) DEF MadeOnce
<1> QED
  BY <1>7, <1>8, <1>9, <1>10, Zenon DEF PauseInv

LEMMA PauseWorkerSound ==
  ASSUME PauseInv, WorkerHandles
  PROVE  PauseInv'
<1>1. toWorker # <<>> /\ toWorker' = Tail(toWorker)
      /\ UNCHANGED <<lib, observed, left, micro, immediates>>
  BY DEF WorkerHandles
<1>2. PICK m : m = toWorker[1]
  OBVIOUS
<1>3. Head(toWorker) = m
  BY <1>1, <1>2, OutShifts DEF PauseInv
<1>4. CASE /\ m.op = "consume"
           /\ process' = [process EXCEPT !.exists = TRUE, !.consumer = m.was]
           /\ toNode' = toNode \o FirstNotice \o <<Response(m)>>
  BY <1>1, <1>2, <1>4, WorkerConsumes, Zenon
<1>5. CASE /\ m.op \in {"pause", "resume"}
           /\ process' = [process EXCEPT ![m.on] = (m.op = "pause")]
           /\ toNode' = toNode
                \o (IF m.on = "producer" THEN Notice(m.op = "pause") ELSE <<>>)
                \o <<Response(m)>>
  BY <1>1, <1>2, <1>5, WorkerPauses, Zenon
<1>6. CASE UNCHANGED process /\ toNode' = Append(toNode, Refusal)
  <2>1. OutMoved
    BY <1>1, OutShifts, Zenon DEF PauseInv, OutMoved
  <2> QED
    BY <1>1, <1>6, <2>1, WorkerRefuses, Zenon
<1> QED
  BY Zenon, <1>3, <1>4, <1>5, <1>6 DEF WorkerHandles

LEMMA PauseRests ==
  ASSUME PauseInv, UNCHANGED vars
  PROVE  PauseInv'
<1>1. /\ lib' = lib /\ observed' = observed /\ toWorker' = toWorker
      /\ process' = process /\ toNode' = toNode /\ left' = left
      /\ micro' = micro /\ immediates' = immediates
  BY DEF vars
<1>2. PauseTyped'
  BY <1>1, Zenon DEF PauseInv, PauseTyped
<1>3. Latest' /\ Told'
  BY <1>1, Zenon DEF PauseInv, Latest, Told
<1>4. MadeOnce'
  BY <1>1 DEF PauseInv, MadeOnce
<1> QED
  BY Zenon, <1>2, <1>3, <1>4 DEF PauseInv

LEMMA PauseStep ==
  ASSUME PauseInv, Next \/ UNCHANGED vars
  PROVE  PauseInv'
<1>1. CASE (\E x \in Things : Pause(x) \/ Resume(x)) \/ Consume
  BY <1>1, ApplicationSound, Zenon
<1>2. CASE Read \/ Continue
  BY <1>2, PauseReadSound, PauseContinueSound, Zenon
<1>3. CASE Notify \/ WorkerHandles
  BY <1>3, PauseNotifySound, PauseWorkerSound, Zenon
<1>4. CASE UNCHANGED vars
  BY <1>4, PauseRests, Zenon
<1> QED
  BY <1>1, <1>2, <1>3, <1>4, Zenon DEF Next

LEMMA PauseInvImplies == PauseInv => FlagsAgree
<1> SUFFICES ASSUME PauseInv, Quiet
             PROVE  /\ \A x \in Things : lib[x] = process[x]
                    /\ lib.exists => lib.producerPaused = lib.producer
  BY DEF FlagsAgree
<1>1. toNode = <<>> /\ micro = <<>> /\ immediates = <<>>
  BY DEF Quiet
<1>2. \A x : NoneOn(toNode, x) /\ NoneOn(micro, x)
  BY <1>1, SMTT(30) DEF NoneOn
<1>3. \A x \in Things : lib[x] = process[x]
  BY Zenon, <1>2 DEF PauseInv, Latest
<1>4. lib.exists => lib.producerPaused = process.producer
  BY <1>1, <1>2 DEF PauseInv, Told
<1> QED
  BY Zenon, <1>3, <1>4, ThingsAre

\* When nothing is on its way the library's flags are those of the worker process, and
\* a Consumer knows whether its Producer is paused, for any number of overlapping calls,
\* each accepted or refused (pause(), resume(), consume() and the notifications
\* 'producerpause' and 'producerresume').
THEOREM FlagsDoAgree == Spec => []FlagsAgree
<1>1. Init => PauseInv
  BY Zenon, PauseInitially DEF Init
<1>2. PauseInv /\ [Next]_vars => PauseInv'
  BY Zenon, PauseStep DEF vars
<1> QED
  BY <1>1, <1>2, PauseInvImplies, PTL DEF Spec

-----------------------------------------------------------------------------
(* The last event of the Consumer's observer.                              *)

NonePause(s) == \A i \in DOMAIN s : ~OfPause(s[i])

\* A call of the Consumer's on its way is alone.
LEMMA Alone ==
  ASSUME PauseTyped, EventInv, ~overlapped
  PROVE  /\ toWorker # <<>> => NonePause(toNode) /\ NonePause(micro)
         /\ toNode # <<>> => NonePause(toWorker) /\ NonePause(micro)
         /\ micro # <<>> => NonePause(toWorker) /\ NonePause(toNode)
         /\ immediates # <<>> =>
              NonePause(toWorker) /\ NonePause(toNode) /\ NonePause(micro)
  BY Zenon DEF EventInv, NonePause

\* A call when nothing is on its way.
LEMMA EventCalled ==
  ASSUME PauseInv, EventInv, NEW op \in {"pause", "resume", "consume"}, NEW x \in Things,
         NEW arg, Call(op, x, arg),
         op # "consume" => arg = WasPaused(x)
  PROVE  EventInv'
<1> SUFFICES ASSUME ~overlapped' PROVE EventInv'
  BY DEF EventInv
<1> DEFINE m == [op |-> op, on |-> x, was |-> arg]
<1>1. /\ toWorker = <<>> /\ toNode = <<>> /\ micro = <<>> /\ immediates = <<>>
      /\ ~overlapped
  BY ZenonT(60) DEF Call, Quiet
<1>2. /\ lib' = lib /\ observed' = observed /\ toNode' = <<>> /\ micro' = <<>>
      /\ immediates' = <<>> /\ toWorker' = Append(<<>>, m)
  BY ZenonT(60), <1>1 DEF Call
<1>3. Len(toWorker') = 1 /\ DOMAIN toWorker' = {1} /\ toWorker'[1] = m
  BY <1>2
<1>4. WasPaused("consumer")' = WasPaused("consumer")
  BY Zenon, <1>2 DEF WasPaused
<1>5. lib.exists => EventRight
  BY Zenon, <1>1 DEF EventInv
<1>6. lib'.exists => EventRight'
  BY Zenon, <1>2, <1>4, <1>5 DEF EventRight
<1>7. OfPause(m) => m.was = WasPaused("consumer")
  BY DEF OfPause
<1> HIDE DEF m
<1>8. NonePause(toNode') /\ NonePause(micro')
  BY <1>2 DEF NonePause
<1> QED
  BY <1>2, <1>3, <1>4, <1>6, <1>7, <1>8, Zenon DEF EventInv, NonePause

LEMMA EventRead ==
  ASSUME PauseInv, EventInv, Read
  PROVE  EventInv'
<1> SUFFICES ASSUME ~overlapped' PROVE EventInv'
  BY Zenon DEF EventInv
<1>1. toNode # <<>>
  BY DEF PauseInv, PauseTyped, Read, NextCallback
<1>2. /\ ~overlapped /\ lib' = lib /\ observed' = observed /\ toWorker' = toWorker
      /\ toNode' = Tail(toNode)
  BY Zenon DEF Read
<1>3. /\ WasPaused("consumer")' = WasPaused("consumer")
      /\ EventRight' = EventRight
  BY Zenon, <1>2 DEF WasPaused, EventRight
<1>4. NonePause(toWorker) /\ NonePause(micro)
  BY Zenon, <1>1, <1>2, Alone DEF PauseInv
<1>5. /\ Head(toNode) = toNode[1] /\ Len(toNode') = Len(toNode) - 1
      /\ \A i \in DOMAIN toNode' : i + 1 \in DOMAIN toNode /\ toNode'[i] = toNode[i + 1]
      /\ 1 \in DOMAIN toNode /\ Len(toNode) \in Nat \ {0}
      /\ toNode[1] \in PauseResponse \cup Note /\ DOMAIN toNode = 1..Len(toNode)
  <2>1. /\ Head(toNode) = toNode[1] /\ Len(toNode') = Len(toNode) - 1
        /\ DOMAIN toNode' = 1..(Len(toNode) - 1) /\ DOMAIN toNode = 1..Len(toNode)
        /\ \A i \in 1..(Len(toNode) - 1) : toNode'[i] = toNode[i + 1]
        /\ Len(toNode) \in Nat \ {0} /\ toNode[1] \in PauseResponse \cup Note
    BY <1>1, <1>2, Shorter, Zenon DEF PauseInv, PauseTyped
  <2> QED
    BY <2>1
<1>6. CASE OfPause(toNode[1])
  <2>1. /\ toWorker = <<>> /\ Len(toNode) = 1 /\ micro = <<>> /\ immediates = <<>>
        /\ toNode[1].was = WasPaused("consumer")
    BY Zenon, <1>2, <1>5, <1>6 DEF EventInv
  <2>2. ~IsNote(toNode[1])
    BY Zenon, <1>6 DEF OfPause, IsNote
  <2>3. micro' = Append(<<>>, toNode[1]) /\ immediates' = <<>>
    BY <1>5, <2>1, <2>2, Zenon DEF Read
  <2>4. toNode' \in Seq(PauseResponse \cup Note) /\ Len(toNode') = 0
    BY <1>1, <1>2, <1>5, <2>1 DEF PauseInv, PauseTyped
  <2>5. toNode' = <<>>
    BY <2>4
  <2>6. Len(micro') = 1 /\ DOMAIN micro' = {1} /\ micro'[1] = toNode[1]
    BY <2>3
  <2>7. NonePause(toNode')
    BY <2>5 DEF NonePause
  <2> QED
    BY <1>2, <1>3, <1>4, <2>1, <2>3, <2>5, <2>6, <2>7, Zenon DEF EventInv,
       NonePause
<1>7. CASE ~OfPause(toNode[1])
  <2>1. NonePause(toNode)
    BY <1>2, <1>5, <1>7, SMTT(30) DEF EventInv, NonePause
  <2>2. NonePause(toNode')
    BY <1>5, <2>1, Zenon DEF NonePause
  <2>3. NonePause(micro')
    <3>1. CASE micro' = micro
      BY <1>4, <3>1, Zenon
    <3>2. CASE ~IsNote(toNode[1]) /\ micro' = Append(micro, toNode[1])
      <4>1. toNode[1] \in PauseResponse /\ micro \in Seq(PauseResponse)
        BY <1>5, <3>2, OnWhat, Zenon DEF PauseInv, PauseTyped
      <4>2. /\ Len(micro) \in Nat
            /\ DOMAIN micro = 1..Len(micro)
            /\ DOMAIN micro' = 1..(Len(micro) + 1)
            /\ \A i \in 1..Len(micro) : micro'[i] = micro[i]
            /\ micro'[Len(micro) + 1] = toNode[1]
        BY <3>2, <4>1, Longer, SMTT(30)
      <4> QED
        BY <1>4, <1>7, <4>2, SMTT(30) DEF NonePause
    <3> QED
      BY Zenon, <1>5, <3>1, <3>2 DEF Read
  <2> QED
    BY <1>2, <1>3, <1>4, <2>2, <2>3, Zenon DEF EventInv, NonePause
<1> QED
  BY <1>6, <1>7, Zenon

\* Nothing of the Consumer's is on its way: only the event is left to show.
LEMMA NothingOfPause ==
  ASSUME NonePause(toWorker)', NonePause(toNode)', NonePause(micro)',
         (lib.exists => EventRight)'
  PROVE  EventInv'
  BY SMTT(30) DEF EventInv, NonePause

\* The event after a continuation.
LEMMA EventContinues ==
  ASSUME PauseTyped, lib.exists => EventRight, NEW m \in PauseResponse, OfConsumer(m),
         OfPause(m) => m.was = WasPaused("consumer"),
         Continued(m, lib', observed'),
         lib'.exists
  PROVE  EventRight'
<1>1. /\ m.op \in {"pause", "resume", "consume"} \/ (m.op = "refused" /\ m.on # "consumer")
      /\ m.was \in BOOLEAN /\ m.producer \in BOOLEAN
      /\ lib.consumer \in BOOLEAN /\ lib.producerPaused \in BOOLEAN
  <2>1. lib.consumer \in BOOLEAN /\ lib.producerPaused \in BOOLEAN
    BY DEF PauseTyped, Flags
  <2>2. CASE m \in Accepted
    BY <2>1, <2>2 DEF Accepted
  <2>3. CASE m = Refusal
    BY <2>1, <2>3 DEF Refusal
  <2> QED
    BY <2>2, <2>3, Zenon DEF PauseResponse
<1>2. SUFFICES observed'["consumer"] = Event(lib'.consumer \/ lib'.producerPaused)
  BY DEF EventRight, WasPaused, Event
<1>3. /\ lib'.consumer = IF m.on = "consumer" THEN Sets(m) ELSE lib.consumer
      /\ lib'.exists = (lib.exists \/ m.op = "consume")
      /\ lib'.producerPaused = IF m.op = "consume" THEN m.producer ELSE lib.producerPaused
      /\ observed'["consumer"] = IF m.op = "consume" THEN Event(m.was \/ m.producer)
                                 ELSE IF m.on = "consumer" THEN Emitted(m)
                                 ELSE observed["consumer"]
  <2>1. "consumer" \in Things
    BY Zenon, ThingsAre
  <2> QED
    BY <2>1, Zenon DEF Continued
<1>4. CASE m.op = "consume"
  BY Zenon, <1>1, <1>3, <1>4 DEF OfConsumer, Sets, Event
<1>5. CASE m.op # "consume"
  <2>1. observed["consumer"] = Event(lib.consumer \/ lib.producerPaused)
    BY <1>3, <1>5, Zenon DEF EventRight, WasPaused, Event
  <2>2. CASE m.on # "consumer"
    BY Zenon, <1>3, <1>5, <2>1, <2>2
  <2>3. CASE m.on = "consumer"
    <3>1. m.was <=> lib.consumer \/ lib.producerPaused
      BY <1>1, <1>5, <2>3, ZenonT(60) DEF OfPause, WasPaused
    <3>2. /\ observed'["consumer"] = Emitted(m) /\ lib'.producerPaused = lib.producerPaused
          /\ lib'.consumer = (m.op = "pause")
      BY <1>1, <1>3, <1>5, <2>3, SMTT(30) DEF Sets
    <3>3. CASE m.op = "pause"
      <4>1. Emitted(m) = IF m.was THEN observed["consumer"] ELSE "pause"
        BY <2>3, <3>3, Zenon DEF Emitted
      <4>2. lib'.consumer
        BY <3>2, <3>3, Zenon
      <4> QED
        BY Zenon, <1>1, <2>1, <3>1, <3>2, <4>1, <4>2 DEF Event
    <3>4. CASE m.op = "resume"
      <4>1. Emitted(m) = IF m.was /\ ~lib.producerPaused THEN "resume" ELSE observed["consumer"]
        BY <2>3, <3>4 DEF Emitted
      <4>2. ~lib'.consumer
        BY <3>2, <3>4, Zenon
      <4> QED
        BY Zenon, <1>1, <2>1, <3>1, <3>2, <4>1, <4>2 DEF Event
    <3> QED
      BY Zenon, <1>1, <1>5, <2>3, <3>3, <3>4
  <2> QED
    BY <2>2, <2>3, Zenon
<1> QED
  BY <1>4, <1>5, Zenon

LEMMA EventContinue ==
  ASSUME PauseInv, EventInv, Continue
  PROVE  EventInv'
<1> SUFFICES ASSUME ~overlapped' PROVE EventInv'
  BY DEF EventInv
<1> DEFINE m == micro[1]
<1>1. /\ ~overlapped /\ micro # <<>> /\ micro' = Tail(micro)
      /\ toWorker' = toWorker /\ toNode' = toNode
  BY Zenon DEF Continue
<1>2. /\ Head(micro) = m /\ m \in PauseResponse /\ 1 \in DOMAIN micro /\ OfConsumer(m)
      /\ Len(micro') = Len(micro) - 1
      /\ \A i \in DOMAIN micro' :
           i + 1 \in DOMAIN micro /\ i + 1 # 1 /\ micro'[i] = micro[i + 1]
  BY <1>1, MicroShifts, Zenon DEF PauseInv
<1>3. /\ PauseTyped /\ "consumer" \in Things /\ DOMAIN micro = 1..Len(micro)
      /\ Len(micro) \in Nat
  BY ThingsAre DEF PauseInv, PauseTyped
<1>4. NonePause(toWorker) /\ NonePause(toNode)
  BY Zenon, <1>1, <1>3, Alone
<1>5. \A i \in DOMAIN micro : OfPause(micro[i]) => i = 1
  BY <1>1, <1>3 DEF EventInv
<1>6. NonePause(micro')
  BY Zenon, <1>2, <1>5 DEF NonePause
<1>7. OfPause(m) => m.was = WasPaused("consumer")
  BY Zenon, <1>1, <1>2 DEF EventInv
<1>8. lib.exists => EventRight
  BY <1>1 DEF EventInv
<1> HIDE DEF m
<1>9. PICK s : s = Continuation(Now, m)
  OBVIOUS
<1>10. lib' = s.lib /\ observed' = s.observed
  BY <1>2, <1>9, ZenonT(60) DEF Continue
<1>11. Continued(m, s.lib, s.observed)
  BY <1>2, <1>3, <1>9, ContinuationDoes, Zenon
<1>12. Continued(m, lib', observed')
  BY <1>10, <1>11, Zenon
<1>13. lib'.exists => EventRight'
  BY <1>2, <1>3, <1>7, <1>8, <1>12, EventContinues, Zenon
<1> QED
  BY <1>1, <1>4, <1>6, <1>13, NothingOfPause, Zenon DEF NonePause

LEMMA EventNotify ==
  ASSUME PauseInv, EventInv, Notify
  PROVE  EventInv'
<1> SUFFICES ASSUME ~overlapped' PROVE EventInv'
  BY DEF EventInv
<1> DEFINE v == Sets(immediates[1])
<1>1. /\ immediates # <<>> /\ ~overlapped
      /\ toWorker' = toWorker /\ toNode' = toNode /\ micro' = micro
      /\ lib' \in Flags /\ (\A x \in Things : lib'[x] = lib[x]) /\ lib'.exists = lib.exists
      /\ lib.exists =>
           /\ lib'.producerPaused = v
           /\ observed'["consumer"] = IF lib.consumer \/ lib.producerPaused = v
                                      THEN observed["consumer"] ELSE Event(v)
  BY Notified, SMTT(30)
<1>2. /\ lib'.consumer = lib.consumer /\ lib.consumer \in BOOLEAN
      /\ lib.producerPaused \in BOOLEAN /\ (lib.exists => v \in BOOLEAN)
  BY <1>1, ThingsAre, Zenon DEF PauseInv, PauseTyped, Flags
<1>3. NonePause(toWorker) /\ NonePause(toNode) /\ NonePause(micro)
  BY <1>1, Alone, Zenon DEF PauseInv
<1>4. lib.exists => observed["consumer"] = Event(lib.consumer \/ lib.producerPaused)
  BY Zenon, <1>1 DEF EventInv, EventRight, WasPaused, Event
<1> HIDE DEF v
<1>5. lib'.exists => observed'["consumer"] = Event(lib'.consumer \/ lib'.producerPaused)
  BY Zenon, <1>1, <1>2, <1>4 DEF Event
<1>6. lib'.exists => EventRight'
  BY <1>5 DEF EventRight, WasPaused, Event
<1> QED
  BY <1>1, <1>3, <1>6, NothingOfPause, Zenon DEF NonePause

\* What the worker process writes for any request.
LEMMA WorkerReplies ==
  ASSUME PauseTyped, WorkerHandles, NEW m \in PauseRequest, Head(toWorker) = m
  PROVE  \E r \in PauseResponse, told \in BOOLEAN, n \in Note :
           /\ Reply(toNode, toNode', r, told, n)
           /\ OfPause(m) => ~told
           /\ OfPause(r) => OfPause(m) /\ r.was = m.was
<1> DEFINE r == Response(m)
<1>1. r \in PauseResponse /\ r.op = m.op /\ r.on = m.on /\ r.was = m.was
  BY Zenon DEF Response, PauseRequest, PauseResponse, Accepted, PauseTyped, Flags
<1>2. toNode \in Seq(PauseResponse \cup Note) /\ process.producer \in BOOLEAN
  BY DEF PauseTyped, Flags
<1>3. OfPause(r) => OfPause(m) /\ r.was = m.was
  BY Zenon, <1>1 DEF OfPause
<1>4. CASE m.op = "consume" /\ toNode' = toNode \o FirstNotice \o <<Response(m)>>
  <2> DEFINE n == [op |-> "producerpause"]
             told == process.producer
             p == FirstNotice
  <2>1. n \in Note /\ toNode' = toNode \o p \o <<r>> /\ p = IF told THEN <<n>> ELSE <<>>
    BY Zenon, <1>4 DEF FirstNotice, Note
  <2>2. ~OfPause(m)
    BY Zenon, <1>4 DEF OfPause
  <2> HIDE DEF p, r, n
  <2>3. toNode' = IF told THEN Append(Append(toNode, n), r) ELSE Append(toNode, r)
    BY <1>1, <1>2, <2>1, Joined, Zenon
  <2>4. Reply(toNode, toNode', r, told, n)
    BY <1>1, <1>2, <2>1, <2>3, Replied, Zenon
  <2> QED
    BY <1>1, <1>2, <1>3, <2>1, <2>2, <2>4, Zenon
<1>5. CASE /\ m.op \in {"pause", "resume"}
           /\ toNode' = toNode
                \o (IF m.on = "producer" THEN Notice(m.op = "pause") ELSE <<>>)
                \o <<Response(m)>>
  <2>1. Wrote(m)
    BY <1>5, WorkerWrites, Zenon
  <2>2. PICK told \in BOOLEAN, n \in Note :
          /\ told => m.on = "producer"
          /\ toNode' = IF told THEN Append(Append(toNode, n), r) ELSE Append(toNode, r)
    BY <2>1, Zenon DEF Wrote
  <2>3. OfPause(m) => ~told
    BY <2>2 DEF OfPause
  <2> HIDE DEF r
  <2>4. Reply(toNode, toNode', r, told, n)
    BY <1>1, <1>2, <2>2, Replied, Zenon
  <2> QED
    BY <1>1, <1>3, <2>3, <2>4, Zenon
<1>6. CASE toNode' = Append(toNode, Refusal)
  <2> DEFINE n == [op |-> "producerpause"]
             f == Refusal
  <2>1. n \in Note /\ f \in PauseResponse /\ ~OfPause(f)
    BY DEF Note, PauseResponse, Refusal, OfPause
  <2>2. toNode' = IF FALSE THEN Append(Append(toNode, n), f) ELSE Append(toNode, f)
    BY Zenon, <1>6
  <2> HIDE DEF n, f
  <2>3. Reply(toNode, toNode', f, FALSE, n)
    BY <1>2, <2>1, <2>2, Replied, Zenon
  <2> QED
    BY <2>1, <2>3, Zenon
<1> QED
  BY Zenon, <1>4, <1>5, <1>6 DEF WorkerHandles

LEMMA EventWorker ==
  ASSUME PauseInv, EventInv, WorkerHandles
  PROVE  EventInv'
<1> SUFFICES ASSUME ~overlapped' PROVE EventInv'
  BY DEF EventInv
<1>1. /\ ~overlapped /\ toWorker # <<>> /\ toWorker' = Tail(toWorker) /\ lib' = lib
      /\ observed' = observed /\ micro' = micro /\ immediates' = immediates
  BY DEF WorkerHandles
<1>2. PICK m : m = toWorker[1]
  OBVIOUS
<1>3. /\ Head(toWorker) = m /\ m \in PauseRequest /\ 1 \in DOMAIN toWorker
      /\ toWorker' \in Seq(PauseRequest) /\ Len(toWorker') = Len(toWorker) - 1
      /\ \A i \in DOMAIN toWorker' :
           i + 1 \in DOMAIN toWorker /\ i + 1 # 1 /\ toWorker'[i] = toWorker[i + 1]
  BY Zenon, <1>1, <1>2, OutShifts DEF PauseInv
<1>4. /\ WasPaused("consumer")' = WasPaused("consumer")
      /\ EventRight' = EventRight
  BY <1>1, Zenon DEF WasPaused, EventRight
<1>5. /\ PauseTyped /\ toNode \in Seq(PauseResponse \cup Note) /\ process \in Flags
      /\ Len(toWorker) \in Nat /\ DOMAIN toWorker = 1..Len(toWorker)
  BY DEF PauseInv, PauseTyped
<1>6. NonePause(toNode) /\ NonePause(micro)
  BY Zenon, <1>1, <1>5, Alone
<1>7. \A i \in DOMAIN toWorker : OfPause(toWorker[i]) => i = 1
  BY <1>1, <1>5 DEF EventInv
<1>8. NonePause(toWorker')
  BY <1>3, <1>7, Zenon DEF NonePause
<1>9. PICK r \in PauseResponse, told \in BOOLEAN, n \in Note :
        /\ Reply(toNode, toNode', r, told, n)
        /\ OfPause(m) => ~told
        /\ OfPause(r) => OfPause(m) /\ r.was = m.was
  BY <1>3, <1>5, WorkerReplies, Zenon
<1>10. CASE OfPause(m)
  <2>1. /\ Len(toWorker) = 1 /\ toNode = <<>> /\ micro = <<>> /\ immediates = <<>>
        /\ m.was = WasPaused("consumer")
    BY Zenon, <1>1, <1>2, <1>3, <1>10 DEF EventInv
  <2>2. toWorker' = <<>>
    BY <1>3, <2>1
  <2>3. \A j \in DOMAIN toNode' : toNode'[j] = r /\ j = Len(toNode')
    BY <1>9, <1>10, <2>1, SMTT(30) DEF Reply
  <2>4. \A i \in DOMAIN toNode' : Len(toNode') = 1
    <3>1. Len(toNode') \in Nat /\ DOMAIN toNode' = 1..Len(toNode')
      BY <1>9 DEF Reply
    <3> QED
      BY <2>3, <3>1
  <2> QED
    BY <1>1, <1>4, <1>6, <1>8, <1>9, <2>1, <2>2, <2>3, <2>4, Zenon DEF EventInv,
       NonePause
<1>11. CASE ~OfPause(m)
  <2>1. \A j \in DOMAIN toNode' : \/ j \in DOMAIN toNode /\ toNode'[j] = toNode[j]
                                  \/ toNode'[j] = r
                                  \/ toNode'[j] = n
    BY <1>9, Zenon DEF Reply
  <2>2. NonePause(toNode')
    <3>1. ~OfPause(n)
      BY Zenon, OnWhat DEF OfPause
    <3> QED
      BY <1>6, <1>9, <1>11, <2>1, <3>1, ZenonT(60) DEF NonePause
  <2>3. lib.exists => EventRight
    BY <1>1 DEF EventInv
  <2> QED
    BY <1>1, <1>4, <1>6, <1>8, <2>2, <2>3, NothingOfPause, Zenon DEF
       NonePause
<1> QED
  BY Zenon, <1>10, <1>11

LEMMA EventStep ==
  ASSUME PauseInv, EventInv, Next \/ UNCHANGED vars
  PROVE  EventInv'
<1>1. ASSUME NEW x \in Things, Pause(x) \/ Resume(x)
      PROVE  EventInv'
  BY Zenon, <1>1, EventCalled DEF Pause, Resume
<1>2. CASE Consume
  <2>1. PICK paused \in BOOLEAN : Call("consume", "consumer", paused)
    BY <1>2 DEF Consume
  <2> QED
    BY Zenon, <2>1, EventCalled, ThingsAre
<1>3. CASE Read \/ Continue
  BY <1>3, EventRead, EventContinue, Zenon
<1>4. CASE Notify \/ WorkerHandles
  BY <1>4, EventNotify, EventWorker, ZenonT(60)
<1>5. CASE UNCHANGED vars
  <2>1. /\ lib' = lib /\ observed' = observed /\ toWorker' = toWorker /\ toNode' = toNode
        /\ micro' = micro /\ immediates' = immediates
        /\ overlapped' = overlapped
    BY Zenon, <1>5 DEF vars
  <2>2. /\ WasPaused("consumer")' = WasPaused("consumer")
        /\ EventRight' = EventRight
    BY Zenon, <2>1 DEF WasPaused, EventRight
  <2> QED
    BY Zenon, <2>1, <2>2 DEF EventInv
<1> QED
  BY <1>1, <1>2, <1>3, <1>4, <1>5, ZenonT(60) DEF Next

LEMMA EventInvImplies == EventInv => EventsAgree
  BY DEF EventInv, EventsAgree, EventRight, WasPaused, Event

\* As long as no call is made while another is on its way, the last event of a Consumer's
\* observer tells whether the Consumer is paused, by itself or by its Producer, for any
\* number of calls (pause(), resume(), consume() and the notifications of the Producer).
THEOREM EventsDoAgree == Spec => []EventsAgree
<1>1. Init => PauseInv /\ EventInv
  BY Zenon, PauseInitially DEF Init
<1>2. PauseInv /\ EventInv /\ [Next]_vars => PauseInv' /\ EventInv'
  BY PauseStep, EventStep DEF vars
<1> QED
  BY <1>1, <1>2, EventInvImplies, PTL DEF Spec

-----------------------------------------------------------------------------
(* The stream that is taken is free: the least of a set of numbers.        *)

LOCAL INSTANCE WellFoundedInduction

LEMMA Smallest ==
  ASSUME NEW T \in SUBSET Nat, T # {}
  PROVE  Sctp!Min(T) \in T
<1> DEFINE R == OpToRel(<, Nat)
<1>1. IsWellFoundedOn(R, Nat)
  BY Zenon, NatLessThanWellFounded
<1> HIDE DEF R
<1>2. PICK x \in T : \A y \in T : ~ (<<y, x>> \in R)
  BY <1>1, WFMin, Zenon
<1>3. \A y \in T : ~(y < x)
  BY <1>2, Zenon DEF R, OpToRel
<1>4. \A y \in T : x <= y
  BY <1>3
<1> QED
  BY <1>4, Zenon DEF Sctp!Min

\* getNextSctpStreamId() finds an id when there is one.
LEMMA NextIsFree ==
  ASSUME SctpTyped, ~(Sctp!StreamIds \subseteq used)
  PROVE  Sctp!NextSctpStreamId \in Sctp!StreamIds \ used
<1> DEFINE T == {k \in Sctp!StreamIds : (next + k) % MIS \notin used}
<1>1. MIS \in Nat \ {0} /\ next \in 0..MIS /\ Sctp!StreamIds = 0..(MIS - 1)
  BY DEF SctpTyped, Sctp!StreamIds
<1>2. PICK f \in Sctp!StreamIds : f \notin used
  OBVIOUS
<1>3. \A n \in 0..(2 * MIS - 1) : n % MIS = (IF n < MIS THEN n ELSE n - MIS)
  BY <1>1
<1>4. \A k \in 0..(MIS - 1) : next + k \in 0..(2 * MIS - 1)
  BY <1>1
<1>5. f % MIS = f /\ (f + MIS) % MIS = f
  <2>1. f \in 0..(2 * MIS - 1) /\ f < MIS
    BY <1>1, <1>2
  <2>2. \A n \in 0..(2 * MIS - 1) : n < MIS => n % MIS = n
    BY Zenon, <1>3
  <2>4. \A n \in 0..(2 * MIS - 1) : ~(n < MIS) => n % MIS = n - MIS
    BY <1>3
  <2>5. f % MIS = f
    BY <2>1, <2>2, Zenon
  <2>6. PICK g : g = f + MIS
    OBVIOUS
  <2>7. g \in 0..(2 * MIS - 1) /\ ~(g < MIS) /\ g - MIS = f
    BY <1>1, <1>2, <2>6
  <2>8. g % MIS = f
    BY <2>4, <2>7, Zenon
  <2> QED
    BY <2>5, <2>6, <2>8, Zenon
<1>6. \E k \in 0..(MIS - 1) : next + k = f \/ next + k = f + MIS
  <2>1. CASE f < next
    <3>1. f + MIS - next \in 0..(MIS - 1) /\ next + (f + MIS - next) = f + MIS
      BY <1>1, <1>2, <2>1
    <3> QED
      BY <3>1, Zenon
  <2>2. CASE ~(f < next)
    <3>1. f - next \in 0..(MIS - 1) /\ next + (f - next) = f
      BY <1>1, <1>2, <2>2
    <3> QED
      BY <3>1, Zenon
  <2> QED
    BY Zenon, <2>1, <2>2
<1>7. Sctp!Min(T) \in T
  <2>1. T # {}
    BY <1>1, <1>2, <1>5, <1>6, Zenon
  <2>2. T \in SUBSET Nat
    BY <1>1
  <2> QED
    BY <2>1, <2>2, Smallest, Zenon
<1>8. Sctp!NextSctpStreamId = (next + Sctp!Min(T)) % MIS
  BY DEF Sctp!NextSctpStreamId
<1>9. (next + Sctp!Min(T)) % MIS \in 0..(MIS - 1)
  <2>1. \A n \in 0..(2 * MIS - 1) : n % MIS \in 0..(MIS - 1)
    BY <1>1
  <2> QED
    BY <2>1, <1>1, <1>4, <1>7, Zenon
<1> QED
  BY Zenon, <1>1, <1>7, <1>8, <1>9

LEMMA ConsumeDataSound ==
  ASSUME SctpInv, NEW c \in DataConsumers, Sctp!ConsumeData(c)
  PROVE  SctpInv'
<1>1. CASE Sctp!StreamIds \subseteq used
  BY Zenon, <1>1, ConsumeDataFull DEF Sctp!ConsumeData
<1>2. CASE ~(Sctp!StreamIds \subseteq used)
  <2>1. Sctp!NextSctpStreamId \in Sctp!StreamIds /\ Sctp!NextSctpStreamId \notin used
    BY Zenon, <1>2, NextIsFree DEF SctpInv
  <2> QED
    BY Zenon, <1>2, <2>1, ConsumeDataTakes DEF Sctp!ConsumeData
<1> QED
  BY Zenon, <1>1, <1>2

LEMMA SctpStep ==
  ASSUME SctpInv, Sctp!Next \/ UNCHANGED Sctp!vars
  PROVE  SctpInv'
<1>1. ASSUME NEW c \in DataConsumers,
             Sctp!ConsumeData(c) \/ Sctp!CloseDataConsumer(c) \/ Sctp!WorkerDrops(c)
      PROVE  SctpInv'
  BY <1>1, ConsumeDataSound, CloseDataConsumerSound, WorkerDropsSound, Zenon
<1>2. CASE Sctp!Read \/ Sctp!Continue \/ Sctp!OnDataProducerClose \/ Sctp!WorkerHandles
  BY <1>2, SctpReadSound, SctpContinueSound, OnDataProducerCloseSound, SctpWorkerSound, ZenonT(60)
<1>3. CASE UNCHANGED Sctp!vars
  <2>1. /\ status' = status /\ streamId' = streamId /\ used' = used /\ next' = next
        /\ live' = live /\ sctpOut' = sctpOut /\ sctpIn' = sctpIn /\ sctpLeft' = sctpLeft
        /\ sctpMicro' = sctpMicro /\ sctpImmediates' = sctpImmediates
    BY Zenon, <1>3 DEF Sctp!vars
  <2>2. SctpTyped' /\ Begun' /\ LiveApart' /\ Answered'
    BY ZenonT(60), <2>1 DEF SctpInv, SctpTyped, Begun, LiveApart, Answered
  <2>3. Marked' /\ Asked' /\ Dropped'
    BY SMTT(30), <2>1 DEF SctpInv, Marked, Holders, Asked, Dropped
  <2>4. Behind'
    BY Zenon, <2>1 DEF SctpInv, Behind, CloseAhead
  <2> QED
    BY Zenon, <2>2, <2>3, <2>4 DEF SctpInv
<1> QED
  BY <1>1, <1>2, <1>3, Zenon DEF Sctp!Next
=============================================================================
