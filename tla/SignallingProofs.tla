-------------------------- MODULE SignallingProofs --------------------------
(***************************************************************************)
(* Proofs about Signalling for any connections, rooms, users and bounds:   *)
(* types, and the mutexes.  A goroutine holds a User's mutex only inside   *)
(* the handler that locked it, and never waits for a second one.           *)
(***************************************************************************)
EXTENDS Signalling, TLAPS

\* The empty set has no element to count.
LEMMA NoneInEmpty == Cardinality({}) = 0
<1> DEFINE Counts(f) == [T \in SUBSET {} |-> IF T = {} THEN 0 ELSE 1 + f[T \ {CHOOSE x : x \in T}]]
           count == CHOOSE f : f = Counts(f)
<1>1. [T \in SUBSET {} |-> 0] = Counts([T \in SUBSET {} |-> 0])
  OBVIOUS
<1>2. count = Counts(count)
  BY <1>1
<1>3. count[{}] = 0
  BY ZenonT(30), <1>2
<1> QED
  BY <1>3 DEF Cardinality

-----------------------------------------------------------------------------
(* The worker's tables keep their types *)

LEMMA StartedWorkerType == StartedWorker \in WorkerState
  BY DEF StartedWorker, WorkerState

LEMMA CreateRouterType ==
  ASSUME NEW w \in WorkerState, NEW r \in RoomId
  PROVE  CreateRouter(w, r) \in WorkerState
  BY DEF CreateRouter, Reply, WorkerState

LEMMA CreateObserverType ==
  ASSUME NEW w \in WorkerState, NEW r \in RoomId, NEW b \in Observer
  PROVE  CreateObserver(w, r, b) \in WorkerState
  BY DEF CreateObserver, Reply, WorkerState

LEMMA CreateTransportType ==
  ASSUME NEW w \in WorkerState, NEW r \in RoomId, NEW t \in Transport
  PROVE  CreateTransport(w, r, t) \in WorkerState
  BY DEF CreateTransport, Reply, WorkerState

LEMMA ConnectType ==
  ASSUME NEW w \in WorkerState, NEW t \in Transport, NEW f \in Conn \X Nat
  PROVE  Connect(w, t, f) \in WorkerState
  BY DEF Connect, Reply, WorkerState

LEMMA ProduceType ==
  ASSUME NEW w \in WorkerState, NEW t \in Transport, NEW p \in Producer
  PROVE  Produce(w, t, p) \in WorkerState
  BY DEF Produce, Reply, WorkerState

LEMMA AddProducerType ==
  ASSUME NEW w \in WorkerState, NEW b \in Observer, NEW p \in Producer
  PROVE  AddProducer(w, b, p) \in WorkerState
  BY DEF AddProducer, Reply, WorkerState

LEMMA ConsumeType ==
  ASSUME NEW w \in WorkerState, NEW t \in Transport, NEW ks \in SUBSET Consumer
  PROVE  Consume(w, t, ks) \in WorkerState
  BY DEF Consume, WorkerState

LEMMA DropProducersType ==
  ASSUME NEW w \in WorkerState, NEW ps
  PROVE  DropProducers(w, ps) \in WorkerState
  BY ZenonT(60) DEF DropProducers, WorkerState

LEMMA DropTransportsType ==
  ASSUME NEW w \in WorkerState, NEW ts
  PROVE  DropTransports(w, ts) \in WorkerState
<1> DEFINE ps == {x[1] : x \in {y \in w.producers : y[2] \in ts}}
<1> DEFINE v == DropProducers(w, ps)
<1>1. v \in WorkerState
  BY DropProducersType
<1> HIDE DEF v
<1>2. [v EXCEPT !.transports = {x \in @ : x[1] \notin ts},
                !.connected  = {x \in @ : x[1] \notin ts},
                !.consumers  = {x \in @ : x[2] \notin ts}] \in WorkerState
  BY <1>1, ZenonT(60) DEF WorkerState
<1> QED
  BY <1>2 DEF v, DropTransports

LEMMA CloseProducersType ==
  ASSUME NEW w \in WorkerState, NEW t, NEW ps
  PROVE  CloseProducers(w, t, ps) \in WorkerState
  BY DropProducersType DEF CloseProducers

LEMMA CloseConsumersType ==
  ASSUME NEW w \in WorkerState, NEW t, NEW ks
  PROVE  CloseConsumers(w, t, ks) \in WorkerState
  BY DEF CloseConsumers, WorkerState

LEMMA CloseTransportType ==
  ASSUME NEW w \in WorkerState, NEW r, NEW t
  PROVE  CloseTransport(w, r, t) \in WorkerState
  BY DropTransportsType DEF CloseTransport, Reply

LEMMA CloseRouterType ==
  ASSUME NEW w \in WorkerState, NEW r
  PROVE  CloseRouter(w, r) \in WorkerState
<1> DEFINE v == DropTransports(w, {x[1] : x \in {y \in w.transports : y[2] = r}})
<1> DEFINE b == {x[1] : x \in {y \in w.observers : y[2] = r}}
<1>1. v \in WorkerState
  BY DropTransportsType
<1> HIDE DEF v, b
<1>2. [v EXCEPT !.routers   = @ \ {r},
                !.observers = {x \in @ : x[2] # r},
                !.watched   = {x \in @ : x[1] \notin b}] \in WorkerState
  BY <1>1, ZenonT(60) DEF WorkerState
<1> QED
  BY <1>2 DEF v, b, CloseRouter, Reply

-----------------------------------------------------------------------------
(* Every step keeps the types *)

LEMMA NoneFacts == None \notin User /\ None \notin RoomId /\ None \notin Conn
  BY NoneAssumption

LEMMA PageTypes ==
  ASSUME NEW c \in Conn
  PROVE  RoomOf[c] \in RoomId /\ UserOf[c] \in UserId
  BY PagesAssumption

LEMMA UserTypes ==
  ASSUME NEW u \in User
  PROVE  u[1] \in Conn /\ NameOf(u) \in UserId /\ HomeOf(u) \in RoomId
  BY PagesAssumption DEF User, NameOf, HomeOf

LEMMA MineType ==
  ASSUME TypeOK, NEW c \in Conn, offers[c] > 0
  PROVE  Mine(c) \in User
<1>1. offers[c] \in 1..MaxOffers
  BY BoundsAssumption DEF TypeOK, ConnectionsTyped
<1> QED
  BY <1>1 DEF Mine, User

LEMMA TransportTypes ==
  ASSUME NEW u \in User
  PROVE  /\ ProducerTransport(u) \in Transport
         /\ \A g \in 0..MaxTrans : ConsumerTransport(u, g) \in Transport
  BY BoundsAssumption DEF ProducerTransport, ConsumerTransport, Transport

LEMMA UsersInType ==
  ASSUME TypeOK, NEW ro \in User
  PROVE  UsersIn(ro) \subseteq User
  BY DEF TypeOK, MapsTyped, UsersIn

LEMMA ConsumersOfType ==
  ASSUME TypeOK, NEW u \in User
  PROVE  ConsumersOf(u) \in SUBSET Consumer
  BY DEF TypeOK, StreamsTyped, ConsumersOf

LEMMA EntryType ==
  ASSUME TypeOK, NEW c \in Conn, room[c] # None, NEW n \in UserId
  PROVE  members[room[c]][n] \in User \union {None}
<1>1. room[c] \in User
  BY DEF TypeOK, LocalsTyped
<1> QED
  BY <1>1 DEF TypeOK, MapsTyped

LEMMA WriteType ==
  ASSUME TypeOK, NEW w \in WorkerState, Write(w)
  PROVE  worker' \in WorkerState
  BY DEF TypeOK, Write

\* Types of what a step leaves alone.
LEMMA FrameMaps ==
  ASSUME TypeOK, UNCHANGED maps
  PROVE  MapsTyped'
  BY DEF TypeOK, MapsTyped, maps

LEMMA FrameStreams ==
  ASSUME TypeOK, UNCHANGED streams
  PROVE  StreamsTyped'
  BY DEF TypeOK, StreamsTyped, streams

LEMMA FrameMedia ==
  ASSUME TypeOK, UNCHANGED media
  PROVE  worker' \in WorkerState /\ link' \in {"up", "dead", "closed"}
  BY DEF TypeOK, media

\* What is left of TypeOK when a handler ends.
ControlTyped == ConnectionsTyped /\ LocalsTyped /\ \A d \in Conn : LocalsSet(d)

LEMMA ReturnType ==
  ASSUME TypeOK, NEW c \in Conn, Return(c),
         offers' = offers, AnswersTyped'
  PROVE  ControlTyped'
<1>1. ConnectionsTyped'
  BY ZenonT(60) DEF TypeOK, ConnectionsTyped, Return, Unlock, Goto, Label
<1>2. LocalsTyped'
  BY BoundsAssumption DEF TypeOK, LocalsTyped, Return, ForgetLocals
<1>3. ASSUME NEW d \in Conn PROVE LocalsSet(d)'
  BY DEF TypeOK, ConnectionsTyped, LocalsTyped, LocalsSet, Return, ForgetLocals, Goto
<1> QED
  BY <1>1, <1>2, <1>3 DEF ControlTyped

LEMMA EndLoopType ==
  ASSUME TypeOK, NEW c \in Conn, EndLoop(c),
         offers' = offers, AnswersTyped'
  PROVE  ControlTyped'
<1>1. ConnectionsTyped'
  BY ZenonT(60) DEF TypeOK, ConnectionsTyped, EndLoop, Unlock, Goto, Label
<1>2. LocalsTyped'
  BY BoundsAssumption DEF TypeOK, LocalsTyped, EndLoop, ForgetLocals
<1>3. ASSUME NEW d \in Conn PROVE LocalsSet(d)'
  BY DEF TypeOK, ConnectionsTyped, LocalsTyped, LocalsSet, EndLoop, ForgetLocals, Goto
<1> QED
  BY <1>1, <1>2, <1>3 DEF ControlTyped

LEMMA PanicType ==
  ASSUME TypeOK, NEW c \in Conn, Panic(c),
         offers' = offers, AnswersTyped'
  PROVE  ControlTyped'
  BY ReturnType, EndLoopType DEF Panic

LEMMA DeliveredType ==
  ASSUME TypeOK, NEW d, Delivered(d)
  PROVE  AnswersTyped'
<1>u. ASSUME NEW f \in [Conn -> Nat]
      PROVE  [f EXCEPT ![d] = IF leaving[d] THEN @ ELSE @ + 1] \in [Conn -> Nat]
  <2>1. CASE d \in Conn
    <3>1. f[d] \in Nat /\ f[d] + 1 \in Nat
      BY <2>1
    <3> QED
      BY <3>1, ZenonT(30)
  <2>2. CASE d \notin Conn
    BY <2>2, Zenon
  <2> QED
    BY <2>1, <2>2
<1>1. unanswered' \in [Conn -> Nat] /\ received' \in [Conn -> Nat]
  BY <1>u, ZenonT(30) DEF TypeOK, ConnectionsTyped, AnswersTyped, Delivered
<1>2. ASSUME NEW e \in Conn PROVE unanswered'[e] <= received'[e]
  <2>1. unanswered[e] \in Nat /\ received[e] \in Nat /\ unanswered[e] <= received[e]
    BY DEF TypeOK, ConnectionsTyped, AnswersTyped
  <2>2. CASE e = d /\ ~leaving[d]
    <3>1. unanswered'[e] = unanswered[e] + 1 /\ received'[e] = received[e] + 1
      BY <2>2, ZenonT(30) DEF TypeOK, ConnectionsTyped, AnswersTyped, Delivered
    <3> QED
      BY <2>1, <3>1
  <2>3. CASE ~(e = d /\ ~leaving[d])
    <3>1. unanswered'[e] = unanswered[e] /\ received'[e] = received[e]
      BY <2>3, ZenonT(30) DEF TypeOK, ConnectionsTyped, AnswersTyped, Delivered
    <3> QED
      BY <2>1, <3>1
  <2> QED
    BY <2>2, <2>3
<1> QED
  BY <1>1, <1>2 DEF AnswersTyped

LEMMA TypeStep ==
  ASSUME TypeOK, [Next]_vars
  PROVE  TypeOK'
<1>1. ASSUME NEW c \in Conn, UpOffer(c) PROVE TypeOK'
  <2>1. MapsTyped'
    BY <1>1, FrameMaps, ZenonT(60) DEF UpOffer
  <2>2. StreamsTyped'
    BY <1>1, FrameStreams, ZenonT(60) DEF UpOffer
  <2>3. worker' \in WorkerState /\ link' \in {"up", "dead", "closed"}
    BY <1>1, FrameMedia, ZenonT(60) DEF UpOffer
  <2>offers. offers[c] < MaxOffers
    BY <1>1, ZenonT(60) DEF UpOffer, MayOffer
  <2>4. ConnectionsTyped'
    BY <1>1, <2>offers, BoundsAssumption DEF UpOffer, TypeOK, ConnectionsTyped, AnswersTyped, clients, Goto, Label
  <2>5. LocalsTyped'
    BY <1>1, PageTypes, Zenon DEF UpOffer, MapsTyped, TypeOK, LocalsTyped, locals, downVars, clearVars
  <2>6. ASSUME NEW d \in Conn PROVE LocalsSet(d)'
    BY <1>1, NoneFacts, PageTypes, BoundsAssumption, SMTT(60) DEF UpOffer, MapsTyped, TypeOK,
       ConnectionsTyped, LocalsTyped, LocalsSet, clients, locals, downVars, clearVars, Goto
  <2> QED
    BY <2>1, <2>2, <2>3, <2>4, <2>5, <2>6 DEF TypeOK
<1>2. ASSUME NEW c \in Conn, CreateRoom(c) PROVE TypeOK'
  <2>pc. pc[c] = "create"
    BY <1>2, ZenonT(60) DEF CreateRoom
  <2>1. Mine(c) \in User
    BY Zenon, <2>pc, MineType DEF LocalsSet, TypeOK
  <2>2. roomId[c] \in RoomId
    BY <2>pc DEF TypeOK, LocalsSet, LocalsTyped
  <2>3. <<Mine(c), "audioLevel">> \in Observer /\ <<Mine(c), "activeSpeaker">> \in Observer
    BY <2>1 DEF Observer
  <2>4. MapsTyped'
    BY <1>2, FrameMaps, ZenonT(60) DEF CreateRoom
  <2>5. StreamsTyped'
    BY <1>2, FrameStreams, ZenonT(60) DEF CreateRoom
  <2>6. worker' \in WorkerState /\ link' \in {"up", "dead", "closed"}
    BY <1>2, <2>1, <2>2, <2>3, CreateRouterType, CreateObserverType, WriteType, Zenon DEF CreateRoom,
       TypeOK, media
  <2>7. ConnectionsTyped'
    BY <1>2 DEF CreateRoom, TypeOK, ConnectionsTyped, AnswersTyped, clients, Goto, Label
  <2>8. LocalsTyped'
    BY Zenon, <1>2, <2>1 DEF CreateRoom, TypeOK, LocalsTyped, locals, downVars, clearVars
  <2>9. ASSUME NEW d \in Conn PROVE LocalsSet(d)'
    BY <1>2, <2>1, NoneFacts DEF CreateRoom, TypeOK, ConnectionsTyped, LocalsTyped, LocalsSet,
       clients, locals, downVars, clearVars, Goto
  <2> QED
    BY <2>4, <2>5, <2>6, <2>7, <2>8, <2>9 DEF TypeOK
<1>3. ASSUME NEW c \in Conn, StoreRoom(c) PROVE TypeOK'
  BY <1>3, NoneFacts, PageTypes, MineType, ZenonT(60) DEF TypeOK, MapsTyped, StreamsTyped,
     ConnectionsTyped, AnswersTyped, LocalsTyped, LocalsSet, Goto, Label, StoreRoom, maps, streams, media,
     clients, downVars, clearVars, locals
<1>4. ASSUME NEW c \in Conn, JoinRoom(c) PROVE TypeOK'
  BY <1>4, NoneFacts, PageTypes, MineType, ZenonT(40) DEF TypeOK, MapsTyped, StreamsTyped,
     ConnectionsTyped, AnswersTyped, LocalsTyped, LocalsSet, Goto, Label, JoinRoom, maps, streams, media,
     clients, downVars, clearVars, locals
<1>5. ASSUME NEW c \in Conn, SetUpTransport(c) PROVE TypeOK'
  <2>pc. pc[c] = "transport"
    BY <1>5, ZenonT(60) DEF SetUpTransport
  <2>1. Mine(c) \in User
    BY Zenon, <2>pc, MineType DEF LocalsSet, TypeOK
  <2>2. roomId[c] \in RoomId
    BY <2>pc DEF TypeOK, LocalsSet, LocalsTyped
  <2>3. MapsTyped'
    BY <1>5, FrameMaps, ZenonT(60) DEF SetUpTransport
  <2>4. StreamsTyped'
    BY <1>5, FrameStreams, ZenonT(60) DEF SetUpTransport
  <2>f. Fingerprint(c, 0) \in Conn \X Nat
    BY DEF Fingerprint
  <2>5. worker' \in WorkerState /\ link' \in {"up", "dead", "closed"}
    BY <1>5, <2>1, <2>2, <2>f, TransportTypes, CreateTransportType, ConnectType, WriteType DEF
       SetUpTransport, TypeOK, media
  <2>6. ConnectionsTyped'
    BY <1>5, <2>1, Zenon DEF SetUpTransport, TypeOK, ConnectionsTyped, AnswersTyped, clients, Goto, Label
  <2>7. LocalsTyped'
    BY Zenon, <1>5 DEF SetUpTransport, TypeOK, LocalsTyped, locals, downVars, clearVars
  <2>8. ASSUME NEW d \in Conn PROVE LocalsSet(d)'
    BY <1>5 DEF SetUpTransport, TypeOK, ConnectionsTyped, LocalsTyped, LocalsSet, clients,
       locals, downVars, clearVars, Goto
  <2> QED
    BY <2>3, <2>4, <2>5, <2>6, <2>7, <2>8 DEF TypeOK
<1>6. ASSUME NEW c \in Conn, FillAudio(c) PROVE TypeOK'
  <2>1. MapsTyped'
    BY <1>6, FrameMaps, ZenonT(60) DEF FillAudio
  <2>2. StreamsTyped'
    BY <1>6, MineType, ZenonT(60) DEF FillAudio, Kind, TypeOK, StreamsTyped, streams
  <2>3. worker' \in WorkerState /\ link' \in {"up", "dead", "closed"}
    BY <1>6, FrameMedia, ZenonT(60) DEF FillAudio
  <2>4. ConnectionsTyped'
    BY <1>6 DEF FillAudio, TypeOK, ConnectionsTyped, AnswersTyped, clients, Goto, Label
  <2>5. LocalsTyped'
    BY Zenon, <1>6 DEF FillAudio, TypeOK, LocalsTyped, locals, downVars, clearVars
  <2>6. ASSUME NEW d \in Conn PROVE LocalsSet(d)'
    BY <1>6 DEF FillAudio, TypeOK, ConnectionsTyped, LocalsTyped, LocalsSet, clients, locals,
       downVars, clearVars, Goto
  <2> QED
    BY <2>1, <2>2, <2>3, <2>4, <2>5, <2>6 DEF TypeOK
<1>7. ASSUME NEW c \in Conn, FillVideo(c) PROVE TypeOK'
  <2>pc. pc[c] = "video"
    BY <1>7, ZenonT(60) DEF FillVideo
  <2>1. Mine(c) \in User
    BY <2>pc, MineType DEF LocalsSet, TypeOK
  <2>2. MapsTyped'
    BY <1>7, FrameMaps, ZenonT(60) DEF FillVideo
  <2>3. StreamsTyped'
    BY <1>7, <2>1 DEF FillVideo, Kind, TypeOK, StreamsTyped, streams
  <2>4. worker' \in WorkerState /\ link' \in {"up", "dead", "closed"}
    BY <1>7, FrameMedia, ZenonT(60) DEF FillVideo
  <2>5. ConnectionsTyped'
    BY <1>7 DEF FillVideo, TypeOK, ConnectionsTyped, AnswersTyped, clients, Goto, Label
  <2>6. LocalsTyped'
    BY Zenon, <1>7 DEF FillVideo, TypeOK, LocalsTyped, locals, downVars, clearVars
  <2>7. ASSUME NEW d \in Conn PROVE LocalsSet(d)'
    BY <1>7 DEF FillVideo, TypeOK, ConnectionsTyped, LocalsTyped, LocalsSet, clients, locals,
       downVars, clearVars, Goto
  <2> QED
    BY <2>2, <2>3, <2>4, <2>5, <2>6, <2>7 DEF TypeOK
<1>8. ASSUME NEW c \in Conn, Publish(c) PROVE TypeOK'
  <2>pc. pc[c] = "produce"
    BY <1>8, ZenonT(60) DEF Publish
  <2>1. Mine(c) \in User
    BY <2>pc, MineType, Zenon DEF LocalsSet, TypeOK
  <2>2. room[c] \in User
    BY <2>pc DEF TypeOK, LocalsSet, LocalsTyped
  <2>3. <<Mine(c), "audio">> \in Producer /\ <<Mine(c), "video">> \in Producer
    BY <2>1 DEF Producer, Kind
  <2>4. ObserverId(c) \in Observer
    BY <2>2 DEF ObserverId, Observer
  <2>5. MapsTyped'
    BY <1>8, FrameMaps, ZenonT(60) DEF Publish
  <2>6. StreamsTyped'
    BY <1>8, FrameStreams, ZenonT(60) DEF Publish
  <2>7. worker' \in WorkerState /\ link' \in {"up", "dead", "closed"}
    BY Zenon, <1>8, <2>1, <2>3, <2>4, TransportTypes, ProduceType, AddProducerType, WriteType DEF
       Publish, TypeOK, media
  <2>8. ConnectionsTyped'
    BY <1>8 DEF Publish, TypeOK, ConnectionsTyped, AnswersTyped, clients, Goto, Label
  <2>9. LocalsTyped'
    BY <1>8 DEF Publish, TypeOK, LocalsTyped, locals, downVars, clearVars
  <2>10. ASSUME NEW d \in Conn PROVE LocalsSet(d)'
    BY <1>8, ZenonT(60) DEF Publish, TypeOK, ConnectionsTyped, LocalsTyped, LocalsSet, clients, locals,
       downVars, clearVars, Goto
  <2> QED
    BY <2>5, <2>6, <2>7, <2>8, <2>9, <2>10 DEF TypeOK
<1>9. ASSUME NEW c \in Conn, ReplyAnswer(c) PROVE TypeOK'
  BY <1>9, NoneFacts, PageTypes, MineType, Zenon DEF TypeOK, MapsTyped, StreamsTyped,
     ConnectionsTyped, AnswersTyped, LocalsTyped, LocalsSet, Goto, Label, ReplyAnswer, maps, streams, media,
     clients, downVars, clearVars, locals
<1>10. ASSUME NEW c \in Conn, WriteFails(c) PROVE TypeOK'
  <2>1. MapsTyped'
    BY <1>10, FrameMaps, ZenonT(60) DEF WriteFails
  <2>2. StreamsTyped'
    BY <1>10, FrameStreams, ZenonT(60) DEF WriteFails
  <2>3. worker' \in WorkerState /\ link' \in {"up", "dead", "closed"}
    BY <1>10, FrameMedia, ZenonT(60) DEF WriteFails
  <2>4. ControlTyped'
    BY <1>10, ReturnType, ZenonT(60) DEF WriteFails, ConnectionsTyped, AnswersTyped, TypeOK
  <2> QED
    BY <2>1, <2>2, <2>3, <2>4 DEF TypeOK, ControlTyped
<1>11. ASSUME NEW c \in Conn, DownOffer(c) PROVE TypeOK'
  <2>pc. pc[c] = "down"
    BY <1>11, ZenonT(60) DEF DownOffer
  <2>1. roomId[c] \in RoomId
    BY <2>pc, Zenon DEF TypeOK, LocalsSet, LocalsTyped
  <2>2. offers' = offers /\ AnswersTyped'
    BY <1>11, ZenonT(60) DEF DownOffer, TypeOK, ConnectionsTyped, AnswersTyped
  <2>3. MapsTyped'
    BY <1>11, FrameMaps, ZenonT(60) DEF DownOffer
  <2>4. StreamsTyped'
    BY <1>11, FrameStreams, ZenonT(60) DEF DownOffer
  <2>5. worker' \in WorkerState /\ link' \in {"up", "dead", "closed"}
    BY <1>11, FrameMedia, ZenonT(60) DEF DownOffer
  <2> DEFINE ro == roomMap[roomId[c]]
  <2> DEFINE found == IF ro = None THEN {} ELSE UsersIn(ro)
  <2>6. ro \in User \union {None} /\ found \subseteq User
    BY <2>1, UsersInType DEF TypeOK, MapsTyped
  <2>7. ASSUME Cardinality(found) > 1 PROVE ControlTyped'
    <3>1. ro # None
      <4>1. SUFFICES ASSUME ro = None PROVE FALSE
        OBVIOUS
      <4>2. found = {}
        BY Zenon, <4>1
      <4> HIDE DEF ro, found
      <4> QED
        BY <2>7, <4>2, NoneInEmpty, SMTT(60)
    <3>2. /\ room' = [room EXCEPT ![c] = ro] /\ users' = [users EXCEPT ![c] = found]
          /\ Goto(c, "notify")
          /\ UNCHANGED <<mu, leaving, roomId, user, trans, others, other, kinds, finger, clearVars>>
      BY <1>11, <2>7 DEF DownOffer
    <3> HIDE DEF ro, found
    <3>3. ConnectionsTyped'
      BY <2>2, <3>2 DEF TypeOK, ConnectionsTyped, AnswersTyped, Goto, Label
    <3>4. LocalsTyped'
      BY <2>6, <3>2, ZenonT(60) DEF TypeOK, LocalsTyped, clearVars
    <3>5. ASSUME NEW d \in Conn PROVE LocalsSet(d)'
      BY <1>11, <2>2, <3>1, <3>2
         DEF DownOffer, TypeOK, ConnectionsTyped, LocalsTyped, LocalsSet, Goto
    <3> QED
      BY <3>3, <3>4, <3>5 DEF ControlTyped
  <2>8. ASSUME ~(Cardinality(found) > 1) PROVE ControlTyped'
    BY <1>11, <2>2, <2>8, ReturnType, ZenonT(60) DEF DownOffer
  <2> QED
    BY <2>3, <2>4, <2>5, <2>7, <2>8 DEF TypeOK, ControlTyped
<1>12. ASSUME NEW c \in Conn, NotifyUser(c) PROVE TypeOK'
  <2>pc. pc[c] = "notify"
    BY <1>12, ZenonT(60) DEF NotifyUser
  <2>1. room[c] \in User
    BY <2>pc DEF TypeOK, LocalsSet, LocalsTyped
  <2>2. UsersIn(room[c]) \subseteq User
    BY <2>1, UsersInType
  <2>3. MapsTyped'
    BY <1>12, FrameMaps, ZenonT(60) DEF NotifyUser
  <2>4. StreamsTyped'
    BY <1>12, FrameStreams, ZenonT(60) DEF NotifyUser
  <2>5. worker' \in WorkerState /\ link' \in {"up", "dead", "closed"}
    BY <1>12, FrameMedia, ZenonT(60) DEF NotifyUser
  <2>6. ConnectionsTyped'
    BY Zenon, <1>12 DEF NotifyUser, TypeOK, ConnectionsTyped, AnswersTyped, clients, Goto, Label
  <2>7. LocalsTyped'
    BY <1>12, <2>2, SMTT(60) DEF NotifyUser, TypeOK, LocalsTyped, locals, downVars, clearVars
  <2>8. ASSUME NEW d \in Conn PROVE LocalsSet(d)'
    BY <1>12, NoneFacts, SMTT(60) DEF NotifyUser, TypeOK, ConnectionsTyped, LocalsTyped, LocalsSet,
       clients, locals, downVars, clearVars, Goto
  <2> QED
    BY <2>3, <2>4, <2>5, <2>6, <2>7, <2>8 DEF TypeOK
<1>13. ASSUME NEW c \in Conn, ReopenTransport(c) PROVE TypeOK'
  <2>pc. pc[c] = "reopen"
    BY <1>13, ZenonT(60) DEF ReopenTransport
  <2>1. user[c] \in User /\ roomId[c] \in RoomId
    BY <2>pc DEF TypeOK, LocalsSet, LocalsTyped
  <2>w. /\ Write(CreateTransport(CloseStreams(worker, roomId[c], user[c]), roomId[c],
                               ConsumerTransport(user[c], made[user[c]] + 1)))
        /\ made[user[c]] + 1 <= MaxTrans /\ link' = link
    BY <1>13, ZenonT(60) DEF ReopenTransport
  <2>m. made[user[c]] \in 0..MaxTrans
    BY <2>1 DEF TypeOK, StreamsTyped
  <2>2. made[user[c]] + 1 \in 0..MaxTrans
    BY <2>w, <2>m, BoundsAssumption
  <2>3. transId[user[c]] \in 0..MaxTrans
    BY <2>1 DEF TypeOK, StreamsTyped
  <2>4. worker \in WorkerState
    BY Zenon DEF TypeOK
  <2>5. CloseStreams(worker, roomId[c], user[c]) \in WorkerState
    BY <2>1, <2>3, <2>4, CloseConsumersType, CloseTransportType DEF CloseStreams
  <2>6. MapsTyped'
    BY <1>13, FrameMaps, ZenonT(60) DEF ReopenTransport
  <2>7. StreamsTyped'
    BY <1>13, <2>1, <2>2, ZenonT(40) DEF ReopenTransport, TypeOK, StreamsTyped, streams
  <2>8. worker' \in WorkerState /\ link' \in {"up", "dead", "closed"}
    <3>1. ConsumerTransport(user[c], made[user[c]] + 1) \in Transport
      BY <2>1, <2>2, TransportTypes
    <3>2. worker' \in WorkerState
      BY <2>1, <2>5, <2>w, <3>1, CreateTransportType, WriteType, ZenonT(60)
    <3> QED
      BY <2>w, <3>2 DEF TypeOK
  <2>9. ConnectionsTyped'
    BY <1>13 DEF ReopenTransport, TypeOK, ConnectionsTyped, AnswersTyped, clients, Goto, Label
  <2>10. LocalsTyped'
    BY <1>13, <2>2, Zenon DEF ReopenTransport, TypeOK, LocalsTyped, locals, downVars, clearVars
  <2>11. ASSUME NEW d \in Conn PROVE LocalsSet(d)'
    BY <1>13 DEF ReopenTransport, TypeOK, ConnectionsTyped, LocalsTyped, LocalsSet, clients,
       locals, downVars, clearVars, Goto
  <2> QED
    BY <2>6, <2>7, <2>8, <2>9, <2>10, <2>11 DEF TypeOK
<1>14. ASSUME NEW c \in Conn, AssignTransportId(c) PROVE TypeOK'
  BY <1>14, NoneFacts, PageTypes, MineType, ZenonT(60) DEF TypeOK, MapsTyped, StreamsTyped,
     ConnectionsTyped, AnswersTyped, LocalsTyped, LocalsSet, Goto, Label, AssignTransportId, maps, streams,
     media, clients, downVars, clearVars, locals
<1>15. ASSUME NEW c \in Conn, AssignConsumers(c) PROVE TypeOK'
  <2>pc. pc[c] = "assignMap"
    BY <1>15, ZenonT(60) DEF AssignConsumers
  <2>1. user[c] \in User
    BY <2>pc DEF TypeOK, LocalsSet, LocalsTyped
  <2>2. MapsTyped'
    BY <1>15, FrameMaps, ZenonT(60) DEF AssignConsumers
  <2>3. StreamsTyped'
    BY <1>15, <2>1 DEF AssignConsumers, TypeOK, StreamsTyped, streams
  <2>4. worker' \in WorkerState /\ link' \in {"up", "dead", "closed"}
    BY <1>15, FrameMedia, ZenonT(60) DEF AssignConsumers
  <2>5. ControlTyped'
    BY <1>15, ReturnType, ZenonT(60) DEF AssignConsumers, ConnectionsTyped, AnswersTyped, LocalsTyped, LocalsSet,
       ControlTyped, Goto, Label, locals, downVars, clearVars, TypeOK
  <2> QED
    BY <2>2, <2>3, <2>4, <2>5 DEF TypeOK, ControlTyped
<1>16. ASSUME NEW c \in Conn, ReadProducers(c) PROVE TypeOK'
  <2>1. MapsTyped'
    BY <1>16, FrameMaps, ZenonT(60) DEF ReadProducers
  <2>2. StreamsTyped'
    BY <1>16, FrameStreams, ZenonT(60) DEF ReadProducers
  <2>3. worker' \in WorkerState /\ link' \in {"up", "dead", "closed"}
    BY <1>16, FrameMedia, ZenonT(60) DEF ReadProducers
  <2>4. ConnectionsTyped'
    BY <1>16 DEF ReadProducers, TypeOK, ConnectionsTyped, AnswersTyped, clients, Goto, Label
  <2>5. LocalsTyped'
    BY <1>16, SMTT(60) DEF ReadProducers, StreamsTyped, TypeOK, LocalsTyped, locals, downVars, clearVars
  <2>6. ASSUME NEW d \in Conn PROVE LocalsSet(d)'
    BY <1>16, NoneFacts, SMTT(60) DEF ReadProducers, TypeOK, ConnectionsTyped, LocalsTyped, LocalsSet,
       clients, locals, downVars, clearVars, Goto
  <2> QED
    BY <2>1, <2>2, <2>3, <2>4, <2>5, <2>6 DEF TypeOK
<1>17. ASSUME NEW c \in Conn, PutConsumers(c) PROVE TypeOK'
  <2>pc. pc[c] = "put"
    BY <1>17, ZenonT(60) DEF PutConsumers
  <2>1. user[c] \in User /\ other[c] \in User /\ trans[c] \in 0..MaxTrans
    BY <2>pc DEF TypeOK, LocalsSet, LocalsTyped
  <2>2. ConsumerTransport(user[c], trans[c]) \in Transport
    BY <2>1, TransportTypes, Zenon
  <2>3. \A k \in producers[other[c]] : <<ConsumerTransport(user[c], trans[c]), <<other[c], k>>>> \in Consumer
    BY <2>1, <2>2, Zenon DEF TypeOK, StreamsTyped, Consumer, Producer
  <2>4. NameOf(other[c]) \in UserId
    BY <2>1, UserTypes
  <2>5. MapsTyped'
    BY <1>17, FrameMaps, ZenonT(60) DEF PutConsumers
  <2>6. StreamsTyped'
    BY <1>17, <2>1, <2>3, <2>4 DEF PutConsumers, TypeOK, StreamsTyped, streams
  <2>7. worker' \in WorkerState /\ link' \in {"up", "dead", "closed"}
    BY <1>17, FrameMedia, ZenonT(60) DEF PutConsumers
  <2>8. ConnectionsTyped'
    BY <1>17 DEF PutConsumers, TypeOK, ConnectionsTyped, AnswersTyped, clients, Goto, Label
  <2>9. LocalsTyped'
    BY <1>17, Zenon DEF PutConsumers, TypeOK, LocalsTyped, locals, downVars, clearVars
  <2>10. ASSUME NEW d \in Conn PROVE LocalsSet(d)'
    BY <1>17 DEF PutConsumers, TypeOK, ConnectionsTyped, LocalsTyped, LocalsSet, clients,
       locals, downVars, clearVars, Goto
  <2> QED
    BY <2>5, <2>6, <2>7, <2>8, <2>9, <2>10 DEF TypeOK
<1>18. ASSUME NEW c \in Conn, SendOffer(c) PROVE TypeOK'
  <2>1. Target(c) \in Conn
    <3>pc. pc[c] = "subscribe"
      BY <1>18, ZenonT(60) DEF SendOffer
    <3>1. room[c] # None /\ user[c] \in User
      BY Zenon, <3>pc DEF TypeOK, LocalsSet, LocalsTyped
    <3>2. members[room[c]][NameOf(user[c])] \in User \union {None}
      BY <3>1, UserTypes, EntryType
    <3> QED
      BY <1>18, <3>2, UserTypes, ZenonT(40) DEF SendOffer, Target
  <2>2. MapsTyped'
    BY <1>18, FrameMaps, ZenonT(60) DEF SendOffer
  <2>3. StreamsTyped'
    BY <1>18, FrameStreams, ZenonT(60) DEF SendOffer
  <2>4. worker' \in WorkerState /\ link' \in {"up", "dead", "closed"}
    BY <1>18, FrameMedia, ZenonT(60) DEF SendOffer
  <2>a. AnswersTyped'
    BY <1>18, DeliveredType, ZenonT(60) DEF SendOffer
  <2>5. ConnectionsTyped'
    BY <1>18, <2>a, ZenonT(60) DEF SendOffer, TypeOK, ConnectionsTyped, Goto, Label
  <2>6. LocalsTyped'
    BY <1>18, Zenon DEF SendOffer, TypeOK, LocalsTyped, locals, downVars, clearVars
  <2>7. ASSUME NEW d \in Conn PROVE LocalsSet(d)'
    BY <1>18 DEF SendOffer, TypeOK, ConnectionsTyped, LocalsTyped, LocalsSet, clients, locals,
       downVars, clearVars, Goto
  <2> QED
    BY <2>2, <2>3, <2>4, <2>5, <2>6, <2>7 DEF TypeOK
<1>19. ASSUME NEW c \in Conn, UserVanished(c) PROVE TypeOK'
  <2>1. MapsTyped'
    BY <1>19, FrameMaps, ZenonT(60) DEF UserVanished
  <2>2. StreamsTyped'
    BY <1>19, FrameStreams, ZenonT(60) DEF UserVanished
  <2>3. worker' \in WorkerState /\ link' \in {"up", "dead", "closed"}
    BY <1>19, FrameMedia, ZenonT(60) DEF UserVanished
  <2>4. ControlTyped'
    BY <1>19, PanicType, Zenon DEF UserVanished, ConnectionsTyped, AnswersTyped, TypeOK
  <2> QED
    BY <2>1, <2>2, <2>3, <2>4 DEF TypeOK, ControlTyped
<1>20. ASSUME NEW c \in Conn, WriteCollision(c) PROVE TypeOK'
  <2>1. AnswersTyped'
    BY <1>20, DeliveredType, ZenonT(60) DEF WriteCollision, TypeOK, ConnectionsTyped, AnswersTyped
  <2>2. MapsTyped'
    BY <1>20, FrameMaps, ZenonT(60) DEF WriteCollision
  <2>3. StreamsTyped'
    BY <1>20, FrameStreams, ZenonT(60) DEF WriteCollision
  <2>4. worker' \in WorkerState /\ link' \in {"up", "dead", "closed"}
    BY <1>20, FrameMedia, ZenonT(60) DEF WriteCollision
  <2>5. ControlTyped'
    BY <1>20, PanicType, <2>1 DEF WriteCollision, TypeOK
  <2> QED
    BY <2>2, <2>3, <2>4, <2>5 DEF TypeOK, ControlTyped
<1>21. ASSUME NEW c \in Conn, DownOfferDone(c) PROVE TypeOK'
  <2>1. MapsTyped'
    BY <1>21, FrameMaps, ZenonT(60) DEF DownOfferDone
  <2>2. StreamsTyped'
    BY <1>21, FrameStreams, ZenonT(60) DEF DownOfferDone
  <2>3. worker' \in WorkerState /\ link' \in {"up", "dead", "closed"}
    BY <1>21, FrameMedia, ZenonT(60) DEF DownOfferDone
  <2>4. ControlTyped'
    BY <1>21, ReturnType DEF DownOfferDone, ConnectionsTyped, AnswersTyped, TypeOK
  <2> QED
    BY <2>1, <2>2, <2>3, <2>4 DEF TypeOK, ControlTyped
<1>22. ASSUME NEW c \in Conn, DownAnswer(c) PROVE TypeOK'
  <2>1. MapsTyped'
    BY <1>22, FrameMaps, ZenonT(60) DEF DownAnswer
  <2>2. StreamsTyped'
    BY <1>22, FrameStreams, ZenonT(60) DEF DownAnswer
  <2>3. worker' \in WorkerState /\ link' \in {"up", "dead", "closed"}
    BY <1>22, FrameMedia, ZenonT(60) DEF DownAnswer
  <2>p. PICK later \in 0..(unanswered[c] - 1) :
          /\ unanswered' = [unanswered EXCEPT ![c] = later]
          /\ IF roomMap[RoomOf[c]] = None
             THEN UNCHANGED <<pc, room, finger>>
             ELSE /\ Goto(c, "find")
                  /\ room' = [room EXCEPT ![c] = roomMap[RoomOf[c]]]
                  /\ finger' = [finger EXCEPT ![c] = received[c] - later]
    BY <1>22, ZenonT(60) DEF DownAnswer
  <2>n. later \in Nat /\ later <= received[c] /\ received[c] - later \in Nat
    BY <2>p DEF TypeOK, ConnectionsTyped, AnswersTyped
  <2>a. AnswersTyped'
    BY <1>22, <2>p, <2>n DEF DownAnswer, TypeOK, ConnectionsTyped, AnswersTyped
  <2>4. ConnectionsTyped'
    BY <1>22, <2>p, <2>a, ZenonT(60) DEF DownAnswer, TypeOK, ConnectionsTyped, Goto, Label
  <2>5. LocalsTyped'
    <3>1. roomMap[RoomOf[c]] \in User \union {None}
      BY PageTypes DEF TypeOK, MapsTyped
    <3>2. room' \in [Conn -> User \union {None}] /\ finger' \in [Conn -> Nat]
      BY <2>p, <2>n, <3>1 DEF TypeOK, LocalsTyped
    <3> QED
      BY <1>22, <3>2, ZenonT(60) DEF DownAnswer, TypeOK, LocalsTyped, clearVars
  <2>6. ASSUME NEW d \in Conn PROVE LocalsSet(d)'
    BY <1>22, ZenonT(60) DEF DownAnswer, TypeOK, ConnectionsTyped, LocalsTyped, LocalsSet, clients, locals,
       downVars, clearVars, Goto
  <2> QED
    BY <2>1, <2>2, <2>3, <2>4, <2>5, <2>6 DEF TypeOK
<1>23. ASSUME NEW c \in Conn, FindUser(c) PROVE TypeOK'
  <2>pc. pc[c] = "find"
    BY <1>23, ZenonT(60) DEF FindUser
  <2>1. members[room[c]][UserOf[c]] \in User \union {None}
    BY <2>pc, PageTypes, EntryType DEF TypeOK, LocalsSet
  <2>2. MapsTyped'
    BY <1>23, FrameMaps, ZenonT(60) DEF FindUser
  <2>3. StreamsTyped'
    BY <1>23, FrameStreams, ZenonT(60) DEF FindUser
  <2>4. worker' \in WorkerState /\ link' \in {"up", "dead", "closed"}
    BY <1>23, FrameMedia, ZenonT(60) DEF FindUser
  <2>5. ControlTyped'
    BY <1>23, ReturnType, <2>1, ZenonT(40) DEF FindUser, ConnectionsTyped, AnswersTyped, LocalsTyped, LocalsSet,
       ControlTyped, Goto, Label, clearVars, TypeOK
  <2> QED
    BY <2>2, <2>3, <2>4, <2>5 DEF TypeOK, ControlTyped
<1>24. ASSUME NEW c \in Conn, ConnectTransport(c) PROVE TypeOK'
  <2>pc. pc[c] = "connect"
    BY <1>24, ZenonT(60) DEF ConnectTransport
  <2>1. user[c] \in User
    BY <2>pc DEF TypeOK, LocalsSet, LocalsTyped
  <2>2. transId[user[c]] \in 0..MaxTrans
    BY <2>1 DEF TypeOK, StreamsTyped
  <2>3. MapsTyped'
    BY <1>24, FrameMaps, ZenonT(60) DEF ConnectTransport
  <2>4. StreamsTyped'
    BY <1>24, FrameStreams, ZenonT(60) DEF ConnectTransport
  <2>5. worker' \in WorkerState /\ link' \in {"up", "dead", "closed"}
    <3>1. /\ Write(Connect(worker, ConsumerTransport(user[c], transId[user[c]]),
                           Fingerprint(c, finger[c])))
          /\ link' = link
      BY <1>24, ZenonT(60) DEF ConnectTransport
    <3>2. ConsumerTransport(user[c], transId[user[c]]) \in Transport /\ worker \in WorkerState
      BY <2>1, <2>2, TransportTypes DEF TypeOK
    <3>f. Fingerprint(c, finger[c]) \in Conn \X Nat
      BY DEF TypeOK, LocalsTyped, Fingerprint
    <3>3. worker' \in WorkerState
      BY <3>1, <3>2, <3>f, ConnectType, WriteType, ZenonT(60)
    <3> QED
      BY <3>1, <3>3 DEF TypeOK
  <2>6. ConnectionsTyped'
    BY <1>24, <2>1 DEF ConnectTransport, TypeOK, ConnectionsTyped, AnswersTyped, clients, Goto, Label
  <2>7. LocalsTyped'
    BY <1>24, <2>2, ZenonT(40) DEF ConnectTransport, TypeOK, LocalsTyped, locals, downVars, clearVars
  <2>8. ASSUME NEW d \in Conn PROVE LocalsSet(d)'
    BY <1>24 DEF ConnectTransport, TypeOK, ConnectionsTyped, LocalsTyped, LocalsSet, clients,
       locals, downVars, clearVars, Goto
  <2> QED
    BY <2>3, <2>4, <2>5, <2>6, <2>7, <2>8 DEF TypeOK
<1>25. ASSUME NEW c \in Conn, ConsumeAll(c) PROVE TypeOK'
  <2>pc. pc[c] = "consume"
    BY <1>25, ZenonT(60) DEF ConsumeAll
  <2>1. user[c] \in User /\ trans[c] \in 0..MaxTrans
    BY <2>pc DEF TypeOK, LocalsSet, LocalsTyped
  <2>2. MapsTyped'
    BY <1>25, FrameMaps, ZenonT(60) DEF ConsumeAll
  <2>3. StreamsTyped'
    BY <1>25, FrameStreams, ZenonT(60) DEF ConsumeAll
  <2>4. worker' \in WorkerState /\ link' \in {"up", "dead", "closed"}
    BY <1>25, <2>1, TransportTypes, ConsumersOfType, ConsumeType, WriteType, ZenonT(60) DEF ConsumeAll,
       TypeOK, media
  <2>5. ControlTyped'
    BY <1>25, ReturnType, ZenonT(60) DEF ConsumeAll, ConnectionsTyped, AnswersTyped, TypeOK
  <2> QED
    BY <2>2, <2>3, <2>4, <2>5 DEF TypeOK, ControlTyped
<1>26. ASSUME NEW c \in Conn, Disconnect(c) PROVE TypeOK'
  <2>1. MapsTyped'
    BY <1>26, FrameMaps, ZenonT(60) DEF Disconnect
  <2>2. StreamsTyped'
    BY <1>26, FrameStreams, ZenonT(60) DEF Disconnect
  <2>3. worker' \in WorkerState /\ link' \in {"up", "dead", "closed"}
    BY <1>26, FrameMedia, ZenonT(60) DEF Disconnect
  <2>4. ControlTyped'
    BY <1>26, EndLoopType DEF Disconnect, ConnectionsTyped, AnswersTyped, TypeOK
  <2> QED
    BY <2>1, <2>2, <2>3, <2>4 DEF TypeOK, ControlTyped
<1>27. ASSUME NEW c \in Conn, VisitRoom(c) PROVE TypeOK'
  <2>1. MapsTyped'
    BY <1>27, FrameMaps, ZenonT(60) DEF VisitRoom
  <2>2. StreamsTyped'
    BY <1>27, FrameStreams, ZenonT(60) DEF VisitRoom
  <2>3. worker' \in WorkerState /\ link' \in {"up", "dead", "closed"}
    BY <1>27, FrameMedia, ZenonT(60) DEF VisitRoom
  <2>4. ConnectionsTyped'
    BY <1>27 DEF VisitRoom, TypeOK, ConnectionsTyped, AnswersTyped, clients, Goto, Label
  <2>5. LocalsTyped'
    <3>p. PICK r \in rooms[c] : VisitRoom(c)!2!(r)
      BY <1>27, ZenonT(60) DEF VisitRoom
    <3>1. r \in RoomId /\ roomMap[r] \in User \union {None}
      BY DEF TypeOK, LocalsTyped, MapsTyped
    <3>2. rooms' = [rooms EXCEPT ![c] = @ \ {r}] /\ UNCHANGED downVars
      BY <1>27, <3>p, ZenonT(60) DEF VisitRoom
    <3>3. CASE roomMap[r] = None
      <4>1. UNCHANGED <<roomId, room, names, total>>
        BY <3>p, <3>3, ZenonT(60)
      <4> QED
        BY <3>2, <4>1 DEF TypeOK, LocalsTyped, downVars
    <3>4. CASE roomMap[r] # None
      <4>1. roomId' = [roomId EXCEPT ![c] = r] /\ room' = [room EXCEPT ![c] = roomMap[r]]
        BY <3>p, <3>4
      <4>2. names' = [names EXCEPT ![c] = UserId] /\ total' = [total EXCEPT ![c] = 0]
        BY <3>p, <3>4, ZenonT(60)
      <4> QED
        BY <3>1, <3>2, <4>1, <4>2, ZenonT(60) DEF TypeOK, LocalsTyped, downVars
    <3> QED
      BY <3>3, <3>4
  <2>6. ASSUME NEW d \in Conn PROVE LocalsSet(d)'
    BY <1>27, NoneFacts, SMTT(60) DEF VisitRoom, MapsTyped, TypeOK, ConnectionsTyped, LocalsTyped,
       LocalsSet, clients, locals, downVars, clearVars, Goto
  <2> QED
    BY <2>1, <2>2, <2>3, <2>4, <2>5, <2>6 DEF TypeOK
<1>28. ASSUME NEW c \in Conn, VisitUser(c) PROVE TypeOK'
  <2>pc. pc[c] = "visit"
    BY <1>28, ZenonT(60) DEF VisitUser
  <2>1. \A n \in UserId : members[room[c]][n] \in User \union {None}
    BY <2>pc, EntryType DEF TypeOK, LocalsSet
  <2>2. worker \in WorkerState
    BY DEF TypeOK
  <2>3. \A r, u : CloseUser(worker, r, u) \in WorkerState
    BY <2>2, CloseProducersType, CloseConsumersType, CloseTransportType, ZenonT(40) DEF CloseUser
  <2>4. MapsTyped'
    BY <1>28, FrameMaps, ZenonT(60) DEF VisitUser
  <2>5. StreamsTyped'
    BY <1>28, FrameStreams, ZenonT(60) DEF VisitUser
  <2>6. worker' \in WorkerState /\ link' \in {"up", "dead", "closed"}
    BY <1>28, <2>3, WriteType, Zenon DEF VisitUser, TypeOK, media
  <2>7. ConnectionsTyped'
    BY <1>28 DEF VisitUser, TypeOK, ConnectionsTyped, AnswersTyped, clients, Goto, Label
  <2>p. PICK n \in names[c] : VisitUser(c)!2!(n)
    BY <1>28, ZenonT(40) DEF VisitUser
  <2> DEFINE u == members[room[c]][n]
  <2>u. u \in User \union {None}
    BY <2>1 DEF TypeOK, LocalsTyped
  <2>8. /\ names' = [names EXCEPT ![c] = @ \ {n}]
        /\ UNCHANGED <<offers, roomId, room, users, trans, others, other, kinds, finger, rooms>>
    BY <1>28, <2>p, ZenonT(60) DEF VisitUser, clients
  <2>9. CASE u # None /\ u[1] = c
    <3>1. user' = [user EXCEPT ![c] = u] /\ Goto(c, "delete") /\ UNCHANGED total
      BY Zenon, <2>p, <2>9
    <3>2. pc[c] = "visit"
      BY <1>28 DEF VisitUser
    <3> HIDE DEF u
    <3>3. LocalsTyped'
      BY <2>u, <2>8, <3>1, Zenon DEF TypeOK, LocalsTyped
    <3>4. ASSUME NEW d \in Conn PROVE LocalsSet(d)'
      BY <2>u, <2>8, <2>9, <3>1, <3>2, ZenonT(60)
         DEF TypeOK, ConnectionsTyped, LocalsTyped, LocalsSet, Goto
    <3> QED
      BY <2>4, <2>5, <2>6, <2>7, <3>3, <3>4, ZenonT(60) DEF TypeOK
  <2>10. CASE ~(u # None /\ u[1] = c)
    <3>1. /\ total' = [total EXCEPT ![c] = IF u = None THEN @ ELSE @ + 1]
          /\ UNCHANGED <<pc, user>>
      BY <2>p, <2>10, Zenon
    <3> HIDE DEF u
    <3>2. LocalsTyped'
      BY <2>8, <3>1, SMTT(60) DEF TypeOK, LocalsTyped
    <3>3. ASSUME NEW d \in Conn PROVE LocalsSet(d)'
      BY Zenon, <2>8, <3>1 DEF TypeOK, LocalsSet
    <3> QED
      BY <2>4, <2>5, <2>6, <2>7, <3>2, <3>3, ZenonT(60) DEF TypeOK
  <2> QED
    BY <2>9, <2>10
<1>29. ASSUME NEW c \in Conn, DeleteUser(c) PROVE TypeOK'
  BY <1>29, NoneFacts, PageTypes, MineType, ZenonT(60) DEF TypeOK, MapsTyped, StreamsTyped,
     ConnectionsTyped, AnswersTyped, LocalsTyped, LocalsSet, Goto, Label, DeleteUser, maps, streams, media,
     clients, downVars, clearVars, locals
<1>30. ASSUME NEW c \in Conn, CloseRoom(c) PROVE TypeOK'
  <2>1. worker \in WorkerState
    BY DEF TypeOK
  <2>2. MapsTyped'
    BY <1>30, FrameMaps, ZenonT(60) DEF CloseRoom
  <2>3. StreamsTyped'
    BY <1>30, FrameStreams, ZenonT(60) DEF CloseRoom
  <2>4. worker' \in WorkerState /\ link' \in {"up", "dead", "closed"}
    BY <1>30, <2>1, CloseRouterType, WriteType, ZenonT(60) DEF CloseRoom, TypeOK, media
  <2>5. ConnectionsTyped'
    BY <1>30 DEF CloseRoom, TypeOK, ConnectionsTyped, AnswersTyped, clients, Goto, Label
  <2>6. LocalsTyped'
    BY <1>30, ZenonT(60) DEF CloseRoom, TypeOK, LocalsTyped, locals, downVars, clearVars
  <2>7. ASSUME NEW d \in Conn PROVE LocalsSet(d)'
    BY ZenonT(30), <1>30 DEF CloseRoom, TypeOK, ConnectionsTyped, LocalsTyped, LocalsSet, clients, locals,
       downVars, clearVars, Goto
  <2> QED
    BY <2>2, <2>3, <2>4, <2>5, <2>6, <2>7 DEF TypeOK
<1>31. ASSUME NEW c \in Conn, DeleteRoom(c) PROVE TypeOK'
  BY <1>31, NoneFacts, PageTypes, MineType, ZenonT(60) DEF TypeOK, MapsTyped, StreamsTyped,
     ConnectionsTyped, AnswersTyped, LocalsTyped, LocalsSet, Goto, Label, DeleteRoom, maps, streams, media,
     clients, downVars, clearVars, locals
<1>32. ASSUME NEW c \in Conn, Renegotiate(c) PROVE TypeOK'
  <2>1. MapsTyped'
    BY <1>32, FrameMaps, ZenonT(60) DEF Renegotiate
  <2>2. StreamsTyped'
    BY <1>32, FrameStreams, ZenonT(60) DEF Renegotiate
  <2>3. worker' \in WorkerState /\ link' \in {"up", "dead", "closed"}
    BY <1>32, FrameMedia, ZenonT(60) DEF Renegotiate
  <2>4. ControlTyped'
    BY <1>32, ReturnType, ZenonT(40) DEF Renegotiate, ConnectionsTyped, AnswersTyped, LocalsTyped, LocalsSet,
       ControlTyped, Goto, Label, locals, downVars, clearVars, TypeOK
  <2> QED
    BY <2>1, <2>2, <2>3, <2>4 DEF TypeOK, ControlTyped
<1>33. CASE WorkerExit
  BY <1>33, StartedWorkerType
     DEF TypeOK, MapsTyped, StreamsTyped, ConnectionsTyped, AnswersTyped, LocalsTyped, LocalsSet, Goto, Label,
         WorkerExit, maps, streams, media, clients, downVars, clearVars, locals
<1>34. CASE CloseWorkerManager
  BY <1>34, Zenon
     DEF TypeOK, MapsTyped, StreamsTyped, ConnectionsTyped, AnswersTyped, LocalsTyped, LocalsSet, Goto, Label,
         CloseWorkerManager, maps, streams, media, clients, downVars, clearVars, locals
<1>35. CASE UNCHANGED vars
  BY <1>35, ZenonT(60)
     DEF TypeOK, MapsTyped, StreamsTyped, ConnectionsTyped, AnswersTyped, LocalsTyped, LocalsSet, Goto, Label,
         vars, maps, streams, media, clients, downVars, clearVars, locals
<1>36. ASSUME NEW c \in Conn, HeatBeat(c) PROVE TypeOK'
  BY Zenon, <1>36 DEF TypeOK, MapsTyped, StreamsTyped, ConnectionsTyped, AnswersTyped, LocalsTyped, LocalsSet, Goto,
     Label, HeatBeat, maps, streams, media, clients, downVars, clearVars, locals
<1>37. ASSUME NEW c \in Conn, ReplyBeat(c) PROVE TypeOK'
  <2>1. MapsTyped'
    BY <1>37, FrameMaps, ZenonT(60) DEF ReplyBeat
  <2>2. StreamsTyped'
    BY <1>37, FrameStreams, ZenonT(60) DEF ReplyBeat
  <2>3. worker' \in WorkerState /\ link' \in {"up", "dead", "closed"}
    BY <1>37, FrameMedia, ZenonT(60) DEF ReplyBeat
  <2>4. ControlTyped'
    BY Zenon, <1>37, ReturnType DEF ReplyBeat, ConnectionsTyped, AnswersTyped, TypeOK
  <2> QED
    BY <2>1, <2>2, <2>3, <2>4 DEF TypeOK, ControlTyped
<1> QED
  BY <1>1, <1>2, <1>3, <1>4, <1>5, <1>6, <1>7, <1>8, <1>9, <1>10, <1>11, <1>12, <1>13, <1>14, ZenonT(60),
     <1>15, <1>16, <1>17, <1>18, <1>19, <1>20, <1>21, <1>22, <1>23, <1>24, <1>25, <1>26, <1>27,
     <1>28, <1>29, <1>30, <1>31, <1>32, <1>33, <1>34, <1>35, <1>36, <1>37
     DEF Next, Request, Handle

LEMMA TypeInit == Init => TypeOK
<1> SUFFICES ASSUME Init PROVE TypeOK
  OBVIOUS
<1>1. MapsTyped /\ StreamsTyped
  BY BoundsAssumption DEF Init, MapsTyped, StreamsTyped
<1>2. ConnectionsTyped /\ LocalsTyped
  BY BoundsAssumption DEF Init, ConnectionsTyped, AnswersTyped, LocalsTyped, Label
<1>3. \A c \in Conn : LocalsSet(c)
  BY DEF Init, LocalsSet
<1> QED
  BY <1>1, <1>2, <1>3, StartedWorkerType DEF Init, TypeOK

\* Type correctness, for every instance: no step of any handler reads a Room or a
\* User that the handler has not loaded.
THEOREM TypesCorrect == Spec => []TypeOK
  BY TypeInit, TypeStep, PTL DEF Spec

-----------------------------------------------------------------------------
(* The mutexes of the Users                                                *)

\* Where ProcessUpOfferSdp holds the mutex of the User it has made, and where only a
\* goroutine can be whose read loop has not ended.
UnderLock == {"audio", "video", "produce", "reply", "down", "notify", "reopen", "assign",
              "assignMap", "subscribe", "put"}
Reachable == {"read", "create", "store", "join", "transport", "beat", "find", "connect", "consume"}

\* Of one connection: its locks are those of LocksFollowHandlers, and a handler that
\* a message has started runs while the read loop is alive.
HoldsOwn(c) ==
  /\ \A u \in User : mu[u] = c =>
       \/ pc[c] \in UnderLock /\ u = Mine(c) /\ ~leaving[c]
       \/ pc[c] = "consume" /\ u = user[c]
  /\ pc[c] \in Reachable => ~leaving[c]

LocksInv == \A c \in Conn : HoldsOwn(c)

LEMMA LocksInvInit == Init => LocksInv
  BY NoneAssumption DEF Init, LocksInv, HoldsOwn

LEMMA LocksInvImplies == LocksInv => LocksFollowHandlers
  BY Zenon DEF LocksInv, HoldsOwn, LocksFollowHandlers, UnderLock

\* A step of c that moves on without locking or unlocking.
LEMMA MoveKeepsLocks ==
  ASSUME TypeOK, LocksInv, NEW c \in Conn, NEW l,
         Goto(c, l), UNCHANGED <<mu, offers, leaving>>,
         \A d \in Conn \ {c} : user'[d] = user[d],
         pc[c] # "consume",
         pc[c] \in UnderLock /\ ~leaving[c] => l \in UnderLock,
         l \in Reachable => ~leaving[c]
  PROVE  LocksInv'
<1> SUFFICES ASSUME NEW d \in Conn PROVE HoldsOwn(d)'
  BY Zenon DEF LocksInv
<1>1. pc' = [pc EXCEPT ![c] = l] /\ pc \in [Conn -> Label]
  BY DEF Goto, TypeOK, ConnectionsTyped
<1>2. CASE d = c
  BY <1>1, <1>2, Zenon DEF LocksInv, HoldsOwn, Mine
<1>3. CASE d # c
  BY <1>1, <1>3 DEF LocksInv, HoldsOwn, Mine
<1> QED
  BY Zenon, <1>2, <1>3

\* The deferred Unlock leaves nothing to the goroutine that returns.
LEMMA ReturnKeepsLocks ==
  ASSUME TypeOK, LocksInv, NEW c \in Conn, Return(c), UNCHANGED offers
  PROVE  LocksInv'
<1> SUFFICES ASSUME NEW d \in Conn PROVE HoldsOwn(d)'
  BY Zenon DEF LocksInv
<1>1. /\ pc' = [pc EXCEPT ![c] = IF leaving[c] THEN "closed" ELSE "read"]
      /\ pc \in [Conn -> Label] /\ user \in [Conn -> User \union {None}]
      /\ user' = [user EXCEPT ![c] = None]
      /\ mu' = [u \in User |-> IF mu[u] = c THEN None ELSE mu[u]]
      /\ UNCHANGED leaving
  BY Zenon DEF Return, Goto, Unlock, ForgetLocals, TypeOK, ConnectionsTyped, LocalsTyped
<1>2. CASE d = c
  BY <1>1, <1>2, NoneAssumption, Zenon DEF HoldsOwn, Reachable
<1>3. CASE d # c
  BY <1>1, <1>3, NoneAssumption, Zenon DEF LocksInv, HoldsOwn, Mine
<1> QED
  BY <1>2, <1>3

LEMMA EndLoopKeepsLocks ==
  ASSUME TypeOK, LocksInv, NEW c \in Conn, EndLoop(c), UNCHANGED offers
  PROVE  LocksInv'
<1> SUFFICES ASSUME NEW d \in Conn PROVE HoldsOwn(d)'
  BY DEF LocksInv
<1>1. /\ pc' = [pc EXCEPT ![c] = "clear"]
      /\ pc \in [Conn -> Label] /\ user \in [Conn -> User \union {None}]
      /\ leaving \in [Conn -> BOOLEAN]
      /\ user' = [user EXCEPT ![c] = None]
      /\ mu' = [u \in User |-> IF mu[u] = c THEN None ELSE mu[u]]
      /\ leaving' = [leaving EXCEPT ![c] = TRUE]
  BY Zenon DEF EndLoop, Goto, Unlock, ForgetLocals, TypeOK, ConnectionsTyped, LocalsTyped
<1>2. CASE d = c
  BY <1>1, <1>2, NoneAssumption, Zenon DEF HoldsOwn, Reachable
<1>3. CASE d # c
  BY <1>1, <1>3, NoneAssumption DEF LocksInv, HoldsOwn, Mine
<1> QED
  BY <1>2, <1>3

LEMMA PanicKeepsLocks ==
  ASSUME TypeOK, LocksInv, NEW c \in Conn, Panic(c), UNCHANGED offers
  PROVE  LocksInv'
  BY ReturnKeepsLocks, EndLoopKeepsLocks, Zenon DEF Panic

\* SetUpTransport(c) and ConnectTransport(c): c, which holds nothing, takes one mutex.
LEMMA LockKeepsLocks ==
  ASSUME TypeOK, LocksInv, NEW c \in Conn, NEW v \in User, NEW l,
         mu[v] = None, mu' = [mu EXCEPT ![v] = c], Goto(c, l),
         UNCHANGED <<offers, leaving, user>>,
         pc[c] \notin UnderLock, pc[c] # "consume", ~leaving[c],
         \/ l \in UnderLock /\ v = Mine(c)
         \/ l = "consume" /\ v = user[c]
  PROVE  LocksInv'
<1> SUFFICES ASSUME NEW d \in Conn PROVE HoldsOwn(d)'
  BY DEF LocksInv
<1>1. pc' = [pc EXCEPT ![c] = l] /\ pc \in [Conn -> Label] /\ mu \in [User -> Conn \union {None}]
  BY Zenon DEF Goto, TypeOK, ConnectionsTyped
<1>2. CASE d = c
  BY <1>1, <1>2, NoneAssumption, Zenon DEF LocksInv, HoldsOwn, Mine
<1>3. CASE d # c
  BY <1>1, <1>3, NoneAssumption DEF LocksInv, HoldsOwn, Mine
<1> QED
  BY <1>2, <1>3, Zenon

LEMMA LocksStep ==
  ASSUME TypeOK, LocksInv, [Next]_vars
  PROVE  LocksInv'
<1> USE DEF UnderLock, Reachable
<1>1. ASSUME NEW c \in Conn, UpOffer(c) PROVE LocksInv'
  <2>1. ~leaving[c] /\ \A u \in User : mu[u] # c
    BY <1>1, Zenon DEF UpOffer, Reading, LocksInv, HoldsOwn
  <2>2. /\ pc'[c] \in {"create", "join"}
        /\ UNCHANGED <<mu, leaving, user>>
        /\ \A d \in Conn \ {c} : pc'[d] = pc[d] /\ offers'[d] = offers[d]
    BY <1>1 DEF UpOffer, Goto, downVars, TypeOK, ConnectionsTyped
  <2> QED
    BY <2>1, <2>2, SMTT(60) DEF LocksInv, HoldsOwn, Mine
<1>2. ASSUME NEW c \in Conn, SetUpTransport(c) PROVE LocksInv'
  <2>1. Mine(c) \in User
    BY <1>2, MineType, ZenonT(60) DEF SetUpTransport, TypeOK, LocalsSet
  <2> QED
    BY <1>2, <2>1, LockKeepsLocks, ZenonT(60) DEF SetUpTransport, locals, downVars, clients, LocksInv, HoldsOwn
<1>3. ASSUME NEW c \in Conn, ConnectTransport(c) PROVE LocksInv'
  <2>1. user[c] \in User
    BY <1>3, Zenon DEF ConnectTransport, TypeOK, LocalsSet, LocalsTyped
  <2> QED
    BY <1>3, <2>1, LockKeepsLocks, ZenonT(60) DEF ConnectTransport, clients, LocksInv, HoldsOwn
<1>4. ASSUME NEW c \in Conn,
             CreateRoom(c) \/ StoreRoom(c) \/ JoinRoom(c) \/ HeatBeat(c)
      PROVE  LocksInv'
  BY <1>4, MoveKeepsLocks, Zenon DEF CreateRoom, StoreRoom, JoinRoom, HeatBeat, Reading, clients, locals,
     downVars, LocksInv, HoldsOwn
<1>5. ASSUME NEW c \in Conn,
             FillAudio(c) \/ FillVideo(c) \/ Publish(c) \/ ReplyAnswer(c)
      PROVE  LocksInv'
  BY <1>5, MoveKeepsLocks, Zenon DEF FillAudio, FillVideo, Publish, ReplyAnswer, clients, locals, downVars
<1>6. ASSUME NEW c \in Conn,
             AssignTransportId(c) \/ ReadProducers(c) \/ PutConsumers(c) \/ SendOffer(c)
      PROVE  LocksInv'
  BY <1>6, MoveKeepsLocks, Zenon DEF AssignTransportId, ReadProducers, PutConsumers, SendOffer, clients,
     locals, downVars
<1>7. ASSUME NEW c \in Conn, NotifyUser(c) PROVE LocksInv'
  <2>1. \A d \in Conn \ {c} : user'[d] = user[d]
    BY <1>7, Zenon DEF NotifyUser, TypeOK, LocalsTyped
  <2> QED
    BY <1>7, <2>1, MoveKeepsLocks, Zenon DEF NotifyUser, clients
<1>8. ASSUME NEW c \in Conn, ReopenTransport(c) PROVE LocksInv'
  BY <1>8, MoveKeepsLocks, Zenon DEF ReopenTransport, clients
<1>9. ASSUME NEW c \in Conn,
             WriteFails(c) \/ DownOfferDone(c) \/ ConsumeAll(c) \/ ReplyBeat(c)
      PROVE  LocksInv'
  BY <1>9, ReturnKeepsLocks, ZenonT(60) DEF WriteFails, DownOfferDone, ConsumeAll, ReplyBeat
<1>10. ASSUME NEW c \in Conn, UserVanished(c) \/ WriteCollision(c) PROVE LocksInv'
  BY <1>10, PanicKeepsLocks DEF UserVanished, WriteCollision
<1>11. ASSUME NEW c \in Conn, Disconnect(c) PROVE LocksInv'
  BY <1>11, EndLoopKeepsLocks DEF Disconnect
<1>12. ASSUME NEW c \in Conn, DownOffer(c) PROVE LocksInv'
  <2>1. \/ Return(c)
        \/ Goto(c, "notify") /\ UNCHANGED <<mu, leaving, user>>
    BY <1>12, Zenon DEF DownOffer
  <2>2. UNCHANGED offers /\ pc[c] = "down"
    BY <1>12, Zenon DEF DownOffer
  <2> QED
    BY <2>1, <2>2, ReturnKeepsLocks, MoveKeepsLocks, Zenon
<1>13. ASSUME NEW c \in Conn, AssignConsumers(c) PROVE LocksInv'
  <2>1. \/ Return(c)
        \/ Goto(c, "subscribe") /\ UNCHANGED <<mu, leaving, user>>
    BY <1>13, Zenon DEF AssignConsumers, locals, downVars
  <2>2. UNCHANGED offers /\ pc[c] = "assignMap"
    BY <1>13, Zenon DEF AssignConsumers
  <2> QED
    BY <2>1, <2>2, ReturnKeepsLocks, MoveKeepsLocks, Zenon
<1>14. ASSUME NEW c \in Conn, Renegotiate(c) PROVE LocksInv'
  <2>1. \/ Return(c)
        \/ Goto(c, "down") /\ UNCHANGED <<mu, leaving, user>>
    BY <1>14 DEF Renegotiate, locals, downVars
  <2>2. UNCHANGED offers /\ pc[c] = "clear"
    BY <1>14, Zenon DEF Renegotiate
  <2> QED
    BY <2>1, <2>2, ReturnKeepsLocks, MoveKeepsLocks, Zenon
<1>15. ASSUME NEW c \in Conn, DownAnswer(c) PROVE LocksInv'
  <2>1. CASE UNCHANGED pc
    BY <1>15, <2>1, Zenon DEF DownAnswer, downVars, LocksInv, HoldsOwn, Mine
  <2>2. CASE Goto(c, "find")
    BY <1>15, <2>2, MoveKeepsLocks, Zenon DEF DownAnswer, Reading, downVars, LocksInv, HoldsOwn
  <2> QED
    BY <1>15, <2>1, <2>2, Zenon DEF DownAnswer
<1>16. ASSUME NEW c \in Conn, FindUser(c) PROVE LocksInv'
  <2>1. CASE Return(c)
    BY <1>16, <2>1, ReturnKeepsLocks, Zenon DEF FindUser
  <2>2. CASE Goto(c, "connect")
    <3>1. UNCHANGED <<mu, leaving, offers>> /\ pc[c] = "find" /\ ~leaving[c]
      BY <1>16, <2>2, ZenonT(60) DEF FindUser, Return, Goto, TypeOK, ConnectionsTyped, LocksInv, HoldsOwn
    <3>2. \A d \in Conn \ {c} : user'[d] = user[d]
      BY <1>16, <2>2, SMTT(60) DEF FindUser, Return, ForgetLocals, TypeOK, LocalsTyped
    <3> QED
      BY <2>2, <3>1, <3>2, MoveKeepsLocks, Zenon
  <2> QED
    BY <1>16, <2>1, <2>2, ZenonT(60) DEF FindUser
<1>17. ASSUME NEW c \in Conn, VisitRoom(c) PROVE LocksInv'
  <2>1. UNCHANGED <<mu, offers, leaving, user>> /\ pc[c] = "clear"
    BY <1>17, Zenon DEF VisitRoom, clients, downVars
  <2>2. UNCHANGED pc \/ Goto(c, "visit")
    BY <1>17, ZenonT(60) DEF VisitRoom
  <2> QED
    BY <2>1, <2>2, MoveKeepsLocks, ZenonT(60) DEF LocksInv, HoldsOwn, Mine
<1>18. ASSUME NEW c \in Conn, VisitUser(c) PROVE LocksInv'
  <2>1. UNCHANGED <<mu, offers, leaving>> /\ pc[c] = "visit"
    BY <1>18, ZenonT(60) DEF VisitUser, clients
  <2>2. \/ UNCHANGED <<pc, user>>
        \/ Goto(c, "delete") /\ \A d \in Conn \ {c} : user'[d] = user[d]
    BY <1>18, ZenonT(60) DEF VisitUser, TypeOK, LocalsTyped
  <2> QED
    BY <2>1, <2>2, MoveKeepsLocks DEF LocksInv, HoldsOwn, Mine
<1>19. ASSUME NEW c \in Conn, DeleteUser(c) \/ CloseRoom(c) \/ DeleteRoom(c) PROVE LocksInv'
  <2>1. /\ UNCHANGED <<mu, offers, leaving, user>> /\ pc[c] \in {"delete", "visit", "forget"}
        /\ \E l \in {"visit", "forget", "clear"} : Goto(c, l)
    BY <1>19, Zenon DEF DeleteUser, CloseRoom, DeleteRoom, clients, locals, downVars
  <2> QED
    BY <2>1, MoveKeepsLocks, Zenon
<1>20. CASE UNCHANGED <<mu, pc, offers, leaving, user>>
  BY <1>20, Zenon DEF LocksInv, HoldsOwn, Mine
<1>21. WorkerExit \/ CloseWorkerManager \/ UNCHANGED vars => UNCHANGED <<mu, pc, offers, leaving, user>>
  BY DEF WorkerExit, CloseWorkerManager, vars, clients, locals, downVars
<1> QED
  BY <1>1, <1>2, <1>3, <1>4, <1>5, <1>6, <1>7, <1>8, <1>9, <1>10, <1>11, <1>12, <1>13, <1>14, ZenonT(60),
     <1>15, <1>16, <1>17, <1>18, <1>19, <1>20, <1>21
     DEF Next, Request, Handle

LEMMA LocksAlways == Spec => []LocksInv
  BY TypesCorrect, LocksInvInit, LocksStep, PTL DEF Spec

\* For every number of pages, names, offers and rooms: a goroutine holds a User's
\* mutex only inside the handler that locked it, and holds none where it waits for
\* one, so that no cycle of goroutines waits (Mu.Lock and its deferred Unlock in
\* ProcessUpOfferSdp and ProcessDownAnswerSdp, panics included).
THEOREM LocksAreOwn == Spec => []LocksFollowHandlers
  BY LocksAlways, LocksInvImplies, PTL
=============================================================================
