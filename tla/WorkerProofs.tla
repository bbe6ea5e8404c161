---------------------------- MODULE WorkerProofs ----------------------------
(***************************************************************************)
(* The tables of the worker and the handlers that read and write them.     *)
(*                                                                         *)
(* No request leaves the worker with a dangling object, and so no          *)
(* interleaving of handlers does.  Nobody receives media of another room.  *)
(* What a handler that acts on ids it read some time ago does to the       *)
(* streams: a consumer is made on a connected transport only, and a        *)
(* publisher's streams are closed for the publisher only.  And once        *)
(* ClearUserInfo is over no registered room knows the connection, whatever *)
(* rooms were created, joined and deleted under it meanwhile.              *)
(***************************************************************************)
EXTENDS SignallingProofs
LEMMA TransNumbered ==
  ASSUME TypeOK, NEW u \in User
  PROVE  transId[u] # -1
<1>1. transId[u] \in 0..MaxTrans
  BY Zenon DEF TypeOK, StreamsTyped
<1> QED
  BY SMT, <1>1

LEMMA StartedWorkerSound == WorkerSound(StartedWorker)
  BY DEF StartedWorker, WorkerSound, HasTransport

LEMMA CreateRouterSound ==
  ASSUME NEW w \in WorkerState, WorkerSound(w), NEW r
  PROVE  WorkerSound(CreateRouter(w, r))
  BY DEF CreateRouter, Reply, WorkerState, WorkerSound, HasTransport, OnRouter

LEMMA CreateObserverSound ==
  ASSUME NEW w \in WorkerState, WorkerSound(w), NEW r, NEW b
  PROVE  WorkerSound(CreateObserver(w, r, b))
  BY DEF CreateObserver, Reply, WorkerState, WorkerSound, HasTransport, OnRouter

LEMMA CreateTransportSound ==
  ASSUME NEW w \in WorkerState, WorkerSound(w), NEW r, NEW t
  PROVE  WorkerSound(CreateTransport(w, r, t))
  BY DEF CreateTransport, Reply, WorkerState, WorkerSound, HasTransport, OnRouter

LEMMA ConnectSound ==
  ASSUME NEW w \in WorkerState, WorkerSound(w), NEW t, NEW f
  PROVE  WorkerSound(Connect(w, t, f))
  BY DEF Connect, IsConnected, Reply, WorkerState, WorkerSound, HasTransport, OnRouter

LEMMA ProduceSound ==
  ASSUME NEW w \in WorkerState, WorkerSound(w), NEW t, NEW p
  PROVE  WorkerSound(Produce(w, t, p))
  BY DEF Produce, Reply, WorkerState, WorkerSound, HasTransport, HasProducer, OnRouter

LEMMA AddProducerSound ==
  ASSUME NEW w \in WorkerState, WorkerSound(w), NEW b, NEW p
  PROVE  WorkerSound(AddProducer(w, b, p))
  BY DEF AddProducer, Reply, WorkerState, WorkerSound, HasTransport, OnRouter

LEMMA ConsumeSound ==
  ASSUME NEW w \in WorkerState, WorkerSound(w), NEW t, NEW ks
  PROVE  WorkerSound(Consume(w, t, ks))
  BY DEF Consume, WorkerState, WorkerSound, HasTransport, OnRouter

LEMMA DropProducersSound ==
  ASSUME NEW w \in WorkerState, WorkerSound(w), NEW ps
  PROVE  WorkerSound(DropProducers(w, ps))
  BY DEF DropProducers, WorkerState, WorkerSound, HasTransport, OnRouter

LEMMA CloseConsumersSound ==
  ASSUME NEW w \in WorkerState, WorkerSound(w), NEW t, NEW ks
  PROVE  WorkerSound(CloseConsumers(w, t, ks))
  BY DEF CloseConsumers, WorkerState, WorkerSound, HasTransport, OnRouter

LEMMA DropTransportsSound ==
  ASSUME NEW w \in WorkerState, WorkerSound(w), NEW ts
  PROVE  WorkerSound(DropTransports(w, ts))
<1> DEFINE ps == {x[1] : x \in {y \in w.producers : y[2] \in ts}}
<1> DEFINE v == DropProducers(w, ps)
<1>1. v \in WorkerState /\ WorkerSound(v)
  BY DropProducersType, DropProducersSound
<1>2. \A x \in v.producers : x[2] \notin ts
  BY DEF v, DropProducers, WorkerState
<1> HIDE DEF v
<1> DEFINE d == [v EXCEPT !.transports = {x \in @ : x[1] \notin ts},
                          !.connected  = {x \in @ : x[1] \notin ts},
                          !.consumers  = {x \in @ : x[2] \notin ts}]
<1>3. WorkerSound(d)
  BY <1>1, <1>2 DEF WorkerState, WorkerSound, HasTransport, OnRouter
<1> QED
  BY <1>3 DEF v, DropTransports

LEMMA CloseProducersSound ==
  ASSUME NEW w \in WorkerState, WorkerSound(w), NEW t, NEW ps
  PROVE  WorkerSound(CloseProducers(w, t, ps))
  BY DropProducersSound DEF CloseProducers

LEMMA CloseTransportSound ==
  ASSUME NEW w \in WorkerState, WorkerSound(w), NEW r, NEW t
  PROVE  WorkerSound(CloseTransport(w, r, t))
  BY DropTransportsSound DEF CloseTransport, Reply

LEMMA CloseRouterSound ==
  ASSUME NEW w \in WorkerState, WorkerSound(w), NEW r
  PROVE  WorkerSound(CloseRouter(w, r))
<1> DEFINE ts == {x[1] : x \in {y \in w.transports : y[2] = r}}
<1> DEFINE v == DropTransports(w, ts)
<1> DEFINE b == {x[1] : x \in {y \in w.observers : y[2] = r}}
<1>1. v \in WorkerState /\ WorkerSound(v)
  BY DropTransportsType, DropTransportsSound
<1>2. \A x \in v.transports : x[2] # r
  BY DEF v, DropTransports, DropProducers, WorkerState
<1>3. v.observers = w.observers
  BY DEF v, DropTransports, DropProducers, WorkerState
<1>4. \A x \in v.observers : x[1] \notin b => x[2] # r
  BY Zenon, <1>3
<1>5. \A x \in v.observers : x[2] # r => x[1] \notin b
  BY Zenon, <1>1, <1>3 DEF WorkerSound
<1> HIDE DEF v, b
<1> DEFINE d == [v EXCEPT !.routers   = @ \ {r},
                          !.observers = {x \in @ : x[2] # r},
                          !.watched   = {x \in @ : x[1] \notin b}]
<1>6. WorkerSound(d)
  BY <1>1, <1>2, <1>4, <1>5, SMTT(60) DEF WorkerState, WorkerSound, HasTransport, OnRouter
<1> QED
  BY <1>6 DEF v, b, CloseRouter, Reply

-----------------------------------------------------------------------------
(* Every step *)

LEMMA WriteSound ==
  ASSUME NoDanglingObjects, NEW w, WorkerSound(w), Write(w)
  PROVE  NoDanglingObjects'
  BY DEF NoDanglingObjects, Write

\* The steps that write to the worker; every other step leaves it alone.
WorkerStep(c) ==
  \/ CreateRoom(c) \/ SetUpTransport(c) \/ Publish(c) \/ ReopenTransport(c)
  \/ ConnectTransport(c) \/ ConsumeAll(c) \/ VisitUser(c) \/ CloseRoom(c)

LEMMA OtherSteps ==
  ASSUME [Next]_vars
  PROVE  (\E c \in Conn : WorkerStep(c)) \/ WorkerExit \/ UNCHANGED worker
<1> USE DEF media
<1>1. ASSUME NEW c \in Conn, Request(c) PROVE UNCHANGED worker
  BY <1>1, ZenonT(60) DEF Request, UpOffer, DownAnswer, HeatBeat, Disconnect
<1>2. ASSUME NEW c \in Conn, Handle(c) PROVE WorkerStep(c) \/ UNCHANGED worker
  BY <1>2 DEF Handle, WorkerStep, StoreRoom, JoinRoom, FillAudio, FillVideo, ReplyAnswer, WriteFails,
     DownOffer, NotifyUser, AssignTransportId, AssignConsumers, ReadProducers, PutConsumers,
     SendOffer, UserVanished, WriteCollision, DownOfferDone, FindUser, ReplyBeat, VisitRoom,
     DeleteUser, DeleteRoom, Renegotiate
<1> QED
  BY <1>1, <1>2 DEF Next, CloseWorkerManager, vars

LEMMA SoundStep ==
  ASSUME TypeOK, NoDanglingObjects, [Next]_vars
  PROVE  NoDanglingObjects'
<1> USE DEF NoDanglingObjects
<1>w. worker \in WorkerState
  BY DEF TypeOK
<1>1. ASSUME NEW c \in Conn, CreateRoom(c) PROVE NoDanglingObjects'
  <2>1. Mine(c) \in User /\ roomId[c] \in RoomId
    BY <1>1, MineType DEF CreateRoom, TypeOK, LocalsSet, LocalsTyped
  <2>2. <<Mine(c), "audioLevel">> \in Observer
    BY <2>1 DEF Observer
  <2> QED
    BY <1>1, <1>w, <2>1, <2>2, CreateRouterType, CreateRouterSound, CreateObserverType,
       CreateObserverSound, WriteSound, Zenon
       DEF CreateRoom
<1>2. ASSUME NEW c \in Conn, SetUpTransport(c) PROVE NoDanglingObjects'
  <2>1. Mine(c) \in User /\ roomId[c] \in RoomId
    BY <1>2, MineType DEF SetUpTransport, TypeOK, LocalsSet, LocalsTyped
  <2> QED
    BY <1>2, <1>w, <2>1, TransportTypes, CreateTransportType, CreateTransportSound, ConnectSound,
       WriteSound, Zenon
       DEF SetUpTransport
<1>3. ASSUME NEW c \in Conn, Publish(c) PROVE NoDanglingObjects'
  <2>1. Mine(c) \in User /\ room[c] \in User
    BY <1>3, MineType DEF Publish, TypeOK, LocalsSet, LocalsTyped
  <2>2. ObserverId(c) \in Observer /\ <<Mine(c), "audio">> \in Producer
    BY Zenon, <2>1 DEF ObserverId, Observer, Producer, Kind
  <2> QED
    BY <1>3, <1>w, <2>1, <2>2, TransportTypes, ProduceType, ProduceSound, AddProducerType,
       AddProducerSound, WriteSound, ZenonT(60)
       DEF Publish
<1>4. ASSUME NEW c \in Conn, ReopenTransport(c) PROVE NoDanglingObjects'
  <2>1. /\ CloseStreams(worker, roomId[c], user[c]) \in WorkerState
        /\ WorkerSound(CloseStreams(worker, roomId[c], user[c]))
    BY Zenon, <1>w, CloseConsumersType, CloseConsumersSound, CloseTransportType, CloseTransportSound
       DEF CloseStreams
  <2> QED
    BY Zenon, <1>4, <2>1, CreateTransportSound, WriteSound DEF ReopenTransport
<1>5. ASSUME NEW c \in Conn, ConnectTransport(c) PROVE NoDanglingObjects'
  BY Zenon, <1>5, <1>w, ConnectSound, WriteSound DEF ConnectTransport
<1>6. ASSUME NEW c \in Conn, ConsumeAll(c) PROVE NoDanglingObjects'
  BY Zenon, <1>6, <1>w, ConsumeSound, WriteSound DEF ConsumeAll
<1>7. ASSUME NEW c \in Conn, VisitUser(c) PROVE NoDanglingObjects'
  <2>1. \A r, u : WorkerSound(CloseUser(worker, r, u))
    BY Zenon, <1>w, CloseProducersType, CloseProducersSound, CloseTransportType, CloseTransportSound,
       CloseConsumersType, CloseConsumersSound
       DEF CloseUser
  <2> QED
    BY Zenon, <1>7, <2>1, WriteSound DEF VisitUser
<1>8. ASSUME NEW c \in Conn, CloseRoom(c) PROVE NoDanglingObjects'
  BY <1>8, <1>w, CloseRouterSound, WriteSound DEF CloseRoom
<1>9. CASE WorkerExit
  BY <1>9, StartedWorkerSound DEF WorkerExit
<1>10. CASE UNCHANGED worker
  BY <1>10
<1> QED
  BY Zenon, <1>1, <1>2, <1>3, <1>4, <1>5, <1>6, <1>7, <1>8, <1>9, <1>10, OtherSteps
     DEF WorkerStep

\* No interleaving of handlers, panics, disconnects and worker exits leaves a
\* transport without router, a producer without transport, or a consumer without
\* producer in the worker.
THEOREM NothingDangles == Spec => []NoDanglingObjects
<1>1. Init => NoDanglingObjects
  BY Zenon, StartedWorkerSound DEF Init, NoDanglingObjects
<1> QED
  BY <1>1, TypesCorrect, SoundStep, PTL DEF Spec

-----------------------------------------------------------------------------
(* Rooms.  Whatever Rooms and Users a stale handler holds on to: nobody    *)
(* receives media of another room.  It rests on HomeInv: every pointer     *)
(* that a goroutine or a map holds leads to the room it was looked up for. *)

-----------------------------------------------------------------------------
(* A step of one goroutine leaves the others where they are *)

Same(d) ==
  /\ pc'[d] = pc[d] /\ offers'[d] = offers[d] /\ leaving'[d] = leaving[d]
  /\ roomId'[d] = roomId[d] /\ room'[d] = room[d] /\ users'[d] = users[d]
  /\ user'[d] = user[d] /\ trans'[d] = trans[d] /\ others'[d] = others[d]
  /\ other'[d] = other[d] /\ rooms'[d] = rooms[d] /\ names'[d] = names[d]

LEMMA ReturnSame ==
  ASSUME TypeOK, NEW c \in Conn, NEW d \in Conn \ {c}, Return(c), UNCHANGED offers
  PROVE  Same(d)
  BY Zenon DEF Return, Goto, ForgetLocals, Same, TypeOK, ConnectionsTyped, LocalsTyped

LEMMA EndLoopSame ==
  ASSUME TypeOK, NEW c \in Conn, NEW d \in Conn \ {c}, EndLoop(c), UNCHANGED offers
  PROVE  Same(d)
  BY DEF EndLoop, Goto, ForgetLocals, Same, TypeOK, ConnectionsTyped, LocalsTyped

LEMMA OthersSame ==
  ASSUME TypeOK, NEW c \in Conn, NEW d \in Conn \ {c}, Request(c) \/ Handle(c)
  PROVE  Same(d)
<1> USE DEF locals, clients, downVars, clearVars, Goto
<1>t. /\ pc \in [Conn -> Label] /\ offers \in [Conn -> 0..MaxOffers]
      /\ leaving \in [Conn -> BOOLEAN] /\ LocalsTyped
  BY Zenon DEF TypeOK, ConnectionsTyped
<1>1. ASSUME UpOffer(c) \/ DownAnswer(c) \/ HeatBeat(c) PROVE Same(d)
  BY <1>t, <1>1, Zenon DEF UpOffer, DownAnswer, HeatBeat, Same, LocalsTyped
<1>2. ASSUME \/ CreateRoom(c) \/ StoreRoom(c) \/ JoinRoom(c) \/ SetUpTransport(c) \/ FillAudio(c)
             \/ FillVideo(c) \/ Publish(c) \/ ReplyAnswer(c)
      PROVE  Same(d)
  BY <1>t, <1>2, Zenon DEF CreateRoom, StoreRoom, JoinRoom, SetUpTransport, FillAudio, FillVideo, Publish,
     ReplyAnswer, Same, LocalsTyped
<1>3. ASSUME \/ NotifyUser(c) \/ ReopenTransport(c) \/ AssignTransportId(c) \/ ReadProducers(c)
             \/ PutConsumers(c) \/ SendOffer(c) \/ ConnectTransport(c)
      PROVE  Same(d)
  BY <1>t, <1>3, ZenonT(60) DEF NotifyUser, ReopenTransport, AssignTransportId, ReadProducers, PutConsumers,
     SendOffer, ConnectTransport, Same, LocalsTyped
<1>4. ASSUME WriteFails(c) \/ DownOfferDone(c) \/ ConsumeAll(c) \/ ReplyBeat(c) PROVE Same(d)
  BY <1>4, ReturnSame, Zenon DEF WriteFails, DownOfferDone, ConsumeAll, ReplyBeat
<1>5. ASSUME UserVanished(c) \/ WriteCollision(c) \/ Disconnect(c) PROVE Same(d)
  BY <1>5, ReturnSame, EndLoopSame DEF UserVanished, WriteCollision, Disconnect, Panic
<1>6. ASSUME DownOffer(c) \/ AssignConsumers(c) \/ FindUser(c) \/ Renegotiate(c) PROVE Same(d)
  <2>1. CASE Return(c)
    BY <1>6, <2>1, ReturnSame, ZenonT(60) DEF DownOffer, AssignConsumers, FindUser, Renegotiate
  <2>2. CASE ~Return(c)
    BY <1>t, <1>6, <2>2, ZenonT(60) DEF DownOffer, AssignConsumers, FindUser, Renegotiate, Same, LocalsTyped
  <2> QED
    BY <2>1, <2>2, Zenon
<1>7. ASSUME VisitRoom(c) \/ VisitUser(c) PROVE Same(d)
  BY <1>t, <1>7, SMTT(60) DEF VisitRoom, VisitUser, Same, LocalsTyped
<1>8. ASSUME DeleteUser(c) \/ CloseRoom(c) \/ DeleteRoom(c) PROVE Same(d)
  BY <1>t, <1>8, ZenonT(30) DEF DeleteUser, CloseRoom, DeleteRoom, Same,
     LocalsTyped
<1> QED
  BY ZenonT(30), <1>1, <1>2, <1>3, <1>4, <1>5, <1>6, <1>7, <1>8 DEF Request, Handle

LEMMA StutterSame ==
  ASSUME WorkerExit \/ CloseWorkerManager \/ UNCHANGED vars, NEW d \in Conn
  PROVE  Same(d) /\ UNCHANGED <<maps, streams>>
  BY DEF WorkerExit, CloseWorkerManager, vars, clients, locals, downVars, clearVars, Same, maps,
     streams

-----------------------------------------------------------------------------
(* Pointers lead home *)

MapsHome ==
  /\ \A r \in RoomId : roomMap[r] # None => HomeOf(roomMap[r]) = r
  /\ \A ro \in User, n \in UserId :
       members[ro][n] # None => HomeOf(members[ro][n]) = HomeOf(ro)

Publishing == {"create", "store", "join", "transport", "audio", "video", "produce", "reply"}
Subscribing == {"reopen", "assign", "assignMap", "subscribe", "put"}

\* What the local variables of c point to.
KnowsHome(c) ==
  /\ pc[c] \in Publishing => roomId[c] = RoomOf[c]
  /\ pc[c] = "store" => room[c] = Mine(c)
  /\ pc[c] = "join" => HomeOf(room[c]) = RoomOf[c]
  /\ pc[c] \in Subscribing \union {"notify"} =>
       HomeOf(room[c]) = roomId[c] /\ \A u \in users[c] : HomeOf(u) = roomId[c]
  /\ pc[c] \in Subscribing =>
       /\ HomeOf(user[c]) = roomId[c]
       /\ \A v \in others[c] : HomeOf(v) = roomId[c] /\ NameOf(v) # NameOf(user[c])
  /\ pc[c] = "put" => HomeOf(other[c]) = roomId[c] /\ NameOf(other[c]) # NameOf(user[c])

HomeInv == MapsHome /\ \A c \in Conn : KnowsHome(c)

LEMMA HomeInit == Init => HomeInv
  BY SMTT(60) DEF Init, HomeInv, MapsHome, KnowsHome, Publishing, Subscribing

LEMMA SameKnowsHome ==
  ASSUME NEW d \in Conn, KnowsHome(d), Same(d)
  PROVE  KnowsHome(d)'
  BY DEF Same, KnowsHome, HomeOf, NameOf, Mine

LEMMA UsersInHome ==
  ASSUME TypeOK, MapsHome, NEW ro \in User
  PROVE  \A v \in UsersIn(ro) : v \in User /\ HomeOf(v) = HomeOf(ro)
  BY DEF TypeOK, MapsTyped, MapsHome, UsersIn

LEMMA MapChanges ==
  ASSUME NEW c \in Conn, Request(c) \/ Handle(c)
  PROVE  StoreRoom(c) \/ JoinRoom(c) \/ DeleteUser(c) \/ DeleteRoom(c) \/ UNCHANGED maps
<1>1. ASSUME Request(c) PROVE UNCHANGED maps
  BY <1>1, Zenon DEF Request, UpOffer, DownAnswer, HeatBeat, Disconnect, maps
<1>2. ASSUME Handle(c)
      PROVE  StoreRoom(c) \/ JoinRoom(c) \/ DeleteUser(c) \/ DeleteRoom(c) \/ UNCHANGED maps
  BY <1>2, ZenonT(60) DEF Handle, CreateRoom, SetUpTransport, FillAudio, FillVideo, Publish, ReplyAnswer,
     WriteFails, DownOffer, NotifyUser, ReopenTransport, AssignTransportId, AssignConsumers,
     ReadProducers, PutConsumers, SendOffer, UserVanished, WriteCollision, DownOfferDone, FindUser,
     ConnectTransport, ConsumeAll, ReplyBeat, VisitRoom, VisitUser, CloseRoom, Renegotiate, maps
<1> QED
  BY <1>1, <1>2

LEMMA MapsStep ==
  ASSUME TypeOK, HomeInv, [Next]_vars
  PROVE  MapsHome'
<1>1. ASSUME NEW c \in Conn, StoreRoom(c) PROVE MapsHome'
  <2>1. /\ room[c] = Mine(c) /\ Mine(c) \in User /\ HomeOf(Mine(c)) = RoomOf[c]
        /\ roomId[c] = RoomOf[c] /\ RoomOf[c] \in RoomId /\ UserOf[c] \in UserId
    BY <1>1, MineType, PageTypes, ZenonT(60)
       DEF StoreRoom, HomeInv, KnowsHome, Publishing, HomeOf, Mine, TypeOK, LocalsSet
  <2> QED
    BY <1>1, <2>1 DEF StoreRoom, HomeInv, MapsHome, HomeOf, TypeOK, MapsTyped
<1>2. ASSUME NEW c \in Conn, JoinRoom(c) PROVE MapsHome'
  <2>1. /\ room[c] \in User /\ Mine(c) \in User /\ HomeOf(Mine(c)) = HomeOf(room[c])
        /\ UserOf[c] \in UserId
    BY <1>2, MineType, PageTypes, ZenonT(30)
       DEF JoinRoom, HomeInv, KnowsHome, HomeOf, Mine, TypeOK, LocalsSet, LocalsTyped
  <2> QED
    BY <1>2, <2>1, Zenon DEF JoinRoom, HomeInv, MapsHome, HomeOf, TypeOK, MapsTyped
<1>3. ASSUME NEW c \in Conn, DeleteUser(c) PROVE MapsHome'
  BY <1>3, SMTT(60) DEF DeleteUser, HomeInv, MapsHome, HomeOf, TypeOK, MapsTyped
<1>4. ASSUME NEW c \in Conn, DeleteRoom(c) PROVE MapsHome'
  BY Zenon, <1>4 DEF DeleteRoom, HomeInv, MapsHome, HomeOf, TypeOK, MapsTyped
<1>5. CASE UNCHANGED maps
  BY <1>5 DEF maps, HomeInv, MapsHome, HomeOf
<1>6. WorkerExit \/ CloseWorkerManager \/ UNCHANGED vars => UNCHANGED maps
  BY DEF WorkerExit, CloseWorkerManager, vars, maps
<1> QED
  BY <1>1, <1>2, <1>3, <1>4, <1>5, <1>6, MapChanges, ZenonT(60) DEF Next

\* The step of c itself.
LEMMA OwnStep ==
  ASSUME TypeOK, HomeInv, NEW c \in Conn, Request(c) \/ Handle(c)
  PROVE  KnowsHome(c)'
<1> USE DEF Publishing, Subscribing
<1>k. KnowsHome(c)
  BY DEF HomeInv
<1>t. /\ pc \in [Conn -> Label] /\ offers \in [Conn -> 0..MaxOffers] /\ LocalsTyped /\ LocalsSet(c)
  BY Zenon DEF TypeOK, ConnectionsTyped
<1>r. ASSUME pc'[c] \in {"read", "closed", "beat", "down", "find", "connect", "consume", "clear",
                         "visit", "delete", "forget"}
      PROVE  KnowsHome(c)'
  BY <1>r, Zenon DEF KnowsHome
<1>1. ASSUME UpOffer(c) PROVE KnowsHome(c)'
  <2>1. RoomOf[c] \in RoomId
    BY PageTypes, ZenonT(60)
  <2>2. /\ roomId'[c] = RoomOf[c] /\ room'[c] = roomMap[RoomOf[c]]
        /\ pc'[c] = IF roomMap[RoomOf[c]] = None THEN "create" ELSE "join"
    BY <1>1, <1>t DEF UpOffer, Goto, LocalsTyped
  <2> QED
    BY <2>1, <2>2 DEF KnowsHome, HomeInv, MapsHome, HomeOf
<1>2. ASSUME CreateRoom(c) PROVE KnowsHome(c)'
  <2>1. pc'[c] = "store" /\ room'[c] = Mine(c)' /\ roomId'[c] = RoomOf[c]
    BY <1>2, <1>t, <1>k, Zenon DEF CreateRoom, Goto, LocalsTyped, clients, Mine, KnowsHome
  <2> QED
    BY <2>1, ZenonT(60) DEF KnowsHome
<1>3. ASSUME \/ StoreRoom(c) \/ JoinRoom(c) \/ SetUpTransport(c) \/ FillAudio(c) \/ FillVideo(c)
             \/ Publish(c)
      PROVE  KnowsHome(c)'
  <2>1. pc'[c] \in {"transport", "audio", "video", "produce", "reply"} /\ roomId'[c] = RoomOf[c]
    BY <1>3, <1>t, <1>k DEF StoreRoom, JoinRoom, SetUpTransport, FillAudio, FillVideo, Publish, Goto,
       locals, KnowsHome
  <2> QED
    BY <2>1, Zenon DEF KnowsHome
<1>4. ASSUME DownOffer(c) PROVE KnowsHome(c)'
  <2>1. CASE Return(c)
    BY <1>t, <1>r, <2>1, Zenon DEF Return, Goto
  <2>2. CASE ~Return(c)
    <3> DEFINE ro == roomMap[roomId[c]]
    <3>1. roomId[c] \in RoomId
      BY <1>4, <1>t, Zenon DEF DownOffer, LocalsSet, LocalsTyped
    <3>2. ro # None
      BY <1>4, <2>2, NoneInEmpty DEF DownOffer
    <3>3. ro \in User /\ HomeOf(ro) = roomId[c]
      BY <3>1, <3>2, ZenonT(60) DEF HomeInv, MapsHome, TypeOK, MapsTyped
    <3>4. pc'[c] = "notify" /\ room'[c] = ro /\ users'[c] = UsersIn(ro) /\ roomId'[c] = roomId[c]
      BY <1>4, <1>t, <2>2, <3>2 DEF DownOffer, Goto, LocalsTyped
    <3> QED
      BY <3>3, <3>4, UsersInHome, SMTT(60) DEF KnowsHome, HomeInv, HomeOf
  <2> QED
    BY <2>1, <2>2
<1>5. ASSUME NotifyUser(c) PROVE KnowsHome(c)'
  <2>1. PICK u \in users[c] :
          /\ users' = [users EXCEPT ![c] = @ \ {u}]
          /\ user' = [user EXCEPT ![c] = u]
          /\ others' = [others EXCEPT ![c] = {v \in UsersIn(room[c]) : NameOf(v) # NameOf(u)}]
    BY <1>5, ZenonT(60) DEF NotifyUser
  <2>2. /\ room[c] \in User /\ HomeOf(room[c]) = roomId[c]
        /\ \A v \in users[c] : HomeOf(v) = roomId[c]
    BY <1>5, <1>k, <1>t, ZenonT(30) DEF NotifyUser, KnowsHome, LocalsSet,
       LocalsTyped
  <2>3. pc'[c] = "reopen" /\ room'[c] = room[c] /\ roomId'[c] = roomId[c]
    BY Zenon, <1>5, <1>t DEF NotifyUser, Goto
  <2>4. users'[c] = users[c] \ {u} /\ user'[c] = u
    BY <2>1, <1>t DEF LocalsTyped
  <2>5. others'[c] = {v \in UsersIn(room[c]) : NameOf(v) # NameOf(u)}
    BY <2>1, <1>t, Zenon DEF LocalsTyped
  <2>6. \A v \in UsersIn(room[c]) : HomeOf(v) = roomId[c]
    BY <2>2, UsersInHome DEF HomeInv
  <2> QED
    BY <2>2, <2>3, <2>4, <2>5, <2>6, Zenon DEF KnowsHome, HomeOf, NameOf
<1>6. ASSUME ReopenTransport(c) \/ AssignTransportId(c) PROVE KnowsHome(c)'
  <2>1. /\ pc[c] \in {"reopen", "assign"} /\ pc'[c] \in {"assign", "assignMap"}
        /\ UNCHANGED <<roomId, room, users, user, others, other>>
    BY <1>6, <1>t, ZenonT(60) DEF ReopenTransport, AssignTransportId, Goto, locals, downVars
  <2> QED
    BY <1>k, <2>1, Zenon DEF KnowsHome, HomeOf, NameOf
<1>7. ASSUME AssignConsumers(c) PROVE KnowsHome(c)'
  <2>1. CASE Return(c)
    BY <1>t, <1>r, <2>1, Zenon DEF Return, Goto
  <2>2. CASE ~Return(c)
    <3>1. /\ pc[c] = "assignMap" /\ pc'[c] = "subscribe"
          /\ UNCHANGED <<roomId, room, users, user, others, other>>
      BY <1>7, <1>t, <2>2 DEF AssignConsumers, Goto, locals, downVars
    <3> QED
      BY Zenon, <1>k, <3>1 DEF KnowsHome, HomeOf, NameOf
  <2> QED
    BY <2>1, <2>2
<1>8. ASSUME ReadProducers(c) PROVE KnowsHome(c)'
  <2>1. PICK v \in others[c] :
          others' = [others EXCEPT ![c] = @ \ {v}] /\ other' = [other EXCEPT ![c] = v]
    BY <1>8, ZenonT(60) DEF ReadProducers
  <2>2. /\ pc[c] = "subscribe" /\ pc'[c] = "put" /\ UNCHANGED <<roomId, room, users, user>>
        /\ others'[c] = others[c] \ {v} /\ other'[c] = v
    BY <1>8, <1>t, <2>1, ZenonT(60) DEF ReadProducers, Goto, LocalsTyped
  <2> QED
    BY <1>k, <2>2, Zenon DEF KnowsHome, HomeOf, NameOf
<1>9. ASSUME PutConsumers(c) \/ SendOffer(c) PROVE KnowsHome(c)'
  <2>1. /\ pc[c] \in {"put", "subscribe"} /\ pc'[c] \in {"subscribe", "notify"}
        /\ UNCHANGED <<roomId, room, users, user, others, other>>
    BY <1>9, <1>t DEF PutConsumers, SendOffer, Goto, locals, downVars
  <2> QED
    BY Zenon, <1>k, <2>1 DEF KnowsHome, HomeOf, NameOf
<1>10. ASSUME \/ WriteFails(c) \/ DownOfferDone(c) \/ ConsumeAll(c) \/ ReplyBeat(c)
              \/ UserVanished(c) \/ WriteCollision(c) \/ Disconnect(c)
       PROVE  KnowsHome(c)'
  <2>1. Return(c) \/ EndLoop(c)
    BY <1>10 DEF WriteFails, DownOfferDone, ConsumeAll, ReplyBeat, UserVanished, WriteCollision,
       Disconnect, Panic
  <2> QED
    BY <1>t, <1>r, <2>1, ZenonT(30) DEF Return, EndLoop, Goto
<1>11. ASSUME \/ ReplyAnswer(c) \/ HeatBeat(c) \/ DownAnswer(c) \/ FindUser(c)
              \/ ConnectTransport(c)
       PROVE  KnowsHome(c)'
  <2>1. pc'[c] \in {"down", "beat", "read", "closed", "find", "connect", "consume"}
    BY <1>11, <1>t, ZenonT(60) DEF ReplyAnswer, HeatBeat, DownAnswer, FindUser, ConnectTransport, Reading,
       Return, Goto
  <2> QED
    BY <1>r, <2>1, ZenonT(60)
<1>12. ASSUME \/ VisitRoom(c) \/ VisitUser(c) \/ DeleteUser(c) \/ CloseRoom(c) \/ DeleteRoom(c)
              \/ Renegotiate(c)
       PROVE  KnowsHome(c)'
  <2>1. pc'[c] \in {"clear", "visit", "delete", "forget", "down", "read", "closed"}
    BY <1>12, <1>t DEF VisitRoom, VisitUser, DeleteUser, CloseRoom, DeleteRoom, Renegotiate, Return,
       Goto
  <2> QED
    BY <1>r, <2>1, ZenonT(60)
<1> QED
  BY <1>1, <1>2, <1>3, <1>4, <1>5, <1>6, <1>7, <1>8, <1>9, <1>10, <1>11, <1>12, Zenon DEF Request, Handle

LEMMA HomeStep ==
  ASSUME TypeOK, HomeInv, [Next]_vars
  PROVE  HomeInv'
<1>1. ASSUME NEW c \in Conn, Request(c) \/ Handle(c), NEW d \in Conn PROVE KnowsHome(d)'
  BY <1>1, OwnStep, OthersSame, SameKnowsHome DEF HomeInv
<1>2. ASSUME WorkerExit \/ CloseWorkerManager \/ UNCHANGED vars, NEW d \in Conn
      PROVE  KnowsHome(d)'
  BY <1>2, StutterSame, SameKnowsHome DEF HomeInv
<1> QED
  BY <1>1, <1>2, MapsStep DEF HomeInv, Next

LEMMA HomeAlways == Spec => []HomeInv
  BY TypesCorrect, HomeInit, HomeStep, PTL DEF Spec

-----------------------------------------------------------------------------
(* Who receives whom *)

\* The closing requests add no consumer.
LEMMA ClosingShrinks ==
  ASSUME NEW w \in WorkerState, NEW r, NEW t, NEW s
  PROVE  /\ CloseProducers(w, t, s).consumers \subseteq w.consumers
         /\ CloseConsumers(w, t, s).consumers \subseteq w.consumers
         /\ CloseTransport(w, r, t).consumers \subseteq w.consumers
         /\ CloseRouter(w, r).consumers \subseteq w.consumers
<1>1. \A ps : DropProducers(w, ps).consumers \subseteq w.consumers
  BY DEF DropProducers, WorkerState
<1>2. \A ts : DropTransports(w, ts).consumers \subseteq w.consumers
  BY Zenon DEF DropTransports, DropProducers, WorkerState
<1>3. CloseRouter(w, r).consumers \subseteq w.consumers
  <2> DEFINE v == DropTransports(w, {x[1] : x \in {y \in w.transports : y[2] = r}})
  <2>1. v \in WorkerState /\ v.consumers \subseteq w.consumers
    BY <1>2, DropTransportsType
  <2>2. CloseRouter(w, r).consumers \in {v.consumers, w.consumers}
    <3> HIDE DEF v
    <3> QED
      BY <2>1 DEF v, CloseRouter, Reply, WorkerState
  <2> QED
    BY <2>1, <2>2
<1>4. CloseConsumers(w, t, s).consumers \subseteq w.consumers
  BY DEF CloseConsumers, WorkerState
<1> QED
  BY <1>1, <1>2, <1>3, <1>4 DEF CloseProducers, CloseTransport, Reply

\* The creating requests add none either.
LEMMA CreatingKeepsConsumers ==
  ASSUME NEW w \in WorkerState
  PROVE  /\ \A r : CreateRouter(w, r).consumers = w.consumers
         /\ \A r, b : CreateObserver(w, r, b).consumers = w.consumers
         /\ \A r, t : CreateTransport(w, r, t).consumers = w.consumers
         /\ \A t, f : Connect(w, t, f).consumers = w.consumers
         /\ \A t, p : Produce(w, t, p).consumers = w.consumers
         /\ \A b, p : AddProducer(w, b, p).consumers = w.consumers
  BY DEF CreateRouter, CreateObserver, CreateTransport, Connect, Produce, AddProducer, Reply,
     WorkerState

LEMMA ConnectKeepsConsumers ==
  \A w \in WorkerState : \A t, f : Connect(w, t, f).consumers = w.consumers
  BY DEF Connect, Reply, WorkerState

LEMMA ObserverKeepsConsumers ==
  \A w \in WorkerState : \A r, b : CreateObserver(w, r, b).consumers = w.consumers
  BY CreatingKeepsConsumers, Zenon

LEMMA ProduceKeepsConsumers ==
  \A w \in WorkerState : \A t, p : Produce(w, t, p).consumers = w.consumers
  BY CreatingKeepsConsumers, Zenon

LEMMA WatchingKeepsConsumers ==
  \A w \in WorkerState : \A b, p : AddProducer(w, b, p).consumers = w.consumers
  BY CreatingKeepsConsumers, Zenon

\* Only ConsumeAll adds consumers to the worker.
LEMMA ConsumersGrowOnlyThere ==
  ASSUME TypeOK, [Next]_vars, \A c \in Conn : ~ConsumeAll(c)
  PROVE  worker'.consumers \subseteq worker.consumers
<1>w. worker \in WorkerState
  BY DEF TypeOK
<1>1. ASSUME NEW c \in Conn, CreateRoom(c) PROVE worker'.consumers \subseteq worker.consumers
  <2>1. Mine(c) \in User /\ roomId[c] \in RoomId
    BY Zenon, <1>1, MineType DEF CreateRoom, TypeOK, LocalsSet, LocalsTyped
  <2>2. <<Mine(c), "audioLevel">> \in Observer
    BY <2>1 DEF Observer
  <2> QED
    <3> DEFINE v == CreateRouter(worker, roomId[c])
    <3> DEFINE x == CreateObserver(v, roomId[c], <<Mine(c), "audioLevel">>)
    <3> DEFINE y == CreateObserver(x, roomId[c], <<Mine(c), "activeSpeaker">>)
    <3>1. v \in WorkerState /\ v.consumers = worker.consumers
      BY <1>w, <2>1, CreateRouterType, CreatingKeepsConsumers, Zenon
    <3> HIDE DEF v
    <3>2. x \in WorkerState /\ x.consumers = v.consumers
      BY <3>1, <2>1, <2>2, CreateObserverType, ObserverKeepsConsumers, Zenon
    <3> HIDE DEF x
    <3>3. y.consumers = x.consumers
      BY <3>2, ObserverKeepsConsumers, Zenon
    <3>4. Write(y)
      BY <1>1, ZenonT(30) DEF CreateRoom, v, x
    <3> HIDE DEF y
    <3> QED
      BY <3>1, <3>2, <3>3, <3>4, Zenon DEF Write
<1>2. ASSUME NEW c \in Conn, SetUpTransport(c) PROVE worker'.consumers \subseteq worker.consumers
  <2>1. Mine(c) \in User /\ roomId[c] \in RoomId
    BY <1>2, MineType DEF SetUpTransport, TypeOK, LocalsSet, LocalsTyped
  <2> QED
    <3> DEFINE t == ProducerTransport(Mine(c))
    <3> DEFINE v == CreateTransport(worker, roomId[c], t)
    <3> DEFINE x == Connect(v, t, Fingerprint(c, 0))
    <3>1. v \in WorkerState /\ v.consumers = worker.consumers
      BY <1>w, <2>1, TransportTypes, CreateTransportType, CreatingKeepsConsumers
    <3>2. Write(x)
      BY <1>2, Zenon DEF SetUpTransport
    <3> HIDE DEF v
    <3>3. x.consumers = v.consumers
      BY <3>1, ConnectKeepsConsumers, ZenonT(30)
    <3> HIDE DEF x
    <3> QED
      BY <3>1, <3>2, <3>3, ZenonT(30) DEF Write
<1>3. ASSUME NEW c \in Conn, Publish(c) PROVE worker'.consumers \subseteq worker.consumers
  <2>1. Mine(c) \in User /\ room[c] \in User
    BY <1>3, MineType DEF Publish, TypeOK, LocalsSet, LocalsTyped
  <2>2. ObserverId(c) \in Observer /\ <<Mine(c), "audio">> \in Producer
    BY <2>1, Zenon DEF ObserverId, Observer, Producer, Kind
  <2> QED
    <3> DEFINE t == ProducerTransport(Mine(c))
    <3> DEFINE audio == <<Mine(c), "audio">>
    <3> DEFINE v == Produce(worker, t, audio)
    <3> DEFINE x == AddProducer(v, ObserverId(c), audio)
    <3> DEFINE y == Produce(x, t, <<Mine(c), "video">>)
    <3>t. t \in Transport
      BY <2>1, TransportTypes, Zenon
    <3> HIDE DEF t
    <3>1. v \in WorkerState /\ v.consumers = worker.consumers
      <4>1. v \in WorkerState
        BY <1>w, <2>2, <3>t, ProduceType, Zenon
      <4>2. v.consumers = worker.consumers
        BY <1>w, ProduceKeepsConsumers, Zenon
      <4> QED
        BY <4>1, <4>2
    <3>2. Write(y)
      BY <1>3 DEF Publish, t
    <3> HIDE DEF v
    <3>3. x \in WorkerState /\ x.consumers = v.consumers
      <4>1. x \in WorkerState
        BY <3>1, <2>2, AddProducerType, Zenon
      <4>2. x.consumers = v.consumers
        BY <3>1, WatchingKeepsConsumers, Zenon
      <4> QED
        BY <4>1, <4>2, Zenon
    <3> HIDE DEF x
    <3>4. y.consumers = x.consumers
      BY <3>3, ProduceKeepsConsumers, ZenonT(30)
    <3> HIDE DEF y
    <3> QED
      BY <3>1, <3>2, <3>3, <3>4, Zenon DEF Write
<1>4. ASSUME NEW c \in Conn, ReopenTransport(c) PROVE worker'.consumers \subseteq worker.consumers
  <2> DEFINE w == CloseStreams(worker, roomId[c], user[c])
  <2>1. w \in WorkerState /\ w.consumers \subseteq worker.consumers
    BY <1>w, CloseConsumersType, CloseTransportType, ClosingShrinks, ZenonT(60) DEF CloseStreams
  <2> HIDE DEF w
  <2>2. \A t : CreateTransport(w, roomId[c], t).consumers = w.consumers
    BY <2>1, CreatingKeepsConsumers, ZenonT(60)
  <2> QED
    BY <1>4, <2>1, <2>2, Zenon DEF ReopenTransport, Write, w
<1>5. ASSUME NEW c \in Conn, ConnectTransport(c) PROVE worker'.consumers \subseteq worker.consumers
  BY <1>5, <1>w, ConnectKeepsConsumers, ZenonT(60) DEF ConnectTransport, Write
<1>6. ASSUME NEW c \in Conn, VisitUser(c) PROVE worker'.consumers \subseteq worker.consumers
  <2>1. \A r, u : CloseUser(worker, r, u).consumers \subseteq worker.consumers
    <3> TAKE r, u
    <3> DEFINE v == CloseProducers(worker, ProducerTransport(u), {u} \X producers[u])
    <3> DEFINE x == CloseTransport(v, r, ProducerTransport(u))
    <3> DEFINE s == ConsumerTransport(u, transId[u])
    <3> DEFINE y == CloseConsumers(x, s, ConsumersOf(u))
    <3>1. v \in WorkerState /\ v.consumers \subseteq worker.consumers
      BY <1>w, CloseProducersType, ClosingShrinks
    <3> HIDE DEF v
    <3>2. x \in WorkerState /\ x.consumers \subseteq v.consumers
      BY <3>1, CloseTransportType, ClosingShrinks, ZenonT(60)
    <3> HIDE DEF x
    <3>3. y \in WorkerState /\ y.consumers \subseteq x.consumers
      BY <3>2, CloseConsumersType, ClosingShrinks, ZenonT(60)
    <3> HIDE DEF y
    <3>4. CloseTransport(y, r, s).consumers \subseteq y.consumers
      BY <3>3, ClosingShrinks, ZenonT(60)
    <3> QED
      BY <3>1, <3>2, <3>3, <3>4, ZenonT(60) DEF CloseUser, v, x, y
  <2> QED
    BY <1>6, <2>1, Zenon DEF VisitUser, Write
<1>7. ASSUME NEW c \in Conn, CloseRoom(c) PROVE worker'.consumers \subseteq worker.consumers
  BY <1>7, <1>w, ClosingShrinks, Zenon DEF CloseRoom, Write
<1>8. CASE WorkerExit
  BY <1>8 DEF WorkerExit, StartedWorker
<1> QED
  BY <1>1, <1>2, <1>3, <1>4, <1>5, <1>6, <1>7, <1>8, OtherSteps, Zenon DEF WorkerStep

\* The consumers that User.Consumer.Consumers holds.
LEMMA OfferedStep ==
  ASSUME TypeOK, HomeInv, RoomIsolation, [Next]_vars, NEW u \in User, NEW k \in ConsumersOf(u)'
  PROVE  Audience(u, k[2])
<1>1. ASSUME NEW c \in Conn, PutConsumers(c) PROVE Audience(u, k[2])
  <2>1. PICK seen \in SUBSET producers[other[c]] :
          consumers' = [consumers EXCEPT ![user[c]][NameOf(other[c])] =
             {<<ConsumerTransport(user[c], trans[c]), <<other[c], kd>>>> : kd \in seen}]
    BY <1>1, ZenonT(60) DEF PutConsumers
  <2>2. PICK n \in UserId : k \in consumers'[u][n]
    BY Zenon DEF ConsumersOf
  <2>3. /\ HomeOf(other[c]) = HomeOf(user[c]) /\ NameOf(other[c]) # NameOf(user[c])
    BY <1>1, Zenon DEF PutConsumers, HomeInv, KnowsHome, Subscribing
  <2>4. CASE u = user[c] /\ n = NameOf(other[c])
    <3>1. PICK kd : k = <<ConsumerTransport(user[c], trans[c]), <<other[c], kd>>>>
      BY <2>1, <2>2, <2>4, Zenon DEF TypeOK, StreamsTyped
    <3> QED
      BY <2>3, <2>4, <3>1 DEF Audience
  <2>5. CASE ~(u = user[c] /\ n = NameOf(other[c]))
    <3>1. k \in consumers[u][n]
      BY <2>1, <2>2, <2>5 DEF TypeOK, StreamsTyped
    <3> QED
      BY <2>2, <3>1, Zenon DEF RoomIsolation, ConsumersOf
  <2> QED
    BY <2>4, <2>5
<1>2. ASSUME NEW c \in Conn, AssignConsumers(c) PROVE Audience(u, k[2])
  <2>1. k \in ConsumersOf(u)
    BY <1>2 DEF AssignConsumers, ConsumersOf, TypeOK, StreamsTyped
  <2> QED
    BY <2>1, ZenonT(30) DEF RoomIsolation
<1>3. CASE UNCHANGED consumers
  BY <1>3, Zenon DEF RoomIsolation, ConsumersOf
<1>4. ASSUME NEW c \in Conn, Request(c) PROVE UNCHANGED consumers
  BY <1>4, Zenon DEF Request, UpOffer, DownAnswer, HeatBeat, Disconnect, streams
<1>5. ASSUME NEW c \in Conn, Handle(c)
      PROVE  PutConsumers(c) \/ AssignConsumers(c) \/ UNCHANGED consumers
  BY <1>5, ZenonT(60) DEF Handle, CreateRoom, StoreRoom, JoinRoom, SetUpTransport, FillAudio, FillVideo, Publish,
     ReplyAnswer, WriteFails, DownOffer, NotifyUser, ReopenTransport, AssignTransportId,
     ReadProducers, SendOffer, UserVanished, WriteCollision, DownOfferDone, FindUser,
     ConnectTransport, ConsumeAll, ReplyBeat, VisitRoom, VisitUser, DeleteUser, CloseRoom, DeleteRoom,
     Renegotiate, streams
<1>6. WorkerExit \/ CloseWorkerManager \/ UNCHANGED vars => UNCHANGED consumers
  BY ZenonT(60) DEF WorkerExit, CloseWorkerManager, vars, streams
<1> QED
  BY <1>1, <1>2, <1>3, <1>4, <1>5, <1>6, Zenon DEF Next

LEMMA IsolationStep ==
  ASSUME TypeOK, HomeInv, RoomIsolation, [Next]_vars
  PROVE  RoomIsolation'
<1>w. worker \in WorkerState
  BY Zenon DEF TypeOK
<1>1. \A x \in worker'.consumers : Audience(x[2][1], x[1][2])
  <2>1. ASSUME NEW c \in Conn, ConsumeAll(c), NEW x \in worker'.consumers
        PROVE  Audience(x[2][1], x[1][2])
    <3> DEFINE t == ConsumerTransport(user[c], trans[c])
    <3>1. user[c] \in User
      BY <2>1 DEF ConsumeAll, TypeOK, LocalsSet, LocalsTyped
    <3>2. x \in worker.consumers \/ (x[1] \in ConsumersOf(user[c]) /\ x[2] = t)
      BY <1>w, <2>1, ZenonT(60) DEF ConsumeAll, Write, Consume, WorkerState
    <3>3. CASE x \in worker.consumers
      BY <3>3, Zenon DEF RoomIsolation
    <3>4. CASE x[1] \in ConsumersOf(user[c]) /\ x[2] = t
      <4>1. t[1] = user[c]
        BY Zenon DEF ConsumerTransport
      <4> QED
        BY <3>1, <3>4, <4>1, Zenon DEF RoomIsolation
    <3> QED
      BY <3>2, <3>3, <3>4, ZenonT(60)
  <2>2. CASE \A c \in Conn : ~ConsumeAll(c)
    BY <2>2, ConsumersGrowOnlyThere DEF RoomIsolation
  <2> QED
    BY <2>1, <2>2, Zenon
<1>2. \A u \in User : \A k \in ConsumersOf(u)' : Audience(u, k[2])
  BY OfferedStep
<1> QED
  BY <1>1, <1>2 DEF RoomIsolation, Audience, HomeOf, NameOf

\* For every number of pages, rooms and names, and however handlers interleave, panic
\* or lose the worker: the worker forwards nothing to another room, and nothing to a
\* user of the publisher's own name (notifyUser and otherUser of
\* ProcessDownOfferSdp, the consumers of ProcessDownAnswerSdp).
THEOREM RoomsAreIsolated == Spec => []RoomIsolation
<1>1. ASSUME Init PROVE RoomIsolation
  <2>1. worker.consumers = {}
    BY Zenon, <1>1 DEF Init, StartedWorker
  <2>2. \A u \in User : ConsumersOf(u) = {}
    BY <1>1 DEF Init, ConsumersOf
  <2> QED
    BY <2>1, <2>2, Zenon DEF RoomIsolation
<1> QED
  BY <1>1, TypesCorrect, HomeAlways, IsolationStep, PTL DEF Spec

\* A transport is on the router of its user, a producer on the transport of its
\* user, a consumer on a connected transport.
Fits(w) ==
  /\ \A x \in w.transports : HomeOf(x[1][1]) = x[2]
  /\ \A x \in w.producers : x[2] = ProducerTransport(x[1][1])
  /\ \A x \in w.consumers : IsConnected(w, x[2])

\* A consume request for transport t is refused unless t is connected.
Ready(w, t) == HasTransport(w, t) => IsConnected(w, t)

\* v is left when some objects of w are closed.
Closes(w, v) ==
  /\ v.transports \subseteq w.transports /\ v.connected \subseteq w.connected
  /\ v.producers \subseteq w.producers /\ v.consumers \subseteq w.consumers
  /\ v.routers \subseteq w.routers
  /\ \A t : IsConnected(w, t) /\ HasTransport(v, t) => IsConnected(v, t)
  /\ \A x \in v.consumers : IsConnected(w, x[2]) => IsConnected(v, x[2])

-----------------------------------------------------------------------------
(* The closing requests *)

LEMMA DropProducersCloses ==
  ASSUME NEW w \in WorkerState, NEW ps
  PROVE  /\ Closes(w, DropProducers(w, ps))
         /\ \A x \in w.producers \ DropProducers(w, ps).producers : x[1] \in ps
  BY SMTT(30) DEF DropProducers, WorkerState, Closes, HasTransport, IsConnected

LEMMA DropTransportsCloses ==
  ASSUME NEW w \in WorkerState, Fits(w), NEW ts
  PROVE  /\ Closes(w, DropTransports(w, ts))
         /\ \A x \in w.producers \ DropTransports(w, ts).producers : x[2] \in ts
         /\ DropTransports(w, ts).routers = w.routers
<1> DEFINE ps == {x[1] : x \in {y \in w.producers : y[2] \in ts}}
<1> DEFINE v == DropProducers(w, ps)
<1>0. \A qs : LET u == DropProducers(w, qs)
              IN  /\ u.transports = w.transports /\ u.connected = w.connected
                  /\ u.routers = w.routers
  BY DEF DropProducers, WorkerState
<1>1. /\ v \in WorkerState /\ Closes(w, v)
      /\ v.transports = w.transports /\ v.connected = w.connected /\ v.routers = w.routers
  BY Zenon, <1>0, DropProducersType, DropProducersCloses
<1>2. \A x \in w.producers \ v.producers : x[2] \in ts
  BY DropProducersCloses DEF Fits
<1> HIDE DEF v
<1> DEFINE d == [v EXCEPT !.transports = {x \in @ : x[1] \notin ts},
                          !.connected  = {x \in @ : x[1] \notin ts},
                          !.consumers  = {x \in @ : x[2] \notin ts}]
<1>3. /\ d.transports = {x \in v.transports : x[1] \notin ts}
      /\ d.connected = {x \in v.connected : x[1] \notin ts}
      /\ d.consumers = {x \in v.consumers : x[2] \notin ts} /\ d.producers = v.producers
      /\ d.routers = v.routers
  BY <1>1 DEF WorkerState
<1>4. d = DropTransports(w, ts)
  BY Zenon DEF v, DropTransports
<1> HIDE DEF d
<1>5. \A t : IsConnected(d, t) <=> IsConnected(w, t) /\ t \notin ts
  BY <1>1, <1>3, ZenonT(30) DEF IsConnected
<1>6. \A t : HasTransport(d, t) => t \notin ts
  BY <1>3, ZenonT(30) DEF HasTransport
<1>7. Closes(w, d)
  BY <1>1, <1>3, <1>5, <1>6, ZenonT(30) DEF Closes
<1> QED
  BY <1>1, <1>2, <1>3, <1>4, <1>7, ZenonT(30)

LEMMA CloseTransportCloses ==
  ASSUME NEW w \in WorkerState, Fits(w), NEW r, NEW t
  PROVE  /\ Closes(w, CloseTransport(w, r, t))
         /\ \A x \in w.producers \ CloseTransport(w, r, t).producers : x[2] = t
<1>1. Closes(w, w)
  BY DEF Closes
<1> QED
  BY Zenon, <1>1, DropTransportsCloses DEF CloseTransport, Reply

LEMMA CloseConsumersCloses ==
  ASSUME NEW w \in WorkerState, NEW t, NEW ks
  PROVE  Closes(w, CloseConsumers(w, t, ks)) /\ CloseConsumers(w, t, ks).producers = w.producers
  BY Zenon DEF CloseConsumers, WorkerState, Closes, HasTransport, IsConnected

LEMMA CloseRouterCloses ==
  ASSUME NEW w \in WorkerState, Fits(w), NEW r
  PROVE  /\ Closes(w, CloseRouter(w, r))
         /\ \A x \in w.producers \ CloseRouter(w, r).producers :
              HomeOf(x[1][1]) = r /\ r \notin CloseRouter(w, r).routers
<1> DEFINE ts == {x[1] : x \in {y \in w.transports : y[2] = r}}
<1> DEFINE v == DropTransports(w, ts)
<1> DEFINE b == {x[1] : x \in {y \in w.observers : y[2] = r}}
<1>1. v \in WorkerState /\ Closes(w, v)
  BY Zenon, DropTransportsType, DropTransportsCloses
<1>2. \A x \in w.producers \ v.producers : HomeOf(x[1][1]) = r
  <2>1. ASSUME NEW x \in w.producers \ v.producers PROVE HomeOf(x[1][1]) = r
    <3>1. x[2] \in ts
      BY Zenon, DropTransportsCloses
    <3>2. PICK y \in w.transports : y[2] = r /\ y[1] = x[2]
      BY <3>1
    <3> QED
      BY <3>2 DEF Fits, ProducerTransport
  <2> QED
    BY Zenon, <2>1
<1> HIDE DEF v, b
<1> DEFINE d == [v EXCEPT !.routers   = @ \ {r},
                          !.observers = {x \in @ : x[2] # r},
                          !.watched   = {x \in @ : x[1] \notin b}]
<1>3. /\ d.transports = v.transports /\ d.connected = v.connected /\ d.producers = v.producers
      /\ d.consumers = v.consumers /\ d.routers = v.routers \ {r}
  BY <1>1 DEF WorkerState
<1>4. CloseRouter(w, r) = IF r \in w.routers THEN d ELSE w
  BY Zenon DEF v, b, CloseRouter, Reply
<1> HIDE DEF d
<1> QED
  BY Zenon, <1>1, <1>2, <1>3, <1>4 DEF Closes, HasTransport, IsConnected

LEMMA ClosesFits ==
  ASSUME NEW w, NEW v, Closes(w, v), Fits(w)
  PROVE  Fits(v) /\ \A t : Ready(w, t) => Ready(v, t)
  BY Zenon DEF Closes, Fits, Ready, HasTransport

LEMMA ClosesTransitive ==
  ASSUME NEW w, NEW v, NEW u, Closes(w, v), Closes(v, u)
  PROVE  Closes(w, u)
  BY Zenon DEF Closes, HasTransport

\* Before a User gets a new consumer transport.
LEMMA CloseStreamsCloses ==
  ASSUME NEW w \in WorkerState, Fits(w), NEW r, NEW u
  PROVE  /\ CloseStreams(w, r, u) \in WorkerState /\ Closes(w, CloseStreams(w, r, u))
         /\ \A x \in w.producers \ CloseStreams(w, r, u).producers :
              x[2] = ConsumerTransport(u, transId[u])
<1> DEFINE t == ConsumerTransport(u, transId[u])
<1> DEFINE v == CloseConsumers(w, t, ConsumersOf(u))
<1>1. v \in WorkerState /\ Closes(w, v) /\ Fits(v) /\ v.producers = w.producers
  BY Zenon, CloseConsumersType, CloseConsumersCloses, ClosesFits
<1>2. CloseStreams(w, r, u) = IF transId[u] = 0 THEN v ELSE CloseTransport(v, r, t)
  BY Zenon DEF CloseStreams
<1> HIDE DEF v
<1>3. /\ CloseTransport(v, r, t) \in WorkerState /\ Closes(v, CloseTransport(v, r, t))
      /\ \A x \in v.producers \ CloseTransport(v, r, t).producers : x[2] = t
  BY Zenon, <1>1, CloseTransportType, CloseTransportCloses
<1> QED
  BY <1>1, <1>2, <1>3, ClosesTransitive

\* When a connection goes away.
LEMMA CloseUserCloses ==
  ASSUME NEW w \in WorkerState, Fits(w), NEW r, NEW u \in User, transId[u] # -1
  PROVE  /\ Closes(w, CloseUser(w, r, u))
         /\ \A x \in w.producers \ CloseUser(w, r, u).producers : x[1][1] = u
<1> DEFINE t == ProducerTransport(u)
<1> DEFINE ps == {p \in {u} \X producers[u] : <<p, t>> \in w.producers}
<1> DEFINE a == CloseProducers(w, t, {u} \X producers[u])
<1> DEFINE b == CloseTransport(a, r, t)
<1> DEFINE s == ConsumerTransport(u, transId[u])
<1> DEFINE d == CloseConsumers(b, s, ConsumersOf(u))
<1> DEFINE e == CloseTransport(d, r, s)
<1>0. e = CloseUser(w, r, u)
  BY DEF CloseUser
<1>1. /\ a \in WorkerState /\ Closes(w, a) /\ Fits(a)
      /\ \A x \in w.producers \ a.producers : x[1][1] = u
  <2>1. a = DropProducers(w, ps)
    BY DEF CloseProducers
  <2>2. Closes(w, a) /\ \A x \in w.producers \ a.producers : x[1] \in ps
    BY <2>1, DropProducersCloses, ZenonT(30)
  <2> QED
    BY <2>2, CloseProducersType, ClosesFits, ZenonT(60)
<1> HIDE DEF a
<1>2. /\ b \in WorkerState /\ Closes(a, b) /\ Fits(b)
      /\ \A x \in a.producers \ b.producers : x[2] = t
  BY Zenon, <1>1, CloseTransportType, CloseTransportCloses, ClosesFits
<1> HIDE DEF b
<1>3. d \in WorkerState /\ Closes(b, d) /\ Fits(d) /\ d.producers = b.producers
  BY Zenon, <1>2, CloseConsumersType, CloseConsumersCloses, ClosesFits
<1> HIDE DEF d
<1>4. Closes(d, e) /\ \A x \in d.producers \ e.producers : x[2] = s
  BY Zenon, <1>3, CloseTransportCloses
<1> HIDE DEF e
<1>5. Closes(w, e)
  BY Zenon, <1>1, <1>2, <1>3, <1>4, ClosesTransitive
<1>6. \A x \in a.producers \ b.producers : x[1][1] = u
  BY <1>1, <1>2 DEF Fits, ProducerTransport
<1>7. d.producers \subseteq e.producers
  BY <1>3, <1>4 DEF Fits, ProducerTransport, ConsumerTransport
<1> QED
  BY Zenon, <1>0, <1>1, <1>3, <1>5, <1>6, <1>7

-----------------------------------------------------------------------------
(* The other requests *)

LEMMA CreatingFits ==
  ASSUME NEW w \in WorkerState, Fits(w)
  PROVE  /\ \A r : /\ Fits(CreateRouter(w, r)) /\ CreateRouter(w, r).producers = w.producers
                  /\ \A t : Ready(w, t) => Ready(CreateRouter(w, r), t)
         /\ \A r, b : LET v == CreateObserver(w, r, b)
                      IN  /\ Fits(v) /\ v.producers = w.producers
                          /\ \A t : Ready(w, t) => Ready(v, t)
         /\ \A b, p : LET v == AddProducer(w, b, p)
                      IN  /\ Fits(v) /\ v.producers = w.producers
                          /\ \A t : Ready(w, t) => Ready(v, t)
  BY DEF CreateRouter, CreateObserver, AddProducer, Reply, WorkerState, Fits, Ready, HasTransport, IsConnected

LEMMA WatchingFits ==
  ASSUME NEW w \in WorkerState, Fits(w), NEW b, NEW p
  PROVE  /\ Fits(AddProducer(w, b, p)) /\ AddProducer(w, b, p).producers = w.producers
         /\ \A t : Ready(w, t) => Ready(AddProducer(w, b, p), t)
  BY CreatingFits, Zenon

LEMMA ProduceFits ==
  ASSUME NEW w \in WorkerState, Fits(w), NEW p
  PROVE  LET v == Produce(w, ProducerTransport(p[1]), p)
         IN  /\ Fits(v) /\ w.producers \subseteq v.producers
             /\ \A t : Ready(w, t) => Ready(v, t)
  BY DEF Produce, Reply, WorkerState, Fits, Ready, HasTransport, IsConnected

LEMMA CreateTransportFits ==
  ASSUME NEW w \in WorkerState, Fits(w), NEW t, NEW r, HomeOf(t[1]) = r
  PROVE  LET v == CreateTransport(w, r, t)
         IN  /\ Fits(v) /\ w.producers = v.producers
             /\ \A s : s # t /\ Ready(w, s) => Ready(v, s)
  BY DEF CreateTransport, Reply, WorkerState, Fits, Ready, HasTransport, IsConnected

LEMMA ConnectFits ==
  ASSUME NEW w \in WorkerState, Fits(w), NEW t, NEW f
  PROVE  LET v == Connect(w, t, f)
         IN  /\ Fits(v) /\ w.producers = v.producers /\ Ready(v, t)
             /\ \A s : Ready(w, s) => Ready(v, s)
<1> DEFINE v == Connect(w, t, f)
<1>1. /\ v.transports = w.transports /\ v.producers = w.producers /\ v.consumers = w.consumers
      /\ w.connected \subseteq v.connected
      /\ HasTransport(w, t) /\ ~IsConnected(w, t) => <<t, f>> \in v.connected
  BY DEF Connect, Reply, WorkerState
<1> HIDE DEF v
<1>2. \A s : IsConnected(w, s) => IsConnected(v, s)
  BY <1>1, Zenon DEF IsConnected
<1>3. \A s : HasTransport(v, s) <=> HasTransport(w, s)
  BY <1>1, Zenon DEF HasTransport
<1>4. Ready(v, t)
  <2>1. <<t, f>>[1] = t
    OBVIOUS
  <2>2. <<t, f>> \in v.connected => IsConnected(v, t)
    BY <2>1, Zenon DEF IsConnected
  <2> QED
    BY <1>1, <1>2, <1>3, <2>2, Zenon DEF Ready
<1>5. Fits(v)
  BY <1>1, <1>2, Zenon DEF Fits
<1> QED
  BY <1>1, <1>2, <1>3, <1>4, <1>5, Zenon DEF Ready, v

LEMMA ConsumeFits ==
  ASSUME NEW w \in WorkerState, Fits(w), NEW t, Ready(w, t), NEW ks
  PROVE  LET v == Consume(w, t, ks)
         IN  /\ Fits(v) /\ w.producers = v.producers
             /\ \A s : Ready(w, s) => Ready(v, s)
  BY Zenon DEF Consume, WorkerState, Fits, Ready, HasTransport, IsConnected

-----------------------------------------------------------------------------
(* What handlers know of the streams *)

Clearing == {"clear", "visit", "delete", "forget"}

\* A User gets a transport number once, so that a transport that is gone when
\* `connect' is written is not there when `consume' is.
KnowsStreams(c) ==
  /\ pc[c] = "assign" => trans[c] <= made[user[c]]
  /\ pc[c] = "consume" =>
       /\ trans[c] <= made[user[c]]
       /\ Ready(worker, ConsumerTransport(user[c], trans[c]))
  /\ pc[c] \in Clearing => leaving[c]

StreamInv ==
  /\ Fits(worker)
  /\ link # "up" => worker = StartedWorker
  /\ \A u \in User : transId[u] <= made[u]
  /\ \A c \in Conn : KnowsStreams(c)

\* What a step does to the worker.
WorkerSteps ==
  /\ Fits(worker')
  /\ \A u \in User, g \in 0..MaxTrans :
       g <= made[u] /\ Ready(worker, ConsumerTransport(u, g)) =>
         Ready(worker', ConsumerTransport(u, g))
  /\ \A x \in worker.producers \ worker'.producers : MayStop(x[1][1])

\* A request that is lost does nothing.
LEMMA WriteSteps ==
  ASSUME Fits(worker), NEW w, Write(w), Fits(w),
         \A u \in User, g \in 0..MaxTrans :
           g <= made[u] /\ Ready(worker, ConsumerTransport(u, g)) => Ready(w, ConsumerTransport(u, g)),
         \A x \in worker.producers \ w.producers : MayStop(x[1][1])
  PROVE  WorkerSteps
  BY DEF Write, WorkerSteps

LEMMA WorkerStepsHold ==
  ASSUME TypeOK, HomeInv, StreamInv, [Next]_vars
  PROVE  WorkerSteps
<1>w. worker \in WorkerState /\ Fits(worker)
  BY Zenon DEF TypeOK, StreamInv
<1>0. CASE UNCHANGED worker
  BY <1>w, <1>0 DEF WorkerSteps
<1>1. ASSUME NEW c \in Conn, CreateRoom(c) PROVE WorkerSteps
  <2>1. Mine(c) \in User /\ roomId[c] \in RoomId
    BY Zenon, <1>1, MineType DEF CreateRoom, TypeOK, LocalsSet, LocalsTyped
  <2>2. <<Mine(c), "audioLevel">> \in Observer
    BY SMTT(30), <2>1 DEF Observer
  <2> DEFINE v == CreateRouter(worker, roomId[c])
  <2> DEFINE x == CreateObserver(v, roomId[c], <<Mine(c), "audioLevel">>)
  <2> DEFINE y == CreateObserver(x, roomId[c], <<Mine(c), "activeSpeaker">>)
  <2>3. Write(y)
    BY Zenon, <1>1 DEF CreateRoom
  <2>4. /\ v \in WorkerState /\ Fits(v) /\ v.producers = worker.producers
        /\ \A t : Ready(worker, t) => Ready(v, t)
    BY Zenon, <1>w, <2>1, CreateRouterType, CreatingFits
  <2> HIDE DEF v
  <2>5. /\ x \in WorkerState /\ Fits(x) /\ x.producers = v.producers
        /\ \A t : Ready(v, t) => Ready(x, t)
    BY SMTT(30), <2>1, <2>2, <2>4, CreateObserverType, CreatingFits
  <2> HIDE DEF x
  <2>6. /\ Fits(y) /\ y.producers = x.producers
        /\ \A t : Ready(x, t) => Ready(y, t)
    BY <2>5, CreatingFits
  <2> HIDE DEF y
  <2> QED
    BY <1>w, <2>3, <2>4, <2>5, <2>6, WriteSteps, ZenonT(30)
<1>2. ASSUME NEW c \in Conn, SetUpTransport(c) PROVE WorkerSteps
  <2> DEFINE t == ProducerTransport(Mine(c))
  <2>1. Mine(c) \in User /\ roomId[c] \in RoomId /\ HomeOf(t[1]) = roomId[c]
    BY ZenonT(30), <1>2, MineType DEF SetUpTransport, TypeOK, LocalsSet,
       LocalsTyped, HomeInv, KnowsHome,
       Publishing, HomeOf, Mine, ProducerTransport
  <2>2. t \in Transport /\ \A u \in User, g \in 0..MaxTrans : ConsumerTransport(u, g) # t
    BY <2>1, TransportTypes DEF ProducerTransport, ConsumerTransport
  <2> DEFINE v == CreateTransport(worker, roomId[c], t)
  <2> DEFINE x == Connect(v, t, Fingerprint(c, 0))
  <2>3. Write(x)
    BY <1>2 DEF SetUpTransport
  <2> HIDE DEF t
  <2>4. /\ v \in WorkerState /\ Fits(v) /\ v.producers = worker.producers
        /\ \A s : s # t /\ Ready(worker, s) => Ready(v, s)
    BY <1>w, <2>1, <2>2, CreateTransportType, CreateTransportFits, ZenonT(60)
  <2> HIDE DEF v
  <2>5. Fits(x) /\ x.producers = v.producers /\ \A s : Ready(v, s) => Ready(x, s)
    BY <2>4, ConnectFits
  <2> HIDE DEF x
  <2> QED
    BY <1>w, <2>2, <2>3, <2>4, <2>5, WriteSteps, ZenonT(30)
<1>3. ASSUME NEW c \in Conn, Publish(c) PROVE WorkerSteps
  <2> DEFINE t == ProducerTransport(Mine(c))
  <2> DEFINE audio == <<Mine(c), "audio">>
  <2> DEFINE video == <<Mine(c), "video">>
  <2>1. Mine(c) \in User /\ room[c] \in User
    BY Zenon, <1>3, MineType DEF Publish, TypeOK, LocalsSet, LocalsTyped
  <2>2. ObserverId(c) \in Observer /\ audio \in Producer /\ t \in Transport
    BY Zenon, <2>1, TransportTypes DEF ObserverId, Observer, Producer, Kind
  <2>3. t = ProducerTransport(audio[1]) /\ t = ProducerTransport(video[1])
    OBVIOUS
  <2> DEFINE v == Produce(worker, t, audio)
  <2> DEFINE x == AddProducer(v, ObserverId(c), audio)
  <2> DEFINE y == Produce(x, t, video)
  <2>4. Write(y)
    BY <1>3 DEF Publish
  <2> HIDE DEF t, audio, video
  <2>5. /\ v \in WorkerState /\ Fits(v) /\ worker.producers \subseteq v.producers
        /\ \A s : Ready(worker, s) => Ready(v, s)
    BY <1>w, <2>2, <2>3, ProduceType, ProduceFits, ZenonT(60)
  <2> HIDE DEF v
  <2>6. /\ x \in WorkerState /\ Fits(x) /\ x.producers = v.producers
        /\ \A s : Ready(v, s) => Ready(x, s)
    BY <2>2, <2>5, AddProducerType, WatchingFits, ZenonT(30)
  <2> HIDE DEF x
  <2>7. Fits(y) /\ x.producers \subseteq y.producers /\ \A s : Ready(x, s) => Ready(y, s)
    BY Zenon, <2>3, <2>6, ProduceFits
  <2> HIDE DEF y
  <2> QED
    BY <1>w, <2>4, <2>5, <2>6, <2>7, WriteSteps, ZenonT(30)
<1>4. ASSUME NEW c \in Conn, ReopenTransport(c) PROVE WorkerSteps
  <2> DEFINE u == user[c]
  <2> DEFINE g == made[u] + 1
  <2> DEFINE t == ConsumerTransport(u, g)
  <2>1. u \in User /\ made[u] \in 0..MaxTrans /\ transId[u] \in 0..MaxTrans /\ HomeOf(t[1]) = roomId[c]
    BY ZenonT(30), <1>4 DEF ReopenTransport, TypeOK, LocalsSet, LocalsTyped,
       StreamsTyped, HomeInv, KnowsHome,
       Subscribing, ConsumerTransport
  <2>2. \A d \in User, k \in 0..MaxTrans : k <= made[d] => ConsumerTransport(d, k) # t
    BY <2>1, SMTT(30) DEF ConsumerTransport
  <2> DEFINE v == CloseStreams(worker, roomId[c], u)
  <2> DEFINE x == CreateTransport(v, roomId[c], t)
  <2>3. Write(x)
    BY Zenon, <1>4 DEF ReopenTransport
  <2>4. /\ v \in WorkerState /\ Fits(v)
        /\ \A s : Ready(worker, s) => Ready(v, s)
        /\ \A z \in worker.producers \ v.producers : z[2] = ConsumerTransport(u, transId[u])
    BY <1>w, CloseStreamsCloses, ClosesFits, ZenonT(30)
  <2>5. worker.producers \subseteq v.producers
    BY <1>w, <2>1, <2>4, SMTT(60) DEF Fits, ProducerTransport, ConsumerTransport
  <2> HIDE DEF v, t, g
  <2>6. Fits(x) /\ v.producers = x.producers /\ \A s : s # t /\ Ready(v, s) => Ready(x, s)
    BY <2>1, <2>4, CreateTransportFits, Zenon
  <2> HIDE DEF x
  <2> QED
    BY <1>w, <2>2, <2>3, <2>4, <2>5, <2>6, WriteSteps, ZenonT(30)
<1>5. ASSUME NEW c \in Conn, ConnectTransport(c) PROVE WorkerSteps
  <2> DEFINE x == Connect(worker, ConsumerTransport(user[c], transId[user[c]]), Fingerprint(c, finger[c]))
  <2>1. Write(x)
    BY <1>5 DEF ConnectTransport
  <2>2. Fits(x) /\ worker.producers = x.producers /\ \A s : Ready(worker, s) => Ready(x, s)
    BY <1>w, ConnectFits, ZenonT(30)
  <2> HIDE DEF x
  <2> QED
    BY <1>w, <2>1, <2>2, WriteSteps, ZenonT(30)
<1>6. ASSUME NEW c \in Conn, ConsumeAll(c) PROVE WorkerSteps
  <2> DEFINE t == ConsumerTransport(user[c], trans[c])
  <2> DEFINE x == Consume(worker, t, ConsumersOf(user[c]))
  <2>1. Write(x)
    BY ZenonT(30), <1>6 DEF ConsumeAll
  <2>2. Ready(worker, t)
    BY Zenon, <1>6 DEF ConsumeAll, StreamInv, KnowsStreams
  <2>3. Fits(x) /\ worker.producers = x.producers /\ \A s : Ready(worker, s) => Ready(x, s)
    BY Zenon, <1>w, <2>2, ConsumeFits
  <2> HIDE DEF x
  <2> QED
    BY Zenon, <1>w, <2>1, <2>3, WriteSteps
<1>7. ASSUME NEW c \in Conn, VisitUser(c) PROVE WorkerSteps
  <2>1. leaving[c]
    BY <1>7 DEF VisitUser, StreamInv, KnowsStreams, Clearing
  <2>2. ASSUME NEW u \in User, u[1] = c, Write(CloseUser(worker, roomId[c], u)) PROVE WorkerSteps
    <3> DEFINE x == CloseUser(worker, roomId[c], u)
    <3>1. transId[u] # -1
      BY TransNumbered, Zenon
    <3>2. Closes(worker, x) /\ \A z \in worker.producers \ x.producers : z[1][1] = u
      BY Zenon, <1>w, <3>1, CloseUserCloses
    <3>3. Fits(x) /\ \A s : Ready(worker, s) => Ready(x, s)
      BY Zenon, <1>w, <3>2, ClosesFits
    <3>4. Write(x)
      BY <2>2, ZenonT(30)
    <3>5. \A z \in worker.producers \ x.producers : MayStop(z[1][1])
      BY <2>1, <2>2, <3>2, Zenon DEF MayStop
    <3> HIDE DEF x
    <3> QED
      BY <1>w, <3>3, <3>4, <3>5, WriteSteps, Zenon
  <2>3. \/ UNCHANGED worker
        \/ \E u \in User : u[1] = c /\ Write(CloseUser(worker, roomId[c], u))
    <3>1. PICK n \in names[c] :
            \/ UNCHANGED worker
            \/ /\ members[room[c]][n] # None /\ members[room[c]][n][1] = c
               /\ Write(CloseUser(worker, roomId[c], members[room[c]][n]))
      BY <1>7, Zenon DEF VisitUser
    <3>2. members[room[c]][n] \in User \cup {None}
      <4>1. /\ members \in [User -> [UserId -> User \cup {None}]]
            /\ room[c] \in User \cup {None} /\ names[c] \in SUBSET UserId
        BY Zenon DEF TypeOK, MapsTyped, LocalsTyped
      <4>2. room[c] # None
        BY <1>7, Zenon DEF VisitUser, TypeOK, LocalsSet
      <4>3. room[c] \in User /\ n \in UserId
        BY <3>1, <4>1, <4>2, Zenon
      <4> QED
        BY <4>1, <4>3, Zenon
    <3> QED
      BY <3>1, <3>2, Zenon
  <2> QED
    BY <1>0, <2>2, <2>3, Zenon
<1>8. ASSUME NEW c \in Conn, CloseRoom(c) PROVE WorkerSteps
  <2> DEFINE x == CloseRouter(worker, roomId[c])
  <2>1. \/ Write(x) /\ FoundNobody(c, roomId[c]) /\ Goto(c, "forget")
        \/ UNCHANGED worker
    BY Zenon, <1>8 DEF CloseRoom, FoundNobody
  <2>2. /\ Closes(worker, x)
        /\ \A z \in worker.producers \ x.producers : HomeOf(z[1][1]) = roomId[c]
    BY Zenon, <1>w, CloseRouterCloses
  <2>4. Goto(c, "forget") => pc'[c] = "forget"
    BY DEF Goto, TypeOK, ConnectionsTyped
  <2>5. Write(x) /\ FoundNobody(c, roomId[c]) /\ Goto(c, "forget") =>
          \A z \in worker.producers \ x.producers : MayStop(z[1][1])
    BY <2>2, <2>4, Zenon DEF MayStop
  <2>3. Fits(x) /\ \A s : Ready(worker, s) => Ready(x, s)
    BY Zenon, <1>w, <2>2, ClosesFits
  <2> HIDE DEF x
  <2> QED
    BY <1>0, <1>w, <2>1, <2>3, <2>5, WriteSteps, ZenonT(30)
<1>9. CASE WorkerExit
  BY <1>9, ZenonT(30) DEF WorkerExit, StartedWorker, WorkerSteps, MayStop, Fits, Ready,
     HasTransport
<1> QED
  BY <1>0, <1>1, <1>2, <1>3, <1>4, <1>5, <1>6, <1>7, <1>8, <1>9, OtherSteps, ZenonT(60) DEF WorkerStep

-----------------------------------------------------------------------------
(* The invariant *)

LEMMA StreamInit == Init => StreamInv
<1> SUFFICES ASSUME Init PROVE StreamInv
  OBVIOUS
<1>1. Fits(worker) /\ (link # "up" => worker = StartedWorker)
  BY Zenon DEF Init, Fits, StartedWorker
<1>2. \A u \in User : transId[u] <= made[u]
  BY DEF Init
<1>3. \A c \in Conn : pc[c] = "read"
  BY Zenon DEF Init
<1> QED
  BY <1>1, <1>2, <1>3, Zenon DEF StreamInv, KnowsStreams, Clearing

LEMMA LinkStep ==
  ASSUME StreamInv, [Next]_vars
  PROVE  (link # "up" => worker = StartedWorker)'
<1>1. CASE WorkerExit
  BY <1>1 DEF WorkerExit
<1>2. CASE UNCHANGED link
  <2>1. CASE \E c \in Conn : WorkerStep(c)
    BY <1>2, <2>1 DEF StreamInv, WorkerStep, CreateRoom, SetUpTransport, Publish, ReopenTransport,
       ConnectTransport, ConsumeAll, VisitUser, CloseRoom, Write
  <2> QED
    BY <1>1, <1>2, <2>1, OtherSteps, ZenonT(60) DEF StreamInv
<1>3. CASE CloseWorkerManager
  BY <1>3, Zenon DEF CloseWorkerManager, StreamInv
<1>4. ASSUME NEW c \in Conn, Request(c) PROVE UNCHANGED link
  BY <1>4, Zenon DEF Request, UpOffer, DownAnswer, HeatBeat, Disconnect, media
<1>5. ASSUME NEW c \in Conn, Handle(c) PROVE UNCHANGED link
  BY <1>5, ZenonT(60) DEF Handle, CreateRoom, StoreRoom, JoinRoom, SetUpTransport, FillAudio, FillVideo, Publish,
     ReplyAnswer, WriteFails, DownOffer, NotifyUser, ReopenTransport, AssignTransportId,
     AssignConsumers, ReadProducers, PutConsumers, SendOffer, UserVanished, WriteCollision,
     DownOfferDone, FindUser, ConnectTransport, ConsumeAll, ReplyBeat, VisitRoom, VisitUser,
     DeleteUser, CloseRoom, DeleteRoom, Renegotiate, media
<1> QED
  BY ZenonT(30), <1>1, <1>2, <1>3, <1>4, <1>5 DEF Next, vars, media

LEMMA NumbersStep ==
  ASSUME TypeOK, StreamInv, [Next]_vars
  PROVE  /\ \A u \in User : made[u] <= made'[u]
         /\ \A u \in User : transId'[u] <= made'[u]
<1>t. /\ made \in [User -> 0..MaxTrans] /\ transId \in [User -> 0..MaxTrans]
      /\ trans \in [Conn -> 0..MaxTrans] /\ \A u \in User : transId[u] <= made[u]
  BY DEF TypeOK, StreamsTyped, LocalsTyped, StreamInv
<1>1. ASSUME NEW c \in Conn, ReopenTransport(c)
      PROVE  \A u \in User : made[u] <= made'[u] /\ transId'[u] <= made'[u]
  <2>1. made' = [made EXCEPT ![user[c]] = made[user[c]] + 1] /\ transId' = transId
    BY Zenon, <1>1 DEF ReopenTransport
  <2> QED
    BY <1>t, <2>1, SMTT(30)
<1>2. ASSUME NEW c \in Conn, AssignTransportId(c)
      PROVE  \A u \in User : made[u] <= made'[u] /\ transId'[u] <= made'[u]
  <2>1. trans[c] <= made[user[c]]
    BY Zenon, <1>2 DEF AssignTransportId, StreamInv, KnowsStreams
  <2>2. transId' = [transId EXCEPT ![user[c]] = trans[c]] /\ made' = made
    BY <1>2 DEF AssignTransportId
  <2> QED
    BY <1>t, <2>1, <2>2, SMTT(30)
<1>3. CASE UNCHANGED <<made, transId>>
  BY <1>t, <1>3, SMTT(60)
<1>4. ASSUME NEW c \in Conn, Request(c) PROVE UNCHANGED <<made, transId>>
  BY <1>4, Zenon DEF Request, UpOffer, DownAnswer, HeatBeat, Disconnect, streams
<1>5. ASSUME NEW c \in Conn, Handle(c)
      PROVE  ReopenTransport(c) \/ AssignTransportId(c) \/ UNCHANGED <<made, transId>>
  BY <1>5, ZenonT(60) DEF Handle, CreateRoom, StoreRoom, JoinRoom, SetUpTransport, FillAudio, FillVideo, Publish,
     ReplyAnswer, WriteFails, DownOffer, NotifyUser, AssignConsumers, ReadProducers, PutConsumers,
     SendOffer, UserVanished, WriteCollision, DownOfferDone, FindUser, ConnectTransport, ConsumeAll,
     ReplyBeat, VisitRoom, VisitUser, DeleteUser, CloseRoom, DeleteRoom, Renegotiate, streams
<1>6. WorkerExit \/ CloseWorkerManager \/ UNCHANGED vars => UNCHANGED <<made, transId>>
  BY ZenonT(30) DEF WorkerExit, CloseWorkerManager, vars, streams
<1> QED
  BY <1>1, <1>2, <1>3, <1>4, <1>5, <1>6, ZenonT(60) DEF Next

\* A goroutine that does not move still knows what it knew.
LEMMA SameKnowsStreams ==
  ASSUME TypeOK, TypeOK', StreamInv, WorkerSteps, \A u \in User : made[u] <= made'[u],
         NEW d \in Conn, Same(d)
  PROVE  KnowsStreams(d)'
<1>1. KnowsStreams(d)
  BY Zenon DEF StreamInv
<1>2. ASSUME pc[d] \in {"assign", "consume"}
      PROVE  /\ user[d] \in User /\ trans[d] \in 0..MaxTrans
             /\ made[user[d]] \in 0..MaxTrans /\ made'[user[d]] \in 0..MaxTrans
  BY <1>2, ZenonT(30) DEF TypeOK, LocalsSet, LocalsTyped, StreamsTyped
<1>3. ASSUME pc[d] \in {"assign", "consume"}, trans[d] <= made[user[d]]
      PROVE  trans[d] <= made'[user[d]]
  BY <1>2, <1>3, SMTT(60)
<1>4. ASSUME pc[d] = "consume" PROVE Ready(worker', ConsumerTransport(user[d], trans[d]))
  BY <1>1, <1>2, <1>4, Zenon DEF WorkerSteps, KnowsStreams
<1> QED
  BY <1>1, <1>3, <1>4 DEF KnowsStreams, Same, Ready, HasTransport, ConsumerTransport

LEMMA OwnStreams ==
  ASSUME TypeOK, TypeOK', StreamInv, NEW c \in Conn, Request(c) \/ Handle(c)
  PROVE  KnowsStreams(c)'
<1> USE DEF Clearing
<1>k. KnowsStreams(c)
  BY DEF StreamInv
<1>t. /\ pc \in [Conn -> Label] /\ leaving \in [Conn -> BOOLEAN] /\ trans \in [Conn -> 0..MaxTrans]
  BY Zenon DEF TypeOK, ConnectionsTyped, LocalsTyped
<1>r. ASSUME pc'[c] \notin {"assign", "consume", "clear", "visit", "delete", "forget"}
      PROVE  KnowsStreams(c)'
  BY Zenon, <1>r DEF KnowsStreams
<1>1. ASSUME ReopenTransport(c) PROVE KnowsStreams(c)'
  <2>1. /\ user[c] \in User /\ made \in [User -> 0..MaxTrans]
    BY <1>1, ZenonT(60) DEF ReopenTransport, TypeOK, LocalsSet, LocalsTyped, StreamsTyped
  <2>2. /\ pc'[c] = "assign" /\ user'[c] = user[c] /\ trans'[c] = made[user[c]] + 1
        /\ made'[user[c]] = made[user[c]] + 1
    BY <1>1, <1>t, <2>1, ZenonT(60) DEF ReopenTransport, Goto
  <2> QED
    BY <2>1, <2>2, SMTT(60) DEF KnowsStreams
<1>2. ASSUME ConnectTransport(c) PROVE KnowsStreams(c)'
  <2> DEFINE u == user[c]
  <2> DEFINE t == ConsumerTransport(u, transId[u])
  <2>1. /\ u \in User /\ transId[u] <= made[u]
    BY <1>2, ZenonT(60) DEF ConnectTransport, TypeOK, LocalsSet, LocalsTyped, StreamInv
  <2>2. /\ pc'[c] = "consume" /\ user'[c] = u /\ trans'[c] = transId[u] /\ made' = made
    BY <1>2, <1>t, ZenonT(60) DEF ConnectTransport, Goto, streams
  <2>3. Ready(worker', t)
    <3>1. CASE link = "up"
      <4>1. worker' = Connect(worker, t, Fingerprint(c, finger[c]))
        BY <1>2, <3>1, Zenon DEF ConnectTransport, Write
      <4>2. Ready(Connect(worker, t, Fingerprint(c, finger[c])), t)
        BY ConnectFits, Zenon DEF TypeOK, StreamInv
      <4> QED
        BY <4>1, <4>2, Zenon
    <3>2. CASE link # "up"
      <4>1. worker' = StartedWorker
        BY <1>2, <3>2, ZenonT(60) DEF ConnectTransport, Write, StreamInv
      <4>2. ~HasTransport(StartedWorker, t)
        BY DEF HasTransport, StartedWorker
      <4> QED
        BY <4>1, <4>2, Zenon DEF Ready
    <3> QED
      BY <3>1, <3>2
  <2> QED
    BY <2>1, <2>2, <2>3, Zenon DEF KnowsStreams, Ready, HasTransport, ConsumerTransport
<1>3. ASSUME VisitRoom(c) \/ VisitUser(c) \/ DeleteUser(c) \/ CloseRoom(c) \/ DeleteRoom(c)
      PROVE  KnowsStreams(c)'
  <2>1. leaving'[c] /\ pc'[c] \in Clearing
    BY <1>3, <1>k, <1>t, ZenonT(60) DEF VisitRoom, VisitUser, DeleteUser, CloseRoom, DeleteRoom, KnowsStreams,
       Goto, clients
  <2> QED
    BY <2>1, Zenon DEF KnowsStreams
<1>4. ASSUME EndLoop(c) PROVE KnowsStreams(c)'
  <2>1. leaving'[c] /\ pc'[c] = "clear"
    BY <1>4, <1>t DEF EndLoop, Goto
  <2> QED
    BY <2>1, ZenonT(60) DEF KnowsStreams
<1>5. ASSUME Return(c) PROVE KnowsStreams(c)'
  BY <1>5, <1>r, <1>t, Zenon DEF Return, Goto
<1>6. ASSUME \/ WriteFails(c) \/ DownOfferDone(c) \/ ConsumeAll(c) \/ ReplyBeat(c)
             \/ UserVanished(c) \/ WriteCollision(c) \/ Disconnect(c)
      PROVE  KnowsStreams(c)'
  BY <1>4, <1>5, <1>6, ZenonT(60) DEF WriteFails, DownOfferDone, ConsumeAll, ReplyBeat, UserVanished,
     WriteCollision, Disconnect, Panic
<1>7. ASSUME \/ UpOffer(c) \/ DownAnswer(c) \/ HeatBeat(c) \/ CreateRoom(c) \/ StoreRoom(c)
             \/ JoinRoom(c) \/ SetUpTransport(c) \/ FillAudio(c) \/ FillVideo(c) \/ Publish(c)
             \/ ReplyAnswer(c)
      PROVE  KnowsStreams(c)'
  BY <1>7, <1>r, <1>t, Zenon DEF UpOffer, DownAnswer, HeatBeat, Reading, CreateRoom, StoreRoom, JoinRoom,
     SetUpTransport, FillAudio, FillVideo, Publish, ReplyAnswer, Goto
<1>8. ASSUME \/ DownOffer(c) \/ NotifyUser(c) \/ AssignTransportId(c) \/ AssignConsumers(c)
             \/ ReadProducers(c) \/ PutConsumers(c) \/ SendOffer(c) \/ FindUser(c) \/ Renegotiate(c)
      PROVE  KnowsStreams(c)'
  BY <1>5, <1>8, <1>r, <1>t, Zenon DEF DownOffer, NotifyUser, AssignTransportId, AssignConsumers,
     ReadProducers, PutConsumers, SendOffer, FindUser, Renegotiate, Goto
<1> QED
  BY <1>1, <1>2, <1>3, <1>6, <1>7, <1>8, ZenonT(60) DEF Request, Handle

LEMMA StreamStep ==
  ASSUME TypeOK, TypeOK', HomeInv, StreamInv, [Next]_vars
  PROVE  StreamInv'
<1>1. Fits(worker') /\ WorkerSteps
  BY WorkerStepsHold DEF WorkerSteps
<1>2. /\ \A u \in User : made[u] <= made'[u]
      /\ \A u \in User : transId'[u] <= made'[u]
  BY NumbersStep, Zenon
<1>3. ASSUME NEW c \in Conn, Request(c) \/ Handle(c), NEW d \in Conn PROVE KnowsStreams(d)'
  BY <1>1, <1>2, <1>3, OwnStreams, OthersSame, SameKnowsStreams, Zenon
<1>4. ASSUME WorkerExit \/ CloseWorkerManager \/ UNCHANGED vars, NEW d \in Conn
      PROVE  KnowsStreams(d)'
  BY <1>1, <1>2, <1>4, StutterSame, SameKnowsStreams, Zenon
<1>5. \A d \in Conn : KnowsStreams(d)'
  BY Zenon, <1>3, <1>4 DEF Next
<1>6. Fits(worker)'
  BY <1>1 DEF Fits, HomeOf, ProducerTransport
<1> QED
  BY <1>2, <1>5, <1>6, LinkStep, ZenonT(60) DEF StreamInv

LEMMA StreamAlways == Spec => []StreamInv
  BY TypesCorrect, HomeAlways, StreamInit, StreamStep, PTL DEF Spec

\* "transport.consume should come after transport connection", in every interleaving of
\* handlers, although ProcessDownAnswerSdp reads the transport's id and the consumers
\* apart and renegotiations, which take no mutex, replace both meanwhile.
THEOREM ConsumedWhenConnected == Spec => []ConsumeAfterConnect
<1>1. StreamInv => ConsumeAfterConnect
  BY DEF StreamInv, Fits, ConsumeAfterConnect
<1> QED
  BY <1>1, StreamAlways, PTL

\* A goroutine that cleans up after one connection, or replaces a consumer transport,
\* closes no stream that another connection publishes (ClearUserInfo,
\* ProcessDownOfferSdp), but for one that closes the router of a room in which it
\* has counted nobody.
THEOREM PublishersStay == Spec => PublisherStays
<1> DEFINE Stays == \A x \in worker.producers \ worker'.producers : MayStop(x[1][1])
<1>1. ASSUME TypeOK, HomeInv, StreamInv, [Next]_vars PROVE [Stays]_vars
  BY <1>1, WorkerStepsHold DEF WorkerSteps
<1>2. Spec => [][Stays]_vars
  BY <1>1, TypesCorrect, HomeAlways, StreamAlways, PTL DEF Spec
<1> QED
  BY ZenonT(60), <1>2 DEF PublisherStays

-----------------------------------------------------------------------------
(* The rooms after ClearUserInfo                                           *)

\* The Room that offer ro[2] of connection ro[1] may still create.
Fresh(ro) ==
  \/ ro[2] > offers[ro[1]]
  \/ ro[2] = offers[ro[1]] /\ pc[ro[1]] \in {"create", "store"}

\* Nobody enters a Room before it is registered; the user map is keyed by name.
RoomsFresh ==
  /\ \A ro \in User : Fresh(ro) => \A n \in UserId : members[ro][n] = None
  /\ \A r \in RoomId : roomMap[r] # None => ~Fresh(roomMap[r])
  /\ \A c \in Conn : pc[c] = "join" => ~Fresh(room[c])
  /\ \A ro \in User, n \in UserId : members[ro][n] # None => NameOf(members[ro][n]) = n

StillThere(c, r) ==
  /\ roomMap[r] # None
  /\ members[roomMap[r]][UserOf[c]] # None
  /\ members[roomMap[r]][UserOf[c]][1] = c

\* The two Ranges of ClearUserInfo have not passed the entry yet.
Ahead(c, r) ==
  \/ r \in rooms[c]
  \/ pc[c] = "visit" /\ room[c] = roomMap[r] /\ UserOf[c] \in names[c]
  \/ pc[c] = "delete" /\ room[c] = roomMap[r]

Clears(c) ==
  /\ pc[c] = "closed" => leaving[c]
  /\ pc[c] = "delete" => NameOf(user[c]) = UserOf[c]
  /\ leaving[c] /\ pc[c] \notin Clearing => rooms[c] = {}
  /\ leaving[c] => \A r \in RoomId : StillThere(c, r) => Ahead(c, r)

DepartInv == RoomsFresh /\ \A c \in Conn : Clears(c)

LEMMA DepartInit == Init => DepartInv
<1> SUFFICES ASSUME Init PROVE DepartInv
  OBVIOUS
<1>1. \A ro \in User, n \in UserId : members[ro][n] = None
  BY DEF Init
<1> QED
  BY ZenonT(30), <1>1 DEF Init, DepartInv, RoomsFresh, Clears, Clearing

-----------------------------------------------------------------------------
(* Rooms *)

\* Only an offer gets to where a Room is made.
LEMMA OfferCounts ==
  ASSUME TypeOK, NEW c \in Conn, Request(c) \/ Handle(c), ~UpOffer(c)
  PROVE  /\ offers'[c] = offers[c]
         /\ pc'[c] \in {"create", "store"} => pc[c] \in {"create", "store"}
         /\ pc'[c] # "join" \/ pc[c] = "join"
<1>t. pc \in [Conn -> Label]
  BY DEF TypeOK, ConnectionsTyped
<1>1. ASSUME Return(c) \/ EndLoop(c) PROVE pc'[c] \in {"read", "closed", "clear"}
  BY <1>1, <1>t, Zenon DEF Return, EndLoop, Goto
<1>2. ASSUME DownAnswer(c) \/ HeatBeat(c) \/ Disconnect(c)
      PROVE  offers'[c] = offers[c] /\ pc'[c] \in {"read", "find", "beat", "clear"}
  BY ZenonT(30), <1>2, <1>t DEF DownAnswer, HeatBeat, Disconnect, EndLoop,
     Reading, Goto, clients
<1>3. ASSUME CreateRoom(c) PROVE offers'[c] = offers[c] /\ pc[c] = "create" /\ pc'[c] = "store"
  BY <1>3, <1>t DEF CreateRoom, Goto, clients
<1>4. ASSUME \/ StoreRoom(c) \/ JoinRoom(c) \/ SetUpTransport(c) \/ FillAudio(c) \/ FillVideo(c)
             \/ Publish(c) \/ ReplyAnswer(c)
      PROVE  /\ offers'[c] = offers[c]
             /\ pc'[c] \in {"transport", "audio", "video", "produce", "reply", "down"}
  BY <1>4, <1>t, Zenon DEF StoreRoom, JoinRoom, SetUpTransport, FillAudio, FillVideo, Publish, ReplyAnswer,
     Goto, clients
<1>5. ASSUME \/ NotifyUser(c) \/ ReopenTransport(c) \/ AssignTransportId(c) \/ ReadProducers(c)
             \/ PutConsumers(c) \/ SendOffer(c) \/ ConnectTransport(c)
      PROVE  /\ offers'[c] = offers[c]
             /\ pc'[c] \in {"reopen", "assign", "assignMap", "put", "subscribe", "notify", "consume"}
  BY <1>5, <1>t, ZenonT(30) DEF NotifyUser, ReopenTransport, AssignTransportId,
     ReadProducers, PutConsumers,
     SendOffer, ConnectTransport, Goto, clients
<1>6. ASSUME VisitRoom(c) \/ VisitUser(c) \/ DeleteUser(c) \/ CloseRoom(c) \/ DeleteRoom(c)
      PROVE  offers'[c] = offers[c] /\ pc'[c] \in {"clear", "visit", "delete", "forget"}
  BY Zenon, <1>6, <1>t DEF VisitRoom, VisitUser, DeleteUser, CloseRoom, DeleteRoom, Goto, clients
<1>7. ASSUME DownOffer(c) \/ AssignConsumers(c) \/ FindUser(c) \/ Renegotiate(c)
      PROVE  /\ offers'[c] = offers[c]
             /\ pc'[c] \in {"read", "closed", "clear", "notify", "subscribe", "connect", "down"}
  BY <1>1, <1>7, <1>t, ZenonT(60) DEF DownOffer, AssignConsumers, FindUser, Renegotiate, Goto
<1>8. ASSUME \/ WriteFails(c) \/ DownOfferDone(c) \/ ConsumeAll(c) \/ ReplyBeat(c)
             \/ UserVanished(c) \/ WriteCollision(c)
      PROVE  offers'[c] = offers[c] /\ pc'[c] \in {"read", "closed", "clear"}
  BY <1>1, <1>8, Zenon DEF WriteFails, DownOfferDone, ConsumeAll, ReplyBeat, UserVanished, WriteCollision,
     Panic
<1> QED
  BY <1>2, <1>3, <1>4, <1>5, <1>6, <1>7, <1>8, ZenonT(60) DEF Request, Handle

\* A Room is made once.
LEMMA FreshFalls ==
  ASSUME TypeOK, [Next]_vars, NEW ro \in User, Fresh(ro)'
  PROVE  Fresh(ro)
<1>t. /\ ro[1] \in Conn /\ ro[2] \in Nat /\ offers \in [Conn -> 0..MaxOffers] /\ pc \in [Conn -> Label]
  BY DEF User, TypeOK, ConnectionsTyped
<1>1. ASSUME NEW c \in Conn, UpOffer(c), c = ro[1] PROVE Fresh(ro)
  <2>1. offers'[c] = offers[c] + 1
    BY Zenon, <1>1, <1>t DEF UpOffer
  <2> QED
    BY SMTT(30), <1>1, <1>t, <2>1 DEF Fresh
<1>2. ASSUME NEW c \in Conn, Request(c) \/ Handle(c), ~UpOffer(c), c = ro[1] PROVE Fresh(ro)
  BY ZenonT(30), <1>2, OfferCounts DEF Fresh
<1>3. ASSUME NEW c \in Conn, Request(c) \/ Handle(c), c # ro[1] PROVE Fresh(ro)
  BY <1>3, <1>t, OthersSame, Zenon DEF Fresh, Same
<1>4. ASSUME WorkerExit \/ CloseWorkerManager \/ UNCHANGED vars PROVE Fresh(ro)
  BY Zenon, <1>4, <1>t, StutterSame DEF Fresh, Same
<1> QED
  BY Zenon, <1>1, <1>2, <1>3, <1>4 DEF Next

\* What the four steps that write the maps put there.
LEMMA StoreFacts ==
  ASSUME TypeOK, HomeInv, RoomsFresh, NEW c \in Conn, StoreRoom(c)
  PROVE  /\ Mine(c) \in User /\ Fresh(Mine(c)) /\ ~Fresh(Mine(c))'
         /\ roomId[c] \in RoomId /\ UserOf[c] \in UserId /\ NameOf(Mine(c)) = UserOf[c]
         /\ roomMap' = [roomMap EXCEPT ![roomId[c]] = Mine(c)]
         /\ members' = [members EXCEPT ![Mine(c)][UserOf[c]] = Mine(c)]
<1>1. /\ room[c] = Mine(c) /\ Mine(c) \in User /\ roomId[c] \in RoomId /\ UserOf[c] \in UserId
  BY MineType, PageTypes, ZenonT(60) DEF StoreRoom, HomeInv, KnowsHome, TypeOK, LocalsSet, LocalsTyped
<1>2. pc'[c] = "transport" /\ offers' = offers /\ pc[c] = "store" /\ offers[c] \in Nat
  BY DEF StoreRoom, Goto, clients, TypeOK, ConnectionsTyped
<1>3. Fresh(Mine(c)) /\ ~Fresh(Mine(c))'
  BY <1>2, SMTT(60) DEF Fresh, Mine
<1> QED
  BY <1>1, <1>3, Zenon DEF StoreRoom, NameOf, Mine

LEMMA JoinFacts ==
  ASSUME TypeOK, RoomsFresh, NEW c \in Conn, JoinRoom(c)
  PROVE  /\ Mine(c) \in User /\ room[c] \in User /\ ~Fresh(room[c])
         /\ UserOf[c] \in UserId /\ NameOf(Mine(c)) = UserOf[c]
         /\ roomMap' = roomMap
         /\ members' = [members EXCEPT ![room[c]][UserOf[c]] = Mine(c)]
  BY MineType, PageTypes, ZenonT(30) DEF JoinRoom, RoomsFresh, TypeOK,
     LocalsSet, LocalsTyped, NameOf, Mine

LEMMA FreshStep ==
  ASSUME TypeOK, HomeInv, RoomsFresh, [Next]_vars
  PROVE  RoomsFresh'
<1>t. /\ roomMap \in [RoomId -> User \union {None}]
      /\ members \in [User -> [UserId -> User \union {None}]]
  BY DEF TypeOK, MapsTyped
<1>f. \A ro \in User : Fresh(ro)' => Fresh(ro)
  BY Zenon, FreshFalls
<1> DEFINE MapsFresh ==
      /\ \A ro \in User : Fresh(ro) => \A n \in UserId : members[ro][n] = None
      /\ \A r \in RoomId : roomMap[r] # None => ~Fresh(roomMap[r])
      /\ \A ro \in User, n \in UserId : members[ro][n] # None => NameOf(members[ro][n]) = n
<1>0. MapsFresh
  BY Zenon DEF RoomsFresh
<1>1. ASSUME NEW c \in Conn, StoreRoom(c) PROVE MapsFresh'
  <2>0. PICK m \in User : m = Mine(c)
    BY <1>1, StoreFacts, Zenon
  <2>1. /\ ~Fresh(m)' /\ UserOf[c] \in UserId /\ roomId[c] \in RoomId
        /\ roomMap' = [roomMap EXCEPT ![roomId[c]] = m]
        /\ members' = [members EXCEPT ![m][UserOf[c]] = m] /\ NameOf(m) = UserOf[c]
    BY <1>1, <2>0, StoreFacts, ZenonT(60) DEF Fresh, Mine, StoreRoom, clients
  <2>2. \A ro \in User : Fresh(ro)' => \A n \in UserId : members'[ro][n] = None
    BY <1>0, <1>f, <1>t, <2>1, Zenon
  <2>3. \A r \in RoomId : roomMap'[r] # None => ~Fresh(roomMap[r])'
    BY <1>0, <1>f, <1>t, <2>1, Zenon DEF Fresh
  <2>4. \A ro \in User, n \in UserId : members'[ro][n] # None => NameOf(members'[ro][n]) = n
    BY <1>0, <1>t, <2>1, ZenonT(30)
  <2> QED
    BY Zenon, <2>2, <2>3, <2>4 DEF Fresh, NameOf
<1>2. ASSUME NEW c \in Conn, JoinRoom(c) PROVE MapsFresh'
  <2> DEFINE m == Mine(c)
  <2> DEFINE o == room[c]
  <2>1. /\ m \in User /\ o \in User /\ ~Fresh(o) /\ UserOf[c] \in UserId
        /\ roomMap' = roomMap /\ NameOf(m) = UserOf[c]
        /\ members' = [members EXCEPT ![o][UserOf[c]] = m]
    BY <1>2, JoinFacts
  <2> HIDE DEF m, o
  <2>2. \A ro \in User : Fresh(ro)' => \A n \in UserId : members'[ro][n] = None
    BY <1>0, <1>f, <1>t, <2>1, Zenon
  <2>3. \A r \in RoomId : roomMap'[r] # None => ~Fresh(roomMap[r])'
    BY Zenon, <1>0, <1>f, <1>t, <2>1 DEF Fresh
  <2>4. \A ro \in User, n \in UserId : members'[ro][n] # None => NameOf(members'[ro][n]) = n
    BY <1>0, <1>t, <2>1, ZenonT(30)
  <2> QED
    BY Zenon, <2>2, <2>3, <2>4 DEF Fresh, NameOf
<1>3. ASSUME NEW c \in Conn, DeleteUser(c) PROVE MapsFresh'
  BY <1>0, <1>3, <1>f, <1>t, SMTT(30) DEF DeleteUser, NameOf, Fresh
<1>4. ASSUME NEW c \in Conn, DeleteRoom(c) PROVE MapsFresh'
  BY Zenon, <1>0, <1>4, <1>f, <1>t DEF DeleteRoom, NameOf, Fresh
<1>5. ASSUME UNCHANGED maps PROVE MapsFresh'
  BY <1>0, <1>5, <1>f, <1>t, ZenonT(30) DEF maps, NameOf, Fresh
<1>6. MapsFresh'
  <2>1. WorkerExit \/ CloseWorkerManager \/ UNCHANGED vars => UNCHANGED maps
    BY DEF WorkerExit, CloseWorkerManager, vars, maps
  <2> QED
    BY <1>1, <1>2, <1>3, <1>4, <1>5, <2>1, MapChanges, Zenon DEF Next
<1>7. ASSUME NEW c \in Conn, pc'[c] = "join" PROVE ~Fresh(room[c])'
  <2>1. CASE UpOffer(c)
    <3>1. roomMap[RoomOf[c]] # None /\ room'[c] = roomMap[RoomOf[c]] /\ RoomOf[c] \in RoomId
      BY <1>7, <2>1, PageTypes, ZenonT(30) DEF UpOffer, Goto, TypeOK,
         ConnectionsTyped, LocalsTyped
    <3> QED
      BY <1>0, <1>f, <1>t, <3>1, Zenon DEF Fresh
  <2>2. ASSUME Request(c) \/ Handle(c), ~UpOffer(c) PROVE FALSE
    <3>1. pc[c] = "join"
      BY Zenon, <1>7, <2>2, OfferCounts
    <3>2. Request(c) => UpOffer(c)
      BY <3>1, Zenon DEF Request, DownAnswer, HeatBeat, Disconnect, Reading
    <3>3. JoinRoom(c) \/ UserVanished(c) \/ WriteCollision(c)
      BY <2>2, <3>1, <3>2, ZenonT(30) DEF Handle, CreateRoom, StoreRoom,
         SetUpTransport, FillAudio, FillVideo,
         Publish, ReplyAnswer, WriteFails, DownOffer, NotifyUser, ReopenTransport, AssignTransportId,
         AssignConsumers, ReadProducers, PutConsumers, SendOffer, DownOfferDone, FindUser,
         ConnectTransport, ConsumeAll, ReplyBeat, VisitRoom, VisitUser, DeleteUser, CloseRoom,
         DeleteRoom, Renegotiate
    <3>4. JoinRoom(c)
      BY <3>1, <3>3, Zenon DEF UserVanished, WriteCollision, Target
    <3> QED
      BY Zenon, <1>7, <3>4 DEF JoinRoom, Goto, TypeOK, ConnectionsTyped
  <2>3. ASSUME Same(c) PROVE ~Fresh(room[c])'
    <3>1. room'[c] = room[c] /\ pc[c] = "join"
      BY <1>7, <2>3, ZenonT(30) DEF Same
    <3>2. room[c] \in User /\ ~Fresh(room[c])
      BY Zenon, <3>1 DEF TypeOK, LocalsSet, LocalsTyped, RoomsFresh
    <3> QED
      BY <1>f, <3>1, <3>2, Zenon DEF Fresh
  <2>4. ASSUME NEW d \in Conn, Request(d) \/ Handle(d), d # c PROVE Same(c)
    BY Zenon, <2>4, OthersSame
  <2>5. ASSUME WorkerExit \/ CloseWorkerManager \/ UNCHANGED vars PROVE Same(c)
    BY <2>5, StutterSame
  <2> QED
    BY <2>1, <2>2, <2>3, <2>4, <2>5, Zenon DEF Next
<1> QED
  BY Zenon, <1>6, <1>7 DEF RoomsFresh

-----------------------------------------------------------------------------
(* ClearUserInfo *)

\* Nobody else puts a User of d into a registered room.
LEMMA NobodyReturns ==
  ASSUME TypeOK, HomeInv, RoomsFresh, NEW c \in Conn, Request(c) \/ Handle(c),
         NEW d \in Conn \ {c}, NEW r \in RoomId, StillThere(d, r)'
  PROVE  StillThere(d, r) /\ roomMap'[r] = roomMap[r]
<1>t. /\ roomMap \in [RoomId -> User \union {None}] /\ UserOf[d] \in UserId
      /\ members \in [User -> [UserId -> User \union {None}]]
  BY PageTypes, ZenonT(30) DEF TypeOK, MapsTyped
<1>1. CASE StoreRoom(c)
  <2>0. PICK m \in User : m = Mine(c)
    BY Zenon, <1>1, StoreFacts
  <2>1. /\ m[1] = c /\ Fresh(m) /\ UserOf[c] \in UserId
        /\ roomMap' = [roomMap EXCEPT ![roomId[c]] = m]
        /\ members' = [members EXCEPT ![m][UserOf[c]] = m]
    BY <1>1, <2>0, StoreFacts, ZenonT(60) DEF Mine
  <2>2. members[m][UserOf[d]] = None /\ \A x \in RoomId : roomMap[x] # m
    BY <1>t, <2>0, <2>1, NoneAssumption, ZenonT(30) DEF RoomsFresh
  <2> QED
    BY Zenon, <1>t, <2>1, <2>2 DEF StillThere
<1>2. CASE JoinRoom(c)
  <2>0. PICK m \in User, o \in User : m = Mine(c) /\ o = room[c]
    BY <1>2, JoinFacts, ZenonT(60)
  <2>1. /\ m[1] = c /\ UserOf[c] \in UserId /\ roomMap' = roomMap
        /\ members' = [members EXCEPT ![o][UserOf[c]] = m]
    BY <1>2, <2>0, JoinFacts, Zenon DEF Mine
  <2>2. \A ro \in User : members'[ro][UserOf[d]] \in {members[ro][UserOf[d]], m}
    BY <1>t, <2>0, <2>1, ZenonT(30)
  <2> QED
    BY Zenon, <1>t, <2>1, <2>2 DEF StillThere
<1>3. CASE DeleteUser(c)
  BY <1>t, <1>3 DEF DeleteUser, StillThere
<1>4. CASE DeleteRoom(c)
  BY <1>t, <1>4, ZenonT(30) DEF DeleteRoom, StillThere
<1>5. CASE UNCHANGED maps
  BY <1>5, ZenonT(30) DEF maps, StillThere
<1> QED
  BY <1>1, <1>2, <1>3, <1>4, <1>5, MapChanges, Zenon

LEMMA SameClears ==
  ASSUME NEW d \in Conn, Clears(d), Same(d),
         \A r \in RoomId : StillThere(d, r)' => StillThere(d, r) /\ roomMap'[r] = roomMap[r]
  PROVE  Clears(d)'
<1>1. ASSUME leaving'[d], NEW r \in RoomId, StillThere(d, r)' PROVE Ahead(d, r)'
  <2>1. Ahead(d, r) /\ roomMap'[r] = roomMap[r]
    BY ZenonT(30), <1>1 DEF Clears, Same
  <2> QED
    BY ZenonT(60), <2>1 DEF Ahead, Same
<1> QED
  BY Zenon, <1>1 DEF Clears, Same, NameOf

LEMMA OwnClears ==
  ASSUME TypeOK, HomeInv, StreamInv, LocksInv, DepartInv, NEW c \in Conn, Request(c) \/ Handle(c)
  PROVE  Clears(c)'
<1> USE DEF Clearing
<1>k. Clears(c)
  BY ZenonT(30) DEF DepartInv
<1>t. /\ pc \in [Conn -> Label] /\ leaving \in [Conn -> BOOLEAN] /\ rooms \in [Conn -> SUBSET RoomId]
      /\ names \in [Conn -> SUBSET UserId] /\ UserOf[c] \in UserId
  BY Zenon, PageTypes DEF TypeOK, ConnectionsTyped, LocalsTyped
<1>m. /\ roomMap \in [RoomId -> User \union {None}]
      /\ members \in [User -> [UserId -> User \union {None}]]
  BY Zenon DEF TypeOK, MapsTyped
<1>1. ASSUME ~leaving'[c], pc'[c] # "closed", pc'[c] # "delete" PROVE Clears(c)'
  BY <1>1 DEF Clears
<1>2. ASSUME \/ CreateRoom(c) \/ StoreRoom(c) \/ JoinRoom(c) \/ SetUpTransport(c)
             \/ UpOffer(c) \/ DownAnswer(c) \/ HeatBeat(c) \/ ConnectTransport(c)
      PROVE  Clears(c)'
  <2>1. ~leaving[c]
    BY <1>2, Zenon DEF CreateRoom, StoreRoom, JoinRoom, SetUpTransport, UpOffer, DownAnswer, HeatBeat,
       ConnectTransport, Reading, LocksInv, HoldsOwn, Reachable
  <2>2. leaving' = leaving /\ pc'[c] # "closed" /\ pc'[c] # "delete"
    BY <1>2, <1>t, ZenonT(30) DEF CreateRoom, StoreRoom, JoinRoom,
       SetUpTransport, UpOffer, DownAnswer, HeatBeat,
       ConnectTransport, Reading, Goto, clients
  <2> QED
    BY <1>1, <2>1, <2>2, Zenon
\* Away from ClearUserInfo, with the rooms visited.
<1>3. ASSUME pc[c] \notin Clearing, pc'[c] \notin Clearing, UNCHANGED <<rooms, leaving, maps>>,
             pc'[c] = "closed" => leaving[c]
      PROVE  Clears(c)'
  <2>1. ASSUME leaving[c] PROVE rooms[c] = {} /\ \A r \in RoomId : ~StillThere(c, r)
    BY <1>k, <1>3, <2>1, ZenonT(30) DEF Clears, Ahead
  <2>2. ASSUME leaving[c], NEW r \in RoomId PROVE ~StillThere(c, r)'
    BY ZenonT(30), <1>3, <2>1, <2>2 DEF StillThere, maps
  <2> QED
    BY Zenon, <1>3, <2>1, <2>2 DEF Clears
<1>4. ASSUME \/ FillAudio(c) \/ FillVideo(c) \/ Publish(c) \/ ReplyAnswer(c) \/ NotifyUser(c)
             \/ ReopenTransport(c) \/ AssignTransportId(c) \/ ReadProducers(c) \/ PutConsumers(c)
             \/ SendOffer(c)
      PROVE  Clears(c)'
  <2>1. /\ pc[c] \notin Clearing /\ pc'[c] \notin Clearing /\ pc'[c] # "closed"
    BY <1>4, <1>t, ZenonT(30) DEF FillAudio, FillVideo, Publish, ReplyAnswer,
       NotifyUser, ReopenTransport,
       AssignTransportId, ReadProducers, PutConsumers, SendOffer, Goto
  <2>2. UNCHANGED <<rooms, leaving, maps>>
    BY <1>4 DEF FillAudio, FillVideo, Publish, ReplyAnswer, NotifyUser, ReopenTransport,
       AssignTransportId, ReadProducers, PutConsumers, SendOffer, locals, clients, clearVars, maps
  <2> QED
    BY <1>3, <2>1, <2>2, Zenon
<1>5. ASSUME Return(c), UNCHANGED maps, pc[c] \notin Clearing PROVE Clears(c)'
  BY <1>3, <1>5, <1>t, ZenonT(60) DEF Return, Goto
<1>6. ASSUME EndLoop(c), UNCHANGED maps PROVE Clears(c)'
  <2>1. pc'[c] = "clear" /\ rooms'[c] = RoomId
    BY ZenonT(30), <1>6, <1>t DEF EndLoop, Goto
  <2> QED
    BY <2>1, Zenon DEF Clears, Ahead
<1>7. ASSUME \/ WriteFails(c) \/ DownOfferDone(c) \/ ConsumeAll(c) \/ ReplyBeat(c)
             \/ UserVanished(c) \/ WriteCollision(c) \/ Disconnect(c)
      PROVE  Clears(c)'
  <2>1. UNCHANGED maps /\ pc[c] \notin Clearing
    BY <1>7, ZenonT(60) DEF WriteFails, DownOfferDone, ConsumeAll, ReplyBeat, UserVanished, WriteCollision,
       Disconnect, Reading, Target, maps
  <2>2. Return(c) \/ EndLoop(c)
    BY <1>7, ZenonT(60) DEF WriteFails, DownOfferDone, ConsumeAll, ReplyBeat, UserVanished, WriteCollision,
       Disconnect, Panic
  <2> QED
    BY <1>5, <1>6, <2>1, <2>2, ZenonT(60)
<1>8. ASSUME DownOffer(c) \/ AssignConsumers(c) \/ FindUser(c) PROVE Clears(c)'
  <2>1. UNCHANGED maps /\ pc[c] \in {"down", "assignMap", "find"}
    BY <1>8, ZenonT(60) DEF DownOffer, AssignConsumers, FindUser, maps
  <2>2. CASE Return(c)
    BY <1>5, <2>1, <2>2, ZenonT(60)
  <2>3. CASE ~Return(c)
    BY <1>3, <1>8, <1>t, <2>1, <2>3, ZenonT(60) DEF DownOffer, AssignConsumers, FindUser, Goto, locals, clearVars
  <2> QED
    BY <2>2, <2>3, Zenon
<1>9. ASSUME pc[c] \in Clearing PROVE leaving[c]
  BY <1>9, Zenon DEF StreamInv, KnowsStreams
<1>10. ASSUME VisitRoom(c) PROVE Clears(c)'
  <2>0. pc[c] = "clear" /\ leaving'[c] /\ UNCHANGED maps /\ leaving[c]
    BY <1>9, <1>10, Zenon DEF VisitRoom, clients, maps
  <2>1. \A r \in RoomId : StillThere(c, r) => r \in rooms[c]
    BY <1>k, <2>0, Zenon DEF Clears, Ahead
  <2>2. PICK r \in rooms[c] :
          /\ rooms' = [rooms EXCEPT ![c] = @ \ {r}]
          /\ IF roomMap[r] = None
             THEN UNCHANGED <<pc, room, names>>
             ELSE /\ room' = [room EXCEPT ![c] = roomMap[r]]
                  /\ names' = [names EXCEPT ![c] = UserId]
                  /\ Goto(c, "visit")
    BY <1>10, ZenonT(60) DEF VisitRoom
  <2>3. rooms'[c] = rooms[c] \ {r}
    BY <1>t, <2>2, Zenon
  <2>4. CASE roomMap[r] = None
    <3>1. \A x \in RoomId : StillThere(c, x) => x \in rooms'[c]
      BY Zenon, <2>1, <2>3, <2>4 DEF StillThere
    <3>2. pc'[c] = "clear"
      BY <2>0, <2>2, <2>4, Zenon
    <3> QED
      BY <2>0, <3>1, <3>2, ZenonT(30) DEF Clears, Ahead, StillThere, maps
  <2>5. CASE roomMap[r] # None
    <3>1. pc'[c] = "visit" /\ room'[c] = roomMap[r] /\ names'[c] = UserId
      BY <1>t, <2>2, <2>5, ZenonT(30) DEF Goto, TypeOK, LocalsTyped
    <3>2. \A x \in RoomId : StillThere(c, x) => x \in rooms'[c] \/ x = r
      BY <2>1, <2>3
    <3> QED
      BY <1>t, <2>0, <3>1, <3>2, Zenon DEF Clears, Ahead, StillThere, maps
  <2> QED
    BY <2>4, <2>5, Zenon
<1>11. ASSUME VisitUser(c) PROVE Clears(c)'
  <2>0. /\ pc[c] = "visit" /\ leaving'[c] /\ UNCHANGED <<maps, rooms, room>> /\ leaving[c]
        /\ room[c] \in User
    BY <1>9, <1>11, ZenonT(60) DEF VisitUser, clients, maps, TypeOK, LocalsSet, LocalsTyped
  <2>1. \A r \in RoomId : StillThere(c, r) =>
          r \in rooms[c] \/ (room[c] = roomMap[r] /\ UserOf[c] \in names[c])
    BY <1>k, <2>0, ZenonT(60) DEF Clears, Ahead
  <2>2. PICK n \in names[c] :
          LET u == members[room[c]][n]
          IN  /\ names' = [names EXCEPT ![c] = @ \ {n}]
              /\ IF u # None /\ u[1] = c
                 THEN user' = [user EXCEPT ![c] = u] /\ Goto(c, "delete")
                 ELSE UNCHANGED <<pc, user>>
    BY <1>11, ZenonT(60) DEF VisitUser
  <2>3. names'[c] = names[c] \ {n} /\ n \in UserId
    BY <1>t, <2>2, Zenon
  <2>4. CASE members[room[c]][n] # None /\ members[room[c]][n][1] = c
    <3>1. pc'[c] = "delete" /\ user'[c] = members[room[c]][n]
      BY <1>t, <2>2, <2>4, ZenonT(60) DEF Goto, TypeOK, LocalsTyped
    <3>2. NameOf(user'[c]) = UserOf[c]
      BY <2>4, <3>1, Zenon DEF NameOf
    <3> QED
      BY <2>0, <2>1, <3>1, <3>2, Zenon DEF Clears, Ahead, StillThere, maps, NameOf
  <2>5. CASE ~(members[room[c]][n] # None /\ members[room[c]][n][1] = c)
    <3>1. pc'[c] = "visit"
      BY <2>0, <2>2, <2>5, Zenon
    <3>2. \A r \in RoomId : StillThere(c, r) =>
            r \in rooms[c] \/ (room[c] = roomMap[r] /\ UserOf[c] \in names'[c])
      BY <2>1, <2>3, <2>5, Zenon DEF StillThere
    <3> QED
      BY <2>0, <3>1, <3>2, ZenonT(60) DEF Clears, Ahead, StillThere, maps
  <2> QED
    BY <2>4, <2>5, Zenon
<1>12. ASSUME DeleteUser(c) PROVE Clears(c)'
  <2>0. /\ pc[c] = "delete" /\ pc'[c] = "visit" /\ leaving'[c] /\ leaving[c]
        /\ UNCHANGED <<roomMap, rooms, room>> /\ room[c] \in User
    BY <1>9, <1>12, <1>t, ZenonT(60) DEF DeleteUser, Goto, clients, locals, clearVars, TypeOK, LocalsSet,
       LocalsTyped
  <2>1. members' = [members EXCEPT ![room[c]][UserOf[c]] = None]
    BY <1>12, <1>k, ZenonT(60) DEF DeleteUser, Clears
  <2>2. \A r \in RoomId : StillThere(c, r) => r \in rooms[c] \/ room[c] = roomMap[r]
    BY ZenonT(30), <1>k, <2>0 DEF Clears, Ahead
  <2>3. ASSUME NEW r \in RoomId, StillThere(c, r)' PROVE r \in rooms[c]
    BY <1>m, <1>t, <2>0, <2>1, <2>2, <2>3, ZenonT(60) DEF StillThere
  <2> QED
    BY <2>0, <2>3, Zenon DEF Clears, Ahead
<1>13. ASSUME CloseRoom(c) PROVE Clears(c)'
  <2>0. /\ pc[c] = "visit" /\ names[c] = {} /\ pc'[c] \in {"clear", "forget"} /\ leaving'[c] /\ leaving[c]
        /\ UNCHANGED <<maps, rooms>>
    BY <1>9, <1>13, <1>t, Zenon DEF CloseRoom, Goto, clients, locals, clearVars, maps
  <2> QED
    BY <1>k, <2>0, Zenon DEF Clears, Ahead, StillThere, maps
<1>14. ASSUME DeleteRoom(c) PROVE Clears(c)'
  <2>0. /\ pc[c] = "forget" /\ pc'[c] = "clear" /\ leaving'[c] /\ leaving[c]
        /\ UNCHANGED <<members, rooms>> /\ roomMap' = [roomMap EXCEPT ![roomId[c]] = None]
    BY <1>9, <1>14, <1>t, Zenon DEF DeleteRoom, Goto, clients, locals, clearVars
  <2> QED
    BY <1>k, <1>m, <2>0, Zenon DEF Clears, Ahead, StillThere
<1>15. ASSUME Renegotiate(c) PROVE Clears(c)'
  <2>0. /\ pc[c] = "clear" /\ rooms[c] = {} /\ pc'[c] \in {"closed", "down"} /\ leaving'[c] /\ leaving[c]
        /\ UNCHANGED <<maps, rooms>>
    BY Zenon, <1>9, <1>15, <1>t DEF Renegotiate, Return, Goto, locals, clearVars, maps
  <2> QED
    BY <1>k, <2>0, ZenonT(30) DEF Clears, Ahead, StillThere, maps
<1> QED
  BY <1>2, <1>4, <1>7, <1>8, <1>10, <1>11, <1>12, <1>13, <1>14, <1>15,
     ZenonT(30) DEF Request, Handle

LEMMA DepartStep ==
  ASSUME TypeOK, HomeInv, StreamInv, LocksInv, DepartInv, [Next]_vars
  PROVE  DepartInv'
<1>1. ASSUME NEW c \in Conn, Request(c) \/ Handle(c), NEW d \in Conn PROVE Clears(d)'
  BY <1>1, OwnClears, OthersSame, NobodyReturns, SameClears, ZenonT(30) DEF
     DepartInv
<1>2. ASSUME WorkerExit \/ CloseWorkerManager \/ UNCHANGED vars, NEW d \in Conn PROVE Clears(d)'
  BY Zenon, <1>2, StutterSame, SameClears DEF DepartInv, StillThere, maps
<1> QED
  BY <1>1, <1>2, FreshStep, Zenon DEF DepartInv, Next

\* For every number of pages and rooms: when a connection has been closed no registered
\* room holds a User of it, so that no later renegotiation writes to it (the two Ranges
\* of ClearUserInfo against rooms that other goroutines create, join and delete).
THEOREM DepartedAreGone == Spec => []DepartedGone
<1>1. ASSUME TypeOK, DepartInv PROVE DepartedGone
  <2> SUFFICES ASSUME NEW c \in Conn, NEW r \in RoomId, pc[c] = "closed", roomMap[r] # None,
                      NEW u \in UsersIn(roomMap[r]), u[1] = c
               PROVE  FALSE
    BY ZenonT(60) DEF DepartedGone
  <2>1. Clears(c) /\ RoomsFresh /\ roomMap[r] \in User
    BY <1>1 DEF DepartInv, TypeOK, MapsTyped
  <2>2. PICK n \in UserId : u = members[roomMap[r]][n] /\ u # None
    BY Zenon DEF UsersIn
  <2>3. n = UserOf[c]
    BY <2>1, <2>2, ZenonT(30) DEF RoomsFresh, NameOf
  <2>4. StillThere(c, r) /\ rooms[c] = {}
    BY ZenonT(30), <2>1, <2>2, <2>3 DEF StillThere, Clears, Clearing
  <2> QED
    BY Zenon, <2>1, <2>4 DEF Clears, Ahead
<1> QED
  BY <1>1, TypesCorrect, HomeAlways, StreamAlways, LocksAlways, DepartInit, DepartStep, PTL DEF Spec
=============================================================================
