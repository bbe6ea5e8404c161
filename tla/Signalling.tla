----------------------------- MODULE Signalling -----------------------------
(***************************************************************************)
(* The signalling server: main.go (one goroutine per WebSocket connection, *)
(* which handles one message after the other) and the handlers of          *)
(* worker/worker.go, which those goroutines run at the same time.          *)
(*                                                                         *)
(* A handler is cut into one action for each access to state that another  *)
(* goroutine can reach: roomMap, the user map of a Room, the fields of a   *)
(* User that is in such a map, the worker.  Requests that a handler writes *)
(* back to back are one action: the worker handles them in this order, and *)
(* a request of another goroutine in between leads to the same objects.    *)
(* user.Mu.Lock() is part of the step that follows it.                     *)
(*                                                                         *)
(* The ids that the code draws at random are named by what they are drawn  *)
(* for.  The k-th offer of connection c makes the User <<c, k>>; a Room is *)
(* named by the User that creates it; <<u, -1>> is the producer transport  *)
(* of User u, <<u, g>> its g-th consumer transport, <<u, 0>> the empty id  *)
(* of a Consumer that was never set; <<u, kind>> is a producer of u.  The  *)
(* consumer <<t, p>> is the one prepared for producer p by the             *)
(* renegotiation that made transport t.                                    *)
(***************************************************************************)
EXTENDS Integers, FiniteSets, MediasoupWorker

CONSTANTS
  Conn,       \* WebSocket connections
  RoomId,     \* room names
  UserId,     \* user names
  RoomOf,     \* the room that the page of a connection names in its messages
  UserOf,     \* the user that it names
  MaxOffers,  \* bound: offers sent by one connection
  MaxUsers,   \* bound: offers sent by all of them, each of which makes a User
  MaxTrans,   \* bound: consumer transports made for one User
  MaxBusy,    \* bound: goroutines inside a handler at the same time, ...
  BusyFrom,   \* bound: ... once so many offers were made; until then one
  Leavers,    \* bound: the connections whose page may go away
  CanExit,    \* may the worker process exit?
  None        \* a nil pointer, a missing map entry

User == Conn \X (1..MaxOffers)
Kind == {"audio", "video"}
Producer == User \X Kind

ASSUME PagesAssumption == RoomOf \in [Conn -> RoomId] /\ UserOf \in [Conn -> UserId]
ASSUME BoundsAssumption ==
  MaxOffers \in Nat /\ MaxUsers \in Nat /\ MaxTrans \in Nat /\ MaxBusy \in Nat
  /\ BusyFrom \in Nat /\ Leavers \subseteq Conn /\ CanExit \in BOOLEAN
ASSUME NoneAssumption == None \notin User /\ None \notin RoomId /\ None \notin Conn

VARIABLES
  \* shared by the goroutines
  roomMap,    \* RoomId -> Room
  members,    \* Room.UserIdUserMap, for every Room
  producers,  \* User.Producer.Producers: the kinds present
  transId,    \* User.Consumer.TransportId: the number of the transport
  consumers,  \* User.Consumer.Consumers: remote user -> consumers
  made,       \* consumer transports made so far for a User
  mu,         \* User.Mu: the goroutine that holds it
  worker,     \* the objects inside mediasoup-worker
  link,       \* "up", "dead" (the worker has exited), "closed" (so has its socket)
  \* of the connections
  pc,         \* where the goroutine of a connection is
  offers,     \* offers received so far
  unanswered, \* offers sent to the page and not answered yet
  received,   \* offers sent to the page, which makes a peer connection for each
  leaving,    \* has the read loop ended
  \* local variables of the running handler
  roomId, room, users, user, trans, others, other, kinds, finger, rooms, names, total

maps == <<roomMap, members>>
streams == <<producers, transId, consumers, made>>
media == <<worker, link>>
clients == <<offers, unanswered, received, leaving>>
downVars == <<users, user, trans, others, other, kinds, finger>>
clearVars == <<rooms, names, total>>
locals == <<roomId, room, downVars, clearVars>>
vars == <<maps, streams, mu, media, pc, clients, locals>>

NameOf(u) == UserOf[u[1]]
HomeOf(u) == RoomOf[u[1]]

\* The User made by the offer that c is handling.
Mine(c) == <<c, offers[c]>>

ProducerTransport(u) == <<u, -1>>
ConsumerTransport(u, g) == <<u, g>>

\* The certificate of the n-th peer connection that the page of c has made to
\* receive; 0 stands for the one that it publishes over.
Fingerprint(c, n) == <<c, n>>

\* What Range finds in the user map of a Room.
UsersIn(ro) == {members[ro][n] : n \in UserId} \ {None}

\* Every consumer in User.Consumer.Consumers.
ConsumersOf(u) == UNION {consumers[u][n] : n \in UserId}

Init ==
  /\ roomMap = [r \in RoomId |-> None]
  /\ members = [ro \in User |-> [n \in UserId |-> None]]
  /\ producers = [u \in User |-> {}]
  /\ transId = [u \in User |-> 0]
  /\ consumers = [u \in User |-> [n \in UserId |-> {}]]
  /\ made = [u \in User |-> 0]
  /\ mu = [u \in User |-> None]
  /\ worker = StartedWorker
  /\ link = "up"
  /\ pc = [c \in Conn |-> "read"]
  /\ offers = [c \in Conn |-> 0]
  /\ unanswered = [c \in Conn |-> 0]
  /\ received = [c \in Conn |-> 0]
  /\ leaving = [c \in Conn |-> FALSE]
  /\ roomId = [c \in Conn |-> None]
  /\ room = [c \in Conn |-> None]
  /\ users = [c \in Conn |-> {}]
  /\ user = [c \in Conn |-> None]
  /\ trans = [c \in Conn |-> 0]
  /\ others = [c \in Conn |-> {}]
  /\ other = [c \in Conn |-> None]
  /\ kinds = [c \in Conn |-> {}]
  /\ finger = [c \in Conn |-> 0]
  /\ rooms = [c \in Conn |-> {}]
  /\ names = [c \in Conn |-> {}]
  /\ total = [c \in Conn |-> 0]

Goto(c, label) == pc' = [pc EXCEPT ![c] = label]

Idle(c) == pc[c] \in {"read", "closed"}

\* The offers received so far, and with them the Users made.
OffersMade == Cardinality({u \in User : u[2] <= offers[u[1]]})

\* The read loop of c takes the next message, or fails to.
Reading(c) ==
  /\ pc[c] = "read"
  /\ Cardinality({d \in Conn : ~Idle(d)}) < IF OffersMade < BusyFrom THEN 1 ELSE MaxBusy

MayOffer(c) == offers[c] < MaxOffers /\ OffersMade < MaxUsers

\* ProducerSocket.Write of requests that take the worker to w.
Write(w) == link # "closed" /\ worker' = IF link = "up" THEN w ELSE worker

\* Once the handler is over nobody sees its local variables.
ForgetLocals(c) ==
  /\ roomId' = [roomId EXCEPT ![c] = None]
  /\ room' = [room EXCEPT ![c] = None]
  /\ users' = [users EXCEPT ![c] = {}]
  /\ user' = [user EXCEPT ![c] = None]
  /\ trans' = [trans EXCEPT ![c] = 0]
  /\ others' = [others EXCEPT ![c] = {}]
  /\ other' = [other EXCEPT ![c] = None]
  /\ kinds' = [kinds EXCEPT ![c] = {}]
  /\ finger' = [finger EXCEPT ![c] = 0]
  /\ names' = [names EXCEPT ![c] = {}]
  /\ total' = [total EXCEPT ![c] = 0]

\* The deferred Unlock of the handler that c runs.
Unlock(c) == mu' = [u \in User |-> IF mu[u] = c THEN None ELSE mu[u]]

\* Mutant of Return: the deferred Unlock is missing.
ReturnLocked(c) ==
  /\ Goto(c, IF leaving[c] THEN "closed" ELSE "read")
  /\ ForgetLocals(c)
  /\ UNCHANGED <<mu, rooms, leaving>>

\* The handler returns to the read loop, or ClearUserInfo to conn.Close().
Return(c) ==
  /\ Unlock(c)
  /\ Goto(c, IF leaving[c] THEN "closed" ELSE "read")
  /\ ForgetLocals(c)
  /\ UNCHANGED <<rooms, leaving>>

\* The read loop ends: the deferred handleDisconnect runs ClearUserInfo.
EndLoop(c) ==
  /\ Unlock(c)
  /\ Goto(c, "clear")
  /\ leaving' = [leaving EXCEPT ![c] = TRUE]
  /\ rooms' = [rooms EXCEPT ![c] = RoomId]
  /\ ForgetLocals(c)

\* A panic unwinds the handler; one inside ClearUserInfo ends the goroutine.
Panic(c) == IF leaving[c] THEN Return(c) ELSE EndLoop(c)

-----------------------------------------------------------------------------
(* ProcessUpOfferSdp *)

\* Mutant of UpOffer: the lookup finds a room of any name.
UpOfferAnyRoom(c) ==
  /\ Reading(c) /\ MayOffer(c)
  /\ offers' = [offers EXCEPT ![c] = @ + 1]
  /\ roomId' = [roomId EXCEPT ![c] = RoomOf[c]]
  /\ \E r \in RoomId :
       /\ room' = [room EXCEPT ![c] = roomMap[r]]
       /\ Goto(c, IF roomMap[r] = None THEN "create" ELSE "join")
  /\ UNCHANGED <<maps, streams, mu, media, unanswered, received, leaving, downVars, clearVars>>

\* A message of type "offer": the handler makes a User and looks up the room.
UpOffer(c) ==
  /\ Reading(c) /\ MayOffer(c)
  /\ offers' = [offers EXCEPT ![c] = @ + 1]
  /\ roomId' = [roomId EXCEPT ![c] = RoomOf[c]]
  /\ room' = [room EXCEPT ![c] = roomMap[RoomOf[c]]]
  /\ Goto(c, IF roomMap[RoomOf[c]] = None THEN "create" ELSE "join")
  /\ UNCHANGED <<maps, streams, mu, media, unanswered, received, leaving, downVars, clearVars>>

\* No room: ask the worker for a router and its two observers.
CreateRoom(c) ==
  /\ pc[c] = "create"
  /\ Write(CreateObserver(
             CreateObserver(CreateRouter(worker, roomId[c]),
                            roomId[c], <<Mine(c), "audioLevel">>),
             roomId[c], <<Mine(c), "activeSpeaker">>))
  /\ room' = [room EXCEPT ![c] = Mine(c)]
  /\ Goto(c, "store")
  /\ UNCHANGED <<maps, streams, mu, link, clients, roomId, downVars, clearVars>>

\* ... and publish the new Room, whatever is registered under its name by now.
StoreRoom(c) ==
  /\ pc[c] = "store"
  /\ members' = [members EXCEPT ![room[c]][UserOf[c]] = Mine(c)]
  /\ roomMap' = [roomMap EXCEPT ![roomId[c]] = room[c]]
  /\ Goto(c, "transport")
  /\ UNCHANGED <<streams, mu, media, clients, locals>>

\* The room exists: enter its user map, replacing a User of the same name.
JoinRoom(c) ==
  /\ pc[c] = "join"
  /\ members' = [members EXCEPT ![room[c]][UserOf[c]] = Mine(c)]
  /\ Goto(c, "transport")
  /\ UNCHANGED <<roomMap, streams, mu, media, clients, locals>>

\* createWebRtcTransportWithServer, enableTraceEvent, setMaxIncomingBitrate and
\* connect, under the User's mutex.
SetUpTransport(c) ==
  /\ pc[c] = "transport" /\ mu[Mine(c)] = None
  /\ mu' = [mu EXCEPT ![Mine(c)] = c]
  /\ LET t == ProducerTransport(Mine(c))
     IN  Write(Connect(CreateTransport(worker, roomId[c], t), t, Fingerprint(c, 0)))
  /\ Goto(c, "audio")
  /\ UNCHANGED <<maps, streams, link, clients, locals>>

\* The two entries of Producers are inserted one after the other, in view of
\* every goroutine that renegotiates the room.
FillAudio(c) ==
  /\ pc[c] = "audio"
  /\ producers' = [producers EXCEPT ![Mine(c)] = {"audio"}]
  /\ Goto(c, "video")
  /\ UNCHANGED <<maps, transId, consumers, made, mu, media, clients, locals>>

FillVideo(c) ==
  /\ pc[c] = "video"
  /\ producers' = [producers EXCEPT ![Mine(c)] = @ \union {"video"}]
  /\ Goto(c, "produce")
  /\ UNCHANGED <<maps, transId, consumers, made, mu, media, clients, locals>>

\* The creator of the room registers its audio with the observer it created as
\* audio level observer; the Room keeps the two ids swapped, so that everyone
\* else registers with the active speaker observer.
ObserverId(c) == <<room[c], IF room[c] = Mine(c) THEN "audioLevel" ELSE "activeSpeaker">>

\* produce (audio), addProducer, produce (video).
Publish(c) ==
  /\ pc[c] = "produce"
  /\ LET t == ProducerTransport(Mine(c))
         audio == <<Mine(c), "audio">>
         video == <<Mine(c), "video">>
     IN  Write(Produce(AddProducer(Produce(worker, t, audio), ObserverId(c), audio), t, video))
  /\ Goto(c, "reply")
  /\ UNCHANGED <<maps, streams, mu, link, clients, locals>>

\* ProcessUpAnswerSdp writes the answer to the page; then the room is renegotiated.
ReplyAnswer(c) ==
  /\ pc[c] = "reply"
  /\ Goto(c, "down")
  /\ UNCHANGED <<maps, streams, mu, media, clients, locals>>

\* A request cannot be written: the handler returns the error, once it has the
\* mutex where it locks one first.
WriteFails(c) ==
  /\ link = "closed"
  /\ \/ pc[c] \in {"create", "produce", "reopen", "consume"}
     \/ pc[c] = "transport" /\ mu[Mine(c)] = None
     \/ pc[c] = "connect" /\ mu[user[c]] = None
  /\ Return(c)
  /\ UNCHANGED <<maps, streams, media, offers, unanswered, received>>

-----------------------------------------------------------------------------
(* ProcessDownOfferSdp: every user of a room gets a new consumer transport *)

\* Look the room up and copy its users; with fewer than two nothing is to be done.
DownOffer(c) ==
  /\ pc[c] = "down"
  /\ LET ro == roomMap[roomId[c]]
         found == IF ro = None THEN {} ELSE UsersIn(ro)
     IN  IF Cardinality(found) > 1
         THEN /\ room' = [room EXCEPT ![c] = ro]
              /\ users' = [users EXCEPT ![c] = found]
              /\ Goto(c, "notify")
              /\ UNCHANGED <<mu, leaving, roomId, user, trans, others, other, kinds, finger, clearVars>>
         ELSE Return(c)
  /\ UNCHANGED <<maps, streams, media, offers, unanswered, received>>

\* The next notifyUser, and the users it is going to receive.
NotifyUser(c) ==
  /\ pc[c] = "notify"
  /\ \E u \in users[c] :
       /\ users' = [users EXCEPT ![c] = @ \ {u}]
       /\ user' = [user EXCEPT ![c] = u]
       /\ others' = [others EXCEPT ![c] = {v \in UsersIn(room[c]) : NameOf(v) # NameOf(u)}]
  /\ Goto(c, "reopen")
  /\ UNCHANGED <<maps, streams, mu, media, clients, roomId, room, trans, other, kinds, finger, clearVars>>

\* Mutant of CloseStreams: the consumers are closed, the transport is not.
CloseConsumersOnly(w, r, u) == CloseConsumers(w, ConsumerTransport(u, transId[u]), ConsumersOf(u))

\* Close the consumers and the consumer transport that the User has.
CloseStreams(w, r, u) ==
  LET t == ConsumerTransport(u, transId[u])
      v == CloseConsumers(w, t, ConsumersOf(u))
  IN  IF transId[u] = 0 THEN v ELSE CloseTransport(v, r, t)

\* ... and ask for a new transport.
ReopenTransport(c) ==
  LET u == user[c]
      g == made[u] + 1
  IN  /\ pc[c] = "reopen" /\ g <= MaxTrans
      /\ Write(CreateTransport(CloseStreams(worker, roomId[c], u),
                               roomId[c], ConsumerTransport(u, g)))
      /\ made' = [made EXCEPT ![u] = g]
      /\ trans' = [trans EXCEPT ![c] = g]
      /\ Goto(c, "assign")
      /\ UNCHANGED <<maps, producers, transId, consumers, mu, link, clients,
                     roomId, room, users, user, others, other, kinds, finger, clearVars>>

\* The assignment of user.Consumer copies a struct, TransportId first and
\* Consumers last; a goroutine that reads it meanwhile sees one without the other.
AssignTransportId(c) ==
  /\ pc[c] = "assign"
  /\ transId' = [transId EXCEPT ![user[c]] = trans[c]]
  /\ Goto(c, "assignMap")
  /\ UNCHANGED <<maps, producers, consumers, made, mu, media, clients, locals>>

\* The new Consumers map is empty.  enableTraceEvent and setMaxIncomingBitrate
\* follow; they change nothing that is modelled.
AssignConsumers(c) ==
  /\ pc[c] = "assignMap"
  /\ consumers' = [consumers EXCEPT ![user[c]] = [n \in UserId |-> {}]]
  /\ IF link = "closed"
     THEN Return(c)
     ELSE Goto(c, "subscribe") /\ UNCHANGED <<mu, leaving, locals>>
  /\ UNCHANGED <<maps, producers, transId, made, media, offers, unanswered, received>>

\* The next otherUser: the iteration over its Producers begins, ...
ReadProducers(c) ==
  /\ pc[c] = "subscribe"
  /\ \E v \in others[c] :
       /\ others' = [others EXCEPT ![c] = @ \ {v}]
       /\ other' = [other EXCEPT ![c] = v]
       /\ kinds' = [kinds EXCEPT ![c] = producers[v]]
  /\ Goto(c, "put")
  /\ UNCHANGED <<maps, streams, mu, media, clients, roomId, room, users, user, trans, finger,
                 clearVars>>

\* ... and ends, having met every entry that was there when it began and any of
\* those inserted since.  One consumer for each goes into the map that the User
\* has now.
PutConsumers(c) ==
  LET u == user[c]
      t == ConsumerTransport(u, trans[c])
  IN  /\ pc[c] = "put"
      /\ \E seen \in SUBSET producers[other[c]] :
           /\ kinds[c] \subseteq seen
           /\ consumers' = [consumers EXCEPT ![u][NameOf(other[c])] =
                              {<<t, <<other[c], k>>>> : k \in seen}]
      /\ Goto(c, "subscribe")
      /\ UNCHANGED <<maps, producers, transId, made, mu, media, clients, locals>>

\* The connection that c is about to write to: the page's own, or the one of the
\* reloaded notifyUser, None if that user is gone.
Target(c) ==
  IF pc[c] = "subscribe" /\ others[c] = {}
  THEN LET v == members[room[c]][NameOf(user[c])] IN IF v = None THEN None ELSE v[1]
  ELSE IF pc[c] \in {"reply", "beat"} THEN c ELSE None

\* An offer written to d reaches its page, as long as somebody reads the answer.
Delivered(d) ==
  /\ unanswered' = [unanswered EXCEPT ![d] = IF leaving[d] THEN @ ELSE @ + 1]
  /\ received' = [received EXCEPT ![d] = IF leaving[d] THEN @ ELSE @ + 1]

SendOffer(c) ==
  /\ pc[c] = "subscribe" /\ others[c] = {} /\ Target(c) # None
  /\ Delivered(Target(c))
  /\ Goto(c, "notify")
  /\ UNCHANGED <<maps, streams, mu, media, offers, leaving, locals>>

\* Load(notifyUserId) finds nothing and the type assertion panics.
UserVanished(c) ==
  /\ pc[c] = "subscribe" /\ others[c] = {} /\ Target(c) = None
  /\ Panic(c)
  /\ UNCHANGED <<maps, streams, media, offers, unanswered, received>>

\* Two goroutines write to one connection: WriteMessage of the websocket library
\* panics in one of them, before or after its message is sent.
WriteCollision(c) ==
  /\ Target(c) # None /\ \E d \in Conn \ {c} : Target(d) = Target(c)
  /\ \/ pc[c] = "subscribe" /\ Delivered(Target(c))
     \/ UNCHANGED <<unanswered, received>>
  /\ Panic(c)
  /\ UNCHANGED <<maps, streams, media, offers>>

DownOfferDone(c) ==
  /\ pc[c] = "notify" /\ users[c] = {}
  /\ Return(c)
  /\ UNCHANGED <<maps, streams, media, offers, unanswered, received>>

-----------------------------------------------------------------------------
(* ProcessDownAnswerSdp: the page accepts what it was offered *)

\* A message of type "answer", to the offer that `later' others have followed by
\* now; it carries the fingerprint of the peer connection made for that offer.  A
\* page that gets a new offer drops the peer connection of the one before, and
\* its answer too if that was not sent yet.  Without the room the handler
\* returns an error.
DownAnswer(c) ==
  /\ Reading(c)
  /\ \E later \in 0..(unanswered[c] - 1) :
       /\ unanswered' = [unanswered EXCEPT ![c] = later]
       /\ IF roomMap[RoomOf[c]] = None
          THEN UNCHANGED <<pc, room, finger>>
          ELSE /\ Goto(c, "find")
               /\ room' = [room EXCEPT ![c] = roomMap[RoomOf[c]]]
               /\ finger' = [finger EXCEPT ![c] = received[c] - later]
  /\ UNCHANGED <<maps, streams, mu, media, offers, received, leaving, roomId, users, user, trans,
                 others, other, kinds, clearVars>>

FindUser(c) ==
  /\ pc[c] = "find"
  /\ LET u == members[room[c]][UserOf[c]]
     IN  IF u = None
         THEN Return(c)
         ELSE /\ user' = [user EXCEPT ![c] = u]
              /\ Goto(c, "connect")
              /\ UNCHANGED <<mu, leaving, roomId, room, users, trans, others, other, kinds, finger, clearVars>>
  /\ UNCHANGED <<maps, streams, media, offers, unanswered, received>>

\* Under the User's mutex, which renegotiations do not take: connect the
\* transport that the User has now, whichever offer the answer is for.
ConnectTransport(c) ==
  LET u == user[c]
  IN  /\ pc[c] = "connect" /\ mu[u] = None
      /\ mu' = [mu EXCEPT ![u] = c]
      /\ trans' = [trans EXCEPT ![c] = transId[u]]
      /\ Write(Connect(worker, ConsumerTransport(u, transId[u]), Fingerprint(c, finger[c])))
      /\ Goto(c, "consume")
      /\ UNCHANGED <<maps, streams, link, clients, roomId, room, users, user, others, other,
                     kinds, finger, clearVars>>

\* Mutants of ConsumeAll: the transport's id is read again after connect; the loop
\* returns after the first consumer.
ConsumeOnCurrent(c) ==
  /\ pc[c] = "consume"
  /\ Write(Consume(worker, ConsumerTransport(user[c], transId[user[c]]), ConsumersOf(user[c])))
  /\ Return(c)
  /\ UNCHANGED <<maps, streams, link, offers, unanswered, received>>

ConsumeOne(c) ==
  /\ pc[c] = "consume"
  /\ \E k \in ConsumersOf(user[c]) :
       Write(Consume(worker, ConsumerTransport(user[c], trans[c]), {k}))
  /\ Return(c)
  /\ UNCHANGED <<maps, streams, link, offers, unanswered, received>>

\* transport.consume and consumer.resume for the consumers that it has now.
ConsumeAll(c) ==
  /\ pc[c] = "consume"
  /\ Write(Consume(worker, ConsumerTransport(user[c], trans[c]), ConsumersOf(user[c])))
  /\ Return(c)
  /\ UNCHANGED <<maps, streams, link, offers, unanswered, received>>

-----------------------------------------------------------------------------
(* The heart beat of the pages, answered by handleSignal itself *)

HeatBeat(c) ==
  /\ Reading(c)
  /\ Goto(c, "beat")
  /\ UNCHANGED <<maps, streams, mu, media, clients, locals>>

ReplyBeat(c) ==
  /\ pc[c] = "beat"
  /\ Return(c)
  /\ UNCHANGED <<maps, streams, media, offers, unanswered, received>>

-----------------------------------------------------------------------------
(* ClearUserInfo *)

\* ReadMessage fails: the page is gone, or was silent for a minute.
Disconnect(c) ==
  /\ Reading(c) /\ c \in Leavers
  /\ EndLoop(c)
  /\ UNCHANGED <<maps, streams, media, offers, unanswered, received>>

\* Range over roomMap visits its keys in any order.
VisitRoom(c) ==
  /\ pc[c] = "clear"
  /\ \E r \in rooms[c] :
       /\ rooms' = [rooms EXCEPT ![c] = @ \ {r}]
       /\ IF roomMap[r] = None
          THEN UNCHANGED <<pc, roomId, room, names, total>>
          ELSE /\ roomId' = [roomId EXCEPT ![c] = r]
               /\ room' = [room EXCEPT ![c] = roomMap[r]]
               /\ names' = [names EXCEPT ![c] = UserId]
               /\ total' = [total EXCEPT ![c] = 0]
               /\ Goto(c, "visit")
  /\ UNCHANGED <<maps, streams, mu, media, clients, downVars>>

\* The closing requests for a User; write errors are only printed.
CloseUser(w, r, u) ==
  LET t == ProducerTransport(u)
      v == CloseTransport(CloseProducers(w, t, {u} \X producers[u]), r, t)
      s == ConsumerTransport(u, transId[u])
  IN  CloseTransport(CloseConsumers(v, s, ConsumersOf(u)), r, s)

\* Mutant of VisitUser: every user is taken for one of this connection.
VisitAnyUser(c) ==
  /\ pc[c] = "visit"
  /\ \E n \in names[c] :
       LET u == members[room[c]][n]
       IN  /\ u # None
           /\ names' = [names EXCEPT ![c] = @ \ {n}]
           /\ Write(CloseUser(worker, roomId[c], u))
           /\ user' = [user EXCEPT ![c] = u]
           /\ Goto(c, "delete")
  /\ UNCHANGED <<maps, streams, mu, link, clients, roomId, room, users, trans, others, other,
                 kinds, finger, rooms, total>>

\* Range over the user map of the room: close what belongs to this connection,
\* count the others.
VisitUser(c) ==
  /\ pc[c] = "visit"
  /\ \E n \in names[c] :
       LET u == members[room[c]][n]
       IN  /\ names' = [names EXCEPT ![c] = @ \ {n}]
           /\ IF u # None /\ u[1] = c
              THEN /\ Write(CloseUser(worker, roomId[c], u)) \/ (link = "closed" /\ UNCHANGED worker)
                   /\ user' = [user EXCEPT ![c] = u]
                   /\ Goto(c, "delete")
                   /\ UNCHANGED total
              ELSE /\ total' = [total EXCEPT ![c] = IF u = None THEN @ ELSE @ + 1]
                   /\ UNCHANGED <<worker, pc, user>>
  /\ UNCHANGED <<maps, streams, mu, link, clients, roomId, room, users, trans, others, other,
                 kinds, finger, rooms>>

\* Mutant of DeleteUser: the entry stays.
KeepUser(c) ==
  /\ pc[c] = "delete"
  /\ Goto(c, "visit")
  /\ UNCHANGED <<maps, streams, mu, media, clients, locals>>

\* The entry is deleted by name, whoever is registered under it by now.
DeleteUser(c) ==
  /\ pc[c] = "delete"
  /\ members' = [members EXCEPT ![room[c]][NameOf(user[c])] = None]
  /\ Goto(c, "visit")
  /\ UNCHANGED <<roomMap, streams, mu, media, clients, locals>>

\* Nobody else was counted: close the router, ...
CloseRoom(c) ==
  /\ pc[c] = "visit" /\ names[c] = {}
  /\ IF total[c] = 0
     THEN /\ Write(CloseRouter(worker, roomId[c])) \/ (link = "closed" /\ UNCHANGED worker)
          /\ Goto(c, "forget")
     ELSE Goto(c, "clear") /\ UNCHANGED worker
  /\ UNCHANGED <<maps, streams, mu, link, clients, locals>>

\* ... and delete the room by name.
DeleteRoom(c) ==
  /\ pc[c] = "forget"
  /\ roomMap' = [roomMap EXCEPT ![roomId[c]] = None]
  /\ Goto(c, "clear")
  /\ UNCHANGED <<members, streams, mu, media, clients, locals>>

\* Mutants of Renegotiate: whether a room was visited goes unchecked; the other
\* users are not told.
RenegotiateUnchecked(c) ==
  /\ pc[c] = "clear" /\ rooms[c] = {}
  /\ Goto(c, "down")
  /\ UNCHANGED <<maps, streams, mu, media, clients, locals>>

LeaveSilently(c) ==
  /\ pc[c] = "clear" /\ rooms[c] = {}
  /\ Return(c)
  /\ UNCHANGED <<maps, streams, media, offers, unanswered, received>>

\* Renegotiate the room that was visited last.
Renegotiate(c) ==
  /\ pc[c] = "clear" /\ rooms[c] = {}
  /\ IF roomId[c] = None
     THEN Return(c)
     ELSE Goto(c, "down") /\ UNCHANGED <<mu, leaving, locals>>
  /\ UNCHANGED <<maps, streams, media, offers, unanswered, received>>

-----------------------------------------------------------------------------
(* The worker process *)

\* The worker exits and its objects with it; until cmd.Wait() returns the other
\* end of the socket is held open by cmd.ExtraFiles, so that writes succeed.
WorkerExit ==
  /\ CanExit /\ link = "up"
  /\ link' = "dead" /\ worker' = StartedWorker
  /\ UNCHANGED <<maps, streams, mu, pc, clients, locals>>

\* cmd.Wait() returns and WorkerManager.Close() closes the sockets.
CloseWorkerManager ==
  /\ link = "dead" /\ link' = "closed"
  /\ UNCHANGED <<maps, streams, mu, worker, pc, clients, locals>>

-----------------------------------------------------------------------------
\* What a goroutine does on its own once it has a message or an error.
Handle(c) ==
  \/ CreateRoom(c) \/ StoreRoom(c) \/ JoinRoom(c) \/ SetUpTransport(c)
  \/ FillAudio(c) \/ FillVideo(c) \/ Publish(c) \/ ReplyAnswer(c) \/ WriteFails(c)
  \/ DownOffer(c) \/ NotifyUser(c) \/ ReopenTransport(c) \/ AssignTransportId(c)
  \/ AssignConsumers(c) \/ ReadProducers(c) \/ PutConsumers(c)
  \/ SendOffer(c) \/ UserVanished(c) \/ WriteCollision(c) \/ DownOfferDone(c)
  \/ FindUser(c) \/ ConnectTransport(c) \/ ConsumeAll(c) \/ ReplyBeat(c)
  \/ VisitRoom(c) \/ VisitUser(c) \/ DeleteUser(c) \/ CloseRoom(c) \/ DeleteRoom(c)
  \/ Renegotiate(c)

\* What the page of a connection makes happen.
Request(c) == UpOffer(c) \/ DownAnswer(c) \/ HeatBeat(c) \/ Disconnect(c)

Next == (\E c \in Conn : Request(c) \/ Handle(c)) \/ WorkerExit \/ CloseWorkerManager

\* The Go scheduler runs every goroutine that can run; a page owes nothing.
Fairness == \A c \in Conn : WF_vars(Handle(c))

Spec == Init /\ [][Next]_vars /\ Fairness

-----------------------------------------------------------------------------
(* Types *)

Transport == User \X (-1..MaxTrans)
Consumer == Transport \X Producer
Observer == User \X {"audioLevel", "activeSpeaker"}
Label ==
  {"read", "closed", "create", "store", "join", "transport", "audio", "video", "produce",
   "reply", "down", "notify", "reopen", "assign", "assignMap", "subscribe", "put",
   "find", "connect", "consume", "beat", "clear", "visit", "delete", "forget"}

WorkerState ==
  [routers : SUBSET RoomId, transports : SUBSET (Transport \X RoomId),
   connected : SUBSET (Transport \X (Conn \X Nat)), producers : SUBSET (Producer \X Transport),
   consumers : SUBSET (Consumer \X Transport), observers : SUBSET (Observer \X RoomId),
   watched : SUBSET (Observer \X Producer)]

MapsTyped ==
  /\ roomMap \in [RoomId -> User \union {None}]
  /\ members \in [User -> [UserId -> User \union {None}]]

StreamsTyped ==
  /\ producers \in [User -> SUBSET Kind]
  /\ transId \in [User -> 0..MaxTrans]
  /\ consumers \in [User -> [UserId -> SUBSET Consumer]]
  /\ made \in [User -> 0..MaxTrans]

AnswersTyped ==
  /\ unanswered \in [Conn -> Nat] /\ received \in [Conn -> Nat]
  /\ \A c \in Conn : unanswered[c] <= received[c]

ConnectionsTyped ==
  /\ mu \in [User -> Conn \union {None}]
  /\ pc \in [Conn -> Label]
  /\ offers \in [Conn -> 0..MaxOffers]
  /\ AnswersTyped
  /\ leaving \in [Conn -> BOOLEAN]

LocalsTyped ==
  /\ roomId \in [Conn -> RoomId \union {None}]
  /\ room \in [Conn -> User \union {None}]
  /\ users \in [Conn -> SUBSET User]
  /\ user \in [Conn -> User \union {None}]
  /\ trans \in [Conn -> 0..MaxTrans]
  /\ others \in [Conn -> SUBSET User]
  /\ other \in [Conn -> User \union {None}]
  /\ kinds \in [Conn -> SUBSET Kind]
  /\ finger \in [Conn -> Nat]
  /\ rooms \in [Conn -> SUBSET RoomId]
  /\ names \in [Conn -> SUBSET UserId]
  /\ total \in [Conn -> Nat]

\* What the goroutine of c must have in its local variables where it is.
LocalsSet(c) ==
  /\ pc[c] \notin {"read", "closed", "beat", "create", "clear", "down"} => room[c] # None
  /\ pc[c] \notin {"read", "closed", "beat", "find", "connect", "consume", "clear"}
       => roomId[c] # None
  /\ pc[c] \in {"reopen", "assign", "assignMap", "subscribe", "put", "connect", "consume", "delete"}
       => user[c] # None
  /\ pc[c] = "put" => other[c] # None
  /\ pc[c] \in {"create", "store", "join", "transport", "audio", "video", "produce", "reply"}
       => offers[c] > 0

\* Every variable has its type, and a handler never dereferences a pointer that
\* it has not set: the room and the users that a step reads are there.
TypeOK ==
  /\ MapsTyped /\ StreamsTyped /\ ConnectionsTyped /\ LocalsTyped
  /\ worker \in WorkerState
  /\ link \in {"up", "dead", "closed"}
  /\ \A c \in Conn : LocalsSet(c)

-----------------------------------------------------------------------------
(* Properties of every interleaving *)

\* The tables of the worker fit together after every sequence of requests, the
\* late, repeated and refused ones of racing handlers included (see WorkerSound).
NoDanglingObjects == WorkerSound(worker)

\* "transport.consume should come after transport connection" (comment in
\* ProcessDownAnswerSdp): a consumer never sits on a transport that was not
\* connected, although the transport's id and the consumers are read apart.
ConsumeAfterConnect == \A x \in worker.consumers : IsConnected(worker, x[2])

\* Nobody receives media of another room, and nobody receives what was published
\* under the own name, whatever Users and Rooms a stale handler holds on to.
Audience(u, p) == HomeOf(p[1]) = HomeOf(u) /\ NameOf(p[1]) # NameOf(u)
RoomIsolation ==
  /\ \A x \in worker.consumers : Audience(x[2][1], x[1][2])
  /\ \A u \in User : \A k \in ConsumersOf(u) : Audience(u, k[2])

\* Once ClearUserInfo is over no registered room knows the connection, so that
\* no renegotiation that starts later writes to it.
DepartedGone ==
  \A c \in Conn, r \in RoomId :
    pc[c] = "closed" /\ roomMap[r] # None => \A u \in UsersIn(roomMap[r]) : u[1] # c

\* What a page publishes goes away only when the page leaves, when the worker
\* exits, or when a goroutine of ClearUserInfo closes the router of the room after
\* it went through the users and counted nobody; closing producers or transports
\* never hits those of another page.  The third case is a loss: the room is not
\* looked at again after the count, so a page that joins meanwhile and has
\* published by then is cut off with it.
FoundNobody(c, r) == pc[c] = "visit" /\ names[c] = {} /\ total[c] = 0 /\ roomId[c] = r
MayStop(u) ==
  \/ leaving[u[1]] \/ link' = "dead"
  \/ \E c \in Conn : FoundNobody(c, HomeOf(u)) /\ pc'[c] = "forget"
PublisherStays == [][\A x \in worker.producers \ worker'.producers : MayStop(x[1][1])]_vars

\* Every handler comes back to the read loop or to conn.Close(): nobody waits for
\* a mutex for ever, even if handlers panic or the worker exits under them.
HandlersReturn == \A c \in Conn : []<>Idle(c)

\* A goroutine holds a User's mutex only inside the handler that locked it, and
\* never waits for a second one: nobody waits for somebody who waits.
LocksFollowHandlers ==
  \A u \in User, c \in Conn : mu[u] = c =>
    \/ /\ pc[c] \in {"audio", "video", "produce", "reply", "down", "notify", "reopen", "assign",
                    "assignMap", "subscribe", "put"}
       /\ u = Mine(c) /\ ~leaving[c]
    \/ pc[c] = "consume" /\ u = user[c]

-----------------------------------------------------------------------------
(* Properties of a server that handles one message at a time (MaxBusy = 1) *)

Settled == \A c \in Conn : Idle(c)
Registered(u) == \E r \in RoomId : roomMap[r] # None /\ u \in UsersIn(roomMap[r])
OthersOf(u) == {v \in UsersIn(roomMap[HomeOf(u)]) : v # u}

\* After every message and every disconnect the users of a room with company are
\* offered exactly the streams of the users that are in the room now ("update the
\* downlink subscriptions of the other users in the room", ClearUserInfo).
SubscriptionsCurrent ==
  Settled => \A u \in User : Registered(u) /\ OthersOf(u) # {} =>
    {k[2] : k \in ConsumersOf(u)} = OthersOf(u) \X Kind

\* Between two messages the worker holds exactly the objects of the registered
\* rooms: nothing leaks, nothing is missing, as long as no page offers again (what
\* becomes of the streams of a User that is replaced: EarlierStreamsClosed).
WorkerMatchesRooms ==
  LET present == {u \in User : Registered(u)}
      current == {u \in present : transId[u] # 0}
  IN  Settled /\ (\A c \in Conn : offers[c] <= 1) =>
        /\ worker.routers = {r \in RoomId : roomMap[r] # None}
        /\ worker.transports =
              {<<ProducerTransport(u), HomeOf(u)>> : u \in present} \union
              {<<ConsumerTransport(u, transId[u]), HomeOf(u)>> : u \in current}
        /\ worker.producers =
              {<<p, ProducerTransport(p[1])>> : p \in present \X Kind}
        /\ \A x \in worker.consumers : x[2][1] \in current /\ x[1] \in ConsumersOf(x[2][1])

\* Once every page has answered its last offer, everyone is subscribed to everyone
\* else: the transport that the page was offered last has all the consumers, and
\* an answer of this page has connected it.  (Whether that was the answer to the
\* last offer, without which nothing can be decrypted: AnswerFits.)
EveryoneSubscribed ==
  Settled /\ (\A c \in Conn : unanswered[c] = 0) =>
    \A u \in User : Registered(u) /\ OthersOf(u) # {} =>
      LET t == ConsumerTransport(u, transId[u])
      IN  /\ {x[1][2] : x \in {y \in worker.consumers : y[2] = t}} = OthersOf(u) \X Kind
          /\ \E n \in 1..received[u[1]] : <<t, Fingerprint(u[1], n)>> \in worker.connected

-----------------------------------------------------------------------------
(* What comments of the code say and the code does not do *)

\* "The room does not exist" (comment on the branch of ProcessUpOfferSdp that
\* creates one): it does not exist until this goroutine stores it.
RoomStillAbsent ==
  \A c \in Conn : pc[c] \in {"create", "store"} => roomMap[roomId[c]] = None

\* "First close the previous streams" (comment in ProcessDownOfferSdp): between
\* two messages a page has at most one consumer transport.
EarlierStreamsClosed ==
  Settled => \A c \in Conn :
    Cardinality({x \in worker.transports : x[1][1][1] = c /\ x[1][2] > 0}) <= 1

\* "The dtls parameters have to be parsed, for the worker to connect" (comment in
\* ProcessDownAnswerSdp): once every page has answered its last offer, the
\* transport that it was offered last expects the certificate of the peer
\* connection that it made last, the one it still has.
AnswerFits ==
  Settled /\ (\A c \in Conn : unanswered[c] = 0) =>
    \A u \in User : Registered(u) /\ OthersOf(u) # {} =>
      <<ConsumerTransport(u, transId[u]), Fingerprint(u[1], received[u[1]])>> \in worker.connected
=============================================================================
