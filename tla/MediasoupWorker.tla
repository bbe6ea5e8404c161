-------------------------- MODULE MediasoupWorker --------------------------
(***************************************************************************)
(* The requests of mediasoup-worker that the server uses, as operators on  *)
(* the worker's state.  The worker is one process with one event loop and  *)
(* reads its requests from one stream, so it handles them one at a time,   *)
(* in the order in which the server wrote them.  The server never waits    *)
(* for, and never looks at, the reply to a request: a request that the     *)
(* worker refuses has no effect at all.                                    *)
(*                                                                         *)
(* A state w is a record of                                                *)
(*   routers     the ids in Worker::mapRouters                             *)
(*   transports  pairs <<transport, router>>   (Router::mapTransports)     *)
(*   connected   pairs <<transport, fingerprint>> for the transports whose *)
(*               connectCalled is set: the certificate that the other end  *)
(*               of the DTLS connection has to show (SetRemoteFingerprint) *)
(*   producers   pairs <<producer, transport>> (Transport::mapProducers)   *)
(*   consumers   pairs <<consumer, transport>> (Transport::mapConsumers);  *)
(*               the consumer k is fed by the producer k[2]                *)
(*               (Router::mapConsumerProducer)                             *)
(*   observers   pairs <<observer, router>>    (Router::mapRtpObservers)   *)
(*   watched     pairs <<observer, producer>> (mapProducerRtpObservers)    *)
(***************************************************************************)
EXTENDS Naturals

StartedWorker ==
  [routers |-> {}, transports |-> {}, connected |-> {}, producers |-> {},
   consumers |-> {}, observers |-> {}, watched |-> {}]

\* ChannelRequest::Accept when ok, otherwise the error path of HandleRequest.
Reply(w, ok, done) == IF ok THEN done ELSE w

HasTransport(w, t) == \E x \in w.transports : x[1] = t
IsConnected(w, t) == \E x \in w.connected : x[1] = t
HasProducer(w, p) == \E x \in w.producers : x[1] = p

\* Producer p belongs to a transport of router r (Router::mapProducers).
OnRouter(w, p, r) == \E x \in w.producers : x[1] = p /\ <<x[2], r>> \in w.transports

CreateRouter(w, r) == Reply(w, r \notin w.routers, [w EXCEPT !.routers = @ \union {r}])

CreateObserver(w, r, b) ==
  Reply(w, r \in w.routers /\ ~ \E x \in w.observers : x[1] = b,
        [w EXCEPT !.observers = @ \union {<<b, r>>}])

CreateTransport(w, r, t) ==
  Reply(w, r \in w.routers /\ ~HasTransport(w, t),
        [w EXCEPT !.transports = @ \union {<<t, r>>}])

Connect(w, t, f) ==
  Reply(w, HasTransport(w, t) /\ ~IsConnected(w, t),
        [w EXCEPT !.connected = @ \union {<<t, f>>}])

Produce(w, t, p) ==
  Reply(w, HasTransport(w, t) /\ ~HasProducer(w, p),
        [w EXCEPT !.producers = @ \union {<<p, t>>}])

AddProducer(w, b, p) ==
  Reply(w, \E x \in w.observers : x[1] = b /\ OnRouter(w, p, x[2]),
        [w EXCEPT !.watched = @ \union {<<b, p>>}])

\* One transport.consume per consumer of ks, each followed by consumer.resume.
Consume(w, t, ks) ==
  LET accepted == {k \in ks : /\ ~ \E x \in w.consumers : x[1] = k
                              /\ \E x \in w.transports : x[1] = t /\ OnRouter(w, k[2], x[2])}
  IN  [w EXCEPT !.consumers = @ \union (accepted \X {t})]

\* Closing a producer closes the consumers fed by it and stops its observation.
DropProducers(w, ps) ==
  [w EXCEPT !.producers = {x \in @ : x[1] \notin ps},
            !.consumers = {x \in @ : x[1][2] \notin ps},
            !.watched   = {x \in @ : x[2] \notin ps}]

\* Mutant of DropTransports: the producers of the transports are forgotten.
DropTransportsOnly(w, ts) ==
  [w EXCEPT !.transports = {x \in @ : x[1] \notin ts},
            !.connected  = {x \in @ : x[1] \notin ts},
            !.consumers  = {x \in @ : x[2] \notin ts}]

\* Closing a transport closes its producers, with their effects, and its consumers.
DropTransports(w, ts) ==
  LET v == DropProducers(w, {x[1] : x \in {y \in w.producers : y[2] \in ts}})
  IN  [v EXCEPT !.transports = {x \in @ : x[1] \notin ts},
                !.connected  = {x \in @ : x[1] \notin ts},
                !.consumers  = {x \in @ : x[2] \notin ts}]

\* One transport.closeProducer per producer of ps.
CloseProducers(w, t, ps) == DropProducers(w, {p \in ps : <<p, t>> \in w.producers})

\* One transport.closeConsumer per consumer of ks.
CloseConsumers(w, t, ks) == [w EXCEPT !.consumers = @ \ (ks \X {t})]

CloseTransport(w, r, t) == Reply(w, <<t, r>> \in w.transports, DropTransports(w, {t}))

CloseRouter(w, r) ==
  LET v == DropTransports(w, {x[1] : x \in {y \in w.transports : y[2] = r}})
      b == {x[1] : x \in {y \in w.observers : y[2] = r}}
  IN  Reply(w, r \in w.routers,
            [v EXCEPT !.routers   = @ \ {r},
                      !.observers = {x \in @ : x[2] # r},
                      !.watched   = {x \in @ : x[1] \notin b}])
-----------------------------------------------------------------------------
\* Ids are unique and no transport is connected twice; a transport or an observer
\* belongs to a router that exists, a producer to a transport that exists; a
\* consumer sits on a transport of the router that its producer is on, and an
\* observer watches producers of its router.
WorkerSound(w) ==
  /\ \A x \in w.transports : x[2] \in w.routers
  /\ \A x \in w.observers : x[2] \in w.routers
  /\ \A x, y \in w.transports : x[1] = y[1] => x = y
  /\ \A x, y \in w.observers : x[1] = y[1] => x = y
  /\ \A x, y \in w.producers : x[1] = y[1] => x = y
  /\ \A x, y \in w.consumers : x[1] = y[1] => x = y
  /\ \A x \in w.producers : HasTransport(w, x[2])
  /\ \A x \in w.connected : HasTransport(w, x[1])
  /\ \A x, y \in w.connected : x[1] = y[1] => x = y
  /\ \A x \in w.consumers : \E y \in w.transports : y[1] = x[2] /\ OnRouter(w, x[1][2], y[2])
  /\ \A x \in w.watched : \E y \in w.observers : y[1] = x[1] /\ OnRouter(w, x[2], y[2])
=============================================================================
