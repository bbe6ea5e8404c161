----------------------------- MODULE PipePairs -----------------------------
(***************************************************************************)
(* The pairs of PipeTransports that router.pipeToRouter() makes between    *)
(* two Routers, each in a worker of its own.  A call that finds a pair in  *)
(* the Router's map waits for it; otherwise it starts one and enters its   *)
(* promise into the maps of both Routers.                                  *)
(*                                                                         *)
(* Continuations of one response run together, without a step of anyone    *)
(* else in between.                                                        *)
(***************************************************************************)
EXTENDS Integers, Sequences

CONSTANTS
  Calls,      \* calls of pipeToRouter()
  MaxPairs    \* bound: pairs that are started

Routers  == {"A", "B"}
Other(r) == IF r = "A" THEN "B" ELSE "A"

VARIABLES
  open,    \* the Routers that are not closed
  map,     \* #mapRouterPairPipeTransportPairPromise: the pair with the other, or 0
  pairs,   \* the pairs started: see NewPair
  calls    \* of each call: its state and the pair it waits for

vars == <<open, map, pairs, calls>>

\* state: of the promise; added: addPipeTransportPair() has not thrown; connect:
\* the request of each transport.
NewPair(r, added) ==
  [from |-> r, added |-> added, state |-> "creating",
   transport |-> [q \in Routers |-> "creating"],
   connect   |-> [q \in Routers |-> "none"]]

Init ==
  /\ open = Routers /\ map = [r \in Routers |-> 0] /\ pairs = <<>>
  /\ calls = [c \in Calls |-> [state |-> "none", pair |-> 0]]

World == [map |-> map, pairs |-> pairs, calls |-> calls]

Become(w) == map' = w.map /\ pairs' = w.pairs /\ calls' = w.calls

-----------------------------------------------------------------------------
(* Settling the promise of a pair.                                         *)

SettleCalls(w, n, state) ==
  [w EXCEPT !.calls = [c \in Calls |->
     IF @[c].state = "waiting" /\ @[c].pair = n THEN [@[c] EXCEPT !.state = state] ELSE @[c]]]

\* Mutant of Resolve: the calls that found the pair in the map go on waiting.
ResolveFirst(w, n) == [w EXCEPT !.pairs[n].state = "ready"]

Resolve(w, n) == SettleCalls([w EXCEPT !.pairs[n].state = "ready"], n, "resolved")

\* The catch clauses: transports known by then are closed; only the Router that
\* was told of the pair forgets it.
Reject(w, n) ==
  LET p == w.pairs[n]
      closing(t) == IF p.state = "connecting" /\ t = "open" THEN "closed" ELSE t
  IN  SettleCalls(
        [w EXCEPT !.pairs[n].state = "failed",
                  !.pairs[n].transport = [q \in Routers |-> closing(@[q])],
                  !.map[Other(p.from)] = IF p.added THEN 0 ELSE @],
        n, "rejected")

\* transport.close() or routerClosed(): once the pair is ready the listeners
\* close the other transport and forget the pair.
CloseOne(w, n, r) ==
  LET p == w.pairs[n]
  IN  IF p.transport[r] # "open" THEN w
      ELSE IF p.state # "ready" THEN [w EXCEPT !.pairs[n].transport[r] = "closed"]
      ELSE [w EXCEPT
              !.pairs[n].transport = [q \in Routers |-> "closed"],
              !.map[p.from] = 0,
              !.map[Other(p.from)] =
                 IF p.added /\ p.transport[Other(p.from)] = "open" THEN 0 ELSE @]

-----------------------------------------------------------------------------
(* The application.                                                        *)

\* Mutant of Start: the other Router is not told.
StartAlone(c, r) ==
  /\ map[r] = 0 /\ Len(pairs) < MaxPairs
  /\ pairs' = Append(pairs, NewPair(r, FALSE))
  /\ map' = [map EXCEPT ![r] = Len(pairs) + 1]
  /\ calls' = [calls EXCEPT ![c] = [state |-> "waiting", pair |-> Len(pairs) + 1]]

\* The call that starts a pair; addPipeTransportPair() throws when the other
\* Router has an entry already, and with it the call.
Start(c, r) ==
  LET n == Len(pairs) + 1
      free == map[Other(r)] = 0
  IN  /\ map[r] = 0 /\ n <= MaxPairs
      /\ pairs' = Append(pairs, NewPair(r, free))
      /\ map' = [map EXCEPT ![r] = n, ![Other(r)] = IF free THEN n ELSE @]
      /\ calls' = [calls EXCEPT ![c] =
                     [state |-> IF free THEN "waiting" ELSE "rejected", pair |-> n]]

\* The call that finds a pair.
Join(c, r) ==
  LET n == map[r]
  IN  /\ n # 0
      /\ calls' = [calls EXCEPT ![c] =
           [pair |-> n, state |-> CASE pairs[n].state = "ready" -> "resolved"
                                    [] pairs[n].state = "failed" -> "rejected"
                                    [] OTHER -> "waiting"]]
      /\ UNCHANGED <<map, pairs>>

\* The Producer is found only while the Router is open.
PipeToRouter ==
  /\ \E c \in Calls, r \in open : calls[c].state = "none" /\ (Start(c, r) \/ Join(c, r))
  /\ UNCHANGED open

CloseTransport ==
  /\ \E n \in DOMAIN pairs, r \in Routers :
        pairs[n].transport[r] = "open" /\ Become(CloseOne(World, n, r))
  /\ UNCHANGED open

\* Every transport of the Router: each close touches its own pair and clears entries.
CloseRouter ==
  \E r \in open :
     LET after(n) == CloseOne(World, n, r)
     IN  /\ open' = open \ {r}
         /\ pairs' = [n \in DOMAIN pairs |-> after(n).pairs[n]]
         /\ map' = [q \in Routers |->
                      IF \E n \in DOMAIN pairs : after(n).map[q] = 0 THEN 0 ELSE map[q]]
         /\ UNCHANGED calls

-----------------------------------------------------------------------------
(* Responses of the workers.                                               *)

\* What becomes of a connect() that is sent now.
Sent(p, q) == IF p.transport[q] = "open" /\ q \in open THEN "sent" ELSE "doomed"

\* createPipeTransport() returns; with both transports there, both connect().
Created ==
  /\ \E n \in DOMAIN pairs, r \in Routers :
       LET p    == [pairs[n] EXCEPT !.transport[r] = "open"]
           both == p.state = "creating" /\ p.transport[Other(r)] \in {"open", "closed"}
       IN  /\ pairs[n].transport[r] = "creating"
           /\ pairs' = [pairs EXCEPT ![n] =
                IF both THEN [p EXCEPT !.state = "connecting",
                                       !.connect = [q \in Routers |-> Sent(p, q)]]
                ELSE p]
  /\ UNCHANGED <<open, map, calls>>

\* A worker refuses for want of a port, or because the Router is gone.
CreateFails ==
  /\ \E n \in DOMAIN pairs, r \in Routers :
       /\ pairs[n].transport[r] = "creating"
       /\ LET w == [World EXCEPT !.pairs[n].transport[r] = "refused"]
          IN  Become(IF pairs[n].state = "creating" THEN Reject(w, n) ELSE w)
  /\ UNCHANGED open

Connected ==
  /\ \E n \in DOMAIN pairs, r \in Routers :
       /\ pairs[n].connect[r] = "sent"
       /\ LET w == [World EXCEPT !.pairs[n].connect[r] = "ok"]
          IN  Become(IF pairs[n].state = "connecting" /\ pairs[n].connect[Other(r)] = "ok"
                     THEN Resolve(w, n) ELSE w)
  /\ UNCHANGED open

ConnectFails ==
  /\ \E n \in DOMAIN pairs, r \in Routers :
       /\ pairs[n].connect[r] \in {"doomed", "sent"}
       /\ LET w == [World EXCEPT !.pairs[n].connect[r] = "refused"]
          IN  Become(IF pairs[n].state = "connecting" THEN Reject(w, n) ELSE w)
  /\ UNCHANGED open

Respond == Created \/ CreateFails \/ Connected \/ ConnectFails

Next == PipeToRouter \/ CloseTransport \/ CloseRouter \/ Respond

\* The workers answer every request.
Spec == Init /\ [][Next]_vars /\ WF_vars(Respond)

-----------------------------------------------------------------------------
InUse(p) == p.state \in {"creating", "connecting"}
            \/ (p.state = "ready" /\ \A r \in Routers : p.transport[r] = "open")

\* Two Routers never have two pairs between them, however calls on both sides,
\* failures and closes interleave, and the pair in use is in the maps of both
\* unless addPipeTransportPair() has thrown (pipeToRouter, addPipeTransportPair).
OnePair ==
  \A n \in DOMAIN pairs : InUse(pairs[n]) =>
     /\ \A k \in DOMAIN pairs \ {n} : ~InUse(pairs[k])
     /\ pairs[n].added => \A r \in Routers : map[r] = n

\* Every call of pipeToRouter() gets a pair or an error: the calls are finitely
\* many and none waits for ever.
CallsSettle == []<>(\A c \in Calls : calls[c].state # "waiting")
=============================================================================
