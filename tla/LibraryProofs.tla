--------------------------- MODULE LibraryProofs ---------------------------
(***************************************************************************)
(* The mechanisms of the library, for any instance.                        *)
(*                                                                         *)
(* PipePairs: two Routers never have two pairs of PipeTransports between   *)
(* them.  OnePair is not inductive: a call that finds its Router's map     *)
(* empty starts a pair, so there must be no pair then that is not in that  *)
(* map.  PairInv says where a live pair is entered.  Every step but Start  *)
(* only takes pairs towards their end, and clears entries of pairs that    *)
(* end in it (PairsAge).                                                   *)
(*                                                                         *)
(* PauseState, SctpStreams and PipeProducer: the invariants are those of   *)
(* PauseSctpProofs and PipeProofs, used here through instances of them.    *)
(***************************************************************************)
EXTENDS MCLibrary, TLAPS

Pair ==
  [from : Routers, added : BOOLEAN,
   state : {"creating", "connecting", "ready", "failed"},
   transport : [Routers -> {"creating", "open", "closed", "refused"}],
   connect : [Routers -> {"none", "sent", "doomed", "ok", "refused"}]]

\* A pair that some response or close can still take out of the maps.  (A ready pair
\* may have lost one transport while it was connecting.)
Live(p) ==
  \/ p.state \in {"creating", "connecting"}
  \/ p.state = "ready" /\ \E r \in Routers : p.transport[r] = "open"

\* connect() is called when both transports have been created.
Whole(p) ==
  p.state \in {"connecting", "ready"} => \A r \in Routers : p.transport[r] \in {"open", "closed"}

PairsTyped ==
  /\ pairs \in Seq(Pair) /\ \A n \in 1..Len(pairs) : Whole(pairs[n])
  /\ map \in [Routers -> 0..Len(pairs)]

\* A live pair is in the map of the Router that started it, and in the other's map
\* unless that has an entry for a pair which is over, which nothing will remove.
Entered(n) ==
  LET p == pairs[n]
      o == map[Other(p.from)]
  IN  /\ map[p.from] = n
      /\ p.added => o = n
      /\ ~p.added => o # 0 /\ ~Live(pairs[o])

PairInv == PairsTyped /\ \A n \in 1..Len(pairs) : Live(pairs[n]) => Entered(n)

LEMMA RouterFacts ==
  /\ \A r \in Routers : Other(r) \in Routers /\ Other(r) # r /\ Other(Other(r)) = r
  /\ \A r, q \in Routers : q = r \/ q = Other(r)
  BY DEF Routers, Other

\* At most one pair is live.
LEMMA OneLive ==
  ASSUME PairInv, NEW n \in 1..Len(pairs), NEW k \in 1..Len(pairs),
         Live(pairs[n]), Live(pairs[k])
  PROVE  n = k
<1>1. Entered(n) /\ Entered(k) /\ pairs[n] \in Pair /\ pairs[k] \in Pair
  BY DEF PairInv, PairsTyped
<1>2. pairs[n].from \in Routers /\ pairs[k].from \in Routers
  BY <1>1 DEF Pair
<1>3. CASE pairs[n].from = pairs[k].from
  BY <1>1, <1>3 DEF Entered
<1>4. CASE pairs[k].from = Other(pairs[n].from)
  BY <1>1, <1>4 DEF Entered
<1> QED
  BY <1>2, <1>3, <1>4, RouterFacts

LEMMA InUseLive ==
  ASSUME NEW p, InUse(p) PROVE Live(p)
  BY DEF InUse, Live, Routers

LEMMA InvImplies == PairInv => OnePair
<1> SUFFICES ASSUME PairInv, NEW n \in DOMAIN pairs, InUse(pairs[n])
             PROVE  /\ \A k \in DOMAIN pairs \ {n} : ~InUse(pairs[k])
                    /\ pairs[n].added => \A r \in Routers : map[r] = n
  BY DEF OnePair
<1>1. DOMAIN pairs = 1..Len(pairs)
  BY DEF PairInv, PairsTyped
<1>0. Live(pairs[n])
  BY InUseLive
<1>2. n \in 1..Len(pairs) /\ Entered(n) /\ pairs[n] \in Pair
  BY <1>0, <1>1 DEF PairInv, PairsTyped
<1>3. \A k \in DOMAIN pairs \ {n} : ~InUse(pairs[k])
  BY <1>0, <1>1, <1>2, OneLive, InUseLive
<1>4. pairs[n].added => \A r \in Routers : map[r] = n
  <2>1. pairs[n].from \in Routers
    BY <1>2 DEF Pair
  <2> QED
    BY <1>2, <2>1, RouterFacts DEF Entered
<1> QED
  BY <1>3, <1>4

-----------------------------------------------------------------------------
(* Every step but Start takes pairs towards their end *)

\* p turns into q.
Ages(p, q) ==
  /\ q \in Pair /\ Whole(q) /\ q.from = p.from /\ q.added = p.added
  /\ Live(q) => Live(p)

\* A map loses only entries of live pairs that end now.
PairsAge ==
  /\ Len(pairs') = Len(pairs) /\ pairs' \in Seq(Pair)
  /\ \A n \in 1..Len(pairs) : Ages(pairs[n], pairs'[n])
  /\ map' \in [Routers -> 0..Len(pairs)]
  /\ \A r \in Routers : map'[r] # map[r] =>
       /\ map'[r] = 0
       /\ \E n \in 1..Len(pairs) :
            /\ Live(pairs[n]) /\ ~Live(pairs'[n])
            /\ r = pairs[n].from \/ (r = Other(pairs[n].from) /\ pairs[n].added)

LEMMA AgeKeeps ==
  ASSUME PairInv, PairsAge
  PROVE  PairInv'
<1>1. PairsTyped'
  BY DEF PairsAge, PairsTyped, Ages
<1>2. ASSUME NEW r \in Routers, map'[r] # map[r]
      PROVE  \E n \in 1..Len(pairs) : map[r] = n /\ Live(pairs[n]) /\ ~Live(pairs'[n])
  BY <1>2 DEF PairsAge, PairInv, Entered
<1>3. ASSUME NEW n \in 1..Len(pairs), Live(pairs'[n]) PROVE Entered(n)'
  <2>1. /\ Live(pairs[n]) /\ Entered(n) /\ pairs[n] \in Pair
        /\ pairs'[n].from = pairs[n].from /\ pairs'[n].added = pairs[n].added
    BY <1>3 DEF PairsAge, Ages, PairInv, PairsTyped
  <2>2. pairs[n].from \in Routers /\ Other(pairs[n].from) \in Routers /\ pairs[n].added \in BOOLEAN
    BY <2>1, RouterFacts DEF Pair
  <2>3. map'[pairs[n].from] = n
    BY <1>2, <1>3, <2>1, <2>2 DEF Entered
  <2>4. CASE pairs[n].added
    <3>1. map'[Other(pairs[n].from)] = n
      BY <1>2, <1>3, <2>1, <2>2, <2>4, Zenon DEF Entered
    <3> QED
      BY <2>1, <2>3, <2>4, <3>1 DEF Entered, Other
  <2>5. CASE ~pairs[n].added
    <3> DEFINE o == map[Other(pairs[n].from)]
    <3>1. o # 0 /\ ~Live(pairs[o])
      BY <2>1, <2>5 DEF Entered
    <3>2. map'[Other(pairs[n].from)] = o
      BY <1>2, <2>2, <3>1
    <3>3. o \in 1..Len(pairs)
      BY <2>2, <3>1 DEF PairInv, PairsTyped
    <3>4. ~Live(pairs'[o])
      BY <3>1, <3>3 DEF PairsAge, Ages
    <3> QED
      BY <2>1, <2>3, <2>5, <3>1, <3>2, <3>4, ZenonT(60) DEF Entered, Other, Live
  <2> QED
    BY <2>2, <2>4, <2>5
<1> QED
  BY <1>1, <1>3 DEF PairInv, PairsAge

\* Most steps are about one pair.
LEMMA OneAges ==
  ASSUME PairInv, NEW n \in 1..Len(pairs), NEW q, Ages(pairs[n], q),
         pairs' = [pairs EXCEPT ![n] = q], map' \in [Routers -> 0..Len(pairs)],
         \A r \in Routers : map'[r] # map[r] =>
           /\ map'[r] = 0 /\ Live(pairs[n]) /\ ~Live(q)
           /\ r = pairs[n].from \/ (r = Other(pairs[n].from) /\ pairs[n].added)
  PROVE  PairsAge
<1>1. pairs \in Seq(Pair) /\ q \in Pair
  BY DEF PairInv, PairsTyped, Ages
<1>2. /\ pairs' \in Seq(Pair) /\ Len(pairs') = Len(pairs)
      /\ \A k \in 1..Len(pairs) : pairs'[k] = IF k = n THEN q ELSE pairs[k]
  BY <1>1
<1>3. \A k \in 1..Len(pairs) : Ages(pairs[k], pairs[k])
  BY DEF PairInv, PairsTyped, Ages
<1> QED
  BY <1>2, <1>3 DEF PairsAge

\* What the operators on worlds do to pairs and map.
Wrap(m, ps) == [map |-> m, pairs |-> ps, calls |-> calls]

Closing(p, r) == IF p.state = "connecting" /\ p.transport[r] = "open" THEN "closed" ELSE p.transport[r]

RejectedPairs(ps, n) ==
  [ps EXCEPT ![n].state = "failed", ![n].transport = [r \in Routers |-> Closing(ps[n], r)]]

RejectedMap(m, ps, n) ==
  [m EXCEPT ![Other(ps[n].from)] = IF ps[n].added THEN 0 ELSE m[Other(ps[n].from)]]

LEMMA RejectFacts ==
  \A m, ps, n : /\ Reject(Wrap(m, ps), n).pairs = RejectedPairs(ps, n)
                /\ Reject(Wrap(m, ps), n).map = RejectedMap(m, ps, n)
<1> TAKE m, ps, n
<1> QED
  BY DEF Reject, SettleCalls, Wrap, Closing, RejectedPairs, RejectedMap

ResolvedPairs(ps, n) == [ps EXCEPT ![n].state = "ready"]

LEMMA ResolveFacts ==
  \A m, ps, n : Resolve(Wrap(m, ps), n).pairs = ResolvedPairs(ps, n) /\ Resolve(Wrap(m, ps), n).map = m
<1> TAKE m, ps, n
<1> QED
  BY DEF Resolve, SettleCalls, Wrap, ResolvedPairs

LEMMA CloseOneFacts ==
  ASSUME NEW n, NEW r
  PROVE  LET p == pairs[n]
             w == CloseOne(World, n, r)
         IN  /\ p.transport[r] # "open" => w.pairs = pairs /\ w.map = map
             /\ p.transport[r] = "open" /\ p.state # "ready" =>
                  w.pairs = [pairs EXCEPT ![n].transport[r] = "closed"] /\ w.map = map
             /\ p.transport[r] = "open" /\ p.state = "ready" =>
                  /\ w.pairs = [pairs EXCEPT ![n].transport = [q \in Routers |-> "closed"]]
                  /\ w.map = [map EXCEPT ![p.from] = 0,
                                         ![Other(p.from)] =
                       IF p.added /\ p.transport[Other(p.from)] = "open" THEN 0 ELSE @]
  BY DEF CloseOne, World

-----------------------------------------------------------------------------
(* The steps *)

LEMMA CreatedAges ==
  ASSUME PairInv, Created
  PROVE  PairsAge
<1>1. PICK n \in DOMAIN pairs, r \in Routers :
        LET p    == [pairs[n] EXCEPT !.transport[r] = "open"]
            both == p.state = "creating" /\ p.transport[Other(r)] \in {"open", "closed"}
        IN  /\ pairs[n].transport[r] = "creating"
            /\ pairs' = [pairs EXCEPT ![n] =
                 IF both THEN [p EXCEPT !.state = "connecting",
                                        !.connect = [q \in Routers |-> Sent(p, q)]]
                 ELSE p]
  BY ZenonT(60) DEF Created
<1>2. n \in 1..Len(pairs) /\ pairs[n] \in Pair /\ Whole(pairs[n]) /\ pairs[n].transport[r] = "creating"
  BY <1>1 DEF PairInv, PairsTyped
<1>3. pairs[n].state \in {"creating", "failed"}
  BY <1>2 DEF Whole, Pair
<1> DEFINE p == [pairs[n] EXCEPT !.transport[r] = "open"]
<1> DEFINE both == p.state = "creating" /\ p.transport[Other(r)] \in {"open", "closed"}
<1> DEFINE q == IF both THEN [p EXCEPT !.state = "connecting",
                                       !.connect = [x \in Routers |-> Sent(p, x)]]
                ELSE p
<1>4. /\ p \in Pair /\ p.from = pairs[n].from /\ p.added = pairs[n].added
      /\ p.state = pairs[n].state /\ p.transport[r] = "open"
  BY <1>2 DEF Pair
<1>5. pairs' = [pairs EXCEPT ![n] = q]
  BY <1>1
<1>6. Ages(pairs[n], p) \/ both
  BY <1>3, <1>4 DEF Ages, Whole, Live
<1> HIDE DEF p
<1>7. [x \in Routers |-> Sent(p, x)] \in [Routers -> {"none", "sent", "doomed", "ok", "refused"}]
  BY DEF Sent
<1>8. ASSUME both PROVE Ages(pairs[n], q)
  <2> DEFINE z == [p EXCEPT !.state = "connecting", !.connect = [x \in Routers |-> Sent(p, x)]]
  <2>1. q = z
    BY <1>8, Zenon
  <2>2. /\ z \in Pair /\ z.from = p.from /\ z.added = p.added /\ z.transport = p.transport
        /\ z.state = "connecting"
    BY <1>4, <1>7, ZenonT(60) DEF Pair
  <2>3. \A x \in Routers : z.transport[x] \in {"open", "closed"}
    BY <1>4, <1>8, <2>2, RouterFacts
  <2>4. Live(pairs[n])
    BY <1>4, <1>8 DEF Live
  <2> QED
    BY <1>4, <2>1, <2>2, <2>3, <2>4 DEF Ages, Whole
<1>9. Ages(pairs[n], q)
  BY <1>6, <1>8
<1>10. map' = map /\ map \in [Routers -> 0..Len(pairs)]
  BY DEF Created, PairInv, PairsTyped
<1> HIDE DEF q, both
<1> QED
  BY <1>2, <1>5, <1>9, <1>10, OneAges, ZenonT(60)

\* Reject of a pair that is creating or connecting ends it.
LEMMA RejectAges ==
  ASSUME PairInv, NEW n \in 1..Len(pairs), NEW q \in Pair,
         pairs[n].state \in {"creating", "connecting"},
         q.state = pairs[n].state, q.from = pairs[n].from, q.added = pairs[n].added,
         pairs' = Reject(Wrap(map, [pairs EXCEPT ![n] = q]), n).pairs,
         map' = Reject(Wrap(map, [pairs EXCEPT ![n] = q]), n).map
  PROVE  PairsAge
<1> DEFINE ps == [pairs EXCEPT ![n] = q]
<1> DEFINE z == [q EXCEPT !.state = "failed", !.transport = [x \in Routers |-> Closing(q, x)]]
<1>1. pairs \in Seq(Pair) /\ pairs[n] \in Pair /\ map \in [Routers -> 0..Len(pairs)]
  BY DEF PairInv, PairsTyped
<1>2. ps[n] = q
  BY <1>1
<1>3. pairs' = RejectedPairs(ps, n) /\ map' = RejectedMap(map, ps, n)
  BY RejectFacts
<1> HIDE DEF ps
<1>4. map' = [map EXCEPT ![Other(q.from)] = IF q.added THEN 0 ELSE map[Other(q.from)]]
  BY <1>2, <1>3, ZenonT(60) DEF RejectedMap
<1>5. pairs' = [pairs EXCEPT ![n] = z]
  BY <1>1, <1>2, <1>3, ZenonT(60) DEF ps, RejectedPairs
<1>6. z \in Pair /\ z.state = "failed" /\ z.from = q.from /\ z.added = q.added
  BY ZenonT(60) DEF Pair, Closing
<1> HIDE DEF z
<1>7. Ages(pairs[n], z) /\ Live(pairs[n]) /\ ~Live(z)
  BY <1>6 DEF Ages, Whole, Live
<1>8. Other(q.from) \in Routers /\ q.added \in BOOLEAN /\ 0 \in 0..Len(pairs)
  BY <1>1, RouterFacts DEF Pair
<1>9. map' \in [Routers -> 0..Len(pairs)]
  BY <1>1, <1>4, <1>8, ZenonT(60)
<1>10. \A r \in Routers : map'[r] # map[r] =>
         map'[r] = 0 /\ r = Other(pairs[n].from) /\ pairs[n].added
  BY <1>1, <1>4, <1>8
<1> QED
  BY <1>5, <1>7, <1>9, <1>10, OneAges, ZenonT(60)

LEMMA CreateFailsAges ==
  ASSUME PairInv, CreateFails
  PROVE  PairsAge
<1>1. PICK n \in DOMAIN pairs, r \in Routers :
        /\ pairs[n].transport[r] = "creating"
        /\ LET w == [World EXCEPT !.pairs[n].transport[r] = "refused"]
           IN  Become(IF pairs[n].state = "creating" THEN Reject(w, n) ELSE w)
  BY ZenonT(60) DEF CreateFails
<1> DEFINE q == [pairs[n] EXCEPT !.transport[r] = "refused"]
<1> DEFINE ps == [pairs EXCEPT ![n] = q]
<1>2. /\ n \in 1..Len(pairs) /\ pairs[n] \in Pair /\ Whole(pairs[n])
      /\ map \in [Routers -> 0..Len(pairs)]
  BY DEF PairInv, PairsTyped
<1>3. [World EXCEPT !.pairs[n].transport[r] = "refused"] = Wrap(map, ps)
  <2>1. [World EXCEPT !.pairs[n].transport[r] = "refused"].pairs = ps
    BY DEF World
  <2>2. [World EXCEPT !.pairs[n].transport[r] = "refused"] =
          [map |-> map, pairs |-> [World EXCEPT !.pairs[n].transport[r] = "refused"].pairs, calls |-> calls]
    BY DEF World
  <2> HIDE DEF ps
  <2> QED
    BY <2>1, <2>2 DEF Wrap
<1>4. q \in Pair /\ q.from = pairs[n].from /\ q.added = pairs[n].added /\ q.state = pairs[n].state
  BY <1>2, ZenonT(60) DEF Pair
<1>5. pairs[n].state \in {"creating", "failed"}
  BY <1>1, <1>2 DEF Whole, Pair
<1>6. CASE pairs[n].state = "creating"
  <2>1. pairs' = Reject(Wrap(map, ps), n).pairs /\ map' = Reject(Wrap(map, ps), n).map
    BY <1>1, <1>3, <1>6 DEF Become
  <2> HIDE DEF q
  <2> QED
    BY ZenonT(30), <1>2, <1>4, <1>6, <2>1, RejectAges
<1>7. CASE pairs[n].state = "failed"
  <2>1. pairs' = ps /\ map' = map
    BY <1>1, <1>3, <1>7, ZenonT(60) DEF Become, Wrap
  <2> HIDE DEF q
  <2>2. Ages(pairs[n], q)
    BY <1>4, <1>7 DEF Ages, Whole, Live
  <2> QED
    BY <1>2, <2>1, <2>2, OneAges, ZenonT(60)
<1> QED
  BY <1>5, <1>6, <1>7

\* An answer to connect() alone changes neither state nor transports.
LEMMA ConnectAges ==
  ASSUME NEW p \in Pair, Whole(p), NEW r \in Routers, NEW c \in {"ok", "refused"}
  PROVE  LET q == [p EXCEPT !.connect[r] = c]
         IN  Ages(p, q) /\ q.state = p.state /\ q.transport = p.transport
<1> DEFINE q == [p EXCEPT !.connect[r] = c]
<1>1. /\ q \in Pair /\ q.from = p.from /\ q.added = p.added /\ q.state = p.state
      /\ q.transport = p.transport
  BY DEF Pair
<1> QED
  BY <1>1 DEF Ages, Whole, Live

LEMMA ConnectedAges ==
  ASSUME PairInv, Connected
  PROVE  PairsAge
<1>1. PICK n \in DOMAIN pairs, r \in Routers :
        LET w == [World EXCEPT !.pairs[n].connect[r] = "ok"]
        IN  Become(IF pairs[n].state = "connecting" /\ pairs[n].connect[Other(r)] = "ok"
                   THEN Resolve(w, n) ELSE w)
  BY ZenonT(60) DEF Connected
<1> DEFINE q == [pairs[n] EXCEPT !.connect[r] = "ok"]
<1> DEFINE ps == [pairs EXCEPT ![n] = q]
<1>2. /\ n \in 1..Len(pairs) /\ pairs[n] \in Pair /\ Whole(pairs[n])
      /\ map \in [Routers -> 0..Len(pairs)] /\ pairs \in Seq(Pair)
  BY DEF PairInv, PairsTyped
<1>3. [World EXCEPT !.pairs[n].connect[r] = "ok"] = Wrap(map, ps)
  <2>1. [World EXCEPT !.pairs[n].connect[r] = "ok"].pairs = ps
    BY DEF World
  <2>2. [World EXCEPT !.pairs[n].connect[r] = "ok"] =
          [map |-> map, pairs |-> [World EXCEPT !.pairs[n].connect[r] = "ok"].pairs, calls |-> calls]
    BY DEF World
  <2> HIDE DEF ps
  <2> QED
    BY <2>1, <2>2 DEF Wrap
<1>4. Ages(pairs[n], q) /\ q.state = pairs[n].state /\ q.transport = pairs[n].transport
  BY <1>2, ConnectAges, ZenonT(60)
<1>5. CASE pairs[n].state = "connecting" /\ pairs[n].connect[Other(r)] = "ok"
  <2> DEFINE z == [q EXCEPT !.state = "ready"]
  <2>1. pairs' = ResolvedPairs(ps, n) /\ map' = map
    BY <1>1, <1>3, <1>5, ResolveFacts DEF Become
  <2>2. pairs' = [pairs EXCEPT ![n] = z]
    BY <1>2, <2>1, ZenonT(60) DEF ResolvedPairs
  <2> HIDE DEF q
  <2>3. /\ z \in Pair /\ z.from = q.from /\ z.added = q.added /\ z.transport = q.transport
        /\ z.state = "ready"
    BY <1>4 DEF Ages, Pair
  <2> HIDE DEF z
  <2>4. Ages(pairs[n], z)
    BY <1>4, <1>5, <2>3 DEF Ages, Whole, Live
  <2> QED
    BY <1>2, <2>1, <2>2, <2>4, OneAges, ZenonT(60)
<1>6. CASE ~(pairs[n].state = "connecting" /\ pairs[n].connect[Other(r)] = "ok")
  <2>1. pairs' = ps /\ map' = map
    BY <1>1, <1>3, <1>6, ZenonT(60) DEF Become, Wrap
  <2> HIDE DEF q
  <2> QED
    BY <1>2, <1>4, <2>1, OneAges, ZenonT(60)
<1> QED
  BY <1>5, <1>6

LEMMA ConnectFailsAges ==
  ASSUME PairInv, ConnectFails
  PROVE  PairsAge
<1>1. PICK n \in DOMAIN pairs, r \in Routers :
        LET w == [World EXCEPT !.pairs[n].connect[r] = "refused"]
        IN  Become(IF pairs[n].state = "connecting" THEN Reject(w, n) ELSE w)
  BY ZenonT(60) DEF ConnectFails
<1> DEFINE q == [pairs[n] EXCEPT !.connect[r] = "refused"]
<1> DEFINE ps == [pairs EXCEPT ![n] = q]
<1>2. /\ n \in 1..Len(pairs) /\ pairs[n] \in Pair /\ Whole(pairs[n])
      /\ map \in [Routers -> 0..Len(pairs)]
  BY DEF PairInv, PairsTyped
<1>3. [World EXCEPT !.pairs[n].connect[r] = "refused"] = Wrap(map, ps)
  <2>1. [World EXCEPT !.pairs[n].connect[r] = "refused"].pairs = ps
    BY DEF World
  <2>2. [World EXCEPT !.pairs[n].connect[r] = "refused"] =
          [map |-> map, pairs |-> [World EXCEPT !.pairs[n].connect[r] = "refused"].pairs, calls |-> calls]
    BY DEF World
  <2> HIDE DEF ps
  <2> QED
    BY <2>1, <2>2 DEF Wrap
<1>4. Ages(pairs[n], q) /\ q.state = pairs[n].state
  BY <1>2, ConnectAges, ZenonT(60)
<1>5. CASE pairs[n].state = "connecting"
  <2>1. pairs' = Reject(Wrap(map, ps), n).pairs /\ map' = Reject(Wrap(map, ps), n).map
    BY <1>1, <1>3, <1>5 DEF Become
  <2> HIDE DEF q
  <2> QED
    BY ZenonT(30), <1>2, <1>4, <1>5, <2>1, RejectAges DEF Ages
<1>6. CASE pairs[n].state # "connecting"
  <2>1. pairs' = ps /\ map' = map
    BY <1>1, <1>3, <1>6, ZenonT(60) DEF Become, Wrap
  <2> HIDE DEF q
  <2> QED
    BY <1>2, <1>4, <2>1, OneAges, ZenonT(60)
<1> QED
  BY <1>5, <1>6

\* What a close of one transport does to its pair and to the maps.
ClosedPair(n, r) ==
  IF pairs[n].transport[r] # "open" THEN pairs[n]
  ELSE IF pairs[n].state # "ready" THEN [pairs[n] EXCEPT !.transport[r] = "closed"]
  ELSE [pairs[n] EXCEPT !.transport = [q \in Routers |-> "closed"]]

LEMMA CloseOnePair ==
  ASSUME PairInv, NEW n \in 1..Len(pairs), NEW r \in Routers
  PROVE  /\ CloseOne(World, n, r).pairs = [pairs EXCEPT ![n] = ClosedPair(n, r)]
         /\ Ages(pairs[n], ClosedPair(n, r))
<1>1. pairs \in Seq(Pair) /\ pairs[n] \in Pair /\ Whole(pairs[n])
  BY DEF PairInv, PairsTyped
<1>2. CASE pairs[n].transport[r] # "open"
  <2>1. CloseOne(World, n, r).pairs = pairs
    BY <1>2 DEF CloseOne, World
  <2>2. ClosedPair(n, r) = pairs[n] /\ [pairs EXCEPT ![n] = pairs[n]] = pairs
    BY <1>1, <1>2 DEF ClosedPair
  <2>3. Ages(pairs[n], pairs[n])
    BY <1>1 DEF Ages
  <2> QED
    BY <2>1, <2>2, <2>3
<1>3. CASE pairs[n].transport[r] = "open" /\ pairs[n].state # "ready"
  <2> DEFINE q == [pairs[n] EXCEPT !.transport[r] = "closed"]
  <2>1. /\ q \in Pair /\ q.from = pairs[n].from /\ q.added = pairs[n].added
        /\ q.state = pairs[n].state /\ Whole(q)
    BY <1>1, ZenonT(60) DEF Pair, Whole
  <2>2. Ages(pairs[n], q)
    BY <1>3, <2>1 DEF Ages, Live
  <2> QED
    BY <1>3, <2>2, CloseOneFacts, ZenonT(60) DEF ClosedPair
<1>4. CASE pairs[n].transport[r] = "open" /\ pairs[n].state = "ready"
  <2> DEFINE q == [pairs[n] EXCEPT !.transport = [x \in Routers |-> "closed"]]
  <2>1. /\ q \in Pair /\ q.from = pairs[n].from /\ q.added = pairs[n].added
        /\ q.state = pairs[n].state /\ Whole(q)
    BY <1>1 DEF Pair, Whole
  <2>2. Ages(pairs[n], q)
    BY Zenon, <1>4, <2>1 DEF Ages, Live
  <2> QED
    BY <1>4, <2>2, CloseOneFacts, ZenonT(60) DEF ClosedPair
<1> QED
  BY <1>2, <1>3, <1>4

LEMMA CloseOneMap ==
  ASSUME PairInv, NEW n \in 1..Len(pairs), NEW r \in Routers
  PROVE  /\ CloseOne(World, n, r).map \in [Routers -> 0..Len(pairs)]
         /\ \A x \in Routers : CloseOne(World, n, r).map[x] # map[x] =>
              /\ CloseOne(World, n, r).map[x] = 0
              /\ Live(pairs[n]) /\ ~Live(ClosedPair(n, r))
              /\ x = pairs[n].from \/ (x = Other(pairs[n].from) /\ pairs[n].added)
<1>1. /\ pairs[n] \in Pair /\ map \in [Routers -> 0..Len(pairs)] /\ Len(pairs) \in Nat
  BY DEF PairInv, PairsTyped
<1>2. CASE ~(pairs[n].transport[r] = "open" /\ pairs[n].state = "ready")
  <2>1. CloseOne(World, n, r).map = map
    BY Zenon, <1>2 DEF CloseOne, World
  <2> QED
    BY <1>1, <2>1
<1>3. CASE pairs[n].transport[r] = "open" /\ pairs[n].state = "ready"
  <2> DEFINE o == Other(pairs[n].from)
  <2> DEFINE gone == pairs[n].added /\ pairs[n].transport[o] = "open"
  <2>1. /\ pairs[n].from \in Routers /\ o \in Routers /\ o # pairs[n].from
        /\ pairs[n].added \in BOOLEAN
    BY <1>1, RouterFacts DEF Pair
  <2>2. CloseOne(World, n, r).map = [map EXCEPT ![pairs[n].from] = 0, ![o] = IF gone THEN 0 ELSE @]
    BY <1>3, CloseOneFacts, ZenonT(60)
  <2>3. Live(pairs[n])
    BY <1>3 DEF Live
  <2>4. ~Live(ClosedPair(n, r))
    <3> DEFINE q == [pairs[n] EXCEPT !.transport = [x \in Routers |-> "closed"]]
    <3>1. q.state = "ready" /\ \A x \in Routers : q.transport[x] = "closed"
      BY <1>1, <1>3 DEF Pair
    <3>2. ClosedPair(n, r) = q
      BY <1>3 DEF ClosedPair
    <3> HIDE DEF q
    <3> QED
      BY <3>1, <3>2 DEF Live
  <2> HIDE DEF o
  <2>5. CloseOne(World, n, r).map \in [Routers -> 0..Len(pairs)]
    BY <1>1, <2>1, <2>2
  <2>6. \A x \in Routers : CloseOne(World, n, r).map[x] # map[x] =>
          /\ CloseOne(World, n, r).map[x] = 0
          /\ x = pairs[n].from \/ (x = o /\ pairs[n].added)
    BY <1>1, <2>1, <2>2
  <2> QED
    BY Zenon, <2>3, <2>4, <2>5, <2>6 DEF o
<1> QED
  BY <1>2, <1>3

LEMMA CloseTransportAges ==
  ASSUME PairInv, CloseTransport
  PROVE  PairsAge
<1>1. PICK n \in DOMAIN pairs, r \in Routers : Become(CloseOne(World, n, r))
  BY DEF CloseTransport
<1>2. n \in 1..Len(pairs)
  BY DEF PairInv, PairsTyped
<1>3. pairs' = [pairs EXCEPT ![n] = ClosedPair(n, r)] /\ Ages(pairs[n], ClosedPair(n, r))
  BY Zenon, <1>1, <1>2, CloseOnePair DEF Become
<1>4. /\ map' \in [Routers -> 0..Len(pairs)]
      /\ \A x \in Routers : map'[x] # map[x] =>
           /\ map'[x] = 0 /\ Live(pairs[n]) /\ ~Live(ClosedPair(n, r))
           /\ x = pairs[n].from \/ (x = Other(pairs[n].from) /\ pairs[n].added)
  BY <1>1, <1>2, CloseOneMap DEF Become
<1> QED
  BY <1>2, <1>3, <1>4, OneAges, ZenonT(60)

LEMMA CloseRouterAges ==
  ASSUME PairInv, open \subseteq Routers, CloseRouter
  PROVE  PairsAge
<1>1. PICK r \in Routers :
        /\ pairs' = [n \in DOMAIN pairs |-> CloseOne(World, n, r).pairs[n]]
        /\ map' = [q \in Routers |->
                     IF \E n \in DOMAIN pairs : CloseOne(World, n, r).map[q] = 0 THEN 0 ELSE map[q]]
  BY DEF CloseRouter
<1>2. /\ pairs \in Seq(Pair) /\ DOMAIN pairs = 1..Len(pairs) /\ Len(pairs) \in Nat
      /\ map \in [Routers -> 0..Len(pairs)]
  BY DEF PairInv, PairsTyped
<1>3. \A n \in 1..Len(pairs) : pairs'[n] = ClosedPair(n, r) /\ Ages(pairs[n], ClosedPair(n, r))
  BY <1>1, <1>2, CloseOnePair, ZenonT(60)
<1>4. Len(pairs') = Len(pairs) /\ pairs' \in Seq(Pair)
  BY <1>1, <1>2, <1>3 DEF Ages
<1>5. map' \in [Routers -> 0..Len(pairs)]
  BY <1>1, <1>2
<1>6. ASSUME NEW x \in Routers, map'[x] # map[x]
      PROVE  /\ map'[x] = 0
             /\ \E n \in 1..Len(pairs) :
                  /\ Live(pairs[n]) /\ ~Live(pairs'[n])
                  /\ x = pairs[n].from \/ (x = Other(pairs[n].from) /\ pairs[n].added)
  <2>1. map'[x] = 0 /\ \E n \in 1..Len(pairs) : CloseOne(World, n, r).map[x] = 0
    BY Zenon, <1>1, <1>2, <1>6
  <2> QED
    BY <1>3, <1>6, <2>1, CloseOneMap
<1> QED
  BY Zenon, <1>3, <1>4, <1>5, <1>6 DEF PairsAge

\* Start finds no live pair: its own map would have the entry.
LEMMA StartKeeps ==
  ASSUME PairInv, NEW c, NEW r \in Routers, Start(c, r)
  PROVE  PairInv'
<1> DEFINE n == Len(pairs) + 1
<1> DEFINE o == map[Other(r)]
<1> DEFINE p == NewPair(r, o = 0)
<1>1. /\ pairs \in Seq(Pair) /\ map \in [Routers -> 0..Len(pairs)] /\ Len(pairs) \in Nat
      /\ \A k \in 1..Len(pairs) : Whole(pairs[k])
  BY DEF PairInv, PairsTyped
<1>2. /\ map[r] = 0 /\ pairs' = Append(pairs, p)
      /\ map' = [map EXCEPT ![r] = n, ![Other(r)] = IF o = 0 THEN n ELSE o]
  BY Zenon, <1>1, RouterFacts DEF Start
<1>3. ASSUME NEW k \in 1..Len(pairs), Live(pairs[k]) PROVE FALSE
  <2>1. Entered(k) /\ pairs[k] \in Pair
    BY <1>1, <1>3 DEF PairInv
  <2>2. pairs[k].from \in Routers /\ pairs[k].added \in BOOLEAN
    BY <2>1 DEF Pair
  <2>3. CASE pairs[k].from = r
    BY <1>2, <2>1, <2>3 DEF Entered
  <2>4. CASE Other(pairs[k].from) = r
    BY <1>2, <2>1, <2>2, <2>4 DEF Entered
  <2> QED
    BY Zenon, <2>2, <2>3, <2>4, RouterFacts
<1>4. p \in Pair /\ Whole(p) /\ p.from = r /\ p.added = (o = 0)
  BY DEF NewPair, Pair, Whole
<1> HIDE DEF p
<1>5. /\ pairs' \in Seq(Pair) /\ Len(pairs') = n /\ pairs'[n] = p
      /\ \A k \in 1..Len(pairs) : pairs'[k] = pairs[k]
  BY <1>1, <1>2, <1>4
<1>6. \A k \in 1..n : k = n \/ k \in 1..Len(pairs)
  BY <1>1
<1>7. /\ map' \in [Routers -> 0..n] /\ map'[r] = n
      /\ map'[Other(r)] = IF o = 0 THEN n ELSE o
  BY <1>1, <1>2, RouterFacts
<1>8. PairsTyped'
  BY <1>1, <1>4, <1>5, <1>6, <1>7, ZenonT(60) DEF PairsTyped
<1>9. ASSUME NEW CONSTANT k, k = n PROVE Entered(k)'
  <2>1. o # 0 => o \in 1..Len(pairs)
    BY <1>1, RouterFacts
  <2>2. o # 0 => ~Live(pairs'[o])
    BY Zenon, <1>3, <1>5, <2>1
  <2>3. /\ pairs'[k] = p /\ map'[p.from] = k /\ p.added = (o = 0)
        /\ map'[Other(p.from)] = IF o = 0 THEN k ELSE o
    BY Zenon, <1>4, <1>5, <1>7, <1>9
  <2> HIDE DEF n, o
  <2> QED
    BY <2>2, <2>3, ZenonT(60) DEF Entered, Live, Other
<1>10. ASSUME NEW CONSTANT k \in 1..Len(pairs'), Live(pairs'[k]) PROVE k = n
  BY Zenon, <1>3, <1>5, <1>6, <1>10
<1>11. ASSUME NEW CONSTANT k \in 1..Len(pairs'), Live(pairs[k])' PROVE Entered(k)'
  BY <1>9, <1>10, <1>11 DEF Live
<1> QED
  BY <1>8, <1>11 DEF PairInv

-----------------------------------------------------------------------------
PairsInv == PairInv /\ open \subseteq Routers

LEMMA PairsInit == Init => PairsInv
  BY DEF Init, PairsInv, PairInv, PairsTyped, Routers

LEMMA PairsStep == PairsInv /\ [Next]_vars => PairsInv'
<1> SUFFICES ASSUME PairsInv, [Next]_vars PROVE PairsInv'
  OBVIOUS
<1>0. PairInv /\ open \subseteq Routers
  BY DEF PairsInv
<1>1. open' \subseteq Routers
  BY <1>0, ZenonT(60) DEF Next, vars, PipeToRouter, CloseTransport, CloseRouter, Respond, Created, CreateFails,
        Connected, ConnectFails
<1>2. PairInv'
  <2>1. CASE PipeToRouter
    <3>1. PICK c \in Calls, r \in Routers : Start(c, r) \/ Join(c, r)
      BY <1>0, <2>1 DEF PipeToRouter
    <3>2. CASE Start(c, r)
      BY <1>0, <3>2, StartKeeps, Zenon
    <3>3. CASE Join(c, r)
      BY <1>0, <3>3 DEF Join, PairInv, PairsTyped, Entered, Live
    <3> QED
      BY Zenon, <3>1, <3>2, <3>3
  <2>2. CASE CloseTransport
    BY <1>0, <2>2, CloseTransportAges, AgeKeeps
  <2>3. CASE CloseRouter
    BY <1>0, <2>3, CloseRouterAges, AgeKeeps
  <2>4. CASE Respond
    BY <1>0, <2>4, CreatedAges, CreateFailsAges, ConnectedAges, ConnectFailsAges, AgeKeeps, Zenon DEF Respond
  <2>5. CASE UNCHANGED vars
    BY <1>0, <2>5 DEF vars, PairInv, PairsTyped, Entered, Live
  <2> QED
    BY Zenon, <2>1, <2>2, <2>3, <2>4, <2>5 DEF Next
<1> QED
  BY <1>1, <1>2 DEF PairsInv

\* However many calls on both Routers, failures of the workers and closes interleave,
\* the two Routers have at most one pair in use, in the maps of both unless
\* addPipeTransportPair() has thrown (pipeToRouter, addPipeTransportPair).
THEOREM PairsAreUnique == MCSpec => []OnePair
<1>1. MCInit => PairsInv
  BY PairsInit DEF MCInit
<1>2. PairsInv /\ [MCNext]_allVars => PairsInv'
  <2>1. [MCNext]_allVars => [Next]_vars
    BY DEF MCNext, allVars
  <2> QED
    BY <2>1, PairsStep
<1>3. PairsInv => OnePair
  BY ZenonT(30), InvImplies DEF PairsInv
<1> QED
  BY <1>1, <1>2, <1>3, PTL DEF MCSpec

-----------------------------------------------------------------------------
(* The other mechanisms are proved in modules of their own,                *)
(* PauseSctpProofs and PipeProofs.  Their instances have the state and the *)
(* steps of the instances of MCLibrary.                                    *)

PauseSctpI == INSTANCE PauseSctpProofs WITH
                MaxCalls <- MaxPauseCalls, calls <- pauseCalls, toWorker <- pauseOut,
                process <- pauseProcess, toNode <- pauseIn, left <- pauseLeft,
                micro <- pauseMicro, immediates <- pauseImmediates
PipeI == INSTANCE PipeProofs WITH
           MaxCalls <- MaxPipeCalls, calls <- pipeCalls, toWorker <- pipeOut,
           process <- pipeProcess, toNode <- pipeIn, left <- pipeLeft,
           micro <- pipeMicro, immediates <- pipeImmediates

LEMMA PauseInitSame == Pause!Init => PauseSctpI!Init
  BY ZenonT(60) DEF Pause!Init, PauseSctpI!Init, Pause!Fresh, PauseSctpI!Fresh, Pause!Event,
         PauseSctpI!Event, Pause!Things, PauseSctpI!Things

LEMMA PauseNextSame == Pause!Next => PauseSctpI!Next
  BY ZenonT(60) DEF Pause!Next, PauseSctpI!Next, Pause!Things, PauseSctpI!Things, Pause!Pause, PauseSctpI!Pause,
       Pause!Resume, PauseSctpI!Resume, Pause!Consume, PauseSctpI!Consume, Pause!Read, PauseSctpI!Read,
       Pause!Continue, PauseSctpI!Continue, Pause!Notify, PauseSctpI!Notify,
       Pause!WorkerHandles, PauseSctpI!WorkerHandles, Pause!WasPaused, PauseSctpI!WasPaused,
       Pause!FirstNotice, PauseSctpI!FirstNotice, Pause!Refusal, PauseSctpI!Refusal,
       Pause!Call, PauseSctpI!Call, Pause!Quiet, PauseSctpI!Quiet, Pause!IsNote, PauseSctpI!IsNote,
       Pause!NextCallback, PauseSctpI!NextCallback, Pause!Now, PauseSctpI!Now,
       Pause!Continuation, PauseSctpI!Continuation, Pause!OnProducerPause, PauseSctpI!OnProducerPause,
       Pause!OnProducerResume, PauseSctpI!OnProducerResume, Pause!Response, PauseSctpI!Response,
       Pause!Notice, PauseSctpI!Notice, Pause!NewConsumer, PauseSctpI!NewConsumer,
       Pause!ProducerPause, PauseSctpI!ProducerPause, Pause!ProducerResume, PauseSctpI!ProducerResume,
       Pause!ConsumerPause, PauseSctpI!ConsumerPause, Pause!ConsumerResume, PauseSctpI!ConsumerResume,
       Pause!RtpObserverPause, PauseSctpI!RtpObserverPause,
       Pause!RtpObserverResume, PauseSctpI!RtpObserverResume, Pause!Event, PauseSctpI!Event

LEMMA PauseOnward ==
  ASSUME [MCNext]_allVars
  PROVE  PauseSctpI!Next \/ UNCHANGED PauseSctpI!vars
  BY ZenonT(30), PauseNextSame DEF MCNext, allVars, pauseVars, PauseSctpI!vars

\* When nothing is on its way, the library's flags are those of the worker process, and
\* a Consumer knows whether its Producer is paused, for any number of overlapping calls
\* (pause(), resume(), consume() and the notifications 'producerpause' and
\* 'producerresume').
THEOREM FlagsDoAgree == MCSpec => []FlagsAgree
<1>1. MCInit => PauseSctpI!PauseInv
  BY ZenonT(30), PauseInitSame, PauseSctpI!PauseInitially DEF MCInit
<1>2. PauseSctpI!PauseInv /\ [MCNext]_allVars => PauseSctpI!PauseInv'
  BY ZenonT(30), PauseOnward, PauseSctpI!PauseStep
<1>3. PauseSctpI!PauseInv => FlagsAgree
  BY ZenonT(30), PauseSctpI!PauseInvImplies
     DEF FlagsAgree, Pause!FlagsAgree, PauseSctpI!FlagsAgree, Pause!Quiet, PauseSctpI!Quiet,
         Pause!Things, PauseSctpI!Things
<1> QED
  BY <1>1, <1>2, <1>3, PTL DEF MCSpec

\* As long as no call is made while another is on its way, the last event of a Consumer's
\* observer tells whether the Consumer is paused, by itself or by its Producer, for any
\* number of calls (pause(), resume(), consume() and the notifications of the Producer).
THEOREM EventsDoAgree == MCSpec => []EventsAgree
<1>1. MCInit => PauseSctpI!PauseInv /\ PauseSctpI!EventInv
  BY ZenonT(30), PauseInitSame, PauseSctpI!PauseInitially DEF MCInit
<1>2. PauseSctpI!PauseInv /\ PauseSctpI!EventInv /\ [MCNext]_allVars
        => PauseSctpI!PauseInv' /\ PauseSctpI!EventInv'
  BY ZenonT(30), PauseOnward, PauseSctpI!PauseStep, PauseSctpI!EventStep
<1>3. PauseSctpI!EventInv => EventsAgree
  BY ZenonT(30), PauseSctpI!EventInvImplies
     DEF EventsAgree, Pause!EventsAgree, PauseSctpI!EventsAgree, Pause!Quiet, PauseSctpI!Quiet,
         Pause!Event, PauseSctpI!Event, Pause!WasPaused, PauseSctpI!WasPaused, Pause!Things, PauseSctpI!Things
<1> QED
  BY <1>1, <1>2, <1>3, PTL DEF MCSpec

LEMMA SctpInitSame == Sctp!Init => PauseSctpI!Sctp!Init
  BY ZenonT(30) DEF Sctp!Init, PauseSctpI!Sctp!Init

LEMMA SctpNextSame == Sctp!Next => PauseSctpI!Sctp!Next
<1>1. Sctp!NextSctpStreamId = PauseSctpI!Sctp!NextSctpStreamId
  BY ZenonT(30) DEF Sctp!NextSctpStreamId, PauseSctpI!Sctp!NextSctpStreamId, Sctp!StreamIds, PauseSctpI!Sctp!StreamIds,
         Sctp!Min, PauseSctpI!Sctp!Min
<1>2. \A c \in DataConsumers : Sctp!ConsumeData(c) => PauseSctpI!Sctp!ConsumeData(c)
  BY <1>1, ZenonT(60) DEF Sctp!ConsumeData, PauseSctpI!Sctp!ConsumeData, Sctp!StreamIds, PauseSctpI!Sctp!StreamIds
<1> QED
  BY <1>2, ZenonT(60) DEF Sctp!Next, PauseSctpI!Sctp!Next,
       Sctp!CloseDataConsumer, PauseSctpI!Sctp!CloseDataConsumer, Sctp!NextCallback, PauseSctpI!Sctp!NextCallback,
       Sctp!Read, PauseSctpI!Sctp!Read, Sctp!Continue, PauseSctpI!Sctp!Continue,
       Sctp!OnDataProducerClose, PauseSctpI!Sctp!OnDataProducerClose,
       Sctp!WorkerHandles, PauseSctpI!Sctp!WorkerHandles, Sctp!WorkerDrops, PauseSctpI!Sctp!WorkerDrops

\* For any number of streams and of DataConsumers, no two DataConsumers that the worker
\* has, or is about to be asked for, share a stream, and the marked streams are exactly
\* those of the DataConsumers in use, being made, or refused (getNextSctpStreamId(),
\* consumeData()).
THEOREM StreamsAreExact == MCSpec => []StreamsExact
<1>1. MCInit => PauseSctpI!SctpInv
  BY ZenonT(30), SctpInitSame, PauseSctpI!SctpInitially, MISAssumption DEF MCInit
<1>2. PauseSctpI!SctpInv /\ [MCNext]_allVars => PauseSctpI!SctpInv'
  <2>1. [MCNext]_allVars => PauseSctpI!Sctp!Next \/ UNCHANGED PauseSctpI!Sctp!vars
    BY ZenonT(30), SctpNextSame DEF MCNext, allVars, sctpVars, PauseSctpI!Sctp!vars
  <2> QED
    BY ZenonT(30), <2>1, PauseSctpI!SctpStep
<1>3. PauseSctpI!SctpInv => StreamsExact
  BY ZenonT(30), PauseSctpI!SctpInvImplies DEF StreamsExact, Sctp!StreamsExact, PauseSctpI!Sctp!StreamsExact
<1> QED
  BY <1>1, <1>2, <1>3, PTL DEF MCSpec

-----------------------------------------------------------------------------
LEMMA PipeInitSame == Pipe!Init => PipeI!Init
  BY ZenonT(60) DEF Pipe!Init, PipeI!Init, Pipe!Request, PipeI!Request

LEMMA PipeWorkerSame == Pipe!WorkerHandles => PipeI!WorkerHandles
    BY ZenonT(60) DEF Pipe!WorkerHandles, PipeI!WorkerHandles, Pipe!Workers, PipeI!Workers,
       Pipe!given, PipeI!given, Pipe!lib, PipeI!lib, Pipe!Outcomes, PipeI!Outcomes,
       Pipe!HandlePause, PipeI!HandlePause, Pipe!HandleConsume, PipeI!HandleConsume,
       Pipe!HandleProduce, PipeI!HandleProduce, Pipe!HandleClose, PipeI!HandleClose,
       Pipe!HandleClosePipe, PipeI!HandleClosePipe, Pipe!Reply, PipeI!Reply,
       Pipe!Tell, PipeI!Tell, Pipe!Source, PipeI!Source, Pipe!Reader, PipeI!Reader

LEMMA PipeApplicationSame == Pipe!Application => PipeI!Application
    BY ZenonT(60) DEF Pipe!Application, PipeI!Application, Pipe!MayCall, PipeI!MayCall,
       Pipe!Idle, PipeI!Idle, Pipe!PauseOrResume, PipeI!PauseOrResume,
       Pipe!CloseProducer, PipeI!CloseProducer, Pipe!ConsumePipe, PipeI!ConsumePipe,
       Pipe!ClosePipe, PipeI!ClosePipe, Pipe!Workers, PipeI!Workers, Pipe!given,
       PipeI!given, Pipe!lib, PipeI!lib, Pipe!Send, PipeI!Send, Pipe!Request,
       PipeI!Request

LEMMA PipeLoopSame == Pipe!Loop => PipeI!Loop
<1>1. Pipe!Read => PipeI!Read
    BY ZenonT(60) DEF Pipe!Read, PipeI!Read, Pipe!IsNote, PipeI!IsNote, Pipe!NextCallback,
       PipeI!NextCallback, Pipe!Idle, PipeI!Idle, Pipe!Workers, PipeI!Workers,
       Pipe!lib, PipeI!lib
<1>2. Pipe!Notify => PipeI!Notify
    BY ZenonT(60) DEF Pipe!Notify, PipeI!Notify, Pipe!NextCallback, PipeI!NextCallback,
       Pipe!Idle, PipeI!Idle, Pipe!OnSink, PipeI!OnSink, Pipe!OnConsumerClose,
       PipeI!OnConsumerClose, Pipe!OnConsumerPause, PipeI!OnConsumerPause, Pipe!lib,
       PipeI!lib, Pipe!Send, PipeI!Send, Pipe!Request, PipeI!Request
<1>3. Pipe!Continue => PipeI!Continue
    BY ZenonT(60) DEF Pipe!Continue, PipeI!Continue, Pipe!Idle, PipeI!Idle,
       Pipe!Continuation, PipeI!Continuation, Pipe!Consumed, PipeI!Consumed,
       Pipe!SinkConsumed, PipeI!SinkConsumed, Pipe!Produced, PipeI!Produced,
       Pipe!Abandon, PipeI!Abandon, Pipe!Wire, PipeI!Wire, Pipe!PipeChanged,
       PipeI!PipeChanged, Pipe!ProducerChanged, PipeI!ProducerChanged, Pipe!Workers,
       PipeI!Workers, Pipe!lib, PipeI!lib, Pipe!Send, PipeI!Send, Pipe!Request,
       PipeI!Request
<1> QED
    BY <1>1, <1>2, <1>3, ZenonT(60) DEF Pipe!Loop, PipeI!Loop, Pipe!given, PipeI!given

LEMMA PipeOnward ==
  ASSUME [MCNext]_allVars
  PROVE  PipeI!Next \/ UNCHANGED PipeI!vars
<1>1. Pipe!Next => PipeI!Next
  BY ZenonT(30), PipeWorkerSame, PipeApplicationSame, PipeLoopSame DEF Pipe!Next, PipeI!Next
<1> QED
  BY ZenonT(30), <1>1 DEF MCNext, allVars, pipeVars, PipeI!vars, PipeI!given, PipeI!lib

\* A call of pipeToRouter() that fails leaves neither a pipe Consumer nor a pipe Producer,
\* in the library or in the workers, once the messages of its catch clauses have arrived,
\* whatever the application has called meanwhile and however the two workers' answers
\* interleave (the catch clauses of pipeToRouter()).
THEOREM FailuresLeaveNothing == MCSpec => []FailedLeavesNothing
<1>1. MCInit => PipeI!FailInv
  BY ZenonT(30), PipeInitSame, PipeI!InitFails DEF MCInit
<1>2. PipeI!FailInv /\ [MCNext]_allVars => PipeI!FailInv'
  BY ZenonT(30), PipeOnward, PipeI!NextFails
<1>3. PipeI!FailInv => FailedLeavesNothing
  BY ZenonT(30), PipeI!FailedHolds
     DEF FailedLeavesNothing, Pipe!FailedLeavesNothing, PipeI!FailedLeavesNothing,
         Pipe!Quiet, PipeI!Quiet
<1> QED
  BY <1>1, <1>2, <1>3, PTL DEF MCSpec

\* A Producer that is left alone until pipeToRouter() returns, its pipe Producer and the
\* Consumers of that end and pause together, for any number of calls of pause() and
\* resume() (the listeners that pipeToRouter() installs).
THEOREM ArePipedTogether == MCSpec => []PipedTogether
<1>1. MCInit => PipeI!PipeInv
  BY PipeInitSame, PipeI!InitPipes DEF MCInit
<1>2. PipeI!PipeInv /\ [MCNext]_allVars => PipeI!PipeInv'
  BY PipeOnward, PipeI!NextPipes
<1>3. PipeI!PipeInv => PipedTogether
  BY ZenonT(30), PipeI!PipedHolds
     DEF PipedTogether, Pipe!PipedTogether, PipeI!PipedTogether, Pipe!Quiet, PipeI!Quiet
<1> QED
  BY <1>1, <1>2, <1>3, PTL DEF MCSpec
=============================================================================
