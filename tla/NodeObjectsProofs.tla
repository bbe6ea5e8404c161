------------------------- MODULE NodeObjectsProofs --------------------------
(***************************************************************************)
(* The objects of the library: closing, creating and registering keep      *)
(* every object in the map of its owner, and only while it is open.  And   *)
(* what a Router finds by id is open, for any number of objects: nothing   *)
(* that was closed comes back with a late response.                        *)
(***************************************************************************)
EXTENDS NodeObjects, FiniteSetTheorems, TLAPS

\* The library's objects on their own: l is lib and a is args.

Library ==
  [status : [Objects -> {"none", "creating", "rejected", "open", "closed"}],
   held   : [Owners -> SUBSET Created],
   known  : [Routers -> SUBSET Sources],
   served : [WebRtcServers -> SUBSET Transports]]

Arguments ==
  [Created -> [on : Owners \cup {Nobody}, server : WebRtcServers \cup {Nobody},
               source : Sources \cup {Nobody}]]

Ref(l, x) == l.status[x] \in {"open", "closed"}

\* x was called for on an object of the right kind.
Placed(l, a, x) ==
  /\ Ref(l, a[x].on)
  /\ x \in WebRtcServers \cup Routers => a[x].on = Worker
  /\ x \in Transports \cup Observers => a[x].on \in Routers
  /\ x \in Sources \cup Sinks => a[x].on \in Transports
  /\ x \notin Transports => a[x].server = Nobody

Typed(l, a) ==
  /\ l \in Library /\ a \in Arguments
  /\ \A x \in Created : l.status[x] # "none" => Placed(l, a, x)

\* An owner holds its open objects.
HeldExact(l, a) ==
  /\ \A y \in Owners : \A x \in l.held[y] : a[x].on = y /\ l.status[x] = "open"
  /\ \A x \in Created : l.status[x] = "open" => x \in l.held[a[x].on]

ServedOwn(l, a) ==
  \A s \in WebRtcServers : \A t \in l.served[s] : a[t].server = s /\ Ref(l, t)

ServerClosed(l, a, t) == a[t].server \in WebRtcServers /\ l.status[a[t].server] = "closed"

\* A Router knows Producers of its own; they are open, but for closed servers.
KnownOwn(l, a) ==
  \A r \in Routers : \A p \in l.known[r] :
     /\ Ref(l, p) /\ a[a[p].on].on = r
     /\ l.status[p] = "open" \/ ServerClosed(l, a, a[p].on)

Sound(l, a) == Typed(l, a) /\ HeldExact(l, a) /\ ServedOwn(l, a) /\ KnownOwn(l, a)

-----------------------------------------------------------------------------
(* The kinds of objects.                                                   *)

\* Every object is of one kind (the classes of the library).
LEMMA Kinds ==
  /\ Created = WebRtcServers \cup Routers \cup Transports \cup Sources \cup Sinks \cup Observers
  /\ Objects = Created \cup {Worker} /\ Owners = {Worker} \cup Routers \cup Transports
  /\ Worker \notin Created /\ Nobody \notin Objects /\ Owners \subseteq Objects
BY KindsAssumption, Zenon DEF Created, Objects, Owners

\* What MarkClosed does to each field.
LEMMA MarkClosedIs ==
  ASSUME NEW l \in Library, NEW S \in SUBSET Objects
  PROVE  /\ MarkClosed(l, S) \in Library
         /\ MarkClosed(l, S).status = [x \in Objects |-> IF x \in S THEN "closed" ELSE l.status[x]]
         /\ MarkClosed(l, S).held = l.held
         /\ MarkClosed(l, S).known = l.known
         /\ MarkClosed(l, S).served = l.served
BY DEF MarkClosed, Library

\* What TransportsDown does to each field.
LEMMA TransportsDownIs ==
  ASSUME NEW l \in Library, NEW T \in SUBSET Transports
  PROVE  /\ TransportsDown(l, T) \in Library
         /\ TransportsDown(l, T).status =
              [x \in Objects |-> IF x \in T \/ \E t \in T : x \in l.held[t]
                                 THEN "closed" ELSE l.status[x]]
         /\ TransportsDown(l, T).held = [y \in Owners |-> IF y \in T THEN {} ELSE l.held[y]]
         /\ TransportsDown(l, T).known = l.known
         /\ TransportsDown(l, T).served = l.served
<1> DEFINE h == [l EXCEPT !.held = [x \in DOMAIN @ |-> IF x \in T THEN {} ELSE @[x]]]
           S == T \cup UNION {l.held[t] : t \in T}
<1>1. h \in Library /\ h.held = [y \in Owners |-> IF y \in T THEN {} ELSE l.held[y]]
      /\ h.status = l.status /\ h.known = l.known /\ h.served = l.served
  BY DEF Library
<1>2. T \subseteq Owners /\ Owners \subseteq Objects /\ Created \subseteq Objects
  BY Kinds, Zenon
<1>3. l.held \in [Owners -> SUBSET Created]
  BY DEF Library
<1>4. S \in SUBSET Objects
  BY <1>2, <1>3
<1>5. TransportsDown(l, T) = MarkClosed(h, S)
  BY Zenon DEF TransportsDown
<1> HIDE DEF h, S
<1>6. /\ MarkClosed(h, S) \in Library
      /\ MarkClosed(h, S).status = [x \in Objects |-> IF x \in S THEN "closed" ELSE h.status[x]]
      /\ MarkClosed(h, S).held = h.held
      /\ MarkClosed(h, S).known = h.known
      /\ MarkClosed(h, S).served = h.served
  BY <1>1, <1>4, MarkClosedIs, Zenon
<1>7. \A x : x \in S <=> x \in T \/ \E t \in T : x \in l.held[t]
  BY Zenon DEF S
<1>8. [x \in Objects |-> IF x \in S THEN "closed" ELSE h.status[x]]
      = [x \in Objects |-> IF x \in T \/ \E t \in T : x \in l.held[t]
                          THEN "closed" ELSE l.status[x]]
  BY <1>1, <1>7, Zenon
<1> QED
  BY <1>1, <1>5, <1>6, <1>8, Zenon

-----------------------------------------------------------------------------
(* Closing.                                                                *)

\* k is l after the open objects in S were closed.
Shuts(l, k, a, S) ==
  /\ k \in Library /\ S \subseteq OpenIn(l, Objects)
  /\ k.status = [x \in Objects |-> IF x \in S THEN "closed" ELSE l.status[x]]
  /\ k.held = [y \in Owners |-> l.held[y] \ S]
  /\ \A s \in WebRtcServers : k.served[s] \subseteq l.served[s]
  /\ \A r \in Routers : \A p \in k.known[r] :
       p \in l.known[r] /\ (p \in S => ServerClosed(k, a, a[p].on))

\* Closing keeps the library's objects sound: held maps have only open objects.
LEMMA ShutsSound ==
  ASSUME NEW l, NEW a, Sound(l, a), NEW k, NEW S, Shuts(l, k, a, S)
  PROVE  Sound(k, a)
<1>1. l \in Library /\ a \in Arguments /\ k \in Library
  BY Zenon DEF Sound, Typed, Shuts
<1>2. \A x \in Objects : k.status[x] = IF x \in S THEN "closed" ELSE l.status[x]
  BY Zenon DEF Shuts
<1>3. \A x \in S : l.status[x] = "open"
  BY Zenon DEF Shuts, OpenIn
<1>5. \A x \in Objects : Ref(l, x) <=> Ref(k, x)
  BY <1>2, <1>3 DEF Ref
<1>6. \A y \in Owners : k.held[y] = l.held[y] \ S
  BY Zenon DEF Shuts
<1>7. Created \subseteq Objects /\ Owners \subseteq Objects /\ Transports \subseteq Owners
      /\ Sources \subseteq Created /\ Transports \subseteq Created /\ WebRtcServers \subseteq Created
  BY Kinds, Zenon
<1>8. Typed(k, a)
  <2> SUFFICES ASSUME NEW x \in Created, k.status[x] # "none"
               PROVE  Placed(k, a, x)
    BY <1>1, Zenon DEF Typed
  <2>1. l.status[x] # "none"
    BY <1>2, <1>3, <1>7
  <2>2. Placed(l, a, x)
    BY <2>1, Zenon DEF Sound, Typed
  <2>3. a[x].on \in Objects
    BY <2>2, Kinds, Zenon DEF Placed
  <2> QED
    BY <1>5, <2>2, <2>3, Zenon DEF Placed
<1>9. HeldExact(k, a)
  <2>1. ASSUME NEW y \in Owners, NEW x \in k.held[y]
        PROVE  a[x].on = y /\ k.status[x] = "open"
    <3>1. x \in l.held[y] /\ x \notin S
      BY <1>6, <2>1, Zenon
    <3>2. a[x].on = y /\ l.status[x] = "open"
      BY <3>1, Zenon DEF Sound, HeldExact
    <3>3. x \in Created
      BY <1>1, <3>1 DEF Library
    <3> QED
      BY <1>2, <1>7, <3>1, <3>2, <3>3, Zenon
  <2>2. ASSUME NEW x \in Created, k.status[x] = "open"
        PROVE  x \in k.held[a[x].on]
    <3>1. x \notin S /\ l.status[x] = "open"
      BY <1>2, <1>7, <2>2
    <3>2. x \in l.held[a[x].on]
      BY <3>1, Zenon DEF Sound, HeldExact
    <3>3. Placed(l, a, x)
      BY <3>1 DEF Sound, Typed
    <3>4. a[x].on \in Owners
      BY <3>3, Kinds, Zenon DEF Placed
    <3> QED
      BY <1>6, <3>1, <3>2, <3>4, Zenon
  <2> QED
    BY <2>1, <2>2, Zenon DEF HeldExact
<1>10. ServedOwn(k, a)
  <2> SUFFICES ASSUME NEW s \in WebRtcServers, NEW t \in k.served[s]
               PROVE  a[t].server = s /\ Ref(k, t)
    BY Zenon DEF ServedOwn
  <2>1. t \in l.served[s]
    BY Zenon DEF Shuts
  <2>2. a[t].server = s /\ Ref(l, t)
    BY <2>1, Zenon DEF Sound, ServedOwn
  <2>3. t \in Transports
    BY <1>1, <2>1 DEF Library
  <2> QED
    BY <1>5, <1>7, <2>2, <2>3, Zenon
<1>11. KnownOwn(k, a)
  <2> SUFFICES ASSUME NEW r \in Routers, NEW p \in k.known[r]
               PROVE  /\ Ref(k, p) /\ a[a[p].on].on = r
                      /\ k.status[p] = "open" \/ ServerClosed(k, a, a[p].on)
    BY Zenon DEF KnownOwn
  <2>1. p \in l.known[r] /\ (p \in S => ServerClosed(k, a, a[p].on))
    BY Zenon DEF Shuts
  <2>2. /\ Ref(l, p) /\ a[a[p].on].on = r
        /\ l.status[p] = "open" \/ ServerClosed(l, a, a[p].on)
    BY <2>1, Zenon DEF Sound, KnownOwn
  <2>3. p \in Objects
    BY <1>1, <1>7, <2>1 DEF Library
  <2>4. ServerClosed(l, a, a[p].on) => ServerClosed(k, a, a[p].on)
    BY <1>2, <1>7, Zenon DEF ServerClosed
  <2> QED
    BY <1>2, <1>5, <2>1, <2>2, <2>3, <2>4, Zenon
<1> QED
  BY <1>8, <1>9, <1>10, <1>11, Zenon DEF Sound

\* An owner's map has open objects that were called for on it.
LEMMA HeldOwn ==
  ASSUME NEW l, NEW a, Sound(l, a)
  PROVE  \A y \in Owners : \A x \in l.held[y] :
            x \in Created /\ l.status[x] = "open" /\ a[x].on = y
<1>1. \A y \in Owners : \A x \in l.held[y] : x \in Created
  BY DEF Sound, Typed, Library
<1> QED
  BY <1>1, Zenon DEF Sound, HeldExact

\* A Router knows Producers of its own Transports.
LEMMA KnownOfRouter ==
  ASSUME NEW l, NEW a, Sound(l, a)
  PROVE  \A r \in Routers : \A p \in l.known[r] :
            p \in Sources /\ Ref(l, p) /\ a[a[p].on].on = r
<1>1. \A r \in Routers : \A p \in l.known[r] : p \in Sources
  BY DEF Sound, Typed, Library
<1> QED
  BY <1>1, Zenon DEF Sound, KnownOwn

\* transport.close() closes the transport and what it holds.
LEMMA TransportShuts ==
  ASSUME NEW l, Sound(l, args), NEW t \in Transports, l.status[t] = "open"
  PROVE  Shuts(l, TransportClose(l, t), args, {t} \cup l.held[t])
<1> DEFINE d == TransportsDown(l, {t})
           k == TransportClose(l, t)
           S == {t} \cup l.held[t]
           r == args[t].on
<1>1. l \in Library /\ args \in Arguments /\ Placed(l, args, t)
  BY Kinds, Zenon DEF Sound, Typed
<1>2. r \in Routers /\ r \in Owners /\ t \in Owners /\ t \in Created /\ r # t
  <2>1. r \in Routers
    BY <1>1, Zenon DEF Placed
  <2>2. Routers \subseteq Owners /\ Transports \subseteq Owners /\ Transports \subseteq Created
    BY Kinds, Zenon
  <2>3. Routers \cap Transports = {}
    BY KindsAssumption
  <2> QED
    BY <2>1, <2>2, <2>3, Zenon
<1>h. \A y \in Owners : \A x \in l.held[y] :
         x \in Created /\ l.status[x] = "open" /\ args[x].on = y
  BY HeldOwn
<1>n. \A q \in Routers : \A p \in l.known[q] :
         p \in Sources /\ Ref(l, p) /\ args[args[p].on].on = q
  BY KnownOfRouter, Zenon
<1>3. /\ d \in Library
      /\ d.status = [x \in Objects |-> IF x \in {t} \/ \E z \in {t} : x \in l.held[z]
                                       THEN "closed" ELSE l.status[x]]
      /\ d.held = [y \in Owners |-> IF y \in {t} THEN {} ELSE l.held[y]]
      /\ d.known = l.known /\ d.served = l.served
  BY <1>1, TransportsDownIs, ZenonT(60)
<1>4. \A x : x \in {t} \/ (\E z \in {t} : x \in l.held[z]) <=> x \in S
  BY Zenon
<1>5. k = [d EXCEPT !.known[r] = @ \ l.held[t], !.held[r] = @ \ {t},
                    !.served = [s \in WebRtcServers |-> @[s] \ {t}]]
  BY Zenon DEF TransportClose, RouterOf
<1>6. r \in Routers /\ r \in Owners /\ d \in Library
  BY <1>2, <1>3, Zenon
<1> HIDE DEF d, k, S, r
<1>7. /\ k \in Library /\ k.status = d.status
      /\ k.held = [y \in Owners |-> IF y = r THEN d.held[y] \ {t} ELSE d.held[y]]
      /\ k.known = [q \in Routers |-> IF q = r THEN d.known[q] \ l.held[t] ELSE d.known[q]]
      /\ k.served = [s \in WebRtcServers |-> d.served[s] \ {t}]
  BY <1>5, <1>6, Zenon DEF Library
<1>8. k.held = [y \in Owners |-> l.held[y] \ S]
  <2> SUFFICES ASSUME NEW y \in Owners
               PROVE  (IF y = r THEN d.held[y] \ {t} ELSE d.held[y]) = l.held[y] \ S
    BY <1>7, Zenon
  <2>1. d.held[y] = IF y = t THEN {} ELSE l.held[y]
    BY <1>3, Zenon
  <2>2. y # t => l.held[y] \cap l.held[t] = {}
    BY <1>2, <1>h
  <2>3. y # r => t \notin l.held[y]
    BY <1>h, Zenon DEF r
  <2> QED
    BY <1>2, <2>1, <2>2, <2>3 DEF S
<1>9. S \subseteq OpenIn(l, Objects)
  <2>1. \A x \in l.held[t] : x \in Created /\ l.status[x] = "open"
    BY <1>2, <1>h, Zenon
  <2> QED
    BY <1>2, <2>1, Kinds, Zenon DEF S, OpenIn
<1>10. ASSUME NEW q \in Routers, NEW p \in k.known[q]
       PROVE  p \in l.known[q] /\ p \notin S
  <2>0. k.known[q] = IF q = r THEN l.known[q] \ l.held[t] ELSE l.known[q]
    BY <1>3, <1>7
  <2>1. p \in l.known[q] /\ (q = r => p \notin l.held[t])
    BY <1>10, <2>0
  <2>2. p \in Sources /\ args[args[p].on].on = q
    BY <2>1, <1>n, Zenon
  <2>3. p # t
    BY <2>2, KindsAssumption, Zenon
  <2>4. p \in l.held[t] => args[p].on = t
    BY <1>2, <1>h, Zenon
  <2> QED
    BY <2>1, <2>2, <2>3, <2>4 DEF S, r
<1>11. \A s \in WebRtcServers : k.served[s] \subseteq l.served[s]
  BY <1>3, <1>7
<1>12. k.status = [x \in Objects |-> IF x \in S THEN "closed" ELSE l.status[x]]
  BY <1>3, <1>4, <1>7, Zenon
<1> QED
  BY <1>7, <1>8, <1>9, <1>10, <1>11, <1>12, Zenon DEF Shuts, k, S

\* The Transports of the Routers in R, and all that is below those Routers.
TransportsOf(l, R) == {t \in Transports : \E r \in R : t \in l.held[r]}
Tree(l, R) == {x \in Created : \/ x \in R
                               \/ \E y \in R \cup TransportsOf(l, R) : x \in l.held[y]}

\* Below a Router are its own objects, and those of its Transports.
LEMMA TreeOwn ==
  ASSUME NEW l, Sound(l, args), NEW R \in SUBSET Routers, \A r \in R : l.status[r] = "open"
  PROVE  /\ Tree(l, R) \subseteq OpenIn(l, Objects)
         /\ \A r \in R : l.held[r] \subseteq Transports \cup Observers
         /\ TransportsOf(l, R) \subseteq Transports
         /\ \A t \in TransportsOf(l, R) : args[t].on \in R
         /\ \A x \in Tree(l, R) :
              \/ x \in R /\ args[x].on = Worker
              \/ args[x].on \in R
              \/ args[x].on \in TransportsOf(l, R)
<1>1. R \subseteq Owners /\ Transports \subseteq Owners /\ R \subseteq Created /\ Created \subseteq Objects
  BY Kinds, Zenon
<1>2. \A y \in Owners : \A x \in l.held[y] :
         x \in Created /\ l.status[x] = "open" /\ args[x].on = y
  BY HeldOwn
<1>3. \A x \in Created : l.status[x] # "none" => Placed(l, args, x)
  BY Zenon DEF Sound, Typed
<1>4. TransportsOf(l, R) \subseteq Transports /\ TransportsOf(l, R) \subseteq Owners
  BY <1>1 DEF TransportsOf
<1>5. \A t \in TransportsOf(l, R) : args[t].on \in R
  BY <1>1, <1>2 DEF TransportsOf
<1>6. \A r \in R : l.held[r] \subseteq Transports \cup Observers
  <2> SUFFICES ASSUME NEW r \in R, NEW x \in l.held[r]
               PROVE  x \in Transports \cup Observers
    BY Zenon
  <2>1. x \in Created /\ l.status[x] = "open" /\ args[x].on = r
    BY <1>1, <1>2, Zenon
  <2>2. Placed(l, args, x)
    BY <1>3, <2>1
  <2>3. r # Worker /\ r \notin Transports
    BY Kinds, KindsAssumption
  <2>4. x \notin WebRtcServers \cup Routers /\ x \notin Sources \cup Sinks
    BY <2>1, <2>2, <2>3, Zenon DEF Placed
  <2> QED
    BY <2>1, <2>4, Kinds, Zenon
<1>7. \A r \in R : args[r].on = Worker
  BY <1>1, <1>3 DEF Placed
<1>8. Tree(l, R) \subseteq OpenIn(l, Objects)
  <2> SUFFICES ASSUME NEW x \in Tree(l, R)
               PROVE  x \in Objects /\ l.status[x] = "open"
    BY Zenon DEF OpenIn
  <2>1. x \in R \/ \E y \in Owners : x \in l.held[y]
    BY <1>1, <1>4, Zenon DEF Tree
  <2>2. x \in Objects
    BY <1>1, Zenon DEF Tree
  <2> QED
    BY <1>2, <2>1, <2>2, Zenon
<1>9. ASSUME NEW x \in Tree(l, R)
      PROVE  \/ x \in R /\ args[x].on = Worker
             \/ args[x].on \in R
             \/ args[x].on \in TransportsOf(l, R)
  <2>1. CASE x \in R
    BY <1>7, <2>1, Zenon
  <2>2. CASE \E y \in R \cup TransportsOf(l, R) : x \in l.held[y]
    <3>1. PICK y \in R \cup TransportsOf(l, R) : x \in l.held[y]
      BY <2>2, Zenon
    <3>2. y \in Owners
      BY <1>1, <1>4, Zenon
    <3> QED
      BY <1>2, <3>1, <3>2, Zenon
  <2> QED
    BY <2>1, <2>2, Zenon DEF Tree
<1> QED
  BY <1>4, <1>5, <1>6, <1>8, <1>9, Zenon

\* What RoutersDown does to each field: all but the Worker forget what is closed.
LEMMA RoutersDownIs ==
  ASSUME NEW l, Sound(l, args), NEW R \in SUBSET Routers, \A r \in R : l.status[r] = "open"
  PROVE  /\ RoutersDown(l, R) \in Library
         /\ RoutersDown(l, R).status =
              [x \in Objects |-> IF x \in Tree(l, R) THEN "closed" ELSE l.status[x]]
         /\ RoutersDown(l, R).held =
              [y \in Owners |-> IF y = Worker THEN l.held[y] ELSE l.held[y] \ Tree(l, R)]
         /\ RoutersDown(l, R).known = [r \in Routers |-> IF r \in R THEN {} ELSE l.known[r]]
         /\ RoutersDown(l, R).served = l.served
<1> DEFINE below == UNION {l.held[r] : r \in R}
           T == TransportsOf(l, R)
           d == TransportsDown(l, T)
           G == R \cup (below \cap Observers)
           m == MarkClosed(d, G)
           k == RoutersDown(l, R)
<1>1. /\ Tree(l, R) \subseteq OpenIn(l, Objects)
      /\ \A r \in R : l.held[r] \subseteq Transports \cup Observers
      /\ T \subseteq Transports
      /\ \A t \in T : args[t].on \in R
      /\ \A x \in Tree(l, R) :
           \/ x \in R /\ args[x].on = Worker
           \/ args[x].on \in R
           \/ args[x].on \in T
  BY TreeOwn, Zenon
<1>2. l \in Library /\ T \in SUBSET Transports
  BY <1>1, Zenon DEF Sound, Typed
<1>3. /\ d \in Library
      /\ d.status = [x \in Objects |-> IF x \in T \/ \E t \in T : x \in l.held[t]
                                       THEN "closed" ELSE l.status[x]]
      /\ d.held = [y \in Owners |-> IF y \in T THEN {} ELSE l.held[y]]
      /\ d.known = l.known /\ d.served = l.served
  BY <1>2, TransportsDownIs, Zenon
<1>4. G \in SUBSET Objects
  BY Kinds
<1>5. /\ m \in Library
      /\ m.status = [x \in Objects |-> IF x \in G THEN "closed" ELSE d.status[x]]
      /\ m.held = d.held /\ m.known = d.known /\ m.served = d.served
  BY <1>3, <1>4, MarkClosedIs, Zenon
<1>a. R \subseteq Owners /\ T \subseteq Owners /\ R \subseteq Created
  BY <1>2, Kinds
<1>b. \A y \in Owners : \A x \in l.held[y] : x \in Created /\ args[x].on = y
  BY HeldOwn
<1>c. \A x : x \in below <=> \E r \in R : x \in l.held[r]
  BY Zenon
<1>d. \A x : x \in T <=> x \in Transports /\ x \in below
  BY <1>c, Zenon DEF TransportsOf
<1>e. \A x : x \in Tree(l, R) <=>
         x \in R \/ (\E r \in R : x \in l.held[r]) \/ (\E t \in T : x \in l.held[t])
  <2>1. ASSUME NEW x, NEW y \in R \cup T, x \in l.held[y]
        PROVE  x \in Tree(l, R)
    BY <1>a, <1>b, <2>1, Zenon DEF Tree
  <2>2. \A x \in R : x \in Tree(l, R)
    BY <1>a, Zenon DEF Tree
  <2>3. ASSUME NEW x \in Tree(l, R)
        PROVE  x \in R \/ (\E r \in R : x \in l.held[r]) \/ (\E t \in T : x \in l.held[t])
    BY Zenon DEF Tree
  <2> QED
    BY <2>1, <2>2, <2>3, Zenon
<1>6. OpenIn(l, R) = R /\ OpenIn(l, below \cap Transports) = T
  <2>1. OpenIn(l, R) = R
    BY Zenon DEF OpenIn
  <2>2. below \subseteq Tree(l, R) /\ below \cap Transports = T
    <3> HIDE DEF below, T
    <3> QED
      BY <1>c, <1>d, <1>e, Zenon
  <2>3. \A x \in below : l.status[x] = "open"
    BY <1>1, <2>2, Zenon DEF OpenIn
  <2>4. OpenIn(l, below \cap Transports) = below \cap Transports
    BY <2>3, Zenon DEF OpenIn
  <2> QED
    BY <2>1, <2>2, <2>4, Zenon
<1>7. k = [m EXCEPT !.held  = [x \in DOMAIN @ |-> IF x \in R THEN {} ELSE @[x]],
                    !.known = [r \in Routers |-> IF r \in R THEN {} ELSE @[r]]]
  BY <1>6, Zenon DEF RoutersDown
<1>8. \A x \in Objects :
         x \in Tree(l, R) <=> x \in G \/ x \in T \/ \E t \in T : x \in l.held[t]
  <2>1. \A x : x \in below => x \in Transports \/ x \in Observers
    BY <1>1, <1>c, Zenon
  <2> HIDE DEF below, T
  <2>2. \A x : x \in G <=> x \in R \/ (x \in below /\ x \in Observers)
    BY Zenon
  <2> HIDE DEF G
  <2> QED
    BY <1>c, <1>d, <1>e, <2>1, <2>2, Zenon
<1> HIDE DEF d, m, k, G, T
<1>9. /\ k \in Library /\ k.status = m.status /\ k.served = m.served
      /\ k.held = [y \in Owners |-> IF y \in R THEN {} ELSE m.held[y]]
      /\ k.known = [r \in Routers |-> IF r \in R THEN {} ELSE m.known[r]]
  BY <1>5, <1>7, Zenon DEF Library
<1>10. k.status = [x \in Objects |-> IF x \in Tree(l, R) THEN "closed" ELSE l.status[x]]
  <2>1. \A x \in Objects : k.status[x] = IF x \in Tree(l, R) THEN "closed" ELSE l.status[x]
    BY <1>3, <1>5, <1>8, <1>9
  <2> QED
    BY <2>1, <1>5, <1>9, Zenon
<1>11. k.held = [y \in Owners |-> IF y = Worker THEN l.held[y] ELSE l.held[y] \ Tree(l, R)]
  <2> SUFFICES ASSUME NEW y \in Owners
               PROVE  (IF y \in R THEN {} ELSE m.held[y])
                        = IF y = Worker THEN l.held[y] ELSE l.held[y] \ Tree(l, R)
    BY <1>9, Zenon
  <2>1. m.held[y] = IF y \in T THEN {} ELSE l.held[y]
    BY <1>3, <1>5
  <2>2. \A x \in l.held[y] : args[x].on = y
    BY <1>b, Zenon
  <2>3. Worker \notin R /\ Worker \notin T
    BY <1>1, Kinds
  <2>4. y \in R \cup T => l.held[y] \subseteq Tree(l, R)
    BY <1>e, Zenon
  <2>5. y \notin R \cup T /\ y # Worker => \A x \in l.held[y] : x \notin Tree(l, R)
    BY <1>1, <2>2, Zenon
  <2> QED
    BY <2>1, <2>3, <2>4, <2>5
<1>12. k.known = [r \in Routers |-> IF r \in R THEN {} ELSE l.known[r]] /\ k.served = l.served
  BY <1>3, <1>5, <1>9
<1> QED
  BY <1>9, <1>10, <1>11, <1>12, Zenon DEF k

\* The Routers that are left know nothing below the closed ones.
LEMMA KnownElsewhere ==
  ASSUME NEW l, Sound(l, args), NEW R \in SUBSET Routers, \A r \in R : l.status[r] = "open",
         NEW q \in Routers \ R, NEW p \in l.known[q]
  PROVE  p \notin Tree(l, R)
<1>1. p \in Sources /\ Ref(l, p) /\ args[args[p].on].on = q
  BY KnownOfRouter
<1>2. /\ \A t \in TransportsOf(l, R) : args[t].on \in R
      /\ \A x \in Tree(l, R) : \/ x \in R /\ args[x].on = Worker
                               \/ args[x].on \in R
                               \/ args[x].on \in TransportsOf(l, R)
  BY TreeOwn, Zenon
<1>3. p \in Created /\ p \notin R /\ R \cap Transports = {}
  BY <1>1, Kinds, KindsAssumption
<1>4. Placed(l, args, p)
  BY <1>1, <1>3 DEF Sound, Typed, Ref
<1>5. args[p].on \notin R
  BY <1>1, <1>3, <1>4, Zenon DEF Placed
<1> QED
  BY <1>1, <1>2, <1>3, <1>5, Zenon

\* router.close() closes all below the Router.
LEMMA RouterShuts ==
  ASSUME NEW l, Sound(l, args), NEW r \in Routers, l.status[r] = "open"
  PROVE  Shuts(l, RouterClose(l, r), args, Tree(l, {r}))
<1> DEFINE d == RoutersDown(l, {r})
           k == RouterClose(l, r)
           S == Tree(l, {r})
<1>0. {r} \in SUBSET Routers /\ \A q \in {r} : l.status[q] = "open"
  BY Zenon
<1>1. /\ d \in Library
      /\ d.status = [x \in Objects |-> IF x \in S THEN "closed" ELSE l.status[x]]
      /\ d.held = [y \in Owners |-> IF y = Worker THEN l.held[y] ELSE l.held[y] \ S]
      /\ d.known = [q \in Routers |-> IF q \in {r} THEN {} ELSE l.known[q]]
      /\ d.served = l.served
  BY <1>0, RoutersDownIs, Zenon
<1>2. /\ S \subseteq OpenIn(l, Objects)
      /\ TransportsOf(l, {r}) \subseteq Transports
      /\ \A x \in S : \/ x \in {r} /\ args[x].on = Worker
                      \/ args[x].on \in {r}
                      \/ args[x].on \in TransportsOf(l, {r})
  <2>1. /\ Tree(l, {r}) \subseteq OpenIn(l, Objects)
        /\ TransportsOf(l, {r}) \subseteq Transports
        /\ \A x \in Tree(l, {r}) : \/ x \in {r} /\ args[x].on = Worker
                                   \/ args[x].on \in {r}
                                   \/ args[x].on \in TransportsOf(l, {r})
    BY <1>0, TreeOwn
  <2> QED
    BY <2>1, Zenon
<1>3. k = [d EXCEPT !.held[Worker] = @ \ {r}]
  BY Zenon DEF RouterClose
<1>4. r \in S
  BY Kinds DEF Tree
<1>5. \A q \in Routers \ {r} : \A p \in l.known[q] : p \notin S
  BY <1>0, KnownElsewhere
<1> HIDE DEF d, k, S
<1>6. Worker \in Owners
  BY Kinds, Zenon
<1>7. /\ k \in Library /\ k.status = d.status /\ k.known = d.known /\ k.served = d.served
      /\ k.held = [y \in Owners |-> IF y = Worker THEN d.held[y] \ {r} ELSE d.held[y]]
  BY <1>1, <1>3, <1>6, Zenon DEF Library
<1>8. l.held[Worker] \ {r} = l.held[Worker] \ S
  <2>0. \A y \in Owners : \A x \in l.held[y] : args[x].on = y
    BY HeldOwn
  <2>1. \A x \in l.held[Worker] : args[x].on = Worker
    BY <1>6, <2>0, Zenon
  <2>2. Worker # r /\ Worker \notin Transports
    BY Kinds
  <2> QED
    BY <1>2, <1>4, <2>1, <2>2, Zenon
<1>9. k.held = [y \in Owners |-> l.held[y] \ S]
  <2> SUFFICES ASSUME NEW y \in Owners
               PROVE  (IF y = Worker THEN d.held[y] \ {r} ELSE d.held[y]) = l.held[y] \ S
    BY <1>7, Zenon
  <2> QED
    BY <1>1, <1>8, Zenon
<1>10. \A q \in Routers : \A p \in k.known[q] : p \in l.known[q] /\ p \notin S
  <2> SUFFICES ASSUME NEW q \in Routers, NEW p \in k.known[q]
               PROVE  p \in l.known[q] /\ p \notin S
    BY Zenon
  <2>1. k.known[q] = IF q = r THEN {} ELSE l.known[q]
    BY <1>1, <1>7
  <2> QED
    BY <1>5, <2>1
<1> QED
  BY <1>1, <1>2, <1>7, <1>9, <1>10, Zenon DEF Shuts, k, S

\* webRtcServer.close() closes the Transports that listen on the server, and what
\* they hold; their Routers still know the Producers.
LEMMA ServerShuts ==
  ASSUME NEW l, Sound(l, args), NEW s \in WebRtcServers, l.status[s] = "open",
         NEW S, S = {x \in Created : \/ x = s \/ x \in OpenIn(l, l.served[s])
                                     \/ \E t \in OpenIn(l, l.served[s]) : x \in l.held[t]}
  PROVE  Shuts(l, WebRtcServerClose(l, s), args, S)
<1> DEFINE T == OpenIn(l, l.served[s])
           d == TransportsDown(l, T)
           m == MarkClosed(d, {s})
           k == WebRtcServerClose(l, s)
<1>1. l \in Library
  BY Zenon DEF Sound, Typed
<1>2. T \in SUBSET Transports
  <2>1. l.served[s] \subseteq Transports
    BY <1>1 DEF Library
  <2> QED
    BY <2>1, Zenon DEF OpenIn
<1>3. s \in Created /\ s \in Objects /\ T \subseteq Owners /\ T \subseteq Created /\ Created \subseteq Objects
      /\ {s} \in SUBSET Objects
  BY <1>2, Kinds
<1>4. \A t \in T : args[t].server = s /\ l.status[t] = "open"
  BY Zenon DEF Sound, ServedOwn, OpenIn
<1>5. /\ d \in Library
      /\ d.status = [x \in Objects |-> IF x \in T \/ \E t \in T : x \in l.held[t]
                                       THEN "closed" ELSE l.status[x]]
      /\ d.held = [y \in Owners |-> IF y \in T THEN {} ELSE l.held[y]]
      /\ d.known = l.known /\ d.served = l.served
  BY <1>1, <1>2, TransportsDownIs, Zenon
<1>6. /\ m \in Library
      /\ m.status = [x \in Objects |-> IF x \in {s} THEN "closed" ELSE d.status[x]]
      /\ m.held = d.held /\ m.known = d.known /\ m.served = d.served
  BY <1>3, <1>5, MarkClosedIs, Zenon
<1>7. k = [m EXCEPT !.held = [x \in DOMAIN @ |-> @[x] \ ({s} \cup T)], !.served[s] = {}]
  BY Zenon DEF WebRtcServerClose
<1>8. \A y \in Owners : \A x \in l.held[y] : x \in Created /\ l.status[x] = "open" /\ args[x].on = y
  BY HeldOwn
<1>9. \A x : x \in S <=> x = s \/ x \in T \/ \E t \in T : x \in l.held[t]
  BY <1>3, <1>8, Zenon
<1> HIDE DEF d, m, k, T
<1>10. /\ k \in Library /\ k.status = m.status /\ k.known = m.known
       /\ k.held = [y \in Owners |-> m.held[y] \ ({s} \cup T)]
       /\ k.served = [q \in WebRtcServers |-> IF q = s THEN {} ELSE m.served[q]]
  BY <1>6, <1>7, Zenon DEF Library
<1>11. k.status = [x \in Objects |-> IF x \in S THEN "closed" ELSE l.status[x]]
  <2>1. \A x \in Objects : k.status[x] = IF x \in S THEN "closed" ELSE l.status[x]
    BY <1>5, <1>6, <1>9, <1>10
  <2> QED
    BY <2>1, <1>6, <1>10, Zenon
<1>12. k.held = [y \in Owners |-> l.held[y] \ S]
  <2> SUFFICES ASSUME NEW y \in Owners
               PROVE  m.held[y] \ ({s} \cup T) = l.held[y] \ S
    BY <1>10, Zenon
  <2>1. m.held[y] = IF y \in T THEN {} ELSE l.held[y]
    BY <1>5, <1>6
  <2>2. y \in T => l.held[y] \subseteq S
    BY <1>9, Zenon
  <2>3. y \notin T => \A x \in l.held[y] : x \in S <=> x \in {s} \cup T
    <3> SUFFICES ASSUME y \notin T, NEW x \in l.held[y]
                 PROVE  x \in S <=> x \in {s} \cup T
      BY Zenon
    <3>1. ASSUME NEW t \in T, x \in l.held[t] PROVE FALSE
      BY <1>3, <1>8, <3>1
    <3> QED
      BY <1>9, <3>1, Zenon
  <2> QED
    BY <2>1, <2>2, <2>3
<1>13. S \subseteq OpenIn(l, Objects)
  <2> SUFFICES ASSUME NEW x \in S
               PROVE  x \in Objects /\ l.status[x] = "open"
    BY Zenon DEF OpenIn
  <2>1. CASE x = s \/ x \in T
    BY <1>3, <1>4, <2>1, Zenon
  <2>2. CASE \E t \in T : x \in l.held[t]
    <3>1. PICK t \in T : x \in l.held[t]
      BY <2>2, Zenon
    <3> QED
      BY <1>3, <1>8, <3>1, Zenon
  <2> QED
    BY <1>9, <2>1, <2>2, Zenon
<1>14. ASSUME NEW r \in Routers, NEW p \in k.known[r]
       PROVE  p \in l.known[r] /\ (p \in S => ServerClosed(k, args, args[p].on))
  <2>1. p \in l.known[r]
    BY <1>5, <1>6, <1>10, <1>14, Zenon
  <2>2. p \in Sources
    BY <2>1, KnownOfRouter, Zenon
  <2>3. p \notin WebRtcServers /\ p \notin Transports
    BY <2>2, KindsAssumption
  <2>4. k.status[s] = "closed"
    BY <1>3, <1>9, <1>11, Zenon
  <2>5. ASSUME p \in S PROVE args[args[p].on].server = s
    <3>1. PICK t \in T : p \in l.held[t]
      BY <1>2, <1>9, <2>3, <2>5, Zenon
    <3> QED
      BY <1>3, <1>4, <1>8, <3>1, Zenon
  <2> QED
    BY <2>1, <2>4, <2>5, Zenon DEF ServerClosed
<1>15. \A q \in WebRtcServers : k.served[q] \subseteq l.served[q]
  BY <1>5, <1>6, <1>10
<1> QED
  BY <1>10, <1>11, <1>12, <1>13, <1>14, <1>15, Zenon DEF Shuts, k

\* producer.close() and dataProducer.close() close one object.
LEMMA SourceShuts ==
  ASSUME NEW l, Sound(l, args), NEW p \in Sources, l.status[p] = "open"
  PROVE  Shuts(l, SourceClose(l, p), args, {p})
<1> DEFINE m == MarkClosed(l, {p})
           k == SourceClose(l, p)
           t == args[p].on
           r == args[t].on
<1>1. l \in Library /\ p \in Created /\ p \in Objects /\ {p} \in SUBSET Objects
  BY Kinds DEF Sound, Typed
<1>2. Placed(l, args, p)
  BY <1>1 DEF Sound, Typed
<1>3. t \in Transports /\ t \in Owners /\ t \in Created /\ l.status[t] # "none"
  BY <1>2, Kinds DEF Placed, Ref
<1>4. Placed(l, args, t)
  BY <1>3, Zenon DEF Sound, Typed
<1>5. r \in Routers
  BY <1>3, <1>4, Zenon DEF Placed
<1>6. /\ m \in Library
      /\ m.status = [x \in Objects |-> IF x \in {p} THEN "closed" ELSE l.status[x]]
      /\ m.held = l.held /\ m.known = l.known /\ m.served = l.served
  BY <1>1, MarkClosedIs, Zenon
<1>7. k = [m EXCEPT !.held[t] = @ \ {p}, !.known[r] = @ \ {p}]
  BY Zenon DEF SourceClose, RouterOf
<1>8. t \in Owners /\ r \in Routers
  BY <1>3, <1>5, Zenon
<1>9. \A y \in Owners : \A x \in l.held[y] : args[x].on = y
  BY HeldOwn
<1>10. \A q \in Routers : \A x \in l.known[q] : args[args[x].on].on = q
  BY KnownOfRouter
<1> HIDE DEF m, k, t, r
<1>11. /\ k \in Library /\ k.status = m.status /\ k.served = m.served
       /\ k.held = [y \in Owners |-> IF y = t THEN m.held[y] \ {p} ELSE m.held[y]]
       /\ k.known = [q \in Routers |-> IF q = r THEN m.known[q] \ {p} ELSE m.known[q]]
  BY <1>6, <1>7, <1>8, Zenon DEF Library
<1>12. k.held = [y \in Owners |-> l.held[y] \ {p}]
  <2> SUFFICES ASSUME NEW y \in Owners
               PROVE  (IF y = t THEN m.held[y] \ {p} ELSE m.held[y]) = l.held[y] \ {p}
    BY <1>11, Zenon
  <2>1. y # t => p \notin l.held[y]
    BY <1>9, Zenon DEF t
  <2> QED
    BY <1>6, <2>1
<1>13. ASSUME NEW q \in Routers, NEW x \in k.known[q]
       PROVE  x \in l.known[q] /\ x \notin {p}
  <2>1. k.known[q] = IF q = r THEN l.known[q] \ {p} ELSE l.known[q]
    BY <1>6, <1>11, ZenonT(60)
  <2>2. q # r => p \notin l.known[q]
    BY <1>10, Zenon DEF t, r
  <2> QED
    BY <1>13, <2>1, <2>2
<1>14. {p} \subseteq OpenIn(l, Objects)
  BY <1>1 DEF OpenIn
<1> QED
  BY <1>6, <1>11, <1>12, <1>13, <1>14, Zenon DEF Shuts, k

\* So do the close() methods of Consumers and observers.
LEMMA LeafShuts ==
  ASSUME NEW l, Sound(l, args), NEW c \in Sinks \cup Observers, l.status[c] = "open"
  PROVE  Shuts(l, LeafClose(l, c), args, {c})
<1> DEFINE m == MarkClosed(l, {c})
           k == LeafClose(l, c)
           t == args[c].on
<1>1. l \in Library /\ c \in Created /\ c \in Objects /\ {c} \in SUBSET Objects /\ c \notin Sources
  BY Kinds, KindsAssumption DEF Sound, Typed
<1>2. Placed(l, args, c)
  BY <1>1 DEF Sound, Typed
<1>3. t \in Owners
  BY <1>2, Kinds, Zenon DEF Placed
<1>6. /\ m \in Library
      /\ m.status = [x \in Objects |-> IF x \in {c} THEN "closed" ELSE l.status[x]]
      /\ m.held = l.held /\ m.known = l.known /\ m.served = l.served
  BY <1>1, MarkClosedIs, Zenon
<1>7. k = [m EXCEPT !.held[t] = @ \ {c}]
  BY Zenon DEF LeafClose
<1>9. \A y \in Owners : \A x \in l.held[y] : args[x].on = y
  BY HeldOwn
<1>10. \A q \in Routers : \A x \in l.known[q] : x \in Sources
  BY KnownOfRouter
<1> HIDE DEF m, k, t
<1>11. /\ k \in Library /\ k.status = m.status /\ k.served = m.served /\ k.known = m.known
       /\ k.held = [y \in Owners |-> IF y = t THEN m.held[y] \ {c} ELSE m.held[y]]
  BY <1>3, <1>6, <1>7, Zenon DEF Library
<1>12. k.held = [y \in Owners |-> l.held[y] \ {c}]
  <2> SUFFICES ASSUME NEW y \in Owners
               PROVE  (IF y = t THEN m.held[y] \ {c} ELSE m.held[y]) = l.held[y] \ {c}
    BY <1>11, Zenon
  <2>1. y # t => c \notin l.held[y]
    BY <1>9, Zenon DEF t
  <2> QED
    BY <1>6, <2>1
<1>13. \A q \in Routers : \A x \in k.known[q] : x \in l.known[q] /\ x \notin {c}
  BY <1>1, <1>6, <1>10, <1>11
<1>14. {c} \subseteq OpenIn(l, Objects)
  BY <1>1 DEF OpenIn
<1> QED
  BY <1>6, <1>11, <1>12, <1>13, <1>14, Zenon DEF Shuts, k

\* k is l after some pending creations were rejected.
Rejects(l, k) ==
  /\ k \in Library /\ k.held = l.held /\ k.known = l.known /\ k.served = l.served
  /\ \A x \in Objects : \/ k.status[x] = l.status[x]
                        \/ l.status[x] = "creating" /\ k.status[x] = "rejected"

\* Rejected creations leave no object behind.
LEMMA RejectsSound ==
  ASSUME NEW l, NEW a, Sound(l, a), NEW k, Rejects(l, k)
  PROVE  Sound(k, a)
<1>1. l \in Library /\ a \in Arguments /\ k \in Library
  BY Zenon DEF Sound, Typed, Rejects
<1>2. \A x \in Objects : /\ k.status[x] = "none" <=> l.status[x] = "none"
                         /\ k.status[x] = "open" <=> l.status[x] = "open"
                         /\ k.status[x] = "closed" <=> l.status[x] = "closed"
  BY DEF Rejects
<1>3. \A x \in Objects : Ref(l, x) <=> Ref(k, x)
  BY <1>2 DEF Ref
<1>4. Created \subseteq Objects /\ Owners \subseteq Objects /\ Transports \subseteq Created
      /\ Sources \subseteq Created /\ WebRtcServers \subseteq Created
  BY Kinds, Zenon
<1>5. Typed(k, a)
  <2> SUFFICES ASSUME NEW x \in Created, k.status[x] # "none"
               PROVE  Placed(k, a, x)
    BY <1>1, Zenon DEF Typed
  <2>1. Placed(l, a, x)
    BY <1>2, <1>4 DEF Sound, Typed
  <2>2. a[x].on \in Objects
    BY <2>1, Kinds, Zenon DEF Placed
  <2> QED
    BY <1>3, <2>1, <2>2, Zenon DEF Placed
<1>6. HeldExact(k, a)
  <2>1. k.held = l.held
    BY Zenon DEF Rejects
  <2>2. \A y \in Owners : \A x \in l.held[y] : x \in Created /\ l.status[x] = "open" /\ a[x].on = y
    BY HeldOwn
  <2>3. \A x \in Created : l.status[x] = "open" => x \in l.held[a[x].on]
    BY Zenon DEF Sound, HeldExact
  <2> QED
    BY <1>2, <1>4, <2>1, <2>2, <2>3, Zenon DEF HeldExact
<1>7. ServedOwn(k, a)
  <2>1. \A s \in WebRtcServers : \A t \in l.served[s] : t \in Transports
    BY <1>1 DEF Library
  <2>2. k.served = l.served
    BY Zenon DEF Rejects
  <2> QED
    BY <1>3, <1>4, <2>1, <2>2, Zenon DEF Sound, ServedOwn
<1>8. KnownOwn(k, a)
  <2>1. \A r \in Routers : \A p \in l.known[r] : p \in Objects
    BY <1>1, <1>4 DEF Library
  <2>2. k.known = l.known
    BY Zenon DEF Rejects
  <2>3. \A t : ServerClosed(l, a, t) => ServerClosed(k, a, t)
    BY <1>2, <1>4, Zenon DEF ServerClosed
  <2> QED
    BY <1>2, <1>3, <2>1, <2>2, <2>3, Zenon DEF Sound, KnownOwn
<1> QED
  BY <1>5, <1>6, <1>7, <1>8, Zenon DEF Sound

\* worker.close() and workerDied() reject the creations that are pending, and
\* close the Worker and all below it.
LEMMA WorkerDownSound ==
  ASSUME NEW l, Sound(l, args), l.status[Worker] = "open"
  PROVE  /\ Sound(WorkerDown(l), args)
         /\ WorkerDown(l).status[Worker] = "closed"
         /\ \A x \in Created : l.status[x] = "creating" =>
              WorkerDown(l).status[x] = IF x \in Range(micro) THEN "creating" ELSE "rejected"
         /\ \A x \in Created : l.status[x] \notin {"open", "creating"} =>
              WorkerDown(l).status[x] = l.status[x]
         /\ \A x \in Created : l.status[x] = "open" =>
              WorkerDown(l).status[x] \in {"open", "closed"}
         /\ \A r \in Routers : l.status[r] = "open" =>
              /\ WorkerDown(l).status[r] = "closed"
              /\ \A t \in Transports : l.status[t] = "open" /\ args[t].on = r =>
                   WorkerDown(l).status[t] = "closed"
<1> DEFINE j == [l EXCEPT !.status =
                   [x \in Objects |-> IF l.status[x] = "creating" /\ x \notin Range(micro)
                                      THEN "rejected" ELSE l.status[x]]]
           m == MarkClosed(j, {Worker})
           R == l.held[Worker] \cap Routers
           G == l.held[Worker] \cap WebRtcServers
           n == RoutersDown(m, R)
           w == MarkClosed(n, G)
           k == WorkerDown(l)
           S == Tree(m, R) \cup G
<1>1. l \in Library /\ Worker \in Objects /\ Worker \in Owners /\ {Worker} \in SUBSET Objects
      /\ Created \subseteq Objects /\ Worker \notin Created
  BY Kinds DEF Sound, Typed
<1>2. /\ j \in Library /\ j.held = l.held /\ j.known = l.known /\ j.served = l.served
      /\ j.status = [x \in Objects |-> IF l.status[x] = "creating" /\ x \notin Range(micro)
                                       THEN "rejected" ELSE l.status[x]]
  BY <1>1 DEF Library
<1>3. Rejects(l, j) /\ j.status[Worker] = "open"
  BY <1>1, <1>2 DEF Rejects
<1>4. Sound(j, args)
  BY <1>3, RejectsSound, Zenon
<1> HIDE DEF j
<1>5. /\ m \in Library /\ m.held = j.held /\ m.known = j.known /\ m.served = j.served
      /\ m.status = [x \in Objects |-> IF x \in {Worker} THEN "closed" ELSE j.status[x]]
  BY <1>1, <1>2, MarkClosedIs, Zenon
<1>6. \A y \in Owners : \A x \in j.held[y] :
         x \in Created /\ j.status[x] = "open" /\ args[x].on = y
  BY <1>4, HeldOwn
<1>7. \A q \in Routers : \A p \in j.known[q] : p \in Sources /\ p \in Created
  <2>1. \A q \in Routers : \A p \in j.known[q] : p \in Sources
    BY <1>4, KnownOfRouter
  <2> QED
    BY <2>1, Kinds, Zenon
<1> HIDE DEF m
<1>8. Shuts(j, m, args, {Worker})
  <2>1. m.held = [y \in Owners |-> j.held[y] \ {Worker}]
    <3>1. \A y \in Owners : j.held[y] = j.held[y] \ {Worker}
      BY <1>1, <1>6
    <3>2. j.held = [y \in Owners |-> j.held[y]]
      BY <1>2 DEF Library
    <3> QED
      BY <1>5, <3>1, <3>2, Zenon
  <2>2. {Worker} \subseteq OpenIn(j, Objects)
    BY <1>1, <1>3 DEF OpenIn
  <2>3. \A q \in Routers : \A p \in m.known[q] : p \in j.known[q] /\ p \notin {Worker}
    BY <1>1, <1>5, <1>7, Zenon
  <2>4. \A s \in WebRtcServers : m.served[s] \subseteq j.served[s]
    BY <1>5
  <2> QED
    BY <1>5, <2>1, <2>2, <2>3, <2>4, Zenon DEF Shuts
<1>9. Sound(m, args)
  BY <1>4, <1>8, ShutsSound, Zenon
<1>10. \A y \in Owners : \A x \in m.held[y] :
         x \in Created /\ m.status[x] = "open" /\ args[x].on = y
  BY <1>9, HeldOwn
<1>11. R \in SUBSET Routers /\ (\A r \in R : m.status[r] = "open") /\ m.held[Worker] = l.held[Worker]
  <2>1. m.held[Worker] = l.held[Worker]
    BY <1>2, <1>5, Zenon
  <2>2. \A x \in m.held[Worker] : m.status[x] = "open"
    BY <1>1, <1>10, Zenon
  <2> QED
    BY <2>1, <2>2
<1> HIDE DEF R
<1>12. /\ n \in Library
       /\ n.status = [x \in Objects |-> IF x \in Tree(m, R) THEN "closed" ELSE m.status[x]]
       /\ n.held = [y \in Owners |-> IF y = Worker THEN m.held[y] ELSE m.held[y] \ Tree(m, R)]
       /\ n.known = [r \in Routers |-> IF r \in R THEN {} ELSE m.known[r]]
       /\ n.served = m.served
  BY <1>9, <1>11, RoutersDownIs, Zenon
<1>13. /\ Tree(m, R) \subseteq OpenIn(m, Objects)
       /\ TransportsOf(m, R) \subseteq Transports
       /\ \A x \in Tree(m, R) : \/ x \in R /\ args[x].on = Worker
                                \/ args[x].on \in R
                                \/ args[x].on \in TransportsOf(m, R)
       /\ R \subseteq Tree(m, R)
  <2>1. R \subseteq Tree(m, R)
    <3>1. R \subseteq Created
      BY <1>11, Kinds
    <3> QED
      BY <3>1, Zenon DEF Tree
  <2> QED
    BY <1>9, <1>11, <2>1, TreeOwn, Zenon
<1>14. \A x \in G : x \in WebRtcServers /\ x \in Objects /\ m.status[x] = "open" /\ args[x].on = Worker
  BY <1>1, <1>10, <1>11
<1>15. \A x \in G : x \notin Tree(m, R)
  <2>1. \A x \in G : x \notin R
    BY <1>11, <1>14, KindsAssumption
  <2>2. Worker \notin R /\ Worker \notin TransportsOf(m, R)
    BY <1>11, <1>13, Kinds
  <2> QED
    BY <1>13, <1>14, <2>1, <2>2, Zenon
<1>16. OpenIn(n, G) = G
  <2>1. \A x \in G : n.status[x] = "open"
    BY <1>12, <1>14, <1>15, Zenon
  <2> QED
    BY <2>1, Zenon DEF OpenIn
<1>17. k = [[w EXCEPT !.served = [s \in WebRtcServers |-> IF s \in G THEN {} ELSE @[s]]]
              EXCEPT !.held[Worker] = {}]
  BY <1>16, Zenon DEF WorkerDown, WebRtcServersDown, j, m, R
<1>18. G \in SUBSET Objects
  BY <1>14, Zenon
<1>19. /\ w \in Library /\ w.held = n.held /\ w.known = n.known /\ w.served = n.served
       /\ w.status = [x \in Objects |-> IF x \in G THEN "closed" ELSE n.status[x]]
  BY <1>12, <1>18, MarkClosedIs, Zenon
<1> HIDE DEF n, w, k, G, S
<1>20. /\ k \in Library /\ k.status = w.status /\ k.known = w.known
       /\ k.held = [y \in Owners |-> IF y = Worker THEN {} ELSE w.held[y]]
       /\ k.served = [s \in WebRtcServers |-> IF s \in G THEN {} ELSE w.served[s]]
  BY <1>1, <1>17, <1>19, Zenon DEF Library
<1>21. k.status = [x \in Objects |-> IF x \in S THEN "closed" ELSE m.status[x]]
  <2>1. \A x \in Objects : k.status[x] = IF x \in S THEN "closed" ELSE m.status[x]
    BY <1>12, <1>19, <1>20 DEF S
  <2> QED
    BY <2>1, <1>19, <1>20, Zenon
<1>22. k.held = [y \in Owners |-> m.held[y] \ S]
  <2> SUFFICES ASSUME NEW y \in Owners
               PROVE  (IF y = Worker THEN {} ELSE w.held[y]) = m.held[y] \ S
    BY <1>20, Zenon
  <2>1. y # Worker => w.held[y] = m.held[y] \ Tree(m, R)
    BY <1>12, <1>19, ZenonT(60)
  <2>2. y # Worker => m.held[y] \cap G = {}
    BY <1>10, <1>14
  <2>3. m.held[Worker] \subseteq S
    <3> SUFFICES ASSUME NEW x \in m.held[Worker]
                 PROVE  x \in S
      BY Zenon
    <3>1. x \in Created /\ m.status[x] = "open" /\ args[x].on = Worker
      BY <1>1, <1>10, Zenon
    <3>2. Placed(m, args, x)
      BY <1>9, <3>1 DEF Sound, Typed
    <3>3. Worker \notin Routers /\ Worker \notin Transports
      BY Kinds
    <3>4. x \in WebRtcServers \cup Routers
      BY <3>1, <3>2, <3>3, Kinds, Zenon DEF Placed
    <3>5. x \in R \cup G
      BY <1>11, <3>4, Zenon DEF R, G
    <3> QED
      BY <1>13, <3>5, Zenon DEF S
  <2> QED
    BY <2>1, <2>2, <2>3 DEF S
<1>23. S \subseteq OpenIn(m, Objects)
  BY <1>13, <1>14, Zenon DEF S, OpenIn
<1>24. ASSUME NEW q \in Routers, NEW p \in k.known[q]
       PROVE  p \in m.known[q] /\ p \notin S
  <2>1. k.known[q] = IF q \in R THEN {} ELSE m.known[q]
    BY <1>12, <1>19, <1>20
  <2>2. q \notin R /\ p \in m.known[q]
    BY <1>24, <2>1
  <2>3. p \notin Tree(m, R)
    BY <1>9, <1>11, <2>2, KnownElsewhere
  <2>4. p \in Sources
    BY <1>5, <1>7, <2>2, Zenon
  <2>5. p \notin G
    BY <1>14, <2>4, KindsAssumption
  <2> QED
    BY <2>2, <2>3, <2>5, Zenon DEF S
<1>25. \A s \in WebRtcServers : k.served[s] \subseteq m.served[s]
  BY <1>12, <1>19, <1>20
<1>26. Shuts(m, k, args, S)
  BY <1>20, <1>21, <1>22, <1>23, <1>24, <1>25, Zenon DEF Shuts
<1>27. Sound(k, args)
  BY <1>9, <1>26, ShutsSound, Zenon
<1>28. \A x \in Objects : x \in S => m.status[x] = "open"
  BY <1>23, Zenon DEF OpenIn
<1>29. k.status[Worker] = "closed"
  BY <1>1, <1>5, <1>21, Zenon
<1>30. ASSUME NEW x \in Created
       PROVE  /\ l.status[x] = "creating" =>
                   k.status[x] = IF x \in Range(micro) THEN "creating" ELSE "rejected"
              /\ l.status[x] \notin {"open", "creating"} => k.status[x] = l.status[x]
              /\ l.status[x] = "open" => k.status[x] \in {"open", "closed"}
  <2>1. x \in Objects /\ x # Worker
    BY <1>1, Zenon
  <2>2. m.status[x] = IF l.status[x] = "creating" /\ x \notin Range(micro)
                      THEN "rejected" ELSE l.status[x]
    BY <1>2, <1>5, <2>1
  <2>3. k.status[x] = IF x \in S THEN "closed" ELSE m.status[x]
    BY <1>21, <2>1, Zenon
  <2> QED
    BY <1>28, <2>1, <2>2, <2>3
<1>31. ASSUME NEW r \in Routers, l.status[r] = "open"
       PROVE  /\ k.status[r] = "closed"
              /\ \A t \in Transports : l.status[t] = "open" /\ args[t].on = r => k.status[t] = "closed"
  <2>1. r \in Created /\ Transports \subseteq Created /\ Worker \in Owners /\ r \in Owners
    BY Kinds
  <2>2. args[r].on = Worker
    <3>1. Placed(l, args, r)
      BY <1>31, <2>1 DEF Sound, Typed
    <3> QED
      BY <3>1, Zenon DEF Placed
  <2>3. \A x \in Created : l.status[x] = "open" => x \in l.held[args[x].on]
    BY Zenon DEF Sound, HeldExact
  <2>4. r \in R
    BY <1>31, <2>1, <2>2, <2>3, Zenon DEF R
  <2>5. r \in S
    BY <1>13, <2>4, Zenon DEF S
  <2>6. ASSUME NEW t \in Transports, l.status[t] = "open", args[t].on = r
        PROVE  t \in S
    <3>1. t \in Created /\ t \in m.held[r]
      BY <1>2, <1>5, <2>1, <2>3, <2>6, Zenon
    <3> QED
      BY <2>4, <3>1, Zenon DEF S, Tree
  <2>7. \A x \in Created : x \in S => k.status[x] = "closed"
    BY <1>1, <1>21, Zenon
  <2> QED
    BY <2>1, <2>5, <2>6, <2>7, Zenon
<1> QED
  BY <1>27, <1>29, <1>30, <1>31, Zenon DEF k

\* A call for x is recorded: nothing depended on x so far.
LEMMA CallSound ==
  ASSUME NEW l, NEW a, Sound(l, a), NEW x \in Created, l.status[x] = "none",
         NEW e \in {"creating", "rejected"},
         NEW b \in [on : Owners, server : WebRtcServers \cup {Nobody}, source : Sources \cup {Nobody}],
         NEW c, c = [a EXCEPT ![x] = b], NEW k, k = [l EXCEPT !.status[x] = e],
         Placed(k, c, x)
  PROVE  Sound(k, c)
<1>1. l \in Library /\ a \in Arguments /\ x \in Objects /\ Created \subseteq Objects
  BY Kinds DEF Sound, Typed
<1>2. /\ k \in Library /\ k.held = l.held /\ k.known = l.known /\ k.served = l.served
      /\ k.status = [y \in Objects |-> IF y = x THEN e ELSE l.status[y]]
  BY <1>1 DEF Library
<1>3. c \in Arguments /\ c[x] = b /\ \A y \in Created : y # x => c[y] = a[y]
  BY <1>1 DEF Arguments
<1>4. \A y \in Objects : Ref(l, y) => Ref(k, y) /\ y # x /\ k.status[y] = l.status[y]
  BY <1>2 DEF Ref
<1>5. \A y \in Created : l.status[y] # "none" => Placed(l, a, y)
  BY Zenon DEF Sound, Typed
<1>6. ASSUME NEW y \in Created, l.status[y] # "none"
      PROVE  Placed(k, c, y) /\ c[y] = a[y] /\ a[y].on # x /\ Ref(l, a[y].on) /\ a[y].on \in Owners
  <2>1. Placed(l, a, y)
    BY <1>5, <1>6, Zenon
  <2>2. a[y].on \in Objects /\ Ref(l, a[y].on) /\ a[y].on \in Owners
    BY <2>1, Kinds, Zenon DEF Placed
  <2>3. y # x /\ a[y].on # x /\ Ref(k, a[y].on)
    BY <1>4, <1>6, <2>2, Zenon
  <2>4. c[y] = a[y]
    BY <1>3, <2>3, Zenon
  <2> QED
    BY <2>1, <2>2, <2>3, <2>4, Zenon DEF Placed
<1>7. Typed(k, c)
  <2>1. ASSUME NEW y \in Created, k.status[y] # "none" PROVE Placed(k, c, y)
    <3>1. CASE y = x
      BY <3>1, Zenon
    <3>2. CASE y # x
      <4>1. l.status[y] # "none"
        BY <1>1, <1>2, <2>1, <3>2
      <4> QED
        BY <1>6, <4>1, Zenon
    <3> QED
      BY <3>1, <3>2, Zenon
  <2> QED
    BY <1>2, <1>3, <2>1, Zenon DEF Typed
<1>8. HeldExact(k, c)
  <2>1. ASSUME NEW y \in Owners, NEW z \in k.held[y]
        PROVE  c[z].on = y /\ k.status[z] = "open"
    <3>1. z \in l.held[y]
      BY <1>2, <2>1, Zenon
    <3>2. z \in Created /\ l.status[z] = "open" /\ a[z].on = y
      BY <3>1, HeldOwn
    <3>3. z # x /\ l.status[z] # "none"
      BY <3>2
    <3> QED
      BY <1>1, <1>2, <1>6, <3>2, <3>3
  <2>2. ASSUME NEW z \in Created, k.status[z] = "open"
        PROVE  z \in k.held[c[z].on]
    <3>1. l.status[z] = "open" /\ l.status[z] # "none"
      BY <1>1, <1>2, <2>2
    <3>2. z \in l.held[a[z].on]
      BY <3>1, Zenon DEF Sound, HeldExact
    <3> QED
      BY <1>2, <1>6, <3>1, <3>2, Zenon
  <2> QED
    BY <2>1, <2>2, Zenon DEF HeldExact
<1>9. ServedOwn(k, c)
  <2> SUFFICES ASSUME NEW s \in WebRtcServers, NEW t \in k.served[s]
               PROVE  c[t].server = s /\ Ref(k, t)
    BY Zenon DEF ServedOwn
  <2>1. t \in l.served[s]
    BY <1>2, Zenon
  <2>2. a[t].server = s /\ Ref(l, t)
    BY <2>1, Zenon DEF Sound, ServedOwn
  <2>3. t \in Transports
    BY <1>1, <2>1 DEF Library
  <2>4. t \in Created
    BY <2>3, Kinds, Zenon
  <2> QED
    BY <1>1, <1>3, <1>4, <2>2, <2>4, Zenon
<1>10. KnownOwn(k, c)
  <2> SUFFICES ASSUME NEW r \in Routers, NEW p \in k.known[r]
               PROVE  /\ Ref(k, p) /\ c[c[p].on].on = r
                      /\ k.status[p] = "open" \/ ServerClosed(k, c, c[p].on)
    BY Zenon DEF KnownOwn
  <2>1. p \in l.known[r]
    BY <1>2, Zenon
  <2>2. /\ Ref(l, p) /\ a[a[p].on].on = r
        /\ l.status[p] = "open" \/ ServerClosed(l, a, a[p].on)
    BY <2>1, Zenon DEF Sound, KnownOwn
  <2>3. p \in Sources
    BY <1>1, <2>1 DEF Library
  <2>4. p \in Created /\ l.status[p] # "none"
    BY <2>2, <2>3, Kinds DEF Ref
  <2>5. c[p] = a[p] /\ a[p].on # x /\ Placed(k, c, p)
    BY <1>6, <2>4, Zenon
  <2>6. a[p].on \in Created
    BY <2>3, <2>5, Kinds, Zenon DEF Placed
  <2>7. c[a[p].on] = a[a[p].on]
    BY <1>3, <2>5, <2>6, Zenon
  <2>8. \A s \in WebRtcServers : l.status[s] = "closed" => k.status[s] = "closed"
    BY <1>2, Kinds
  <2>9. ServerClosed(l, a, a[p].on) => ServerClosed(k, c, c[p].on)
    BY <2>5, <2>7, <2>8, Zenon DEF ServerClosed
  <2>10. k.status[p] = l.status[p] /\ Ref(k, p)
    BY <1>1, <1>4, <2>2, <2>4, Zenon
  <2> QED
    BY <2>2, <2>5, <2>7, <2>9, <2>10, Zenon
<1> QED
  BY <1>7, <1>8, <1>9, <1>10, Zenon DEF Sound

\* The continuation of a creation registers an object that nobody has yet.
LEMMA RegisterSound ==
  ASSUME NEW l, Sound(l, args), NEW x \in Created, l.status[x] = "creating"
  PROVE  /\ Sound(Register(l, x), args)
         /\ Register(l, x).status = [l.status EXCEPT ![x] = "open"]
<1> DEFINE k == Register(l, x)
           o == args[x].on
           v == args[x].server
           q == args[o].on
<1>1. l \in Library /\ args \in Arguments /\ x \in Objects /\ Created \subseteq Objects
      /\ Transports \subseteq Created
  BY Kinds DEF Sound, Typed
<1>2. Placed(l, args, x)
  BY DEF Sound, Typed
<1>3. o \in Owners /\ o \in Objects /\ Ref(l, o) /\ (x \in Sources => o \in Transports)
      /\ (v \in WebRtcServers => x \in Transports)
  <2>1. o \in Owners /\ o \in Objects
    BY <1>2, Kinds, Zenon DEF Placed
  <2>2. Nobody \notin WebRtcServers
    BY Kinds
  <2> QED
    BY <1>2, <2>1, <2>2, Zenon DEF Placed
<1>4. k = [l EXCEPT !.status[x] = "open", !.held[o] = @ \cup {x},
             !.known = [r \in Routers |-> IF x \in Sources /\ r = q THEN @[r] \cup {x} ELSE @[r]],
             !.served = [s \in WebRtcServers |-> IF s = v THEN @[s] \cup {x} ELSE @[s]]]
  BY DEF Register, RouterOf
<1> HIDE DEF o, v, q, k
<1>5. /\ k \in Library
      /\ k.status = [y \in Objects |-> IF y = x THEN "open" ELSE l.status[y]]
      /\ k.held = [y \in Owners |-> IF y = o THEN l.held[y] \cup {x} ELSE l.held[y]]
      /\ k.known = [r \in Routers |-> IF x \in Sources /\ r = q THEN l.known[r] \cup {x} ELSE l.known[r]]
      /\ k.served = [s \in WebRtcServers |-> IF s = v THEN l.served[s] \cup {x} ELSE l.served[s]]
  <2>1. /\ l = [status |-> l.status, held |-> l.held, known |-> l.known, served |-> l.served]
        /\ l.status \in [Objects -> {"none", "creating", "rejected", "open", "closed"}]
        /\ l.held \in [Owners -> SUBSET Created]
        /\ l.known \in [Routers -> SUBSET Sources]
        /\ l.served \in [WebRtcServers -> SUBSET Transports]
    BY <1>1 DEF Library
  <2>2. k = [status |-> [l.status EXCEPT ![x] = "open"],
             held   |-> [l.held EXCEPT ![o] = @ \cup {x}],
             known  |-> [r \in Routers |-> IF x \in Sources /\ r = q THEN l.known[r] \cup {x} ELSE l.known[r]],
             served |-> [s \in WebRtcServers |-> IF s = v THEN l.served[s] \cup {x} ELSE l.served[s]]]
    BY <1>4, <2>1, Zenon
  <2>3. [l.status EXCEPT ![x] = "open"] = [y \in Objects |-> IF y = x THEN "open" ELSE l.status[y]]
    BY <1>1, <2>1
  <2>4. [l.held EXCEPT ![o] = @ \cup {x}]
        = [y \in Owners |-> IF y = o THEN l.held[y] \cup {x} ELSE l.held[y]]
    BY <1>3, <2>1, Zenon
  <2>5. /\ k.status = [y \in Objects |-> IF y = x THEN "open" ELSE l.status[y]]
        /\ k.held = [y \in Owners |-> IF y = o THEN l.held[y] \cup {x} ELSE l.held[y]]
        /\ k.known = [r \in Routers |-> IF x \in Sources /\ r = q THEN l.known[r] \cup {x} ELSE l.known[r]]
        /\ k.served = [s \in WebRtcServers |-> IF s = v THEN l.served[s] \cup {x} ELSE l.served[s]]
    BY <2>2, <2>3, <2>4, Zenon
  <2>6. k = [status |-> k.status, held |-> k.held, known |-> k.known, served |-> k.served]
    BY <2>2, Zenon
  <2>7. /\ k.status \in [Objects -> {"none", "creating", "rejected", "open", "closed"}]
        /\ k.held \in [Owners -> SUBSET Created]
    BY <2>1, <2>5
  <2>8. /\ k.known \in [Routers -> SUBSET Sources]
        /\ k.served \in [WebRtcServers -> SUBSET Transports]
    BY <1>3, <2>1, <2>5
  <2>9. k \in Library
    BY <2>6, <2>7, <2>8 DEF Library
  <2> QED
    BY <2>5, <2>9, Zenon
<1>6. \A y \in Objects : y # x => k.status[y] = l.status[y]
  BY <1>5, Zenon
<1>7. \A y \in Objects : Ref(l, y) => y # x /\ Ref(k, y) /\ k.status[y] = l.status[y]
  BY <1>6 DEF Ref
<1>8. k.status[x] = "open" /\ Ref(k, x)
  BY <1>1, <1>5 DEF Ref
<1>9. Typed(k, args)
  <2> SUFFICES ASSUME NEW y \in Created, k.status[y] # "none"
               PROVE  Placed(k, args, y)
    BY <1>1, <1>5, Zenon DEF Typed
  <2>1. l.status[y] # "none"
    BY <1>1, <1>6
  <2>2. Placed(l, args, y)
    BY <2>1 DEF Sound, Typed
  <2>3. args[y].on \in Objects
    BY <2>2, Kinds, Zenon DEF Placed
  <2> QED
    BY <1>7, <2>2, <2>3, Zenon DEF Placed
<1>10. HeldExact(k, args)
  <2>1. ASSUME NEW y \in Owners, NEW z \in k.held[y]
        PROVE  args[z].on = y /\ k.status[z] = "open"
    <3>1. k.held[y] = IF y = o THEN l.held[y] \cup {x} ELSE l.held[y]
      BY <1>5, Zenon
    <3>2. CASE z \in l.held[y]
      <4>1. z \in Created /\ l.status[z] = "open" /\ args[z].on = y
        BY <3>2, HeldOwn
      <4> QED
        BY <1>1, <1>7, <4>1 DEF Ref
    <3>3. CASE z = x /\ y = o
      BY <1>8, <3>3, Zenon DEF o
    <3> QED
      BY <2>1, <3>1, <3>2, <3>3
  <2>2. ASSUME NEW z \in Created, k.status[z] = "open"
        PROVE  z \in k.held[args[z].on]
    <3>1. CASE z = x
      BY <1>3, <1>5, <3>1 DEF o
    <3>2. CASE z # x
      <4>1. l.status[z] = "open"
        BY <1>1, <1>6, <2>2, <3>2, Zenon
      <4>2. z \in l.held[args[z].on]
        BY <4>1, Zenon DEF Sound, HeldExact
      <4>3. Placed(l, args, z)
        BY <4>1 DEF Sound, Typed
      <4>4. args[z].on \in Owners
        BY <4>3, Kinds, Zenon DEF Placed
      <4> QED
        BY <1>5, <4>2, <4>4
    <3> QED
      BY <3>1, <3>2, Zenon
  <2> QED
    BY <2>1, <2>2, Zenon DEF HeldExact
<1>11. ServedOwn(k, args)
  <2> SUFFICES ASSUME NEW s \in WebRtcServers, NEW t \in k.served[s]
               PROVE  args[t].server = s /\ Ref(k, t)
    BY Zenon DEF ServedOwn
  <2>1. k.served[s] = IF s = v THEN l.served[s] \cup {x} ELSE l.served[s]
    BY <1>5, Zenon
  <2>2. CASE t \in l.served[s]
    <3>1. args[t].server = s /\ Ref(l, t)
      BY <2>2, Zenon DEF Sound, ServedOwn
    <3>2. t \in Transports
      BY <1>1, <2>2 DEF Library
    <3> QED
      BY <1>1, <1>7, <3>1, <3>2, Zenon
  <2>3. CASE t = x /\ s = v
    BY <1>8, <2>3, Zenon DEF v
  <2> QED
    BY <2>1, <2>2, <2>3
<1>12. KnownOwn(k, args)
  <2> SUFFICES ASSUME NEW r \in Routers, NEW p \in k.known[r]
               PROVE  /\ Ref(k, p) /\ args[args[p].on].on = r
                      /\ k.status[p] = "open" \/ ServerClosed(k, args, args[p].on)
    BY Zenon DEF KnownOwn
  <2>1. k.known[r] = IF x \in Sources /\ r = q THEN l.known[r] \cup {x} ELSE l.known[r]
    BY <1>5, Zenon
  <2>2. CASE p \in l.known[r]
    <3>1. /\ Ref(l, p) /\ args[args[p].on].on = r
          /\ l.status[p] = "open" \/ ServerClosed(l, args, args[p].on)
      BY <2>2, Zenon DEF Sound, KnownOwn
    <3>2. p \in Sources
      BY <1>1, <2>2 DEF Library
    <3>3. p \in Objects
      BY <3>2, Kinds, Zenon
    <3>4. \A s \in WebRtcServers : l.status[s] = "closed" => k.status[s] = "closed"
      BY <1>7, Kinds DEF Ref
    <3>5. ServerClosed(l, args, args[p].on) => ServerClosed(k, args, args[p].on)
      BY <3>4, Zenon DEF ServerClosed
    <3> QED
      BY <1>7, <3>1, <3>3, <3>5, Zenon
  <2>3. CASE p = x /\ r = q
    BY <1>8, <2>3, Zenon DEF q, o
  <2> QED
    BY <2>1, <2>2, <2>3
<1>13. k.status = [l.status EXCEPT ![x] = "open"]
  BY <1>1, <1>5 DEF Library
<1> QED
  BY <1>9, <1>10, <1>11, <1>12, <1>13, Zenon DEF Sound, k

-----------------------------------------------------------------------------
(* Messages on their way.                                                  *)

ToWorker == [op : {"create", "close"}, id : Created]
ToNode   == [op : {"accepted", "rejected", "producerclose"}, id : Created]

IsCreate(m) == m.op = "create"
IsAnswer(m) == m.op # "producerclose"

\* Each creation has one request or one response or one continuation.
Tokens(w, n, m) ==
  /\ \A i, j \in DOMAIN w : IsCreate(w[i]) /\ IsCreate(w[j]) /\ w[i].id = w[j].id => i = j
  /\ \A i, j \in DOMAIN n : IsAnswer(n[i]) /\ IsAnswer(n[j]) /\ n[i].id = n[j].id => i = j
  /\ \A i, j \in DOMAIN m : m[i] = m[j] => i = j
  /\ \A i \in DOMAIN w, j \in DOMAIN n : IsCreate(w[i]) /\ IsAnswer(n[j]) => w[i].id # n[j].id
  /\ \A i \in DOMAIN w, j \in DOMAIN m : IsCreate(w[i]) => w[i].id # m[j]
  /\ \A i \in DOMAIN n, j \in DOMAIN m : IsAnswer(n[i]) => n[i].id # m[j]

\* x has a request, a response or a continuation.
Awaited(w, n, m, x) ==
  \/ \E i \in DOMAIN w : IsCreate(w[i]) /\ w[i].id = x
  \/ \E i \in DOMAIN n : IsAnswer(n[i]) /\ n[i].id = x
  \/ \E i \in DOMAIN m : m[i] = x

\* A creation that is awaited is pending; once the Worker is closed it may have
\* been rejected, but not if its continuation is ready.
Waiting(l, w, n, m) ==
  /\ \A x \in Created : Awaited(w, n, m, x) =>
       \/ l.status[x] = "creating"
       \/ l.status[x] = "rejected" /\ l.status[Worker] # "open"
  /\ \A i \in DOMAIN m : l.status[m[i]] = "creating"

MessagesTyped ==
  /\ toWorker \in Seq(ToWorker) /\ toNode \in Seq(ToNode) /\ micro \in Seq(Created)
  /\ immediates \in Seq(Created) /\ left \in 0..Len(toNode) /\ live \subseteq Objects

KnownInv ==
  /\ Sound(lib, args) /\ MessagesTyped /\ Tokens(toWorker, toNode, micro)
  /\ Waiting(lib, toWorker, toNode, micro)

-----------------------------------------------------------------------------
(* The objects of the worker process.                                      *)

\* What the process deletes x with.
Cover(a, x) ==
  {x, a[x].on, a[x].server}
    \cup (IF a[x].on \in Transports THEN {a[a[x].on].on, a[a[x].on].server} ELSE {})

-----------------------------------------------------------------------------
(* Sequences.                                                              *)

\* What is left when the first message is taken.
LEMMA TailIs ==
  ASSUME NEW S, NEW s \in Seq(S), s # <<>>
  PROVE  /\ Tail(s) \in Seq(S) /\ Head(s) = s[1] /\ 1 \in DOMAIN s /\ s[1] \in S
         /\ Len(Tail(s)) = Len(s) - 1
         /\ \A i \in DOMAIN Tail(s) :
              i \in Nat /\ i + 1 # 1 /\ i + 1 \in DOMAIN s /\ Tail(s)[i] = s[i + 1]
         /\ \A i \in DOMAIN s : i # 1 => \E j \in DOMAIN Tail(s) : Tail(s)[j] = s[i]
<1>1. Len(s) \in Nat \ {0} /\ DOMAIN s = 1..Len(s) /\ DOMAIN Tail(s) = 1..(Len(s) - 1)
      /\ Tail(s) \in Seq(S) /\ Head(s) = s[1] /\ Len(Tail(s)) = Len(s) - 1
      /\ \A i \in 1..(Len(s) - 1) : Tail(s)[i] = s[i + 1]
  OBVIOUS
<1>2. ASSUME NEW i \in DOMAIN s, i # 1
      PROVE  \E j \in DOMAIN Tail(s) : Tail(s)[j] = s[i]
  <2>1. i - 1 \in 1..(Len(s) - 1) /\ (i - 1) + 1 = i
    BY <1>1, <1>2
  <2>2. Tail(s)[i - 1] = s[(i - 1) + 1]
    BY <1>1, <2>1
  <2> QED
    BY <1>1, <2>1, <2>2
<1>3. 1 \in DOMAIN s /\ s[1] \in S
  BY <1>1
<1> QED
  BY <1>1, <1>2, <1>3

\* One more message.
LEMMA AppendIs ==
  ASSUME NEW S, NEW s \in Seq(S), NEW e \in S
  PROVE  /\ Append(s, e) \in Seq(S) /\ Len(Append(s, e)) = Len(s) + 1
         /\ \A i \in DOMAIN s : i \in DOMAIN Append(s, e) /\ Append(s, e)[i] = s[i]
         /\ Len(s) + 1 \in DOMAIN Append(s, e) /\ Append(s, e)[Len(s) + 1] = e
         /\ \A i \in DOMAIN Append(s, e) : i = Len(s) + 1 \/ i \in DOMAIN s
OBVIOUS

\* Several more messages.
LEMMA ConcatIs ==
  ASSUME NEW S, NEW s \in Seq(S), NEW u \in Seq(S)
  PROVE  /\ s \o u \in Seq(S) /\ Len(s \o u) >= Len(s)
         /\ \A i \in DOMAIN s : i \in DOMAIN (s \o u) /\ (s \o u)[i] = s[i]
         /\ \A i \in DOMAIN (s \o u) : i \in DOMAIN s \/ \E j \in DOMAIN u : (s \o u)[i] = u[j]
<1>1. Len(s) \in Nat /\ Len(u) \in Nat /\ DOMAIN s = 1..Len(s) /\ DOMAIN u = 1..Len(u)
      /\ s \o u \in Seq(S) /\ DOMAIN (s \o u) = 1..(Len(s) + Len(u))
      /\ Len(s \o u) = Len(s) + Len(u)
      /\ \A i \in 1..(Len(s) + Len(u)) : (s \o u)[i] = IF i <= Len(s) THEN s[i] ELSE u[i - Len(s)]
  OBVIOUS
<1>2. ASSUME NEW i \in DOMAIN (s \o u), i \notin DOMAIN s
      PROVE  \E j \in DOMAIN u : (s \o u)[i] = u[j]
  <2>1. i - Len(s) \in DOMAIN u /\ (s \o u)[i] = u[i - Len(s)]
    BY <1>1, <1>2
  <2> QED
    BY <2>1
<1> QED
  BY <1>1, <1>2

-----------------------------------------------------------------------------
(* The messages that one step takes and adds.                              *)

\* A request for x is written.
LEMMA TokensCalled ==
  ASSUME NEW w \in Seq(ToWorker), NEW n, NEW m, Tokens(w, n, m),
         NEW x \in Created, ~Awaited(w, n, m, x),
         NEW v, v = Append(w, [op |-> "create", id |-> x])
  PROVE  /\ v \in Seq(ToWorker) /\ Tokens(v, n, m)
         /\ \A y : Awaited(v, n, m, y) => Awaited(w, n, m, y) \/ y = x
<1> DEFINE e == [op |-> "create", id |-> x]
           z == Len(w) + 1
<1>1. e \in ToWorker /\ e.op = "create" /\ e.id = x
  BY DEF ToWorker
<1>2. /\ v \in Seq(ToWorker)
      /\ \A i \in DOMAIN w : i \in DOMAIN v /\ v[i] = w[i]
      /\ z \in DOMAIN v /\ v[z] = e
      /\ \A i \in DOMAIN v : i = z \/ i \in DOMAIN w
  BY <1>1, AppendIs
<1> HIDE DEF z, e
<1>3. /\ \A i \in DOMAIN w : IsCreate(w[i]) => w[i].id # x
      /\ \A i \in DOMAIN n : IsAnswer(n[i]) => n[i].id # x
      /\ \A i \in DOMAIN m : m[i] # x
  BY Zenon DEF Awaited
<1>4. \A i, j \in DOMAIN v : IsCreate(v[i]) /\ IsCreate(v[j]) /\ v[i].id = v[j].id => i = j
  BY <1>1, <1>2, <1>3 DEF Tokens
<1>5. \A i \in DOMAIN v, j \in DOMAIN n : IsCreate(v[i]) /\ IsAnswer(n[j]) => v[i].id # n[j].id
  BY <1>1, <1>2, <1>3 DEF Tokens
<1>6. \A i \in DOMAIN v, j \in DOMAIN m : IsCreate(v[i]) => v[i].id # m[j]
  BY <1>1, <1>2, <1>3 DEF Tokens
<1>7. Tokens(v, n, m)
  BY <1>4, <1>5, <1>6, Zenon DEF Tokens
<1>8. \A y : Awaited(v, n, m, y) => Awaited(w, n, m, y) \/ y = x
  BY <1>1, <1>2, Zenon DEF Awaited
<1> QED
  BY <1>2, <1>7, <1>8, Zenon

\* A request to close x is written.
LEMMA TokensClosing ==
  ASSUME NEW w \in Seq(ToWorker), NEW n, NEW m, Tokens(w, n, m), NEW x \in Created,
         NEW v, v = Append(w, [op |-> "close", id |-> x])
  PROVE  /\ v \in Seq(ToWorker) /\ Tokens(v, n, m)
         /\ \A y : Awaited(v, n, m, y) => Awaited(w, n, m, y)
<1> DEFINE e == [op |-> "close", id |-> x]
           z == Len(w) + 1
<1>1. e \in ToWorker /\ ~IsCreate(e)
  BY DEF ToWorker, IsCreate
<1>2. /\ v \in Seq(ToWorker)
      /\ z \in DOMAIN v /\ v[z] = e
      /\ \A i \in DOMAIN w : i \in DOMAIN v /\ v[i] = w[i]
      /\ \A i \in DOMAIN v : i = z \/ i \in DOMAIN w
  BY <1>1, AppendIs
<1> HIDE DEF z, e
<1>3. \A i \in DOMAIN v : IsCreate(v[i]) => i \in DOMAIN w /\ v[i] = w[i]
  BY <1>1, <1>2, Zenon
<1>4. Tokens(v, n, m)
  BY <1>3 DEF Tokens
<1>5. \A y : Awaited(v, n, m, y) => Awaited(w, n, m, y)
  BY <1>3, Zenon DEF Awaited
<1> QED
  BY <1>2, <1>4, <1>5, Zenon

\* The process answers a creation.
LEMMA TokensAnswered ==
  ASSUME NEW w \in Seq(ToWorker), NEW n \in Seq(ToNode), NEW m, Tokens(w, n, m),
         w # <<>>, IsCreate(Head(w)), NEW b \in {"accepted", "rejected"},
         NEW u, u = Append(n, Answer(b, Head(w).id))
  PROVE  /\ u \in Seq(ToNode) /\ Tokens(Tail(w), u, m)
         /\ \A y : Awaited(Tail(w), u, m, y) => Awaited(w, n, m, y)
<1> DEFINE v == Tail(w)
           e == Answer(b, Head(w).id)
           z == Len(n) + 1
<1>1. /\ Head(w) = w[1] /\ 1 \in DOMAIN w /\ w[1] \in ToWorker
      /\ \A i \in DOMAIN v : i \in Nat /\ i + 1 # 1 /\ i + 1 \in DOMAIN w /\ v[i] = w[i + 1]
  BY TailIs, Zenon
<1>2. e \in ToNode /\ IsAnswer(e) /\ e.id = w[1].id /\ IsCreate(w[1])
  BY <1>1 DEF ToNode, ToWorker, IsAnswer, Answer
<1>3. /\ u \in Seq(ToNode)
      /\ \A i \in DOMAIN n : i \in DOMAIN u /\ u[i] = n[i]
      /\ z \in DOMAIN u /\ u[z] = e
      /\ \A i \in DOMAIN u : i = z \/ i \in DOMAIN n
  BY <1>2, AppendIs
<1> HIDE DEF v, e, z
<1>4. \A i, j \in DOMAIN v : IsCreate(v[i]) /\ IsCreate(v[j]) /\ v[i].id = v[j].id => i = j
  <2> SUFFICES ASSUME NEW i \in DOMAIN v, NEW j \in DOMAIN v,
                      IsCreate(v[i]), IsCreate(v[j]), v[i].id = v[j].id
               PROVE  i = j
    BY Zenon
  <2>1. i + 1 = j + 1
    BY <1>1, Zenon DEF Tokens
  <2>2. i \in Nat /\ j \in Nat
    BY <1>1, Zenon
  <2> QED
    BY <2>1, <2>2
<1>5. \A i, j \in DOMAIN u : IsAnswer(u[i]) /\ IsAnswer(u[j]) /\ u[i].id = u[j].id => i = j
  <2>1. \A i \in DOMAIN n : IsAnswer(n[i]) => n[i].id # e.id
    BY <1>1, <1>2, ZenonT(60) DEF Tokens
  <2> QED
    BY <1>3, <2>1 DEF Tokens
<1>6. ASSUME NEW i \in DOMAIN v, IsCreate(v[i]) PROVE v[i].id # e.id
  <2>1. i + 1 \in DOMAIN w /\ v[i] = w[i + 1] /\ i + 1 # 1
    BY <1>1, Zenon
  <2> QED
    BY <1>1, <1>2, <1>6, <2>1, Zenon DEF Tokens
<1>7. \A i \in DOMAIN v, j \in DOMAIN u : IsCreate(v[i]) /\ IsAnswer(u[j]) => v[i].id # u[j].id
  BY <1>1, <1>3, <1>6 DEF Tokens
<1>8. \A i \in DOMAIN v, j \in DOMAIN m : IsCreate(v[i]) => v[i].id # m[j]
  BY <1>1 DEF Tokens
<1>9. \A i \in DOMAIN u, j \in DOMAIN m : IsAnswer(u[i]) => u[i].id # m[j]
  BY <1>1, <1>2, <1>3 DEF Tokens
<1>10. Tokens(v, u, m)
  BY <1>4, <1>5, <1>7, <1>8, <1>9, Zenon DEF Tokens
<1>11. \A y : Awaited(v, u, m, y) => Awaited(w, n, m, y)
  BY <1>1, <1>2, <1>3, Zenon DEF Awaited
<1> QED
  BY <1>3, <1>10, <1>11, Zenon DEF v

\* The process handles a closing, and announces the Consumers it closes.
LEMMA TokensClosed ==
  ASSUME NEW w \in Seq(ToWorker), NEW n \in Seq(ToNode), NEW m, Tokens(w, n, m),
         w # <<>>, NEW q \in Seq(ToNode), \A i \in DOMAIN q : ~IsAnswer(q[i])
  PROVE  /\ Tokens(Tail(w), n \o q, m)
         /\ \A y : Awaited(Tail(w), n \o q, m, y) => Awaited(w, n, m, y)
<1> DEFINE v == Tail(w)
           u == n \o q
<1>1. \A i \in DOMAIN v : i \in Nat /\ i + 1 # 1 /\ i + 1 \in DOMAIN w /\ v[i] = w[i + 1]
  BY TailIs, Zenon
<1>2. /\ \A i \in DOMAIN n : i \in DOMAIN u /\ u[i] = n[i]
      /\ \A i \in DOMAIN u : i \in DOMAIN n \/ \E j \in DOMAIN q : u[i] = q[j]
  BY ConcatIs
<1> HIDE DEF v, u
<1>3. \A i \in DOMAIN u : IsAnswer(u[i]) => i \in DOMAIN n /\ u[i] = n[i]
  BY <1>2, Zenon
<1>4. \A i, j \in DOMAIN v : IsCreate(v[i]) /\ IsCreate(v[j]) /\ v[i].id = v[j].id => i = j
  <2> SUFFICES ASSUME NEW i \in DOMAIN v, NEW j \in DOMAIN v,
                      IsCreate(v[i]), IsCreate(v[j]), v[i].id = v[j].id
               PROVE  i = j
    BY Zenon
  <2>1. i + 1 = j + 1
    BY <1>1, Zenon DEF Tokens
  <2>2. i \in Nat /\ j \in Nat
    BY <1>1, Zenon
  <2> QED
    BY <2>1, <2>2
<1>5. \A i, j \in DOMAIN u : IsAnswer(u[i]) /\ IsAnswer(u[j]) /\ u[i].id = u[j].id => i = j
  BY <1>3, Zenon DEF Tokens
<1>6. \A i \in DOMAIN v, j \in DOMAIN u : IsCreate(v[i]) /\ IsAnswer(u[j]) => v[i].id # u[j].id
  BY <1>1, <1>3 DEF Tokens
<1>7. \A i \in DOMAIN v, j \in DOMAIN m : IsCreate(v[i]) => v[i].id # m[j]
  BY <1>1 DEF Tokens
<1>8. \A i \in DOMAIN u, j \in DOMAIN m : IsAnswer(u[i]) => u[i].id # m[j]
  BY <1>3 DEF Tokens
<1>9. Tokens(v, u, m)
  BY <1>4, <1>5, <1>6, <1>7, <1>8, Zenon DEF Tokens
<1>10. \A y : Awaited(v, u, m, y) => Awaited(w, n, m, y)
  BY <1>1, <1>3, Zenon DEF Awaited
<1> QED
  BY <1>9, <1>10, Zenon DEF v, u

\* A response is read and makes a continuation ready.
LEMMA TokensAccepted ==
  ASSUME NEW w, NEW n \in Seq(ToNode), NEW m \in Seq(Created), Tokens(w, n, m),
         n # <<>>, IsAnswer(Head(n)), NEW k, k = Append(m, Head(n).id)
  PROVE  /\ k \in Seq(Created) /\ Tokens(w, Tail(n), k)
         /\ \A y : Awaited(w, Tail(n), k, y) => Awaited(w, n, m, y)
<1> DEFINE u == Tail(n)
           e == Head(n).id
           z == Len(m) + 1
<1>1. /\ Head(n) = n[1] /\ 1 \in DOMAIN n /\ n[1] \in ToNode
      /\ \A i \in DOMAIN u : i \in Nat /\ i + 1 # 1 /\ i + 1 \in DOMAIN n /\ u[i] = n[i + 1]
  BY TailIs, Zenon
<1>2. e \in Created /\ e = n[1].id /\ IsAnswer(n[1])
  BY <1>1 DEF ToNode
<1>3. /\ k \in Seq(Created)
      /\ \A i \in DOMAIN m : i \in DOMAIN k /\ k[i] = m[i]
      /\ z \in DOMAIN k /\ k[z] = e
      /\ \A i \in DOMAIN k : i = z \/ i \in DOMAIN m
  BY <1>2, AppendIs
<1> HIDE DEF u, e, z
<1>4. \A i, j \in DOMAIN u : IsAnswer(u[i]) /\ IsAnswer(u[j]) /\ u[i].id = u[j].id => i = j
  <2> SUFFICES ASSUME NEW i \in DOMAIN u, NEW j \in DOMAIN u,
                      IsAnswer(u[i]), IsAnswer(u[j]), u[i].id = u[j].id
               PROVE  i = j
    BY Zenon
  <2>1. i + 1 = j + 1
    BY <1>1, ZenonT(60) DEF Tokens
  <2>2. i \in Nat /\ j \in Nat
    BY <1>1, Zenon
  <2> QED
    BY <2>1, <2>2
<1>5. \A i \in DOMAIN m : m[i] # e
  BY <1>1, <1>2, Zenon DEF Tokens
<1>6. \A i, j \in DOMAIN k : k[i] = k[j] => i = j
  BY <1>3, <1>5 DEF Tokens
<1>7. \A i \in DOMAIN w, j \in DOMAIN u : IsCreate(w[i]) /\ IsAnswer(u[j]) => w[i].id # u[j].id
  BY <1>1, Zenon DEF Tokens
<1>8. \A i \in DOMAIN w, j \in DOMAIN k : IsCreate(w[i]) => w[i].id # k[j]
  BY <1>1, <1>2, <1>3 DEF Tokens
<1>9. ASSUME NEW i \in DOMAIN u, IsAnswer(u[i]) PROVE u[i].id # e
  <2>1. i + 1 \in DOMAIN n /\ u[i] = n[i + 1] /\ i + 1 # 1
    BY <1>1, Zenon
  <2> QED
    BY <1>1, <1>2, <1>9, <2>1 DEF Tokens
<1>10. \A i \in DOMAIN u, j \in DOMAIN k : IsAnswer(u[i]) => u[i].id # k[j]
  <2>1. \A i \in DOMAIN u, j \in DOMAIN m : IsAnswer(u[i]) => u[i].id # m[j]
    BY <1>1 DEF Tokens
  <2> QED
    BY <1>3, <1>9, <2>1
<1>11. Tokens(w, u, k)
  BY <1>4, <1>6, <1>7, <1>8, <1>10, Zenon DEF Tokens
<1>12. \A y : Awaited(w, u, k, y) => Awaited(w, n, m, y)
  BY <1>1, <1>2, <1>3 DEF Awaited
<1> QED
  BY <1>3, <1>11, <1>12, Zenon DEF u

\* A message is read that makes nothing ready.
LEMMA TokensRead ==
  ASSUME NEW w, NEW n \in Seq(ToNode), NEW m, Tokens(w, n, m), n # <<>>
  PROVE  /\ Tokens(w, Tail(n), m)
         /\ \A y : Awaited(w, Tail(n), m, y) => Awaited(w, n, m, y)
         /\ IsAnswer(Head(n)) => /\ ~Awaited(w, Tail(n), m, Head(n).id)
                                 /\ Awaited(w, n, m, Head(n).id)
<1> DEFINE u == Tail(n)
           e == Head(n).id
<1>1. /\ Head(n) = n[1] /\ 1 \in DOMAIN n /\ n[1] \in ToNode
      /\ \A i \in DOMAIN u : i \in Nat /\ i + 1 # 1 /\ i + 1 \in DOMAIN n /\ u[i] = n[i + 1]
  BY TailIs, Zenon
<1>2. e = n[1].id
  BY <1>1
<1> HIDE DEF u, e
<1>4. \A i, j \in DOMAIN u : IsAnswer(u[i]) /\ IsAnswer(u[j]) /\ u[i].id = u[j].id => i = j
  <2> SUFFICES ASSUME NEW i \in DOMAIN u, NEW j \in DOMAIN u,
                      IsAnswer(u[i]), IsAnswer(u[j]), u[i].id = u[j].id
               PROVE  i = j
    BY Zenon
  <2>1. i + 1 = j + 1
    BY <1>1, ZenonT(60) DEF Tokens
  <2>2. i \in Nat /\ j \in Nat
    BY <1>1, Zenon
  <2> QED
    BY <2>1, <2>2
<1>5. \A i \in DOMAIN w, j \in DOMAIN u : IsCreate(w[i]) /\ IsAnswer(u[j]) => w[i].id # u[j].id
  BY <1>1, Zenon DEF Tokens
<1>6. \A i \in DOMAIN u, j \in DOMAIN m : IsAnswer(u[i]) => u[i].id # m[j]
  BY <1>1 DEF Tokens
<1>7. Tokens(w, u, m)
  BY <1>4, <1>5, <1>6, Zenon DEF Tokens
<1>8. \A y : Awaited(w, u, m, y) => Awaited(w, n, m, y)
  BY <1>1 DEF Awaited
<1>9. ASSUME IsAnswer(Head(n)) PROVE ~Awaited(w, u, m, e) /\ Awaited(w, n, m, e)
  <2>1. ASSUME NEW i \in DOMAIN u, IsAnswer(u[i]) PROVE u[i].id # e
    <3>1. i + 1 \in DOMAIN n /\ u[i] = n[i + 1] /\ i + 1 # 1
      BY <1>1, Zenon
    <3> QED
      BY <1>1, <1>2, <1>9, <2>1, <3>1 DEF Tokens
  <2>2. \A i \in DOMAIN w : IsCreate(w[i]) => w[i].id # e
    BY <1>1, <1>2, <1>9, Zenon DEF Tokens
  <2>3. \A i \in DOMAIN m : m[i] # e
    BY <1>1, <1>2, <1>9, Zenon DEF Tokens
  <2>4. Awaited(w, n, m, e)
    BY <1>1, <1>2, <1>9, Zenon DEF Awaited
  <2> QED
    BY <2>1, <2>2, <2>3, <2>4, Zenon DEF Awaited
<1> QED
  BY <1>7, <1>8, <1>9, Zenon DEF u, e

\* A continuation runs.
LEMMA TokensContinued ==
  ASSUME NEW w, NEW n, NEW m \in Seq(Created), Tokens(w, n, m), m # <<>>
  PROVE  /\ Tokens(w, n, Tail(m))
         /\ \A y : Awaited(w, n, Tail(m), y) => Awaited(w, n, m, y) /\ y # Head(m)
         /\ \A i \in DOMAIN Tail(m) : Tail(m)[i] # Head(m)
<1> DEFINE k == Tail(m)
<1>1. /\ Head(m) = m[1] /\ 1 \in DOMAIN m
      /\ \A i \in DOMAIN k : i \in Nat /\ i + 1 # 1 /\ i + 1 \in DOMAIN m /\ k[i] = m[i + 1]
  BY TailIs, Zenon
<1> HIDE DEF k
<1>2. \A i, j \in DOMAIN k : k[i] = k[j] => i = j
  <2> SUFFICES ASSUME NEW i \in DOMAIN k, NEW j \in DOMAIN k, k[i] = k[j]
               PROVE  i = j
    BY Zenon
  <2>1. i + 1 = j + 1
    BY <1>1 DEF Tokens
  <2>2. i \in Nat /\ j \in Nat
    BY <1>1, Zenon
  <2> QED
    BY <2>1, <2>2
<1>3. Tokens(w, n, k)
  BY <1>1, <1>2 DEF Tokens
<1>4. ASSUME NEW i \in DOMAIN k PROVE k[i] # Head(m)
  <2>1. i + 1 \in DOMAIN m /\ k[i] = m[i + 1] /\ i + 1 # 1
    BY <1>1, Zenon
  <2> QED
    BY <1>1, <2>1, Zenon DEF Tokens
<1>5. /\ \A i \in DOMAIN w : IsCreate(w[i]) => w[i].id # Head(m)
      /\ \A i \in DOMAIN n : IsAnswer(n[i]) => n[i].id # Head(m)
  BY <1>1 DEF Tokens
<1>6. \A y : Awaited(w, n, k, y) => Awaited(w, n, m, y) /\ y # Head(m)
  BY <1>1, <1>4, <1>5 DEF Awaited
<1> QED
  BY <1>3, <1>4, <1>6, Zenon DEF k

\* The requests are dropped.
LEMMA TokensDropped ==
  ASSUME NEW w, NEW n, NEW m, Tokens(w, n, m)
  PROVE  /\ Tokens(<<>>, n, m)
         /\ \A y : Awaited(<<>>, n, m, y) => Awaited(w, n, m, y)
<1>1. DOMAIN <<>> = {}
  OBVIOUS
<1> QED
  BY <1>1, Zenon DEF Tokens, Awaited

-----------------------------------------------------------------------------
(* Which creations are pending.                                            *)

\* Fewer messages, fewer calls that wait.
LEMMA WaitingFewer ==
  ASSUME NEW l, NEW w, NEW n, NEW m, Waiting(l, w, n, m), NEW v, NEW u, NEW k,
         \A y : Awaited(v, u, k, y) => Awaited(w, n, m, y),
         \A i \in DOMAIN k : l.status[k[i]] = "creating"
  PROVE  Waiting(l, v, u, k)
BY Zenon DEF Waiting

\* Calls wait for the same answers when only objects that are not pending change.
LEMMA WaitingSame ==
  ASSUME NEW l, NEW w, NEW n, NEW m \in Seq(Created), Waiting(l, w, n, m), NEW k,
         k.status[Worker] = "open" => l.status[Worker] = "open",
         \A y \in Created : Awaited(w, n, m, y) => k.status[y] = l.status[y]
  PROVE  Waiting(k, w, n, m)
<1>1. \A i \in DOMAIN m : m[i] \in Created
  OBVIOUS
<1>2. \A i \in DOMAIN m : Awaited(w, n, m, m[i])
  BY Zenon DEF Awaited
<1> QED
  BY <1>1, <1>2, Zenon DEF Waiting

\* Closing touches no creation that is pending.
LEMMA WaitingShuts ==
  ASSUME NEW l, NEW k, NEW a, NEW S, Shuts(l, k, a, S),
         NEW w, NEW n, NEW m \in Seq(Created), Waiting(l, w, n, m)
  PROVE  Waiting(k, w, n, m)
<1>1. Created \subseteq Objects /\ Worker \in Objects
  BY Kinds, Zenon
<1>2. \A x \in Objects : k.status[x] = IF x \in S THEN "closed" ELSE l.status[x]
  BY Zenon DEF Shuts
<1>3. \A x \in S : l.status[x] = "open"
  BY Zenon DEF Shuts, OpenIn
<1>4. k.status[Worker] = "open" => l.status[Worker] = "open"
  BY <1>1, <1>2
<1>5. ASSUME NEW y \in Created, Awaited(w, n, m, y) PROVE k.status[y] = l.status[y]
  <2>1. l.status[y] # "open"
    BY <1>5 DEF Waiting
  <2> QED
    BY <1>1, <1>2, <1>3, <2>1, Zenon
<1> QED
  BY <1>4, <1>5, WaitingSame, Zenon

-----------------------------------------------------------------------------
(* KnownInv is kept by each step.                                          *)

\* The arguments of a call for x, at the time of the call.
GoodArgs(x, a) ==
  /\ a \in [on : Owners, server : WebRtcServers \cup {Nobody}, source : Sources \cup {Nobody}]
  /\ x \in WebRtcServers \cup Routers => a.on = Worker
  /\ x \in Transports \cup Observers => a.on \in Routers
  /\ x \in Sources \cup Sinks => a.on \in Transports
  /\ x \notin Transports => a.server = Nobody
  /\ a.server # Nobody => HasRef(a.server)

\* Creating: the request is written, or thrown away with the Channel closed.
LEMMA CallKnown ==
  ASSUME KnownInv, NEW x \in Created, NEW a, GoodArgs(x, a), Call(x, a)
  PROVE  KnownInv'
<1>1. /\ Sound(lib, args) /\ MessagesTyped /\ Tokens(toWorker, toNode, micro)
      /\ Waiting(lib, toWorker, toNode, micro)
  BY Zenon DEF KnownInv
<1>2. /\ lib \in Library /\ args \in Arguments /\ x \in Objects /\ Created \subseteq Objects
      /\ Worker \in Objects /\ Worker # x /\ Owners \subseteq Objects /\ Worker \notin Created
  BY <1>1, Kinds DEF Sound, Typed
<1>3. lib.status[x] = "none" /\ HasRef(a.on) /\ args' = [args EXCEPT ![x] = a]
      /\ UNCHANGED <<live, toNode, left, micro, immediates>>
  BY Zenon DEF Call
<1>4. PICK e \in {"creating", "rejected"} :
        /\ lib' = [lib EXCEPT !.status[x] = e]
        /\ \/ e = "creating" /\ IsOpen(Worker)
              /\ toWorker' = Append(toWorker, [op |-> "create", id |-> x])
           \/ e = "rejected" /\ ~IsOpen(Worker) /\ toWorker' = toWorker
  BY Zenon DEF Call
<1>5. lib' \in Library /\ lib'.status = [y \in Objects |-> IF y = x THEN e ELSE lib.status[y]]
  BY <1>2, <1>4 DEF Library
<1>6. args'[x] = a
  BY <1>2, <1>3 DEF Arguments
<1>7. Placed(lib', args', x)
  <2>1. a.on \in Owners
    BY DEF GoodArgs
  <2>2. a.on # x /\ Ref(lib', a.on)
    BY <1>2, <1>3, <1>5, <2>1 DEF HasRef, Ref
  <2> QED
    BY <1>6, <2>2, Zenon DEF Placed, GoodArgs
<1>8. Sound(lib', args')
  <2>1. a \in [on : Owners, server : WebRtcServers \cup {Nobody}, source : Sources \cup {Nobody}]
    BY Zenon DEF GoodArgs
  <2> QED
    BY <1>1, <1>3, <1>4, <1>7, <2>1, CallSound, Zenon
<1>9. ~Awaited(toWorker, toNode, micro, x)
  BY <1>1, <1>3 DEF Waiting
<1>10. /\ toWorker' \in Seq(ToWorker) /\ Tokens(toWorker', toNode, micro)
       /\ \A y : Awaited(toWorker', toNode, micro, y) =>
            Awaited(toWorker, toNode, micro, y) \/ (y = x /\ e = "creating")
  <2>1. CASE toWorker' = toWorker
    BY <1>1, <2>1, Zenon DEF MessagesTyped
  <2>2. CASE e = "creating" /\ toWorker' = Append(toWorker, [op |-> "create", id |-> x])
    <3>1. toWorker \in Seq(ToWorker)
      BY <1>1, Zenon DEF MessagesTyped
    <3> QED
      BY <1>1, <1>9, <2>2, <3>1, TokensCalled, ZenonT(60)
  <2> QED
    BY <1>4, <2>1, <2>2, Zenon
<1>11. MessagesTyped'
  BY <1>1, <1>3, <1>10, Zenon DEF MessagesTyped
<1>12. Waiting(lib', toWorker', toNode, micro)
  <2>1. micro \in Seq(Created) /\ \A i \in DOMAIN micro : micro[i] \in Created
    BY <1>1 DEF MessagesTyped
  <2>2. \A y \in Objects : lib'.status[y] = IF y = x THEN e ELSE lib.status[y]
    BY <1>5, Zenon
  <2>3. ASSUME NEW y \in Created, Awaited(toWorker', toNode, micro, y)
        PROVE  \/ lib'.status[y] = "creating"
               \/ lib'.status[y] = "rejected" /\ lib'.status[Worker] # "open"
    <3>1. CASE y = x /\ e = "creating"
      BY <1>2, <2>2, <3>1, Zenon
    <3>2. CASE Awaited(toWorker, toNode, micro, y)
      <4>1. y # x
        BY <1>9, <3>2, Zenon
      <4>2. \/ lib.status[y] = "creating"
            \/ lib.status[y] = "rejected" /\ lib.status[Worker] # "open"
        BY <1>1, <3>2, Zenon DEF Waiting
      <4> QED
        BY <1>2, <2>2, <4>1, <4>2, Zenon
    <3> QED
      BY <1>10, <2>3, <3>1, <3>2, Zenon
  <2>4. ASSUME NEW i \in DOMAIN micro PROVE lib'.status[micro[i]] = "creating"
    <3>1. lib.status[micro[i]] = "creating" /\ micro[i] \in Created
      BY <1>1, <2>1, Zenon DEF Waiting
    <3>2. micro[i] # x
      BY <1>3, <3>1
    <3> QED
      BY <1>2, <2>2, <3>1, <3>2, Zenon
  <2> QED
    BY <2>3, <2>4, Zenon DEF Waiting
<1>13. toNode' = toNode /\ micro' = micro
  BY <1>3, Zenon
<1> QED
  BY <1>8, <1>10, <1>11, <1>12, <1>13 DEF KnownInv

\* Closing an object by its method.
LEMMA CloseKnown ==
  ASSUME KnownInv, NEW x \in Created, NEW l, NEW S, Shuts(lib, l, args, S), Close(x, l)
  PROVE  KnownInv'
<1>1. /\ Sound(lib, args) /\ MessagesTyped /\ Tokens(toWorker, toNode, micro)
      /\ Waiting(lib, toWorker, toNode, micro)
  BY Zenon DEF KnownInv
<1>2. /\ lib' = l /\ args' = args /\ toNode' = toNode /\ micro' = micro
      /\ UNCHANGED <<live, left, immediates>>
      /\ toWorker' = toWorker \/ toWorker' = Append(toWorker, [op |-> "close", id |-> x])
  BY Zenon DEF Close
<1>3. Sound(l, args)
  BY <1>1, ShutsSound, Zenon
<1>4. toWorker \in Seq(ToWorker) /\ micro \in Seq(Created)
  BY <1>1, Zenon DEF MessagesTyped
<1>5. Waiting(l, toWorker, toNode, micro)
  BY <1>1, <1>4, WaitingShuts, Zenon
<1>6. /\ toWorker' \in Seq(ToWorker) /\ Tokens(toWorker', toNode, micro)
      /\ \A y : Awaited(toWorker', toNode, micro, y) => Awaited(toWorker, toNode, micro, y)
  <2>1. CASE toWorker' = toWorker
    BY <1>1, <1>4, <2>1, Zenon
  <2>2. CASE toWorker' = Append(toWorker, [op |-> "close", id |-> x])
    BY <1>1, <1>4, <2>2, TokensClosing, Zenon
  <2> QED
    BY <1>2, <2>1, <2>2, Zenon
<1>7. Waiting(l, toWorker', toNode, micro)
  BY <1>5, <1>6, Zenon DEF Waiting
<1>8. MessagesTyped'
  BY <1>1, <1>2, <1>6, Zenon DEF MessagesTyped
<1> QED
  BY <1>2, <1>3, <1>6, <1>7, <1>8 DEF KnownInv

\* worker.close() and the 'exit' event.
LEMMA WorkerDownKnown ==
  ASSUME KnownInv, IsOpen(Worker), lib' = WorkerDown(lib), toWorker' = <<>>,
         live' \subseteq live, UNCHANGED <<args, toNode, left, micro, immediates>>
  PROVE  KnownInv'
<1>1. /\ Sound(lib, args) /\ MessagesTyped /\ Tokens(toWorker, toNode, micro)
      /\ Waiting(lib, toWorker, toNode, micro)
  BY Zenon DEF KnownInv
<1>2. lib.status[Worker] = "open"
  BY Zenon DEF IsOpen
<1>3. /\ Sound(lib', args) /\ lib'.status[Worker] = "closed"
      /\ \A x \in Created : lib.status[x] = "creating" =>
           lib'.status[x] = IF x \in Range(micro) THEN "creating" ELSE "rejected"
  BY <1>1, <1>2, WorkerDownSound, Zenon
<1>4. /\ Tokens(<<>>, toNode, micro)
      /\ \A y : Awaited(<<>>, toNode, micro, y) => Awaited(toWorker, toNode, micro, y)
  BY <1>1, TokensDropped, Zenon
<1>5. MessagesTyped'
  <2>1. <<>> \in Seq(ToWorker)
    OBVIOUS
  <2> QED
    BY <1>1, <2>1, Zenon DEF MessagesTyped
<1>6. Waiting(lib', <<>>, toNode, micro)
  <2>1. \A x \in Created : Awaited(toWorker, toNode, micro, x) => lib.status[x] = "creating"
    BY <1>1, <1>2, Zenon DEF Waiting
  <2>2. ASSUME NEW x \in Created, Awaited(<<>>, toNode, micro, x)
        PROVE  lib'.status[x] \in {"creating", "rejected"} /\ lib'.status[Worker] # "open"
    BY <1>3, <1>4, <2>1, <2>2
  <2>3. ASSUME NEW i \in DOMAIN micro PROVE lib'.status[micro[i]] = "creating"
    <3>1. lib.status[micro[i]] = "creating"
      BY <1>1, Zenon DEF Waiting
    <3>2. micro[i] \in Created /\ micro[i] \in Range(micro)
      BY <1>1 DEF MessagesTyped, Range
    <3> QED
      BY <1>3, <3>1, <3>2, Zenon
  <2> QED
    BY <2>2, <2>3, Zenon DEF Waiting
<1> QED
  BY <1>3, <1>4, <1>5, <1>6 DEF KnownInv

\* A message is read.
LEMMA ReadKnown ==
  ASSUME KnownInv, Read
  PROVE  KnownInv'
<1> DEFINE c == Head(toNode)
           u == Tail(toNode)
<1>1. /\ Sound(lib, args) /\ MessagesTyped /\ Tokens(toWorker, toNode, micro)
      /\ Waiting(lib, toWorker, toNode, micro)
  BY Zenon DEF KnownInv
<1>2. /\ toWorker \in Seq(ToWorker) /\ toNode \in Seq(ToNode) /\ micro \in Seq(Created)
      /\ immediates \in Seq(Created) /\ left \in 0..Len(toNode) /\ live \subseteq Objects
  BY <1>1, Zenon DEF MessagesTyped
<1>3. /\ \/ NextCallback /\ \E n \in 1..Len(toNode) : left' = n - 1
         \/ left > 0 /\ left' = left - 1
      /\ Process(c) /\ toNode' = u /\ UNCHANGED <<args, toWorker, live>>
  BY Zenon DEF Read
<1>4. toNode # <<>> /\ left' \in 0..(Len(toNode) - 1)
  BY <1>2, <1>3
<1>5. u \in Seq(ToNode) /\ Len(u) = Len(toNode) - 1 /\ c \in ToNode
  BY <1>2, <1>4
<1>6. c.id \in Created /\ c.id # Worker /\ c.id \in Objects /\ Worker \in Objects /\ Created \subseteq Objects
  BY <1>5, Kinds DEF ToNode
<1>7. /\ Tokens(toWorker, u, micro)
      /\ \A y : Awaited(toWorker, u, micro, y) => Awaited(toWorker, toNode, micro, y)
      /\ IsAnswer(c) => /\ ~Awaited(toWorker, u, micro, c.id)
                        /\ Awaited(toWorker, toNode, micro, c.id)
  BY <1>1, <1>2, <1>4, TokensRead, Zenon
<1>8. Waiting(lib, toWorker, u, micro)
  BY <1>1, <1>7, Zenon DEF Waiting
<1> HIDE DEF c, u
<1>9. ASSUME micro' \in Seq(Created), immediates' \in Seq(Created) PROVE MessagesTyped'
  BY <1>2, <1>3, <1>4, <1>5, <1>9 DEF MessagesTyped
<1>10. CASE lib' = lib /\ micro' = micro /\ immediates' \in Seq(Created)
  <2>1. MessagesTyped'
    BY <1>2, <1>9, <1>10, Zenon
  <2> QED
    BY <1>1, <1>3, <1>7, <1>8, <1>10, <2>1 DEF KnownInv
<1>11. CASE /\ c.op = "accepted" /\ Pending(c.id) /\ micro' = Append(micro, c.id)
            /\ UNCHANGED <<lib, immediates>>
  <2>1. IsAnswer(c)
    BY <1>11 DEF IsAnswer
  <2>2. /\ micro' \in Seq(Created) /\ Tokens(toWorker, u, micro')
        /\ \A y : Awaited(toWorker, u, micro', y) => Awaited(toWorker, toNode, micro, y)
    BY <1>1, <1>2, <1>4, <1>11, <2>1, TokensAccepted, Zenon DEF c, u
  <2>3. \A i \in DOMAIN micro' : lib.status[micro'[i]] = "creating"
    <3>1. \A i \in DOMAIN micro : lib.status[micro[i]] = "creating"
      BY <1>1, Zenon DEF Waiting
    <3>2. lib.status[c.id] = "creating"
      BY <1>11, Zenon DEF Pending
    <3>3. /\ \A i \in DOMAIN micro : i \in DOMAIN micro' /\ micro'[i] = micro[i]
          /\ micro'[Len(micro) + 1] = c.id
          /\ \A i \in DOMAIN micro' : i = Len(micro) + 1 \/ i \in DOMAIN micro
      BY <1>2, <1>6, <1>11, AppendIs
    <3> QED
      BY <3>1, <3>2, <3>3, Zenon
  <2>4. Waiting(lib, toWorker, u, micro')
    BY <1>1, <2>2, <2>3, WaitingFewer, Zenon
  <2>5. MessagesTyped'
    BY <1>2, <1>9, <1>11, <2>2, Zenon
  <2> QED
    BY <1>1, <1>3, <1>11, <2>2, <2>4, <2>5 DEF KnownInv
<1>12. CASE /\ c.op = "rejected" /\ Pending(c.id) /\ lib' = [lib EXCEPT !.status[c.id] = "rejected"]
            /\ UNCHANGED <<micro, immediates>>
  <2>1. lib \in Library /\ lib.status[c.id] = "creating"
    BY <1>1, <1>12, Zenon DEF Sound, Typed, Pending
  <2>2. /\ lib' \in Library
        /\ lib'.held = lib.held /\ lib'.known = lib.known /\ lib'.served = lib.served
        /\ lib'.status = [y \in Objects |-> IF y = c.id THEN "rejected" ELSE lib.status[y]]
    BY <1>6, <1>12, <2>1 DEF Library
  <2>3. Rejects(lib, lib')
    BY <2>1, <2>2, Zenon DEF Rejects
  <2>4. Sound(lib', args)
    BY <1>1, <2>3, RejectsSound, Zenon
  <2>5. ~Awaited(toWorker, u, micro, c.id)
    BY <1>7, <1>12 DEF IsAnswer
  <2>6. \A y \in Created : Awaited(toWorker, u, micro, y) => lib'.status[y] = lib.status[y]
    BY <1>6, <2>2, <2>5, Zenon
  <2>7. lib'.status[Worker] = "open" => lib.status[Worker] = "open"
    BY <1>6, <2>2, Zenon
  <2>8. Waiting(lib', toWorker, u, micro)
    BY <1>2, <1>8, <2>6, <2>7, WaitingSame, Zenon
  <2>9. MessagesTyped'
    BY <1>2, <1>9, <1>12, Zenon
  <2> QED
    BY <1>3, <1>7, <1>12, <2>4, <2>8, <2>9 DEF KnownInv
<1>13. CASE c.op = "producerclose" /\ immediates' = Append(immediates, c.id) /\ UNCHANGED <<lib, micro>>
  <2>1. immediates' \in Seq(Created)
    BY <1>2, <1>6, <1>13
  <2> QED
    BY <1>10, <1>13, <2>1, Zenon
<1> QED
  BY <1>2, <1>3, <1>10, <1>11, <1>12, <1>13, Zenon DEF Process

\* A creation goes on.
LEMMA ContinueKnown ==
  ASSUME KnownInv, Continue
  PROVE  KnownInv'
<1> DEFINE x == Head(micro)
<1>1. /\ Sound(lib, args) /\ MessagesTyped /\ Tokens(toWorker, toNode, micro)
      /\ Waiting(lib, toWorker, toNode, micro)
  BY Zenon DEF KnownInv
<1>2. /\ micro # <<>> /\ lib' = Register(lib, x) /\ micro' = Tail(micro)
      /\ UNCHANGED <<args, toWorker, live, toNode, left, immediates>>
  BY Zenon DEF Continue
<1>3. micro \in Seq(Created) /\ x \in Created /\ Tail(micro) \in Seq(Created) /\ x = micro[1]
      /\ 1 \in DOMAIN micro
  BY <1>1, <1>2 DEF MessagesTyped
<1>4. lib.status[x] = "creating"
  BY <1>1, <1>3 DEF Waiting
<1>5. Sound(lib', args) /\ lib'.status = [lib.status EXCEPT ![x] = "open"]
  BY <1>1, <1>2, <1>3, <1>4, RegisterSound, Zenon
<1>6. /\ Tokens(toWorker, toNode, micro')
      /\ \A y : Awaited(toWorker, toNode, micro', y) => Awaited(toWorker, toNode, micro, y) /\ y # x
      /\ \A i \in DOMAIN micro' : micro'[i] # x
  BY <1>1, <1>2, <1>3, TokensContinued, Zenon
<1> HIDE DEF x
<1>7. \A y \in Objects : y # x => lib'.status[y] = lib.status[y]
  <2>1. lib.status \in [Objects -> {"none", "creating", "rejected", "open", "closed"}]
    BY <1>1 DEF Sound, Typed, Library
  <2> QED
    BY <1>5, <2>1, Zenon
<1>8. Waiting(lib, toWorker, toNode, micro')
  <2>1. \A i \in DOMAIN micro' : lib.status[micro'[i]] = "creating"
    <3>1. \A i \in DOMAIN micro' : i + 1 \in DOMAIN micro /\ micro'[i] = micro[i + 1]
      BY <1>2, <1>3, TailIs, Zenon
    <3> QED
      BY <1>1, <3>1 DEF Waiting
  <2> QED
    BY <1>1, <1>6, <2>1, WaitingFewer, Zenon
<1>9. Waiting(lib', toWorker, toNode, micro')
  <2>1. Worker \in Objects /\ Worker # x /\ Created \subseteq Objects
    BY <1>3, Kinds
  <2>2. micro' \in Seq(Created)
    BY <1>2, <1>3, Zenon
  <2>3. lib'.status[Worker] = lib.status[Worker]
    BY <1>7, <2>1, Zenon
  <2>4. \A y \in Created : Awaited(toWorker, toNode, micro', y) => lib'.status[y] = lib.status[y]
    BY <1>6, <1>7, <2>1, Zenon
  <2> QED
    BY <1>8, <2>2, <2>3, <2>4, WaitingSame, Zenon
<1>10. MessagesTyped'
  BY <1>1, <1>2, <1>3, Zenon DEF MessagesTyped
<1> QED
  BY <1>2, <1>5, <1>6, <1>9, <1>10 DEF KnownInv

\* An event is emitted.
LEMMA EmitKnown ==
  ASSUME KnownInv, NEW D \in SUBSET Sinks, Emit(D)
  PROVE  KnownInv'
<1> DEFINE c == Head(immediates)
<1>1. /\ Sound(lib, args) /\ MessagesTyped /\ Tokens(toWorker, toNode, micro)
      /\ Waiting(lib, toWorker, toNode, micro) /\ micro \in Seq(Created)
  BY Zenon DEF KnownInv, MessagesTyped
<1>2. /\ immediates # <<>> /\ immediates' = Tail(immediates) /\ c \in D
      /\ lib' = IF IsOpen(c) THEN LeafClose(lib, c) ELSE lib
      /\ UNCHANGED <<args, toWorker, live, toNode, left, micro>>
  BY Zenon DEF Emit
<1>3. MessagesTyped'
  <2>1. immediates' \in Seq(Created)
    BY <1>1, <1>2 DEF MessagesTyped
  <2> QED
    BY <1>1, <1>2, <2>1, Zenon DEF MessagesTyped
<1> HIDE DEF c
<1>4. Sound(lib', args) /\ Waiting(lib', toWorker, toNode, micro)
  <2>1. CASE lib' = lib
    BY <1>1, <2>1
  <2>2. CASE IsOpen(c) /\ lib' = LeafClose(lib, c)
    <3>1. c \in Sinks \cup Observers /\ lib.status[c] = "open"
      BY <1>2, <2>2, Zenon DEF IsOpen
    <3>2. Shuts(lib, lib', args, {c})
      BY <1>1, <2>2, <3>1, LeafShuts, Zenon
    <3> QED
      BY <1>1, <3>2, ShutsSound, WaitingShuts, Zenon
  <2> QED
    BY <1>2, <2>1, <2>2, Zenon
<1> QED
  BY <1>1, <1>2, <1>3, <1>4 DEF KnownInv

\* The Consumers that a closing in the process is announced to.
Announcements(order) == [i \in DOMAIN order |-> Answer("producerclose", order[i])]

\* A closing is announced to Consumers that are deleted with it.
LEMMA AnnouncementsAre ==
  ASSUME NEW x, live \subseteq Objects,
         NEW order \in Injection(1..Cardinality(Orphans(x)), Orphans(x))
  PROVE  /\ Announcements(order) \in Seq(ToNode) /\ Orphans(x) \subseteq live \cap Sinks
         /\ \A i \in DOMAIN Announcements(order) :
              \E c \in Orphans(x) : Announcements(order)[i] = Answer("producerclose", c)
<1> DEFINE z == Cardinality(Orphans(x))
<1>1. Orphans(x) \subseteq live \cap Sinks /\ Orphans(x) \subseteq Sinks
  BY DEF Orphans
<1>2. IsFiniteSet(Orphans(x))
  BY <1>1, KindsAssumption, FS_Subset, Zenon
<1>3. z \in Nat
  BY <1>2, FS_CardinalityType
<1>4. DOMAIN order = 1..z /\ \A i \in 1..z : order[i] \in Orphans(x)
  BY Zenon DEF Injection
<1>5. \A c \in Orphans(x) : Answer("producerclose", c) \in ToNode
  BY <1>1, Kinds DEF Answer, ToNode
<1> HIDE DEF z
<1>6. /\ Announcements(order) \in [1..z -> ToNode] /\ DOMAIN Announcements(order) = 1..z
      /\ \A i \in 1..z : \E c \in Orphans(x) : Announcements(order)[i] = Answer("producerclose", c)
  BY <1>4, <1>5, Zenon DEF Announcements
<1>7. Announcements(order) \in Seq(ToNode)
  BY <1>3, <1>6
<1> QED
  BY <1>1, <1>6, <1>7, Zenon

\* The process handles a request.
LEMMA WorkerHandlesKnown ==
  ASSUME KnownInv, WorkerHandles
  PROVE  KnownInv'
<1> DEFINE m == Head(toWorker)
<1>1. /\ Sound(lib, args) /\ MessagesTyped /\ Tokens(toWorker, toNode, micro)
      /\ Waiting(lib, toWorker, toNode, micro)
  BY Zenon DEF KnownInv
<1>2. /\ toWorker \in Seq(ToWorker) /\ toNode \in Seq(ToNode) /\ micro \in Seq(Created)
      /\ immediates \in Seq(Created) /\ left \in 0..Len(toNode) /\ live \subseteq Objects
  BY <1>1, Zenon DEF MessagesTyped
<1>3. /\ toWorker # <<>> /\ toWorker' = Tail(toWorker)
      /\ UNCHANGED <<lib, args, left, micro, immediates>>
      /\ \/ m.op = "create" /\ HandleCreate(m.id)
         \/ m.op = "close" /\ HandleClose(m.id)
  BY Zenon DEF WorkerHandles
<1>4. toWorker' \in Seq(ToWorker) /\ m \in ToWorker /\ m.id \in Objects
  <2>1. toWorker' \in Seq(ToWorker) /\ m \in ToWorker
    BY <1>2, <1>3, TailIs
  <2>2. m.id \in Created /\ Created \subseteq Objects
    BY <2>1, Kinds DEF ToWorker
  <2> QED
    BY <2>1, <2>2, Zenon
<1>5. SUFFICES /\ toNode' \in Seq(ToNode) /\ Len(toNode') >= Len(toNode) /\ live' \subseteq Objects
               /\ Tokens(toWorker', toNode', micro)
               /\ \A y : Awaited(toWorker', toNode', micro, y) => Awaited(toWorker, toNode, micro, y)
  <2>1. left' \in 0..Len(toNode')
    BY <1>2, <1>3, <1>5
  <2>2. MessagesTyped'
    BY <1>2, <1>3, <1>4, <1>5, <2>1, Zenon DEF MessagesTyped
  <2>3. Waiting(lib, toWorker', toNode', micro)
    BY <1>1, <1>5, Zenon DEF Waiting
  <2> QED
    BY <1>1, <1>3, <1>5, <2>2, <2>3 DEF KnownInv
<1>6. CASE m.op = "create" /\ HandleCreate(m.id)
  <2>1. PICK b \in {"accepted", "rejected"} :
           toNode' = Append(toNode, Answer(b, m.id)) /\ live' \subseteq Objects
    BY <1>2, <1>4, <1>6, Zenon DEF HandleCreate
  <2>2. IsCreate(m)
    BY <1>6 DEF IsCreate
  <2>3. /\ toNode' \in Seq(ToNode) /\ Tokens(toWorker', toNode', micro)
        /\ \A y : Awaited(toWorker', toNode', micro, y) => Awaited(toWorker, toNode, micro, y)
    BY <1>1, <1>2, <1>3, <2>1, <2>2, TokensAnswered, Zenon
  <2>4. Len(toNode') >= Len(toNode)
    BY <1>2, <2>1
  <2> QED
    BY <2>1, <2>3, <2>4, Zenon
<1>7. CASE m.op = "close" /\ HandleClose(m.id)
  <2>1. PICK q \in Seq(ToNode) : /\ toNode' = toNode \o q /\ \A i \in DOMAIN q : ~IsAnswer(q[i])
                                 /\ live' \subseteq Objects
    <3>1. ASSUME live' = live \ (Below({m.id}) \cup Orphans(m.id)),
                 NEW order \in Injection(1..Cardinality(Orphans(m.id)), Orphans(m.id)),
                 toNode' = toNode \o Announcements(order)
          PROVE  \E q \in Seq(ToNode) : /\ toNode' = toNode \o q /\ \A i \in DOMAIN q : ~IsAnswer(q[i])
                                        /\ live' \subseteq Objects
      <4>1. /\ Announcements(order) \in Seq(ToNode)
            /\ \A i \in DOMAIN Announcements(order) :
                 \E c \in Orphans(m.id) : Announcements(order)[i] = Answer("producerclose", c)
        BY <1>2, AnnouncementsAre, Zenon
      <4>2. \A c : ~IsAnswer(Answer("producerclose", c))
        BY DEF IsAnswer, Answer
      <4> QED
        BY <1>2, <3>1, <4>1, <4>2, Zenon
    <3>2. CASE UNCHANGED <<live, toNode>>
      <4>1. <<>> \in Seq(ToNode) /\ toNode \o <<>> = toNode /\ DOMAIN <<>> = {}
        BY <1>2
      <4> QED
        BY <1>2, <3>2, <4>1, Zenon
    <3> QED
      BY <1>7, <3>1, <3>2, Zenon DEF HandleClose, Announcements
  <2>2. toNode' \in Seq(ToNode) /\ Len(toNode') >= Len(toNode)
    BY <1>2, <2>1, ConcatIs, Zenon
  <2>3. /\ Tokens(toWorker', toNode', micro)
        /\ \A y : Awaited(toWorker', toNode', micro, y) => Awaited(toWorker, toNode, micro, y)
    BY <1>1, <1>2, <1>3, <2>1, TokensClosed, Zenon
  <2> QED
    BY <2>1, <2>2, <2>3, Zenon
<1> QED
  BY <1>3, <1>6, <1>7, Zenon

-----------------------------------------------------------------------------
(* What a Router finds is open.                                            *)

\* The initial library is sound, and no message is on its way.
LEMMA InitKnown == Init => KnownInv
<1> SUFFICES ASSUME Init PROVE KnownInv
  OBVIOUS
<1>1. /\ lib = NoLibrary /\ args = [x \in Created |-> NoArgs]
      /\ toWorker = <<>> /\ live = {Worker} /\ toNode = <<>>
      /\ left = 0 /\ micro = <<>> /\ immediates = <<>>
  BY Zenon DEF Init
<1>2. Worker \in Objects /\ Worker \notin Created /\ Created \subseteq Objects
  BY Kinds
<1>3. /\ lib.status = [x \in Objects |-> IF x = Worker THEN "open" ELSE "none"]
      /\ lib.held = [x \in Owners |-> {}] /\ lib.known = [r \in Routers |-> {}]
      /\ lib.served = [s \in WebRtcServers |-> {}]
      /\ lib = [status |-> lib.status, held |-> lib.held, known |-> lib.known, served |-> lib.served]
  BY <1>1, Zenon DEF NoLibrary
<1>4. lib \in Library
  BY <1>3 DEF Library
<1>5. args \in Arguments
  BY <1>1 DEF Arguments, NoArgs
<1>6. \A x \in Created : lib.status[x] = "none"
  BY <1>2, <1>3
<1>7. Typed(lib, args)
  BY <1>4, <1>5, <1>6, Zenon DEF Typed
<1>8. HeldExact(lib, args)
  BY <1>3, <1>6 DEF HeldExact
<1>9. ServedOwn(lib, args) /\ KnownOwn(lib, args)
  BY <1>3 DEF ServedOwn, KnownOwn
<1>10. MessagesTyped
  BY <1>1, <1>2 DEF MessagesTyped
<1>11. Tokens(toWorker, toNode, micro) /\ Waiting(lib, toWorker, toNode, micro)
  BY <1>1 DEF Tokens, Waiting, Awaited
<1> QED
  BY <1>7, <1>8, <1>9, <1>10, <1>11, Zenon DEF KnownInv, Sound

\* The arguments that each creating method passes.
LEMMA OnIs ==
  ASSUME NEW x \in Owners, NEW v \in WebRtcServers \cup {Nobody}, NEW p \in Sources \cup {Nobody}
  PROVE  /\ On(x) \in [on : Owners, server : WebRtcServers \cup {Nobody}, source : Sources \cup {Nobody}]
         /\ On(x).on = x /\ On(x).server = Nobody
         /\ [On(x) EXCEPT !.server = v]
              \in [on : Owners, server : WebRtcServers \cup {Nobody}, source : Sources \cup {Nobody}]
         /\ [On(x) EXCEPT !.server = v].on = x /\ [On(x) EXCEPT !.server = v].server = v
         /\ [On(x) EXCEPT !.source = p]
              \in [on : Owners, server : WebRtcServers \cup {Nobody}, source : Sources \cup {Nobody}]
         /\ [On(x) EXCEPT !.source = p].on = x /\ [On(x) EXCEPT !.source = p].server = Nobody
<1>1. On(x) = [on |-> x, server |-> Nobody, source |-> Nobody]
  BY DEF On, NoArgs
<1> QED
  BY <1>1

\* Every creating method calls for an object of the right kind.
Creates ==
  \/ CreateWebRtcServer \/ CreateRouter \/ CreateWebRtcTransport \/ CreatePlainTransport
  \/ CreatePipeTransport \/ CreateDirectTransport \/ CreateActiveSpeakerObserver
  \/ CreateAudioLevelObserver \/ Produce \/ ProduceData \/ Consume \/ ConsumeData

\* Every operation of the application that creates is a Call with arguments of its kind.
LEMMA CreatesCalls ==
  ASSUME KnownInv, Creates
  PROVE  \E x \in Created : \E a : GoodArgs(x, a) /\ Call(x, a)
<1> DEFINE A == [on : Owners, server : WebRtcServers \cup {Nobody}, source : Sources \cup {Nobody}]
<1>1. /\ Created = WebRtcServers \cup Routers \cup Transports \cup Sources \cup Sinks \cup Observers
      /\ Worker \in Owners /\ Routers \subseteq Owners /\ Transports \subseteq Owners
  BY Kinds, Zenon
<1>2. /\ WebRtcTransports \subseteq Transports /\ PlainTransports \subseteq Transports
      /\ PipeTransports \subseteq Transports /\ DirectTransports \subseteq Transports
      /\ Producers \subseteq Sources /\ DataProducers \subseteq Sources
      /\ Consumers \subseteq Sinks /\ DataConsumers \subseteq Sinks
      /\ ActiveSpeakerObservers \subseteq Observers /\ AudioLevelObservers \subseteq Observers
  BY Zenon DEF Transports, Sources, Sinks, Observers
<1>3. \A x \in Owners : On(x) \in A /\ On(x).on = x /\ On(x).server = Nobody
  BY OnIs, Zenon
<1>4. \A x \in Owners, p \in Sources :
         /\ [On(x) EXCEPT !.source = p] \in A
         /\ [On(x) EXCEPT !.source = p].on = x /\ [On(x) EXCEPT !.source = p].server = Nobody
  BY OnIs, Zenon
<1>5. \A x \in Owners, v \in WebRtcServers \cup {Nobody} :
         /\ [On(x) EXCEPT !.server = v] \in A
         /\ [On(x) EXCEPT !.server = v].on = x /\ [On(x) EXCEPT !.server = v].server = v
  BY OnIs, Zenon
<1>6. /\ WebRtcServers \cap (Routers \cup Transports \cup Sources \cup Sinks \cup Observers) = {}
      /\ Routers \cap (Transports \cup Sources \cup Sinks \cup Observers) = {}
      /\ Transports \cap (Sources \cup Sinks \cup Observers) = {}
      /\ Sources \cap (Sinks \cup Observers) = {} /\ Sinks \cap Observers = {}
  BY KindsAssumption, Zenon
<1> HIDE DEF A
<1>7. \A x \in WebRtcServers \cup Routers : GoodArgs(x, On(Worker))
  BY <1>1, <1>3, <1>6 DEF GoodArgs, A
<1>8. \A x \in Transports \cup Observers, r \in Routers : GoodArgs(x, On(r))
  BY <1>1, <1>3, <1>6 DEF GoodArgs, A
<1>9. \A x \in Sources \cup Sinks, t \in Transports : GoodArgs(x, On(t))
  BY <1>1, <1>3, <1>6 DEF GoodArgs, A
<1>10. \A x \in Sinks, t \in Transports, p \in Sources : GoodArgs(x, [On(t) EXCEPT !.source = p])
  BY <1>1, <1>4, <1>6 DEF GoodArgs, A
<1>11. \A x \in Transports, r \in Routers, s \in WebRtcServers \cup {Nobody} :
          (s # Nobody => HasRef(s)) => GoodArgs(x, [On(r) EXCEPT !.server = s])
  BY <1>1, <1>5, <1>6 DEF GoodArgs, A
<1>12. CASE CreateWebRtcServer \/ CreateRouter
  BY <1>1, <1>7, <1>12, Zenon DEF CreateWebRtcServer, CreateRouter
<1>13. CASE CreateWebRtcTransport
  BY <1>1, <1>2, <1>11, <1>13, Zenon DEF CreateWebRtcTransport
<1>14. CASE CreatePlainTransport \/ CreatePipeTransport \/ CreateDirectTransport
  BY <1>1, <1>2, <1>8, <1>14, Zenon DEF CreatePlainTransport, CreatePipeTransport, CreateDirectTransport
<1>15. CASE CreateActiveSpeakerObserver \/ CreateAudioLevelObserver
  BY <1>1, <1>2, <1>8, <1>15, Zenon DEF CreateActiveSpeakerObserver, CreateAudioLevelObserver
<1>16. CASE Produce \/ ProduceData
  BY <1>1, <1>2, <1>9, <1>16, Zenon DEF Produce, ProduceData
<1>17. CASE Consume \/ ConsumeData
  BY <1>1, <1>2, <1>10, <1>17, Zenon DEF Consume, ConsumeData
<1> QED
  BY <1>12, <1>13, <1>14, <1>15, <1>16, <1>17, Zenon DEF Creates

\* The close() methods of the objects, but for the Worker's.
Closes ==
  \/ CloseWebRtcServer \/ CloseRouter \/ CloseTransport \/ CloseProducer \/ CloseDataProducer
  \/ CloseConsumer \/ CloseDataConsumer \/ CloseRtpObserver

\* What close() of x closes is deleted in the process with x.
Covered(S, x) == x \in S /\ \A y \in S \cap Created : x \in Cover(args, y)

\* close() of a Router closes all of its Transports.
Thorough(S, x) ==
  x \in Routers => \A t \in Transports : lib.status[t] = "open" /\ args[t].on = x => t \in S

\* What an object depends on: its owner, its server, and those of its Transport.
LEMMA CoverIs ==
  ASSUME NEW a, NEW y
  PROVE  /\ y \in Cover(a, y) /\ a[y].on \in Cover(a, y) /\ a[y].server \in Cover(a, y)
         /\ a[y].on \in Transports => /\ a[a[y].on].on \in Cover(a, y)
                                      /\ a[a[y].on].server \in Cover(a, y)
BY Zenon DEF Cover

\* Every closing method closes open objects, in the library and in the process.
LEMMA ClosesShuts ==
  ASSUME KnownInv, Closes
  PROVE  \E x \in Created : \E l, S :
           /\ Shuts(lib, l, args, S) /\ Covered(S, x) /\ Thorough(S, x)
           /\ Worker \notin S /\ Close(x, l)
<1>1. Sound(lib, args)
  BY Zenon DEF KnownInv
<1>2. /\ WebRtcServers \subseteq Created /\ Routers \subseteq Created /\ Transports \subseteq Created
      /\ Sources \subseteq Created /\ Sinks \subseteq Created /\ Observers \subseteq Created
      /\ Worker \notin Created /\ Transports \subseteq Owners
  BY Kinds, Zenon
<1>3. \A x, l : Close(x, l) => lib.status[x] = "open"
  BY Zenon DEF Close, IsOpen
<1>4. \A y \in Owners : \A z \in lib.held[y] : z \in Created /\ args[z].on = y
  BY <1>1, HeldOwn
<1>0. \A S, x : x \in WebRtcServers \cup Transports \cup Sources \cup Sinks \cup Observers => Thorough(S, x)
  BY KindsAssumption, Zenon DEF Thorough
<1>5. CASE CloseWebRtcServer
  <2>1. PICK s \in WebRtcServers : Close(s, WebRtcServerClose(lib, s))
    BY <1>5, Zenon DEF CloseWebRtcServer
  <2> DEFINE T == OpenIn(lib, lib.served[s])
             S == {x \in Created : x = s \/ x \in T \/ \E t \in T : x \in lib.held[t]}
  <2>2. Shuts(lib, WebRtcServerClose(lib, s), args, S)
    BY <1>1, <1>3, <2>1, ServerShuts, Zenon
  <2>3. \A t \in T : args[t].server = s /\ t \in Transports
    <3>1. lib.served \in [WebRtcServers -> SUBSET Transports]
      BY <1>1 DEF Sound, Typed, Library
    <3>2. \A t \in lib.served[s] : t \in Transports
      BY <3>1
    <3> QED
      BY <1>1, <3>2, Zenon DEF Sound, ServedOwn, OpenIn
  <2> HIDE DEF T
  <2>4. ASSUME NEW y \in S \cap Created PROVE s \in Cover(args, y)
    <3>1. CASE y = s
      BY <3>1, CoverIs, Zenon
    <3>2. CASE y \in T
      BY <2>3, <3>2, CoverIs, Zenon
    <3>3. CASE \E t \in T : y \in lib.held[t]
      <4>1. PICK t \in T : y \in lib.held[t]
        BY <3>3, Zenon
      <4>2. args[y].on = t /\ t \in Transports /\ args[t].server = s
        BY <1>2, <1>4, <2>3, <4>1, Zenon
      <4> QED
        BY <4>2, CoverIs, Zenon
    <3> QED
      BY <3>1, <3>2, <3>3, Zenon
  <2>5. Worker \notin S /\ s \in S
    BY <1>2, Zenon
  <2> HIDE DEF S
  <2>6. Thorough(S, s)
    BY <1>0, Zenon
  <2> QED
    BY <1>2, <2>1, <2>2, <2>4, <2>5, <2>6, Zenon DEF Covered
<1>6. CASE CloseRouter
  <2>1. PICK r \in Routers : Close(r, RouterClose(lib, r))
    BY <1>6, Zenon DEF CloseRouter
  <2>2. lib.status[r] = "open" /\ {r} \in SUBSET Routers /\ \A q \in {r} : lib.status[q] = "open"
    BY <1>3, <2>1, Zenon
  <2>3. Shuts(lib, RouterClose(lib, r), args, Tree(lib, {r}))
    BY <1>1, <2>2, RouterShuts, Zenon
  <2>4. /\ TransportsOf(lib, {r}) \subseteq Transports
        /\ \A t \in TransportsOf(lib, {r}) : args[t].on \in {r}
        /\ \A x \in Tree(lib, {r}) : \/ x \in {r} /\ args[x].on = Worker
                                     \/ args[x].on \in {r}
                                     \/ args[x].on \in TransportsOf(lib, {r})
    BY <1>1, <2>2, TreeOwn
  <2>5. ASSUME NEW y \in Tree(lib, {r}) PROVE r \in Cover(args, y)
    <3>1. CASE y = r \/ args[y].on = r
      BY <3>1, CoverIs, Zenon
    <3>2. CASE args[y].on \in TransportsOf(lib, {r})
      <4>1. args[y].on \in Transports /\ args[args[y].on].on = r
        BY <2>4, <3>2, Zenon
      <4> QED
        BY <4>1, CoverIs, Zenon
    <3> QED
      BY <2>4, <3>1, <3>2, Zenon
  <2>6. Worker \notin Tree(lib, {r}) /\ r \in Tree(lib, {r})
    BY <1>2, Zenon DEF Tree
  <2>7. Thorough(Tree(lib, {r}), r)
    <3>1. \A t \in Transports : lib.status[t] = "open" /\ args[t].on = r => t \in lib.held[r]
      BY <1>1, <1>2, Zenon DEF Sound, HeldExact
    <3> QED
      BY <1>2, <3>1, Zenon DEF Thorough, Tree
  <2> QED
    BY <1>2, <2>1, <2>3, <2>5, <2>6, <2>7, Zenon DEF Covered
<1>7. CASE CloseTransport
  <2>1. PICK t \in Transports : Close(t, TransportClose(lib, t))
    BY <1>7, Zenon DEF CloseTransport
  <2> DEFINE S == {t} \cup lib.held[t]
  <2>2. Shuts(lib, TransportClose(lib, t), args, S)
    BY <1>1, <1>3, <2>1, TransportShuts, Zenon
  <2>3. \A y \in S : y = t \/ (y \in Created /\ args[y].on = t)
    BY <1>2, <1>4, Zenon
  <2> HIDE DEF S
  <2>4. ASSUME NEW y \in S PROVE t \in Cover(args, y)
    BY <2>3, CoverIs, Zenon
  <2>5. Worker \notin S /\ t \in S
    BY <1>2, <2>3, Zenon DEF S
  <2>6. Thorough(S, t)
    BY <1>0, Zenon
  <2> QED
    BY <1>2, <2>1, <2>2, <2>4, <2>5, <2>6, Zenon DEF Covered
<1>8. \A x \in Created : Covered({x}, x) /\ Worker \notin {x}
  BY <1>2, CoverIs, Zenon DEF Covered
<1>9. CASE CloseProducer \/ CloseDataProducer
  <2>1. PICK p \in Sources : Close(p, SourceClose(lib, p))
    BY <1>9, Zenon DEF CloseProducer, CloseDataProducer, Sources
  <2>2. Shuts(lib, SourceClose(lib, p), args, {p})
    BY <1>1, <1>3, <2>1, SourceShuts, Zenon
  <2>3. Thorough({p}, p)
    BY <1>0, Zenon
  <2> QED
    BY <1>2, <1>8, <2>1, <2>2, <2>3, Zenon
<1>10. CASE CloseConsumer \/ CloseDataConsumer \/ CloseRtpObserver
  <2>1. PICK c \in Sinks \cup Observers : Close(c, LeafClose(lib, c))
    BY <1>10, Zenon DEF CloseConsumer, CloseDataConsumer, CloseRtpObserver, Sinks
  <2>2. Shuts(lib, LeafClose(lib, c), args, {c})
    BY <1>1, <1>3, <2>1, LeafShuts, Zenon
  <2>3. Thorough({c}, c)
    BY <1>0, Zenon
  <2> QED
    BY <1>2, <1>8, <2>1, <2>2, <2>3, Zenon
<1> QED
  BY <1>5, <1>6, <1>7, <1>9, <1>10, Zenon DEF Closes

\* Every step keeps the invariant.
LEMMA KnownStep == KnownInv /\ [Next]_vars => KnownInv'
<1> SUFFICES ASSUME KnownInv, [Next]_vars
             PROVE  KnownInv'
  OBVIOUS
<1>1. CASE Creates
  BY <1>1, CreatesCalls, CallKnown, Zenon
<1>2. CASE Closes
  BY <1>2, ClosesShuts, CloseKnown, Zenon
<1>3. CASE CloseWorker
  <2>1. live' \subseteq live
    BY <1>3, Zenon DEF CloseWorker
  <2> QED
    BY <1>3, <2>1, WorkerDownKnown, Zenon DEF CloseWorker
<1>4. CASE Read
  BY <1>4, ReadKnown, Zenon
<1>5. CASE Continue
  BY <1>5, ContinueKnown, Zenon
<1>6. CASE OnProducerClose \/ OnDataProducerClose
  <2>1. Consumers \in SUBSET Sinks /\ DataConsumers \in SUBSET Sinks
    BY Zenon DEF Sinks
  <2> QED
    BY <1>6, <2>1, EmitKnown, Zenon DEF OnProducerClose, OnDataProducerClose
<1>7. CASE WorkerDied
  <2>1. live' \subseteq live
    BY <1>7, Zenon DEF WorkerDied
  <2> QED
    BY <1>7, <2>1, WorkerDownKnown, Zenon DEF WorkerDied
<1>8. CASE WorkerHandles
  BY <1>8, WorkerHandlesKnown, Zenon
<1>9. CASE WorkerExits
  <2>1. live' \subseteq Objects /\ UNCHANGED <<lib, args, toWorker, toNode, left, micro, immediates>>
    BY <1>9, Zenon DEF WorkerExits
  <2> QED
    BY <2>1 DEF KnownInv, MessagesTyped
<1>10. CASE UNCHANGED vars
  BY <1>10 DEF vars, KnownInv, MessagesTyped
<1> QED
  BY <1>1, <1>2, <1>3, <1>4, <1>5, <1>6, <1>7, <1>8, <1>9, <1>10, Zenon
     DEF Next, Application, Loop, Creates, Closes

\* The Producers that a Router finds by id are open, unless their WebRtcServer was
\* closed: for any number of objects, and whatever the order of calls, responses
\* and notifications (Router '@newproducer' and '@producerclose' listeners).
THEOREM RoutersKnowOpen == Spec => []KnownSourcesOpen
<1>1. KnownInv => KnownSourcesOpen
  <2> SUFFICES ASSUME KnownInv, NEW r \in Routers, NEW p \in lib.known[r]
               PROVE  IsOpen(p) \/ Unserved(args[p].on)
    BY Zenon DEF KnownSourcesOpen
  <2>1. Sound(lib, args)
    BY Zenon DEF KnownInv
  <2>2. p \in Sources /\ Ref(lib, p)
    BY <2>1, KnownOfRouter
  <2>3. p \in Created /\ lib.status[p] # "none" /\ Nobody \notin WebRtcServers
    BY <2>2, Kinds DEF Ref
  <2>4. args[p].on \in Transports
    BY <2>1, <2>2, <2>3, Zenon DEF Sound, Typed, Placed
  <2>5. lib.status[p] = "open" \/ ServerClosed(lib, args, args[p].on)
    BY <2>1, Zenon DEF Sound, KnownOwn
  <2> QED
    BY <2>3, <2>4, <2>5, Zenon DEF IsOpen, Unserved, ServerClosed
<1> QED
  BY <1>1, InitKnown, KnownStep, PTL DEF Spec
=============================================================================
