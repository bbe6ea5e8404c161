---------------------------- MODULE MCSignalling ----------------------------
(***************************************************************************)
(* Instances of Signalling for TLC: who is in which room under which name. *)
(* Rooms are strings.  Connections and user names are numbers, or the same *)
(* model values where every page has its own name in one room: such pages  *)
(* are interchangeable.                                                    *)
(***************************************************************************)
EXTENDS Signalling, TLC

Pages == Permutations(Conn)

\* Every page is in the same room.
OneRoom == [c \in Conn |-> "r1"]

\* The last connection is alone in a second room.
TwoRooms == [c \in Conn |-> IF \A d \in Conn : d <= c THEN "r2" ELSE "r1"]

\* Every page draws its own user name, ...
OwnName == [c \in Conn |-> c]

\* ... or all but the second use the name of the first (the simulcast pages have
\* a fixed user name).
SharedName == [c \in Conn |-> IF c = 2 THEN 2 ELSE 1]
=============================================================================
