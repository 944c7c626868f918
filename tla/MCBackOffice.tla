---------------------------- MODULE MCBackOffice ----------------------------
(***************************************************************************)
(* A small instance of BackOffice: two sections, and three messages with    *)
(* room for a fourth, sorted by a field that changes and one that does     *)
(* not.  Two of the messages were created in the same millisecond.         *)
(***************************************************************************)
EXTENDS BackOffice

CONSTANTS s1, s2, c1, c2, c3, c4, r1, r2, createdAt, isRead

Both == {place \in [Sorts -> 1..3] : place[isRead] <= 2}

Message(c, place) ==
  [sent |-> c # c4, place |-> [sort \in Sorts |-> IF sort = createdAt THEN place ELSE 1],
   read |-> FALSE, deleted |-> FALSE]

ThreeMessages ==
  [c \in Contacts |-> Message(c, IF c = c1 THEN 3 ELSE 2)]
=============================================================================
