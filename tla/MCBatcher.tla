----------------------------- MODULE MCBatcher -----------------------------
(***************************************************************************)
(* Instances of Batcher for TLC.  The connection of a single user is named *)
(* after the user; any other connection serves all users.                  *)
(***************************************************************************)
EXTENDS Batcher, TLC

OwnConnection == [h \in Handlers |-> {h}]

SecondConnection == [h \in Handlers |-> IF h \in Users THEN {h} ELSE Users]

UserSymmetry == Permutations(Users)
=============================================================================
