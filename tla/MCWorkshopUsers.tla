---------------------------- MODULE MCWorkshopUsers ----------------------------
(* Instances of the user phase for TLC.                                    *)
EXTENDS WorkshopUsers, TLC

(* Workshops of one and of two users, one of none, and a number out of     *)
(* range.                                                                  *)
OneOrTwo == {1, 2}
UpToOne == {-1, 0, 1}

(* A name is its prefix and its number.                                    *)
Pair(p, id) == <<p, id>>

PrefixSymmetry == Permutations(Prefixes)
=============================================================================
