------------------------------ MODULE PhaseLevels ------------------------------
(* How much of what a phase installs is there, and how a run of its script *)
(* may change that.                                                        *)

Levels == {"none", "partial", "full"}

(* What a run of the install script, however far it gets, may leave: a     *)
(* Create whose answer is lost has been made all the same.                 *)
AtLeast(level) == CASE level = "none"    -> Levels
                    [] level = "partial" -> {"partial", "full"}
                    [] level = "full"    -> {"full"}

(* And what a run of the teardown may.                                     *)
AtMost(level) == CASE level = "none"    -> {"none"}
                   [] level = "partial" -> {"none", "partial"}
                   [] level = "full"    -> Levels
=============================================================================
