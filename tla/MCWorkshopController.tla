------------------------- MODULE MCWorkshopController -------------------------
(* Instances of the reconcile loop for TLC: the real table of phases, cut  *)
(* down to those that differ in how the loop treats them.                  *)
EXTENDS WorkshopController, WorkshopPhases, SequencesExt

Cut(names) == SelectSeq(PhaseOrder, LAMBDA p : p \in names)
Switches(names) == [p \in names |-> SwitchesOf(p)]

(* A phase that always runs, the lenient one, one that waits and has two   *)
(* switches, and the one that shares a switch with it.                     *)
FourNames == {"User", "Project", "ServiceMesh", "Serverless"}
FourPhases == Cut(FourNames)
FourFlags == Switches(FourNames)
FourAlways == AlwaysRun \cap FourNames
FourWaiting == Waiting \cap FourNames
FourLenient == ToleratesNothing \cap FourNames
FourStubborn == FailingAgain \cap FourNames
FourCareless == LeavingThings \cap FourNames
FourHanging == NeverReturning \cap FourNames
FourSpecs == {{}, {"Project", "Serverless"}}

(* All thirteen.                                                           *)
AllFlagsOf == Switches(PhaseNames)
AllSpecs == {{}, PhaseNames \ AlwaysRun}
=============================================================================
