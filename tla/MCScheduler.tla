---------------------------- MODULE MCScheduler ----------------------------
(* Scheduler on a small instance: symmetric names, every command type the  *)
(* run's cfg lists.                                                        *)
EXTENDS Scheduler, TLC

NameSymmetry == Permutations(Name)
=============================================================================
