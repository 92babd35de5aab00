------------------------ MODULE MCScheduleHandshake -------------------------
(* ScheduleHandshake with the values TLC needs. *)
EXTENDS ScheduleHandshake, TLC

Symmetry == Permutations(Posters)
=============================================================================
