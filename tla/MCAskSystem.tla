---------------------------- MODULE MCAskSystem -----------------------------
(***************************************************************************)
(* A small instance of AskSystem: two asks that share one slot, with a     *)
(* reply, the sweeper and stop in a race.                                  *)
(***************************************************************************)
EXTENDS AskSystem

=============================================================================
