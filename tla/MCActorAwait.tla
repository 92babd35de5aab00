--------------------------- MODULE MCActorAwait ------------------------------
(***************************************************************************)
(* A small instance of ActorAwait and, within it, of ActorDispatcher: an   *)
(* actor joins from c1 and another one from c2 or from within a task,      *)
(* while the worker falls asleep, drains or is stopped.                    *)
(***************************************************************************)
EXTENDS ActorAwait

=============================================================================
