--------------------------- MODULE MCActorRunner ----------------------------
(* ActorRunner with the values TLC needs. *)
EXTENDS ActorRunner

CONSTANTS d1, d2, w1

\* No waker runs on a dispatcher's thread: each schedules the dispatcher that
\* polled the future last.
HomeNowhere == [w \in Wakers |-> NoDispatcher]

\* The first waker runs on the owner's thread, the second on another
\* dispatcher's: two asks are awaited together, one answered by an actor of
\* the same dispatcher and one by an actor of another.
HomeBoth == [w \in Wakers |-> IF w = w1 THEN Owner ELSE d2]
=============================================================================
