--------------------------- MODULE MCActorSystem ----------------------------
(* ActorSystem with the values TLC needs. *)
EXTENDS ActorSystem, TLC

CONSTANTS a1, a2, a3, name, c2, d1, d2

\* two actors are spawned under the same name, the others without one
TwoNamed == [a \in Actors |-> IF a \in {a1, a2} THEN name ELSE NoAlias]

NoneNamed == [a \in Actors |-> NoAlias]

\* All actors are on one dispatcher, or the first one is on another.
OnOne == {[a \in Actors |-> d1]}
OnTwo == {[a \in Actors |-> IF a = a1 THEN d1 ELSE d2]}

\* Every closer is a thread of its own, or c2 is an actor on dispatcher d2.
Outside == [c \in Closers |-> Nobody]
OneInside == [c \in Closers |-> IF c = c2 THEN d2 ELSE Nobody]

\* TwoNamed does not tell these two actors apart either.
Symmetry == Permutations(Closers) \cup Permutations({a1, a2})
=============================================================================
