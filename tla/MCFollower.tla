------------------------------ MODULE MCFollower ------------------------------
(* Small instances of Follower for TLC. *)
EXTENDS Follower, TLC

CONSTANTS a, b, c, d, x

(* a <- b <- c, a second child d of b's parent, and an unrelated root x *)
Line == {a, b, c}
LinePast == (a :> {a}) @@ (b :> {a, b}) @@ (c :> {a, b, c})

Fork == {a, b, x}
ForkPast == (a :> {a}) @@ (b :> {a, b}) @@ (x :> {x})

Tree == {a, b, d, x}
TreePast == (a :> {a}) @@ (b :> {a, b}) @@ (d :> {a, d}) @@ (x :> {x})

NothingElsewhere == [r \in Repo |-> None]

Symmetry == Permutations(Repo)
=============================================================================
