------------------------------- MODULE MCCache -------------------------------
(* Cache on two small objects and one over the limit, or on two large ones.  *)
EXTENDS Cache, TLC

CONSTANTS a, b, c, w1, w2

TwoKeys == {a, b}
ThreeKeys == {a, b, c}
VolOfAll == (a :> 1) @@ (b :> 1) @@ (c :> 3)
VolOfTwo == [k \in Keys |-> 2]
DownUp == {-1, 0, 1}
\* the next step never depends on the last answer
WithoutReply == <<item, db, amount, volume, mail, phase>>
Perms == Permutations({w1, w2})
=============================================================================
