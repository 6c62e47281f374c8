------------------------------ MODULE MCIndex ------------------------------
(* Index on one feed with two heads, or on two feeds.                       *)
EXTENDS Index, Sequences, TLC

CONSTANTS p, q, u1, u2

OneFeed == {p}
TwoFeeds == {p, q}

Chain(pk, n, times) ==
  {[feed |-> pk, nonce |-> n, seq |-> s, time |-> times[s + 1]] : s \in 0..(Len(times) - 1)}

\* a chain of Roots of another node in the head 2
Theirs == Chain(p, 2, <<1, 2>>)
\* the same and a fork in the head 1, which this node saves
Forked == Chain(p, 2, <<1, 2>>) \cup Chain(p, 1, <<2>>)
TheirsAndQ == Theirs \cup Chain(q, 2, <<1>>)
Perms == Permutations({u1, u2})
=============================================================================
