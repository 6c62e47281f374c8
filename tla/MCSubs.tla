------------------------------- MODULE MCSubs -------------------------------
(* Instances of Subs: two nodes, a feed they subscribe to and one that is    *)
(* only shared.                                                              *)
EXTENDS Subs

CONSTANTS A, B, f, g

\* Share is the beginning of Subscribe
CallsOf == [n \in {A, B} |-> (Methods \ (IF n = A THEN {"Share"} ELSE {"Share", "Preview", "Close"})) \X {f}]
=============================================================================
