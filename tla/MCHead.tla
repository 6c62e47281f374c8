------------------------------- MODULE MCHead -------------------------------
(* Instances of Head: two Roots of one Registry with one object, which is twice *)
(* in the second.                                                           *)
EXTENDS Head

CONSTANTS c1, c2, r, a

GetsOf == {"r", "a", "a2"}
KeyOfGet == [o \in GetsOf |-> IF o = "r" THEN r ELSE a]
NeedsOf == [s \in {1, 2} |-> IF s = 1 THEN {"a"} ELSE {"a", "a2"}]
=============================================================================
