------------------------------- MODULE MCCXDS -------------------------------
(* CXDS on two objects of different volume.                                 *)
EXTENDS CXDS, TLC

CONSTANTS a, b

Both == {a, b}
VolOfTwo == (a :> 1) @@ (b :> 2)
\* the next step never depends on the last answer
WithoutReply == <<objs, stat, saved, phase>>
UpDown == {-2, -1, 0, 1}
=============================================================================
