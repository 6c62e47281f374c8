------------------------------- MODULE Volume -------------------------------
(***************************************************************************)
(* The volume of a set of objects: how many bytes their values have.  The  *)
(* sum is stated as the number of the bytes, each named by its object and  *)
(* its place, so that it follows the laws of cardinality.                  *)
(***************************************************************************)
EXTENDS Naturals, FiniteSets

Bytes(vol, K) == UNION {{k} \X (1..vol[k]) : k \in K}

VolumeOf(vol, K) == Cardinality(Bytes(vol, K))
=============================================================================
