---------------------------- MODULE VolumeProofs ----------------------------
(***************************************************************************)
(* The volume of a set of objects grows and shrinks by the volume of what  *)
(* is added and removed.                                                   *)
(***************************************************************************)
EXTENDS Volume, Integers, FiniteSetTheorems, TLAPS

\* The bytes of one object.
LEMMA BytesOne ==
  ASSUME NEW k, NEW n \in Nat
  PROVE  IsFiniteSet({k} \X (1..n)) /\ Cardinality({k} \X (1..n)) = n
  <1> DEFINE S == {k}
             I == 1..n
  <1>1. IsFiniteSet(S) /\ Cardinality(S) = 1
    BY FS_Singleton
  <1>2. IsFiniteSet(I) /\ Cardinality(I) = n
    <2>1. IsFiniteSet(I) /\ Cardinality(I) = IF 1 > n THEN 0 ELSE n - 1 + 1
      BY FS_Interval
    <2> HIDE DEF I
    <2> QED
      BY <2>1
  <1> HIDE DEF S, I
  <1>3. IsFiniteSet(S \X I) /\ Cardinality(S \X I) = 1 * n
    BY <1>1, <1>2, FS_Product
  <1>4. 1 * n = n
    OBVIOUS
  <1> QED
    BY <1>3, <1>4 DEF S, I

\* Finitely many objects have finitely many bytes.
LEMMA BytesFinite ==
  ASSUME NEW K, IsFiniteSet(K), NEW vol, \A k \in K : vol[k] \in Nat
  PROVE  IsFiniteSet(Bytes(vol, K)) /\ VolumeOf(vol, K) \in Nat
  <1> DEFINE T == {{k} \X (1..vol[k]) : k \in K}
             f == [k \in K |-> {k} \X (1..vol[k])]
  <1>1. f \in Surjection(K, T)
    BY DEF Surjection
  <1>2. IsFiniteSet(T)
    BY <1>1, FS_Surjection
  <1>3. ASSUME NEW k \in K PROVE IsFiniteSet({k} \X (1..vol[k]))
    BY BytesOne
  <1>4. \A S \in T : IsFiniteSet(S)
    BY <1>3
  <1>5. IsFiniteSet(UNION T)
    BY <1>2, <1>4, FS_UNION
  <1> QED
    BY <1>5, FS_CardinalityType DEF Bytes, VolumeOf

\* The volume of one object.
LEMMA VolumeOne ==
  ASSUME NEW vol, NEW k, vol[k] \in Nat
  PROVE  VolumeOf(vol, {k}) = vol[k]
  <1>1. Bytes(vol, {k}) = {k} \X (1..vol[k])
    BY DEF Bytes
  <1>2. Cardinality({k} \X (1..vol[k])) = vol[k]
    BY BytesOne
  <1> QED
    BY <1>1, <1>2 DEF VolumeOf

\* Removing a part D of K removes the volume of D.
LEMMA VolumeMinus ==
  ASSUME NEW K, IsFiniteSet(K), NEW vol, \A k \in K : vol[k] \in Nat, NEW D \in SUBSET K
  PROVE  VolumeOf(vol, K \ D) = VolumeOf(vol, K) - VolumeOf(vol, D)
  <1>1. Bytes(vol, K \ D) = Bytes(vol, K) \ Bytes(vol, D)
    BY DEF Bytes
  <1>2. Bytes(vol, K) \cap Bytes(vol, D) = Bytes(vol, D)
    BY DEF Bytes
  <1>3. IsFiniteSet(Bytes(vol, K))
    BY BytesFinite
  <1> DEFINE A == Bytes(vol, K)
             B == Bytes(vol, D)
  <1> HIDE DEF A, B
  <1>4. Cardinality(A \ B) = Cardinality(A) - Cardinality(A \cap B)
    BY <1>3, FS_Difference DEF A
  <1> QED
    BY <1>1, <1>2, <1>4 DEF VolumeOf, A, B

\* Adding an object adds its volume.
LEMMA VolumePlus ==
  ASSUME NEW K, IsFiniteSet(K), NEW vol, \A k \in K : vol[k] \in Nat,
         NEW j, j \notin K, vol[j] \in Nat
  PROVE  VolumeOf(vol, K \cup {j}) = VolumeOf(vol, K) + vol[j]
  <1> DEFINE L == K \cup {j}
  <1>1. IsFiniteSet(L) /\ \A k \in L : vol[k] \in Nat
    BY FS_AddElement
  <1>2. L \ {j} = K /\ {j} \in SUBSET L
    OBVIOUS
  <1> HIDE DEF L
  <1>3. VolumeOf(vol, K) = VolumeOf(vol, L) - VolumeOf(vol, {j})
    BY <1>1, <1>2, VolumeMinus
  <1>4. VolumeOf(vol, L) \in Nat /\ VolumeOf(vol, {j}) = vol[j]
    BY <1>1, BytesFinite, VolumeOne
  <1> QED
    BY <1>3, <1>4 DEF L
=============================================================================
