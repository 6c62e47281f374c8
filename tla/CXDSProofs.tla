----------------------------- MODULE CXDSProofs -----------------------------
(***************************************************************************)
(* The counters of the CXDS.  Each of the three ways a transaction changes *)
(* objects (a counter moves, an object is created, objects are removed)    *)
(* comes with a change of stat; the lemmas show that the two fit, so stat  *)
(* and the objects part only where a transaction is rolled back or the     *)
(* file is opened again.                                                   *)
(***************************************************************************)
EXTENDS CXDS, VolumeProofs

Obj == [in : BOOLEAN, rc : 0..(Width - 1)]

IInv == TypeOK /\ UsedPresent

\* Keys and their volumes.
LEMMA VolNat == \A k \in Keys : Vol[k] \in Nat
  BY KeysAssumption

LEMMA FiniteKeys == \A K \in SUBSET Keys : IsFiniteSet(K) /\ Cardinality(K) \in Nat /\ TotalVol(K) \in Nat
  <1> SUFFICES ASSUME NEW K \in SUBSET Keys
               PROVE  IsFiniteSet(K) /\ Cardinality(K) \in Nat /\ TotalVol(K) \in Nat
    OBVIOUS
  <1>1. IsFiniteSet(K)
    BY KeysAssumption, FS_Subset
  <1>2. \A k \in K : Vol[k] \in Nat
    BY VolNat
  <1> QED
    BY <1>1, <1>2, FS_CardinalityType, BytesFinite DEF TotalVol

\* A counter stays a uint32.
LEMMA NewRCType ==
  ASSUME NEW rc \in 0..(Width - 1), NEW inc \in Int PROVE NewRC(rc, inc) \in 0..(Width - 1)
  <1>1. Width \in Nat /\ Width > 0 /\ rc \in Nat
    BY WidthAssumption
  <1>2. CASE inc > 0
    <2>1. rc + inc \in Nat
      BY <1>1, <1>2
    <2>2. (rc + inc) % Width \in 0..(Width - 1)
      BY <1>1, <2>1
    <2> QED
      BY <1>2, <2>2 DEF NewRC
  <1>3. CASE ~(inc > 0)
    BY <1>1, <1>3 DEF NewRC, Sat
  <1> QED
    BY <1>2, <1>3

\* Adding an object to a set of objects, and removing some of them.
LEMMA Grows ==
  ASSUME NEW K \in SUBSET Keys, NEW k \in Keys, k \notin K
  PROVE  Cardinality(K \cup {k}) = Cardinality(K) + 1 /\ TotalVol(K \cup {k}) = TotalVol(K) + Vol[k]
  <1>1. IsFiniteSet(K) /\ (\A j \in K : Vol[j] \in Nat) /\ Vol[k] \in Nat
    BY FiniteKeys, VolNat
  <1> QED
    BY <1>1, FS_AddElement, VolumePlus DEF TotalVol

LEMMA Shrinks ==
  ASSUME NEW K \in SUBSET Keys, NEW D \in SUBSET K
  PROVE  /\ Cardinality(K \ D) = Cardinality(K) - Cardinality(D)
         /\ TotalVol(K \ D) = TotalVol(K) - TotalVol(D)
  <1>1. IsFiniteSet(K) /\ \A j \in K : Vol[j] \in Nat
    BY FiniteKeys, VolNat
  <1>2. K \cap D = D
    OBVIOUS
  <1>3. Cardinality(K \ D) = Cardinality(K) - Cardinality(D)
    BY <1>1, <1>2, FS_Difference
  <1>4. VolumeOf(Vol, K \ D) = VolumeOf(Vol, K) - VolumeOf(Vol, D)
    BY <1>1, VolumeMinus
  <1> QED
    BY <1>3, <1>4 DEF TotalVol

LEMMA ShrinksByOne ==
  ASSUME NEW K \in SUBSET Keys, NEW k \in K
  PROVE  /\ Cardinality(K \ {k}) = Cardinality(K) - 1
         /\ TotalVol(K \ {k}) = TotalVol(K) - Vol[k]
  <1>1. Cardinality({k}) = 1 /\ TotalVol({k}) = Vol[k]
    BY VolNat, FS_Singleton, VolumeOne DEF TotalVol
  <1>2. {k} \in SUBSET K
    OBVIOUS
  <1> QED
    BY <1>1, <1>2, Shrinks

-----------------------------------------------------------------------------
\* The counters stat should have, as numbers.
LEMMA TrueType == True \in Stats
  <1>1. Present \in SUBSET Keys /\ Used \in SUBSET Keys
    BY DEF Present, Used
  <1> QED
    BY <1>1, FiniteKeys DEF True, Stat, Stats

\* How the true counters and stat move together.
LEMMA SameDrift ==
  ASSUME stat \in Stats, NEW a \in Int, NEW u \in Int, NEW v \in Int, NEW w \in Int,
         stat' = Stat(stat.amountAll + a, stat.amountUsed + u, stat.volumeAll + v, stat.volumeUsed + w),
         True' = Stat(True.amountAll + a, True.amountUsed + u, True.volumeAll + v, True.volumeUsed + w)
  PROVE  Drift' = Drift
  <1>1. True \in Stats
    BY TrueType
  <1> DEFINE t == True
  <1>2. t \in Stats /\ True' = Stat(t.amountAll + a, t.amountUsed + u, t.volumeAll + v, t.volumeUsed + w)
    BY <1>1
  <1> HIDE DEF t
  <1>3. /\ stat'.amountAll - True'.amountAll = stat.amountAll - t.amountAll
        /\ stat'.amountUsed - True'.amountUsed = stat.amountUsed - t.amountUsed
        /\ stat'.volumeAll - True'.volumeAll = stat.volumeAll - t.volumeAll
        /\ stat'.volumeUsed - True'.volumeUsed = stat.volumeUsed - t.volumeUsed
    BY <1>2 DEF Stat, Stats
  <1> QED
    BY <1>3 DEF Drift, t

\* incr: a counter moves, the object may be killed or resurrected.
LEMMA IncrDrift ==
  ASSUME IInv, NEW k \in Keys, objs[k].in, NEW n \in 0..(Width - 1),
         objs' = WithRC(k, n), stat' = av(stat, objs[k].rc, n, Vol[k])
  PROVE  Drift' = Drift
  <1>1. stat \in Stats /\ objs \in [Keys -> Obj] /\ n \in Nat /\ objs[k].rc \in Nat /\ Vol[k] \in Nat
    BY VolNat, WidthAssumption DEF IInv, TypeOK, Obj
  <1>2. objs'[k].in /\ objs'[k].rc = n /\ \A j \in Keys : j # k => objs'[j] = objs[j]
    BY <1>1 DEF WithRC
  <1>3. Present' = Present
    BY <1>1, <1>2 DEF Present
  <1>4. Used \in SUBSET Keys
    BY DEF Used
  <1>5. CASE objs[k].rc = 0 /\ n > 0
    <2>1. Used' = Used \cup {k} /\ k \notin Used
      BY <1>1, <1>2, <1>5 DEF Used
    <2>2. True' = Stat(True.amountAll, True.amountUsed + 1, True.volumeAll, True.volumeUsed + Vol[k])
      BY <1>3, <1>4, <2>1, Grows DEF True, Stat
    <2>3. stat' = Stat(stat.amountAll, stat.amountUsed + 1, stat.volumeAll, stat.volumeUsed + Vol[k])
      BY <1>5 DEF av
    <2>4. stat.amountAll + 0 = stat.amountAll /\ stat.volumeAll + 0 = stat.volumeAll
          /\ True.amountAll + 0 = True.amountAll /\ True.volumeAll + 0 = True.volumeAll
      BY <1>1, TrueType DEF Stats
    <2> QED
      BY <1>1, <2>2, <2>3, <2>4, SameDrift
  <1>6. CASE objs[k].rc > 0 /\ n = 0
    <2>1. Used' = Used \ {k} /\ k \in Used
      BY <1>1, <1>2, <1>6 DEF Used
    <2>2. True' = Stat(True.amountAll, True.amountUsed - 1, True.volumeAll, True.volumeUsed - Vol[k])
      BY <1>3, <1>4, <2>1, ShrinksByOne DEF True, Stat
    <2>3. stat' = Stat(stat.amountAll, stat.amountUsed - 1, stat.volumeAll, stat.volumeUsed - Vol[k])
      BY <1>1, <1>6 DEF av
    <2>4. /\ stat.amountAll + 0 = stat.amountAll /\ stat.volumeAll + 0 = stat.volumeAll
          /\ True.amountAll + 0 = True.amountAll /\ True.volumeAll + 0 = True.volumeAll
          /\ stat.amountUsed + (-1) = stat.amountUsed - 1
          /\ stat.volumeUsed + (-Vol[k]) = stat.volumeUsed - Vol[k]
          /\ True.amountUsed + (-1) = True.amountUsed - 1
          /\ True.volumeUsed + (-Vol[k]) = True.volumeUsed - Vol[k]
          /\ -Vol[k] \in Int
      BY <1>1, TrueType DEF Stats
    <2> QED
      BY <1>1, <2>2, <2>3, <2>4, SameDrift
  <1>7. CASE ~(objs[k].rc = 0 /\ n > 0) /\ ~(objs[k].rc > 0 /\ n = 0)
    <2>1. Used' = Used
      BY <1>1, <1>2, <1>7 DEF Used
    <2>2. stat' = stat
      BY <1>1, <1>7 DEF av
    <2> QED
      BY <1>3, <2>1, <2>2 DEF Drift, True
  <1> QED
    BY <1>5, <1>6, <1>7

\* Set of a new object.
LEMMA NewDrift ==
  ASSUME IInv, NEW k \in Keys, ~objs[k].in, NEW n \in 1..(Width - 1),
         objs' = WithRC(k, n), stat' = av(addAll(stat, Vol[k]), 0, 1, Vol[k])
  PROVE  Drift' = Drift
  <1>1. stat \in Stats /\ objs \in [Keys -> Obj] /\ n \in Nat /\ n > 0 /\ Vol[k] \in Nat
    BY VolNat, WidthAssumption DEF IInv, TypeOK, Obj
  <1>2. objs'[k].in /\ objs'[k].rc = n /\ \A j \in Keys : j # k => objs'[j] = objs[j]
    BY <1>1 DEF WithRC
  <1>3. Present' = Present \cup {k} /\ k \notin Present /\ Present \in SUBSET Keys
    BY <1>1, <1>2 DEF Present
  <1>4. Used' = Used \cup {k} /\ k \notin Used /\ Used \in SUBSET Keys
    <2>1. k \notin Used
      BY <1>3 DEF IInv, UsedPresent
    <2> QED
      BY <1>1, <1>2, <2>1 DEF Used
  <1>5. True' = Stat(True.amountAll + 1, True.amountUsed + 1,
                     True.volumeAll + Vol[k], True.volumeUsed + Vol[k])
    BY <1>3, <1>4, Grows DEF True, Stat
  <1>6. stat' = Stat(stat.amountAll + 1, stat.amountUsed + 1,
                     stat.volumeAll + Vol[k], stat.volumeUsed + Vol[k])
    BY DEF av, addAll, Stat
  <1> QED
    BY <1>1, <1>5, <1>6, SameDrift

\* Del and IterateDel.
LEMMA DelDrift ==
  ASSUME IInv, NEW D \in SUBSET Present, objs' = Without(D), stat' = del(stat, D)
  PROVE  Drift' = Drift
  <1> DEFINE E == {k \in D : objs[k].rc > 0}
  <1>1. stat \in Stats /\ objs \in [Keys -> Obj]
    BY DEF IInv, TypeOK, Obj
  <1>2. \A k \in Keys : objs'[k] = IF k \in D THEN Absent ELSE objs[k]
    BY DEF Without
  <1>3. Present' = Present \ D /\ Present \in SUBSET Keys /\ D \in SUBSET Keys
    BY <1>2 DEF Present, Absent
  <1>4. Used' = Used \ E /\ Used \in SUBSET Keys /\ E \in SUBSET Used /\ E \in SUBSET Keys
    BY <1>1, <1>2, <1>3 DEF Used, Absent
  <1>5. stat' = Stat(stat.amountAll - Cardinality(D), stat.amountUsed - Cardinality(E),
                     stat.volumeAll - TotalVol(D), stat.volumeUsed - TotalVol(E))
    BY DEF del
  <1> HIDE DEF E
  <1>6. True' = Stat(True.amountAll - Cardinality(D), True.amountUsed - Cardinality(E),
                     True.volumeAll - TotalVol(D), True.volumeUsed - TotalVol(E))
    BY <1>3, <1>4, Shrinks DEF True, Stat
  <1>7. Cardinality(D) \in Nat /\ Cardinality(E) \in Nat /\ TotalVol(D) \in Nat /\ TotalVol(E) \in Nat
    BY <1>3, <1>4, FiniteKeys
  <1> DEFINE a == -Cardinality(D)
             u == -Cardinality(E)
             v == -TotalVol(D)
             w == -TotalVol(E)
  <1>8. a \in Int /\ u \in Int /\ v \in Int /\ w \in Int
    BY <1>7
  <1>9. /\ stat' = Stat(stat.amountAll + a, stat.amountUsed + u, stat.volumeAll + v, stat.volumeUsed + w)
        /\ True' = Stat(True.amountAll + a, True.amountUsed + u, True.volumeAll + v, True.volumeUsed + w)
    BY <1>1, <1>5, <1>6, <1>7, TrueType DEF Stats
  <1> HIDE DEF a, u, v, w
  <1> QED
    BY <1>1, <1>8, <1>9, SameDrift

-----------------------------------------------------------------------------
\* The answers of the store.
LEMMA AnswerType ==
  ASSUME NEW op \in {"Get", "Inc", "Set", "Del", "IterateDel"}, NEW k \in Keys, NEW ok \in BOOLEAN,
         NEW rc \in Nat, Answer(op, k, ok, rc)
  PROVE  reply' \in Reply /\ (reply'.ok <=> ok)
  BY DEF Answer, Reply

LEMMA NoReplyType == NoReply \in Reply /\ ~NoReply.ok /\ NoReply.key \in Keys
  <1>1. (CHOOSE k \in Keys : TRUE) \in Keys
    BY KeysAssumption
  <1> QED
    BY <1>1 DEF NoReply, Reply

\* What the operations make of stat is a stat.
LEMMA StatTypes ==
  ASSUME NEW s \in Stats, NEW rc \in Nat, NEW nrc \in Nat, NEW vol \in Nat
  PROVE  av(s, rc, nrc, vol) \in Stats /\ addAll(s, vol) \in Stats
  BY DEF av, addAll, Stat, Stats

LEMMA DelType ==
  ASSUME NEW s \in Stats, NEW D \in SUBSET Keys PROVE del(s, D) \in Stats
  <1> DEFINE E == {k \in D : objs[k].rc > 0}
  <1>1. Cardinality(D) \in Nat /\ TotalVol(D) \in Nat
    BY FiniteKeys
  <1>2. Cardinality(E) \in Nat /\ TotalVol(E) \in Nat
    <2>1. E \in SUBSET Keys
      OBVIOUS
    <2> HIDE DEF E
    <2> QED
      BY <2>1, FiniteKeys
  <1>3. del(s, D) = Stat(s.amountAll - Cardinality(D), s.amountUsed - Cardinality(E),
                         s.volumeAll - TotalVol(D), s.volumeUsed - TotalVol(E))
    BY DEF del
  <1> HIDE DEF E
  <1> QED
    BY <1>1, <1>2, <1>3 DEF Stat, Stats

\* Types and UsedPresent after a change of one object or the removal of some.
Objs(o) == o \in [Keys -> Obj] /\ \A k \in Keys : o[k].rc > 0 => o[k].in

LEMMA IInvObjs == IInv <=> /\ Objs(objs) /\ stat \in Stats /\ saved \in Stats
                           /\ phase \in {"none", "made", "open", "shut", "broken"}
                           /\ reply \in Reply
  BY DEF IInv, TypeOK, UsedPresent, Used, Present, Objs, Obj

LEMMA IInvNext ==
  ASSUME Objs(objs'), stat' \in Stats, saved' \in Stats, reply' \in Reply,
         phase' \in {"none", "made", "open", "shut", "broken"}
  PROVE  IInv'
  BY DEF IInv, TypeOK, UsedPresent, Used, Present, Objs, Obj

LEMMA WithRCObjs ==
  ASSUME Objs(objs), NEW k \in Keys, NEW n \in 0..(Width - 1) PROVE Objs(WithRC(k, n))
  BY DEF Objs, WithRC, Obj

LEMMA WithoutObjs ==
  ASSUME Objs(objs), NEW D PROVE Objs(Without(D))
  <1>1. Absent \in Obj /\ ~(Absent.rc > 0)
    BY WidthAssumption DEF Absent, Obj
  <1> QED
    BY <1>1 DEF Objs, Without

\* A transaction: the types hold whether it is committed or not, and if the
\* call succeeds it was committed.
LEMMA UpdateStep ==
  ASSUME NEW op \in {"Get", "Inc", "Set", "Del", "IterateDel"}, NEW k \in Keys, NEW rc \in Nat,
         NEW o, Objs(o), Objs(objs), NEW s \in Stats, Update(o, s, op, k, rc)
  PROVE  /\ Objs(objs') /\ stat' = s /\ reply' \in Reply
         /\ reply'.ok => objs' = o
  <1>1. CASE objs' = o /\ Answer(op, k, TRUE, rc)
    BY <1>1, AnswerType DEF Update
  <1>2. CASE objs' = objs /\ Answer(op, k, FALSE, rc)
    BY <1>2, AnswerType DEF Update
  <1> QED
    BY <1>1, <1>2 DEF Update

\* The promise of one step.
Good == /\ Objs(objs') /\ stat' \in Stats /\ reply' \in Reply
        /\ reply'.ok => Drift' = Drift

LEMMA IncrStep ==
  ASSUME IInv, NEW op \in {"Get", "Inc", "Set"}, NEW k \in Keys, NEW inc \in Int, objs[k].in,
         Incr(op, k, inc)
  PROVE  Good
  <1> DEFINE n == NewRC(objs[k].rc, inc)
             s == av(stat, objs[k].rc, n, Vol[k])
             o == WithRC(k, n)
  <1>1. Objs(objs) /\ stat \in Stats /\ objs[k].rc \in 0..(Width - 1) /\ Width \in Nat
    BY IInvObjs, WidthAssumption DEF Objs, Obj
  <1>2. n \in 0..(Width - 1)
    BY <1>1, NewRCType
  <1>3. Update(o, s, op, k, n)
    BY DEF Incr
  <1> HIDE DEF n
  <1>4. n \in Nat /\ objs[k].rc \in Nat /\ Vol[k] \in Nat
    BY <1>1, <1>2, VolNat
  <1>5. s \in Stats
    BY <1>1, <1>4, StatTypes
  <1>6. Objs(o)
    BY <1>1, <1>2, WithRCObjs
  <1> HIDE DEF s, o
  <1>7. Objs(objs') /\ stat' = s /\ reply' \in Reply /\ (reply'.ok => objs' = o)
    BY <1>1, <1>3, <1>4, <1>5, <1>6, UpdateStep
  <1>8. ASSUME objs' = o PROVE Drift' = Drift
    BY <1>2, <1>7, <1>8, IncrDrift DEF s, o
  <1> QED
    BY <1>5, <1>7, <1>8 DEF Good

LEMMA TouchStep ==
  ASSUME IInv, NEW op \in {"Get", "Inc"}, NEW k \in Keys, NEW inc \in Int, Touch(op, k, inc)
  PROVE  Good
  <1>1. CASE objs[k].in /\ Incr(op, k, inc)
    BY <1>1, IncrStep
  <1>2. CASE Answer(op, k, objs[k].in, objs[k].rc) /\ UNCHANGED <<objs, stat>>
    <2>1. Objs(objs) /\ stat \in Stats /\ objs[k].rc \in Nat /\ objs[k].in \in BOOLEAN
      BY IInvObjs, WidthAssumption DEF Objs, Obj
    <2>2. reply' \in Reply
      BY <1>2, <2>1, AnswerType
    <2>3. Drift' = Drift
      BY <1>2 DEF Drift, True, Present, Used
    <2> QED
      BY <1>2, <2>1, <2>2, <2>3 DEF Good
  <1> QED
    BY <1>1, <1>2 DEF Touch

LEMMA SetStep ==
  ASSUME IInv, NEW k \in Keys, NEW inc \in SetIncs, Set(k, inc)
  PROVE  Good
  <1>0. inc \in 1..(Width - 1) /\ inc \in Int /\ Width \in Nat /\ Width > 1
    BY IncsAssumption, WidthAssumption
  <1>1. CASE objs[k].in /\ Incr("Set", k, inc)
    BY <1>0, <1>1, IncrStep
  <1>2. CASE ~objs[k].in
    <2> DEFINE n == IF Drive THEN 1 ELSE inc % Width
               s == av(addAll(stat, Vol[k]), 0, 1, Vol[k])
               o == WithRC(k, n)
    <2>1. n \in 1..(Width - 1)
      <3>1. inc % Width = inc
        BY <1>0
      <3> QED
        BY <1>0, <3>1
    <2>2. Update(o, s, "Set", k, n)
      BY <1>2 DEF Set
    <2> HIDE DEF n
    <2>3. n \in Nat /\ n \in 0..(Width - 1) /\ Vol[k] \in Nat /\ Objs(objs) /\ stat \in Stats
      BY <1>0, <2>1, VolNat, IInvObjs
    <2>4. addAll(stat, Vol[k]) \in Stats
      BY <2>3, StatTypes
    <2>5. s \in Stats
      BY <2>3, <2>4, StatTypes
    <2>6. Objs(o)
      BY <2>3, WithRCObjs
    <2> HIDE DEF s, o
    <2>7. Objs(objs') /\ stat' = s /\ reply' \in Reply /\ (reply'.ok => objs' = o)
      BY <2>2, <2>3, <2>5, <2>6, UpdateStep
    <2>8. ASSUME objs' = o PROVE Drift' = Drift
      BY <1>2, <2>1, <2>7, <2>8, NewDrift DEF s, o
    <2> QED
      BY <2>5, <2>7, <2>8 DEF Good
  <1> QED
    BY <1>1, <1>2 DEF Set

LEMMA DelStep ==
  ASSUME IInv, Drive \/ ~DelUsed, NEW k \in Keys, Del(k)
  PROVE  Good
  <1> DEFINE D == Present \cap {k}
             s == del(stat, D)
             o == Without(D)
  <1>1. Update(o, s, "Del", k, 0)
    BY DEF Del
  <1>2. D \in SUBSET Present /\ D \in SUBSET Keys /\ Objs(objs) /\ stat \in Stats
    BY IInvObjs DEF Present
  <1> HIDE DEF D
  <1>3. s \in Stats /\ Objs(o)
    BY <1>2, DelType, WithoutObjs
  <1> HIDE DEF s, o
  <1>4. Objs(objs') /\ stat' = s /\ reply' \in Reply /\ (reply'.ok => objs' = o)
    BY <1>1, <1>2, <1>3, UpdateStep
  <1>5. ASSUME objs' = o PROVE Drift' = Drift
    BY <1>2, <1>4, <1>5, DelDrift DEF s, o
  <1> QED
    BY <1>3, <1>4, <1>5 DEF Good

LEMMA IterateDelStep ==
  ASSUME IInv, NEW D \in SUBSET Present, IterateDel(D)
  PROVE  Good
  <1> DEFINE s == del(stat, D)
             o == Without(D)
  <1>1. D \in SUBSET Keys /\ Objs(objs) /\ stat \in Stats /\ NoReply.key \in Keys
    BY IInvObjs, NoReplyType DEF Present
  <1>2. s \in Stats /\ Objs(o)
    BY <1>1, DelType, WithoutObjs
  <1>3. CASE Update(o, s, "IterateDel", NoReply.key, 0)
    <2> HIDE DEF s, o
    <2>1. Objs(objs') /\ stat' = s /\ reply' \in Reply /\ (reply'.ok => objs' = o)
      BY <1>1, <1>2, <1>3, UpdateStep
    <2>2. ASSUME objs' = o PROVE Drift' = Drift
      BY <2>1, <2>2, DelDrift DEF s, o
    <2> QED
      BY <1>2, <2>1, <2>2 DEF Good
  <1>4. CASE /\ stat' = s
             /\ objs' = IF Drive THEN objs ELSE o
             /\ Answer("IterateDel", NoReply.key, FALSE, 0)
    <2> HIDE DEF s, o
    <2>1. reply' \in Reply /\ ~reply'.ok
      BY <1>1, <1>4, AnswerType
    <2> QED
      BY <1>1, <1>2, <1>4, <2>1 DEF Good
  <1> QED
    BY <1>3, <1>4 DEF IterateDel

\* Del of the map, which leaves the objects alone.
LEMMA DelMapStep ==
  ASSUME IInv, ~Drive, NEW k \in Keys, Del(k)
  PROVE  Objs(objs') /\ stat' \in Stats /\ reply' \in Reply
  <1> DEFINE D == Present \cap {k}
             s == del(stat, D)
  <1>1. Update(objs, s, "Del", k, 0)
    BY DEF Del
  <1>2. D \in SUBSET Keys /\ Objs(objs) /\ stat \in Stats
    BY IInvObjs DEF Present
  <1> HIDE DEF D
  <1>3. s \in Stats
    BY <1>2, DelType
  <1> HIDE DEF s
  <1> QED
    BY <1>1, <1>2, <1>3, UpdateStep

\* Opening and closing keep the objects, or forget them all.
LifeCycle == Create \/ SaveZeroes \/ Open \/ Close \/ Crash

LEMMA LifeCycleStep ==
  ASSUME IInv, LifeCycle
  PROVE  IInv' /\ ~reply'.ok
  <1>1. reply' = NoReply
    BY DEF LifeCycle, Create, SaveZeroes, Open, Close, Crash
  <1>2. Objs(objs) /\ stat \in Stats /\ saved \in Stats
    BY IInvObjs
  <1>3. Zero \in Stats /\ Encoded(stat) \in Stats
    BY DEF Zero, Encoded, encodeUint32, Version, Stat, Stats
  <1>4. Objs([k \in Keys |-> Absent])
    BY WidthAssumption DEF Objs, Absent, Obj
  <1>5. objs' = objs \/ objs' = [k \in Keys |-> Absent]
    BY DEF LifeCycle, Create, SaveZeroes, Open, Close, Crash
  <1>6. stat' \in Stats /\ saved' \in Stats
    BY <1>2, <1>3 DEF LifeCycle, Create, SaveZeroes, Open, Close, Crash
  <1>7. phase' \in {"none", "made", "open", "shut", "broken"}
    BY DEF LifeCycle, Create, SaveZeroes, Open, Close, Crash
  <1>8. IInv'
    <2>1. Objs(objs')
      BY <1>2, <1>4, <1>5
    <2> QED
      BY <1>1, <1>6, <1>7, <2>1, NoReplyType, IInvNext
  <1> QED
    BY <1>1, <1>8, NoReplyType

LEMMA InitIInv == Init => IInv
  <1> SUFFICES ASSUME Init PROVE IInv
    OBVIOUS
  <1>1. Objs(objs)
    BY WidthAssumption DEF Init, Objs, Absent, Obj
  <1>2. stat \in Stats /\ saved \in Stats
    BY DEF Init, Zero, NoStat, Stat, Stats
  <1>3. phase \in {"none", "open"} /\ reply \in Reply
    BY NoReplyType DEF Init
  <1> QED
    BY <1>1, <1>2, <1>3, IInvObjs

\* A call on the open store.
Call == \/ \E k \in Keys, inc \in Incs : Touch("Get", k, inc) \/ Touch("Inc", k, inc)
        \/ \E k \in Keys, inc \in SetIncs : Set(k, inc)
        \/ \E k \in Keys : Del(k)
        \/ \E D \in SUBSET Present : IterateDel(D)

LEMMA CallStep ==
  ASSUME IInv, Call
  PROVE  IInv' /\ UNCHANGED <<saved, phase>> /\ (Drive \/ ~DelUsed => Good)
  <1>0. UNCHANGED <<saved, phase>>
    BY DEF Call, Touch, Set, Del, IterateDel
  <1>1. Objs(objs') /\ stat' \in Stats /\ reply' \in Reply /\ (Drive \/ ~DelUsed => Good)
    <2>1. CASE \E k \in Keys, inc \in Incs : Touch("Get", k, inc) \/ Touch("Inc", k, inc)
      <3>1. PICK k \in Keys, inc \in Incs : Touch("Get", k, inc) \/ Touch("Inc", k, inc)
        BY <2>1
      <3>2. inc \in Int
        BY IncsAssumption
      <3>3. Good
        BY <3>1, <3>2, TouchStep
      <3> QED
        BY <3>3 DEF Good
    <2>2. CASE \E k \in Keys, inc \in SetIncs : Set(k, inc)
      BY <2>2, SetStep DEF Good
    <2>3. ASSUME NEW k \in Keys, Del(k)
          PROVE  Objs(objs') /\ stat' \in Stats /\ reply' \in Reply /\ (Drive \/ ~DelUsed => Good)
      <3>1. DelUsed
        BY <2>3 DEF Del
      <3>2. CASE Drive
        BY <2>3, <3>2, DelStep DEF Good
      <3>3. CASE ~Drive
        BY <2>3, <3>1, <3>3, DelMapStep
      <3> QED
        BY <3>2, <3>3
    <2>4. CASE \E D \in SUBSET Present : IterateDel(D)
      BY <2>4, IterateDelStep DEF Good
    <2> QED
      BY <2>1, <2>2, <2>3, <2>4 DEF Call
  <1>2. saved \in Stats /\ phase \in {"none", "made", "open", "shut", "broken"}
    BY IInvObjs
  <1>3. IInv'
    BY <1>0, <1>1, <1>2, IInvNext
  <1> QED
    BY <1>0, <1>1, <1>3

LEMMA NextSplit == Next => Call \/ LifeCycle
  BY DEF Next, Call, LifeCycle

LEMMA StepIInv == IInv /\ [Next]_vars => IInv'
  <1> SUFFICES ASSUME IInv, [Next]_vars PROVE IInv'
    OBVIOUS
  <1>1. CASE UNCHANGED vars
    BY <1>1 DEF vars, IInv, TypeOK, UsedPresent, Used, Present
  <1>2. CASE Next
    BY <1>2, NextSplit, CallStep, LifeCycleStep
  <1> QED
    BY <1>1, <1>2

-----------------------------------------------------------------------------
\* The store never keeps a reference to an object it does not have, for any
\* calls, failures and crashes: del and IterateDel take the counter with the
\* object.
THEOREM CXDSUsedPresent == Spec => []UsedPresent
  <1>1. IInv => UsedPresent
    BY DEF IInv
  <1> QED
    BY <1>1, InitIInv, StepIInv, PTL DEF Spec

\* Counters of objects are uint32 numbers, whatever the incs.
THEOREM CXDSTypeOK == Spec => []TypeOK
  <1>1. IInv => TypeOK
    BY DEF IInv
  <1> QED
    BY <1>1, InitIInv, StepIInv, PTL DEF Spec

DriftKept == phase = "open" /\ phase' = "open" /\ reply'.ok => Drift' = Drift

\* Amounts and volumes of a store on drive drift from the truth only where a
\* transaction is rolled back or the file is opened, for any objects and any
\* counters, wrapped ones included; the same holds in memory if Del is not used.
THEOREM CXDSDriftByFailure == ASSUME Drive \/ ~DelUsed PROVE Spec => DriftByFailure
  <1>1. IInv /\ [Next]_vars => [DriftKept]_vars
    <2> SUFFICES ASSUME IInv, [Next]_vars PROVE [DriftKept]_vars
      OBVIOUS
    <2>1. CASE Call
      BY <2>1, CallStep DEF Good, DriftKept
    <2>2. CASE LifeCycle
      BY <2>2, LifeCycleStep DEF DriftKept
    <2> QED
      BY <2>1, <2>2, NextSplit
  <1>2. Spec => [][DriftKept]_vars
    BY <1>1, InitIInv, StepIInv, PTL DEF Spec
  <1> QED
    BY <1>2 DEF DriftKept, DriftByFailure

\* Without failures, crashes and reopening, Amount and Volume are exact.
Exact == IInv /\ phase \in {"none", "made", "open"} /\ stat = True

THEOREM CXDSStatExact == ASSUME Drive \/ ~DelUsed, Events = {} PROVE Spec => []StatExact
  <1>1. Init => Exact
    <2> SUFFICES ASSUME Init PROVE stat = True /\ phase \in {"none", "made", "open"}
      BY InitIInv DEF Exact
    <2>1. objs = [k \in Keys |-> Absent] /\ stat = Zero
      BY DEF Init
    <2>2. Present = {} /\ Used = {}
      BY <2>1 DEF Present, Used, Absent
    <2>3. Cardinality({}) = 0 /\ TotalVol({}) = 0
      <3>1. Bytes(Vol, {}) = {}
        BY DEF Bytes
      <3> QED
        BY <3>1, FS_EmptySet DEF TotalVol, VolumeOf
    <2> QED
      BY <2>1, <2>2, <2>3 DEF True, Zero, Init
  <1>2. Exact /\ [Next]_vars => Exact'
    <2> SUFFICES ASSUME Exact, [Next]_vars PROVE stat' = True' /\ phase' \in {"none", "made", "open"}
      BY StepIInv DEF Exact
    <2>1. CASE UNCHANGED vars
      BY <2>1 DEF vars, Exact, True, Present, Used
    <2>2. CASE Call
      <3>1. Good /\ IInv /\ IInv' /\ phase' = phase /\ stat = True
        BY <2>2, CallStep DEF Exact
      <3>2. CASE reply'.ok
        <4>1. Drift' = Drift
          BY <3>1, <3>2 DEF Good
        <4> DEFINE t == True
                   u == True'
        <4>2. t \in Stats /\ stat \in Stats /\ stat = t
          BY <3>1, TrueType, IInvObjs
        <4>3. u \in Stats /\ stat' \in Stats
          <5>1. Present' \in SUBSET Keys /\ Used' \in SUBSET Keys
            BY DEF Present, Used
          <5>2. u \in Stats
            BY <5>1, FiniteKeys DEF True, Stat, Stats
          <5> QED
            BY <3>1, <5>2 DEF Good
        <4>4. Stat(stat'.amountAll - u.amountAll, stat'.amountUsed - u.amountUsed,
                   stat'.volumeAll - u.volumeAll, stat'.volumeUsed - u.volumeUsed)
              = Stat(stat.amountAll - t.amountAll, stat.amountUsed - t.amountUsed,
                     stat.volumeAll - t.volumeAll, stat.volumeUsed - t.volumeUsed)
          BY <4>1 DEF Drift
        <4> HIDE DEF t, u
        <4>5. /\ stat'.amountAll = u.amountAll /\ stat'.amountUsed = u.amountUsed
              /\ stat'.volumeAll = u.volumeAll /\ stat'.volumeUsed = u.volumeUsed
          <5>1. /\ stat'.amountAll - u.amountAll = stat.amountAll - t.amountAll
                /\ stat'.amountUsed - u.amountUsed = stat.amountUsed - t.amountUsed
                /\ stat'.volumeAll - u.volumeAll = stat.volumeAll - t.volumeAll
                /\ stat'.volumeUsed - u.volumeUsed = stat.volumeUsed - t.volumeUsed
            BY <4>4 DEF Stat
          <5>2. /\ stat.amountAll = t.amountAll /\ stat.amountUsed = t.amountUsed
                /\ stat.volumeAll = t.volumeAll /\ stat.volumeUsed = t.volumeUsed
            BY <4>2
          <5> QED
            BY <4>2, <4>3, <5>1, <5>2 DEF Stats
        <4>6. stat' = u
          BY <4>3, <4>5 DEF Stats
        <4> QED
          BY <3>1, <4>6 DEF Exact, u
      <3>3. CASE ~reply'.ok
        <4>1. objs' = objs /\ stat' = stat
          <5>1. ASSUME NEW o, NEW s, NEW op, NEW k, NEW rc, Update(o, s, op, k, rc) PROVE reply'.ok
            BY <5>1 DEF Update, Answer
          <5> QED
            BY <2>2, <3>3, <5>1 DEF Call, Touch, Set, Del, IterateDel, Incr
        <4> QED
          BY <3>1, <4>1 DEF True, Present, Used, Exact
      <3> QED
        BY <3>2, <3>3
    <2>3. CASE LifeCycle
      <3>1. Create \/ SaveZeroes
        BY <2>3 DEF LifeCycle, Open, Close, Crash, Exact
      <3>2. objs' = objs /\ stat' = stat /\ phase' \in {"none", "made", "open"}
        BY <3>1 DEF Create, SaveZeroes
      <3> QED
        BY <3>2 DEF True, Present, Used, Exact
    <2> QED
      BY <2>1, <2>2, <2>3, NextSplit
  <1>3. Exact => StatExact
    BY DEF Exact, StatExact
  <1> QED
    BY <1>1, <1>2, <1>3, PTL DEF Spec
-----------------------------------------------------------------------------
(* Both stores implement CountedStore, as long as no counter wraps.        *)

\* the counters, and the answer as a user of the store knows it
Rcs == [k \in Keys |-> objs[k].rc]

Heard == IF reply.op \in {"Del", "IterateDel"} THEN NoReply ELSE reply

\* no call takes a counter the model allows over the width
NoWrap == \A inc \in Incs \cup SetIncs : MaxRC + inc < Width

LowRC == \A k \in Keys : objs[k].rc <= MaxRC

LEMMA Unwrapped ==
  ASSUME NoWrap, NEW rc \in Nat, rc <= MaxRC, NEW inc \in Incs \cup SetIncs
  PROVE  NewRC(rc, inc) = Store!Sat(rc + inc)
  <1>1. inc \in Int /\ Width \in Nat /\ MaxRC \in Nat /\ MaxRC + inc < Width
    BY IncsAssumption, WidthAssumption DEF NoWrap
  <1>2. CASE inc > 0
    <2>1. rc + inc \in 0..(Width - 1) /\ rc + inc >= 0
      BY <1>1, <1>2
    <2>2. (rc + inc) % Width = rc + inc
      BY <1>1, <2>1
    <2> QED
      BY <1>2, <2>1, <2>2 DEF NewRC, Store!Sat
  <1>3. CASE ~(inc > 0)
    BY <1>3 DEF NewRC, Sat, Store!Sat
  <1> QED
    BY <1>2, <1>3

\* What stays as it is.
LEMMA SameObjs ==
  ASSUME objs' = objs PROVE Present' = Present /\ Rcs' = Rcs
  BY DEF Present, Rcs

\* A step that removes unused objects, or none, and answers nothing.
LEMMA StoreForget ==
  ASSUME NEW D \in SUBSET Present, DelUsed \/ \A k \in D : objs[k].rc = 0,
         Present' = Present \ D, \A k \in Keys : objs'[k].rc = IF k \in D THEN 0 ELSE objs[k].rc,
         Heard' = NoReply
  PROVE  Store!Forget
  <1> DEFINE refs == [k \in Keys |-> objs[k].rc]
             hold == [k \in Keys |-> 0]
             told == IF reply.op \in {"Del", "IterateDel"} THEN NoReply ELSE reply
  <1>1. D \in SUBSET {k \in Present : hold[k] = 0 /\ (refs[k] = 0 \/ DelUsed)}
    BY DEF Present
  <1>2. refs' = [k \in Keys |-> IF k \in D THEN 0 ELSE refs[k]]
    OBVIOUS
  <1>3. told' = Store!NoReply
    BY DEF Heard, NoReply, Store!NoReply
  <1>4. hold' = hold
    OBVIOUS
  <1> HIDE DEF refs, hold, told
  <1>5. \E K \in SUBSET {k \in Present : hold[k] = 0 /\ (refs[k] = 0 \/ DelUsed)} :
          /\ Present' = Present \ K
          /\ refs' = [k \in Keys |-> IF k \in K THEN 0 ELSE refs[k]]
    BY <1>1, <1>2
  <1> QED
    BY <1>3, <1>4, <1>5 DEF Store!Forget, refs, hold, told

LEMMA StoreNothing ==
  ASSUME objs' = objs, Heard' = NoReply PROVE Store!Forget
  <1>1. {} \in SUBSET Present /\ Present' = Present \ {}
    BY SameObjs
  <1> QED
    BY <1>1, StoreForget

\* A transaction that was rolled back.
LEMMA StoreFail ==
  ASSUME objs' = objs, "commit" \in Events, NEW op \in {"Get", "Inc", "Set"}, NEW k, NEW rc,
         Answer(op, k, FALSE, rc)
  PROVE  Store!Fail
  <1> DEFINE told == IF reply.op \in {"Del", "IterateDel"} THEN NoReply ELSE reply
             refs == [j \in Keys |-> objs[j].rc]
  <1>1. reply'.op = op /\ ~reply'.ok
    BY DEF Answer
  <1>2. told'.op \in {"Get", "Inc", "Set"} /\ ~told'.ok
    BY <1>1
  <1>3. Present' = Present /\ refs' = refs
    BY SameObjs DEF Rcs
  <1> HIDE DEF told, refs
  <1> QED
    BY <1>2, <1>3 DEF Store!Fail, told, refs

\* The answer to Get, Inc and Set of an object that is there.
LEMMA StoreAnswer ==
  ASSUME NEW op \in {"Get", "Inc", "Set"}, NEW k, NEW rc, Answer(op, k, TRUE, rc)
  PROVE  Heard'.op = op /\ Heard'.key = k /\ Heard'.ok /\ Heard'.rc = rc
  BY DEF Answer, Heard

\* A counter moves.
LEMMA StoreIncr ==
  ASSUME IInv, LowRC, NoWrap, NEW op \in {"Get", "Inc", "Set"}, NEW k \in Keys, NEW inc \in Incs \cup SetIncs,
         objs[k].in, Incr(op, k, inc)
  PROVE  (Store!Touch(op, k, inc) /\ (op = "Set" => Store!Set(k, inc))) \/ Store!Fail
  <1> DEFINE n == NewRC(objs[k].rc, inc)
             refs == [j \in Keys |-> objs[j].rc]
             hold == [j \in Keys |-> 0]
             told == IF reply.op \in {"Del", "IterateDel"} THEN NoReply ELSE reply
  <1>1. objs \in [Keys -> Obj] /\ objs[k].rc \in Nat /\ objs[k].rc <= MaxRC
    BY IInvObjs DEF Objs, Obj, LowRC
  <1>2. n = Store!Sat(objs[k].rc + inc) /\ n \in Int
    <2>1. n = Store!Sat(objs[k].rc + inc)
      BY <1>1, Unwrapped
    <2>2. inc \in Int
      BY IncsAssumption
    <2> QED
      BY <1>1, <2>1, <2>2 DEF Store!Sat
  <1>3. CASE objs' = WithRC(k, n) /\ Answer(op, k, TRUE, n)
    <2> HIDE DEF n
    <2>1. objs'[k] = [in |-> TRUE, rc |-> n] /\ \A j \in Keys : j # k => objs'[j] = objs[j]
      BY <1>1, <1>3 DEF WithRC
    <2>2. Present' = Present
      BY <2>1 DEF Present
    <2>3. refs' = [refs EXCEPT ![k] = Store!Sat(refs[k] + inc)]
      <3>1. \A j \in Keys : objs'[j].rc = IF j = k THEN n ELSE objs[j].rc
        BY <2>1
      <3> QED
        BY <1>2, <3>1
    <2>4. refs'[k] - hold[k] = n
      BY <1>2, <2>1
    <2>5. told'.op = op /\ told'.key = k /\ told'.ok /\ told'.rc = n
      BY <1>3, StoreAnswer DEF Heard
    <2>6. hold' = hold /\ k \in Present
      BY DEF Present
    <2> HIDE DEF refs, hold, told
    <2>7. Store!Touch(op, k, inc)
      BY <2>2, <2>3, <2>4, <2>5, <2>6 DEF Store!Touch, Store!Answer, refs, hold, told
    <2>8. op = "Set" => Store!Set(k, inc)
      BY <2>2, <2>3, <2>4, <2>5, <2>6 DEF Store!Set, Store!Answer, refs, hold, told
    <2> QED
      BY <2>7, <2>8
  <1>4. CASE objs' = objs /\ "commit" \in Events /\ Answer(op, k, FALSE, n)
    BY <1>4, StoreFail
  <1> QED
    BY <1>3, <1>4 DEF Incr, Update

\* Get and Inc.
LEMMA StoreTouch ==
  ASSUME IInv, LowRC, NoWrap, NEW op \in {"Get", "Inc"}, NEW k \in Keys, NEW inc \in Incs, Touch(op, k, inc)
  PROVE  Store!Touch(op, k, inc) \/ Store!Fail
  <1> DEFINE refs == [j \in Keys |-> objs[j].rc]
             hold == [j \in Keys |-> 0]
             told == IF reply.op \in {"Del", "IterateDel"} THEN NoReply ELSE reply
  <1>1. objs \in [Keys -> Obj] /\ objs[k].rc \in Nat /\ objs[k].in \in BOOLEAN /\ (objs[k].rc > 0 => objs[k].in)
    BY IInvObjs DEF Objs, Obj
  <1>2. CASE objs[k].in /\ inc # 0 /\ Incr(op, k, inc)
    BY <1>2, StoreIncr
  <1>3. CASE objs[k].in /\ inc = 0 /\ Answer(op, k, objs[k].in, objs[k].rc) /\ UNCHANGED objs
    <2>1. Answer(op, k, TRUE, objs[k].rc)
      <3>1. objs[k].in = TRUE
        BY <1>1, <1>3
      <3> QED
        BY <1>3, <3>1, Zenon
    <2>2. told'.op = op /\ told'.key = k /\ told'.ok /\ told'.rc = objs[k].rc
      BY <2>1, StoreAnswer DEF Heard
    <2>3. Present' = Present /\ refs' = refs
      BY <1>3, SameObjs DEF Rcs
    <2>4. refs' = [refs EXCEPT ![k] = Store!Sat(refs[k] + inc)]
      <3>1. Store!Sat(refs[k] + inc) = refs[k]
        BY <1>1, <1>3 DEF Store!Sat
      <3> QED
        BY <2>3, <3>1
    <2>5. refs'[k] - hold[k] = objs[k].rc
      BY <1>1, <2>3
    <2>6. k \in Present /\ hold' = hold
      BY <1>3 DEF Present
    <2> HIDE DEF refs, hold, told
    <2> QED
      BY <2>2, <2>3, <2>4, <2>5, <2>6 DEF Store!Touch, Store!Answer, refs, hold, told
  <1>4. CASE ~objs[k].in /\ Answer(op, k, objs[k].in, objs[k].rc) /\ UNCHANGED objs
    <2>1. objs[k].in = FALSE /\ objs[k].rc = 0
      BY <1>1, <1>4
    <2>2. reply' = [op |-> op, key |-> k, ok |-> FALSE, rc |-> 0]
      BY <1>4, <2>1 DEF Answer
    <2>3. told' = [op |-> op, key |-> k, ok |-> FALSE, rc |-> 0]
      BY <2>2
    <2>4. Present' = Present /\ refs' = refs /\ k \notin Present
      BY <1>4, SameObjs DEF Rcs, Present
    <2> HIDE DEF refs, told
    <2> QED
      BY <2>3, <2>4 DEF Store!Touch, Store!NotFound, refs, told
  <1> QED
    BY <1>2, <1>3, <1>4 DEF Touch

\* Set: an object that is there gets the references, a new one starts with them.
LEMMA StoreSet ==
  ASSUME IInv, LowRC, NoWrap, Drive => SetIncs \subseteq {1}, NEW k \in Keys, NEW inc \in SetIncs, Set(k, inc)
  PROVE  Store!Set(k, inc) \/ Store!Fail
  <1> DEFINE refs  == [j \in Keys |-> objs[j].rc]
             hold  == [j \in Keys |-> 0]
             wants == [j \in Keys |-> [w \in {} |-> 0]]
             mail  == [w \in {} |-> 0]
             told  == IF reply.op \in {"Del", "IterateDel"} THEN NoReply ELSE reply
  <1>1. objs \in [Keys -> Obj] /\ inc \in 1..(Width - 1) /\ Width \in Nat
    BY IInvObjs, IncsAssumption, WidthAssumption DEF Objs
  <1>2. CASE objs[k].in /\ Incr("Set", k, inc)
    BY <1>2, StoreIncr
  <1>3. CASE ~objs[k].in /\ objs' = WithRC(k, inc) /\ Answer("Set", k, TRUE, inc)
    <2>1. objs'[k] = [in |-> TRUE, rc |-> inc] /\ \A j \in Keys : j # k => objs'[j] = objs[j]
      BY <1>1, <1>3 DEF WithRC
    <2>2. Present' = Present \cup {k} /\ k \notin Present
      BY <1>3, <2>1 DEF Present
    <2>3. Store!Wincs(wants[k]) = 0
      <3>1. {w \in DOMAIN wants[k] : wants[k][w] = 1} = {}
        OBVIOUS
      <3> HIDE DEF wants
      <3>2. Cardinality({}) = 0
        BY FS_EmptySet
      <3> QED
        BY <3>1, <3>2 DEF Store!Wincs, Store!Cardinality, Cardinality
    <2>4. refs' = [refs EXCEPT ![k] = inc + Store!Wincs(wants[k])]
      <3>1. \A j \in Keys : objs'[j].rc = IF j = k THEN inc ELSE objs[j].rc
        BY <2>1
      <3>2. inc + Store!Wincs(wants[k]) = inc
        BY <1>1, <2>3
      <3> HIDE DEF wants
      <3> QED
        BY <3>1, <3>2
    <2>5. hold' = [hold EXCEPT ![k] = hold[k] + Store!Wincs(wants[k])] /\ hold'[k] = 0
      <3> HIDE DEF wants
      <3> QED
        BY <2>3
    <2>6. mail' = Store!Deliver(DOMAIN wants[k], Store!Told(k, refs'[k] - hold'[k]))
      <3> HIDE DEF wants, refs, hold
      <3> QED
        BY DEF Store!Deliver, mail
    <2>7. wants' = [wants EXCEPT ![k] = Store!NoWants]
      <3>1. wants[k] = Store!NoWants
        BY DEF Store!NoWants
      <3> QED
        BY <3>1
    <2>8. refs'[k] - hold'[k] = inc
      BY <1>1, <2>1, <2>5
    <2>9. told'.op = "Set" /\ told'.key = k /\ told'.ok /\ told'.rc = inc
      BY <1>3, StoreAnswer DEF Heard
    <2> HIDE DEF refs, hold, wants, mail, told
    <2>10. Store!Create(k, inc)
      BY <2>2, <2>4, <2>5, <2>6, <2>7 DEF Store!Create, refs, hold, wants, mail
    <2>11. Store!Answer("Set", k, refs'[k] - hold'[k])
      BY <2>8, <2>9 DEF Store!Answer, told
    <2> QED
      BY <2>10, <2>11 DEF Store!Set, refs, hold
  <1>4. CASE ~objs[k].in /\ LET rc == IF Drive THEN 1 ELSE inc % Width
                            IN  Update(WithRC(k, rc), av(addAll(stat, Vol[k]), 0, 1, Vol[k]), "Set", k, rc)
    <2> DEFINE rc == IF Drive THEN 1 ELSE inc % Width
    <2>1. rc = inc
      <3>1. inc % Width = inc
        BY <1>1
      <3>2. Drive => inc = 1
        OBVIOUS
      <3> QED
        BY <3>1, <3>2
    <2>2. \/ objs' = WithRC(k, rc) /\ Answer("Set", k, TRUE, rc)
          \/ "commit" \in Events /\ objs' = objs /\ Answer("Set", k, FALSE, rc)
      BY <1>4 DEF Update
    <2> HIDE DEF rc
    <2> QED
      BY <1>3, <1>4, <2>1, <2>2, StoreFail
  <1> QED
    BY <1>2, <1>4 DEF Set

\* Del and IterateDel.
LEMMA StoreRemove ==
  ASSUME IInv, NEW D \in SUBSET Present, DelUsed \/ \A k \in D : objs[k].rc = 0,
         objs' = Without(D) \/ objs' = objs, reply'.op \in {"Del", "IterateDel"}
  PROVE  Store!Forget
  <1>1. objs \in [Keys -> Obj]
    BY IInvObjs DEF Objs
  <1>2. Heard' = NoReply
    BY DEF Heard, NoReply
  <1>3. CASE objs' = Without(D)
    <2>1. \A k \in Keys : objs'[k] = IF k \in D THEN Absent ELSE objs[k]
      BY <1>3 DEF Without
    <2>2. Present' = Present \ D /\ \A k \in Keys : objs'[k].rc = IF k \in D THEN 0 ELSE objs[k].rc
      BY <2>1 DEF Present, Absent
    <2> QED
      BY <1>2, <2>2, StoreForget
  <1>4. CASE objs' = objs
    BY <1>2, <1>4, StoreNothing
  <1> QED
    BY <1>3, <1>4

\* Opening, closing and crashes; only closing the map removes objects.
LEMMA StoreLife ==
  ASSUME IInv, Drive \/ DelUsed \/ "close" \notin Events, LifeCycle
  PROVE  Store!Forget
  <1>1. reply' = NoReply /\ Heard' = NoReply
    BY DEF LifeCycle, Create, SaveZeroes, Open, Close, Crash, Heard, NoReply
  <1>2. CASE objs' = objs
    BY <1>1, <1>2, StoreNothing
  <1>3. CASE DelUsed /\ objs' = [k \in Keys |-> Absent]
    <2>1. Present \in SUBSET Present /\ Present' = Present \ Present
      BY <1>3 DEF Present, Absent
    <2>2. ASSUME NEW k \in Keys PROVE objs'[k].rc = IF k \in Present THEN 0 ELSE objs[k].rc
      <3>1. objs'[k].rc = 0
        BY <1>3 DEF Absent
      <3>2. k \notin Present => objs[k].rc = 0
        <4>1. objs[k].rc \in Nat /\ (objs[k].rc > 0 => objs[k].in)
          BY IInvObjs DEF Objs, Obj
        <4> QED
          BY <4>1 DEF Present
      <3> QED
        BY <3>1, <3>2
    <2> QED
      BY <1>1, <1>3, <2>1, <2>2, StoreForget
  <1>4. objs' = objs \/ (DelUsed /\ objs' = [k \in Keys |-> Absent])
    BY DEF LifeCycle, Create, SaveZeroes, Open, Close, Crash
  <1> QED
    BY <1>2, <1>3, <1>4

LEMMA StoreStep ==
  ASSUME IInv, LowRC, NoWrap, Drive => SetIncs \subseteq {1}, Drive \/ DelUsed \/ "close" \notin Events, Next
  PROVE  Store!Next
  <1>1. ASSUME NEW k \in Keys, NEW inc \in Incs, Touch("Get", k, inc) \/ Touch("Inc", k, inc)
        PROVE  Store!Next
    BY <1>1, StoreTouch DEF Store!Next
  <1>2. ASSUME NEW k \in Keys, NEW inc \in SetIncs, Set(k, inc) PROVE Store!Next
    <2>1. inc > 0
      BY IncsAssumption
    <2> QED
      BY <1>2, <2>1, StoreSet DEF Store!Next
  <1>3. ASSUME NEW k \in Keys, Del(k) PROVE Store!Next
    <2> DEFINE D == Present \cap {k}
    <2>1. DelUsed /\ (objs' = Without(D) \/ objs' = objs) /\ reply'.op = "Del"
      BY <1>3 DEF Del, Update, Answer
    <2>2. D \in SUBSET Present
      OBVIOUS
    <2> HIDE DEF D
    <2> QED
      BY <2>1, <2>2, StoreRemove DEF Store!Next
  <1>4. ASSUME NEW D \in SUBSET Present, IterateDel(D) PROVE Store!Next
    <2>1. /\ DelUsed \/ \A k \in D : objs[k].rc = 0
          /\ objs' = Without(D) \/ objs' = objs
          /\ reply'.op = "IterateDel"
      BY <1>4 DEF IterateDel, Update, Answer
    <2> QED
      BY <2>1, StoreRemove DEF Store!Next
  <1>5. CASE LifeCycle
    BY <1>5, StoreLife DEF Store!Next
  <1> QED
    BY <1>1, <1>2, <1>3, <1>4, <1>5 DEF Next, LifeCycle

CountedInv == IInv /\ LowRC

\* The store on drive and the one in memory are the same to their callers:
\* every call is a step of CountedStore or fails and does nothing, removals take
\* only what may go, and opening, crashes and transactions that are rolled back
\* change nothing.  The promise excludes a counter that wraps, a new object on
\* drive with more than one reference (drive.go:382 takes no account of inc)
\* and closing the map under objects in use.
THEOREM CXDSCounted ==
  ASSUME NoWrap, Drive => SetIncs \subseteq {1}, Drive \/ DelUsed \/ "close" \notin Events
  PROVE  Spec => Counted
  <1>1. Init => CountedInv /\ Store!Init
    <2> SUFFICES ASSUME Init PROVE CountedInv /\ Store!Init
      OBVIOUS
    <2>1. \A k \in Keys : ~objs[k].in /\ objs[k].rc = 0
      BY DEF Init, Absent
    <2>2. CountedInv
      BY <2>1, InitIInv, WidthAssumption DEF CountedInv, LowRC
    <2>3. reply = NoReply /\ ~(reply.op \in {"Del", "IterateDel"})
      BY DEF Init, NoReply
    <2> QED
      BY <2>1, <2>2, <2>3 DEF Store!Init, Present, NoReply, Store!NoReply, Store!NoWants
  <1>2. CountedInv /\ [Next]_vars => CountedInv' /\ [Store!Next]_(Store!vars)
    <2> SUFFICES ASSUME CountedInv, [Next]_vars PROVE CountedInv' /\ [Store!Next]_(Store!vars)
      OBVIOUS
    <2>1. IInv'
      BY StepIInv DEF CountedInv
    <2>2. CASE Next
      <3>1. LowRC'
        BY <2>2 DEF Next, Bounded, LowRC
      <3> QED
        BY <2>1, <2>2, <3>1, StoreStep DEF CountedInv
    <2>3. CASE UNCHANGED vars
      <3>1. UNCHANGED Store!vars
        BY <2>3 DEF vars, Store!vars, Present
      <3> QED
        BY <2>1, <2>3, <3>1 DEF CountedInv, LowRC, vars
    <2> QED
      BY <2>2, <2>3
  <1> QED
    BY <1>1, <1>2, PTL DEF Spec, Counted, Store!Spec

=============================================================================
