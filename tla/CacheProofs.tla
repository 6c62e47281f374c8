----------------------------- MODULE CacheProofs -----------------------------
(***************************************************************************)
(* Coherent is an invariant of the Cache for every set of objects, every   *)
(* set of wanters and every configuration.  The argument follows the code: *)
(* the internal methods map a sound state of the cache and of the DB to a  *)
(* sound one (SoundEvict, SoundDbInc, SoundPut, ...), and every exported   *)
(* method is a composition of them.                                        *)
(***************************************************************************)
EXTENDS Cache, VolumeProofs

Db == [in : BOOLEAN, rc : Nat]

Sound(s) == /\ s.item \in [Keys -> Item]
            /\ s.db \in [Keys -> Db]
            /\ \A k \in Keys : ItemSound(s, k)

\* The DB counter of a key never falls below zero and is exact above it.
LEMMA SatNat == ASSUME NEW n \in Int PROVE Sat(n) \in Nat /\ (n >= 0 => Sat(n) = n)
  BY DEF Sat

\* The items the internal methods build are items without wanters.
LEMMA Built ==
  ASSUME NEW fc \in Nat, NEW rc \in Nat
  PROVE  /\ NoItem \in Item /\ Shell(fc) \in Item /\ Regular(fc, rc) \in Item
         /\ ~isWanted(NoItem) /\ ~isWanted(Shell(fc)) /\ ~isWanted(Regular(fc, rc))
         /\ ~NoItem.in /\ ~NoItem.val /\ NoItem.cc = 0 /\ NoItem.rc = 0 /\ NoItem.fc = 0
         /\ Shell(fc).in /\ ~Shell(fc).val /\ Shell(fc).cc = 0 /\ Shell(fc).rc = 0 /\ Shell(fc).fc = fc
         /\ Regular(fc, rc).in /\ Regular(fc, rc).val /\ Regular(fc, rc).cc = rc
         /\ Regular(fc, rc).rc = rc /\ Regular(fc, rc).fc = fc
  <1>1. NoWants \in [{} -> {0, 1}] /\ DOMAIN NoWants = {}
    BY DEF NoWants
  <1>2. NoWants \in UNION {[W -> {0, 1}] : W \in SUBSET Wanters}
    BY <1>1
  <1>3. NoItem \in Item /\ Shell(fc) \in Item
    BY <1>2 DEF NoItem, Shell, Item
  <1>4. Regular(fc, rc) \in Item
    BY <1>2 DEF Regular, Item
  <1>5. ~isWanted(NoItem) /\ ~isWanted(Shell(fc)) /\ ~isWanted(Regular(fc, rc))
    BY <1>1 DEF NoItem, Shell, Regular, isWanted
  <1> QED
    BY <1>3, <1>4, <1>5 DEF NoItem, Shell, Regular

\* The incs of the wanters of an item are a number.
LEMMA WincsNat == ASSUME NEW it \in Item PROVE Wincs(it) \in Nat
  <1>1. {w \in DOMAIN it.fwant : it.fwant[w] = 1} \subseteq Wanters
    BY DEF Item
  <1>2. IsFiniteSet({w \in DOMAIN it.fwant : it.fwant[w] = 1})
    BY <1>1, KeysAssumption, FS_Subset
  <1> QED
    BY <1>2, FS_CardinalityType DEF Wincs

\* Replacing one item and the DB entry of its key keeps the state sound if the
\* new pair is.
LEMMA SoundWith ==
  ASSUME NEW s, Sound(s), NEW t, NEW k \in Keys,
         t.item = [s.item EXCEPT ![k] = t.item[k]],
         t.db = [s.db EXCEPT ![k] = t.db[k]],
         t.item[k] \in Item, t.db[k] \in Db, ItemSound(t, k)
  PROVE  Sound(t)
  <1>1. t.item \in [Keys -> Item] /\ t.db \in [Keys -> Db]
    BY DEF Sound
  <1>2. \A j \in Keys : j # k => t.item[j] = s.item[j] /\ t.db[j] = s.db[j]
    BY DEF Sound
  <1>3. \A j \in Keys : j # k => ItemSound(t, j)
    BY <1>2 DEF Sound, ItemSound
  <1> QED
    BY <1>1, <1>3 DEF Sound

\* Evicting items that keep a value leaves the DB with their counters
\* (delete, cleanDown).
LEMMA SoundEvict ==
  ASSUME NEW s, Sound(s),
         NEW E \in SUBSET {k \in Keys : s.item[k].val}
  PROVE  /\ Sound(Evict(s, E))
         /\ \A k \in Keys \ E : Evict(s, E).item[k] = s.item[k] /\ Evict(s, E).db[k] = s.db[k]
  <1> DEFINE t == Evict(s, E)
  <1>1. \A k \in Keys \ E : t.item[k] = s.item[k] /\ t.db[k] = s.db[k]
    BY DEF Evict
  <1>2. ASSUME NEW k \in E
        PROVE  t.item[k] \in Item /\ t.db[k] \in Db /\ ItemSound(t, k)
    <2>1. k \in Keys /\ s.item[k].val /\ s.item[k] \in Item /\ s.db[k] \in Db /\ ItemSound(s, k)
      BY DEF Sound
    <2>2. /\ t.item[k] = Left(s.item[k])
          /\ t.db[k] = [in |-> s.db[k].in,
                        rc |-> Sat(s.db[k].rc + (s.item[k].cc - s.item[k].rc))]
      BY <2>1 DEF Evict
    <2>3. s.db[k].rc + (s.item[k].cc - s.item[k].rc) \in Int /\ s.item[k].fc \in Nat
      BY <2>1 DEF Item, Db
    <2>4. t.db[k] \in Db /\ t.db[k].in
      BY <2>1, <2>2, <2>3, SatNat DEF Db, ItemSound
    <2>5. t.item[k] = NoItem \/ t.item[k] = Shell(s.item[k].fc)
      BY <2>2 DEF Left
    <2> HIDE DEF t
    <2> QED
      BY <2>3, <2>4, <2>5, Built DEF ItemSound
  <1>3. \A k \in Keys \ E : ItemSound(t, k)
    BY <1>1 DEF Sound, ItemSound
  <1>4. t.item = [k \in Keys |-> t.item[k]] /\ t.db = [k \in Keys |-> t.db[k]]
    BY DEF Evict
  <1>5. \A k \in Keys : t.item[k] \in Item /\ t.db[k] \in Db /\ ItemSound(t, k)
    BY <1>1, <1>2, <1>3 DEF Sound
  <1> HIDE DEF t
  <1>6. Sound(t)
    BY <1>4, <1>5 DEF Sound
  <1> QED
    BY <1>1, <1>6 DEF t

\* A DB access to a key whose value is not in the cache (getFilling,
\* incFilling, get, inc, Want).
LEMMA SoundDbInc ==
  ASSUME NEW s, Sound(s), NEW k \in Keys, NEW inc \in Int, ~s.item[k].val, s.db[k].in
  PROVE  /\ Sound(DbInc(s, k, inc))
         /\ DbInc(s, k, inc).item = s.item
         /\ DbInc(s, k, inc).db[k].in
  <1> DEFINE t == DbInc(s, k, inc)
  <1>1. s.item[k] \in Item /\ s.db[k] \in Db /\ ItemSound(s, k) /\ s.db \in [Keys -> Db]
        /\ s.item \in [Keys -> Item]
    BY DEF Sound
  <1>2. s.db[k].rc + inc \in Int
    BY <1>1 DEF Db
  <1>3. /\ t.item = s.item
        /\ t.db = [s.db EXCEPT ![k] = [in |-> TRUE, rc |-> Sat(s.db[k].rc + inc)]]
    BY DEF DbInc, WithDb
  <1>4. t.db[k] = [in |-> TRUE, rc |-> Sat(s.db[k].rc + inc)]
    BY <1>1, <1>3
  <1>5. t.db[k] \in Db /\ t.db[k].in
    BY <1>2, <1>4, SatNat DEF Db
  <1> HIDE DEF t
  <1>6. ItemSound(t, k)
    BY <1>1, <1>3, <1>5 DEF ItemSound
  <1>7. t.item = [s.item EXCEPT ![k] = t.item[k]] /\ t.db = [s.db EXCEPT ![k] = t.db[k]]
    BY <1>1, <1>3, <1>4
  <1>8. Sound(t)
    BY <1>1, <1>3, <1>5, <1>6, <1>7, SoundWith
  <1> QED
    BY <1>3, <1>5, <1>8 DEF t

\* Caching the value of an object the DB has (putItem, putFillingItem).
LEMMA SoundKeep ==
  ASSUME NEW s, Sound(s), NEW k \in Keys, s.db[k].in
  PROVE  Sound(Keep(s, k))
  <1> DEFINE t == Keep(s, k)
  <1>1. s.item[k] \in Item /\ s.db[k] \in Db /\ s.item \in [Keys -> Item] /\ s.db \in [Keys -> Db]
    BY DEF Sound
  <1>2. s.item[k].fc \in Nat /\ s.db[k].rc \in Nat
    BY <1>1 DEF Item, Db
  <1>3. t.item = [s.item EXCEPT ![k] = Regular(s.item[k].fc, s.db[k].rc)] /\ t.db = s.db
    BY DEF Keep
  <1>4. t.item[k] = Regular(s.item[k].fc, s.db[k].rc)
    BY <1>1, <1>3
  <1> HIDE DEF t
  <1>5. ItemSound(t, k) /\ t.item[k] \in Item
    BY <1>2, <1>3, <1>4, Built DEF ItemSound
  <1>6. t.item = [s.item EXCEPT ![k] = t.item[k]] /\ t.db = [s.db EXCEPT ![k] = t.db[k]]
    BY <1>1, <1>3, <1>4
  <1>7. Sound(t)
    BY <1>1, <1>3, <1>5, <1>6, SoundWith
  <1> QED
    BY <1>7 DEF t

\* putItem and putFillingItem with all the evictions they may cause.
LEMMA SoundPut ==
  ASSUME NEW s, Sound(s), NEW k \in Keys, s.db[k].in, ~s.item[k].val, NEW r \in Put(s, k)
  PROVE  /\ Sound(r.s) /\ r.ok \in BOOLEAN
         /\ r.s.db[k].in
         /\ s.item[k].in => r.s.item[k].in
  <1> DEFINE Cleaned == CleanDown(s, Vol[k]) \cup CleanDownFailed(s, Vol[k])
  <1>1. ASSUME NEW c \in Cleaned
        PROVE  \E E \in SUBSET Rank(s) : c.s = Evict(s, E) /\ c.ok \in BOOLEAN
    <2>1. ASSUME NEW E \in SUBSET Rank(s), NEW ok \in BOOLEAN, c = [ok |-> ok, s |-> Evict(s, E)]
          PROVE  c.s = Evict(s, E) /\ c.ok \in BOOLEAN
      BY <2>1
    <2>2. CASE c \in CleanDown(s, Vol[k])
      <3>1. PICK E \in Victims(s, Vol[k]) : c = [ok |-> TRUE, s |-> Evict(s, E)]
        BY <2>2 DEF CleanDown
      <3>2. E \in SUBSET Rank(s)
        BY DEF Victims
      <3> QED
        BY <3>1, <3>2, <2>1
    <2>3. CASE c \in CleanDownFailed(s, Vol[k])
      <3>1. PICK E \in SUBSET Rank(s) : c = [ok |-> FALSE, s |-> Evict(s, E)]
        BY <2>3 DEF CleanDownFailed
      <3> QED
        BY <3>1, <2>1
    <2> QED
      BY <2>2, <2>3
  <1>2. Rank(s) \subseteq {j \in Keys : s.item[j].val}
    BY DEF Rank
  <1>3. ASSUME NEW c \in Cleaned \cup {[ok |-> TRUE, s |-> s]}
        PROVE  Sound(c.s) /\ c.s.item[k] = s.item[k] /\ c.s.db[k] = s.db[k] /\ c.ok \in BOOLEAN
    <2>1. CASE c \in Cleaned
      <3>1. PICK E \in SUBSET Rank(s) : c.s = Evict(s, E) /\ c.ok \in BOOLEAN
        BY <1>1, <2>1
      <3>2. E \in SUBSET {j \in Keys : s.item[j].val} /\ k \in Keys \ E
        BY <1>2
      <3> QED
        BY <3>1, <3>2, SoundEvict
    <2>2. CASE c = [ok |-> TRUE, s |-> s]
      BY <2>2
    <2> QED
      BY <2>1, <2>2
  <1>4. r = [ok |-> TRUE, s |-> s]
        \/ \E c \in Cleaned \cup {[ok |-> TRUE, s |-> s]} :
             r = [ok |-> c.ok, s |-> IF c.ok THEN Keep(c.s, k) ELSE c.s]
    BY DEF Put
  <1>5. CASE r = [ok |-> TRUE, s |-> s]
    BY <1>5
  <1>6. ASSUME NEW c \in Cleaned \cup {[ok |-> TRUE, s |-> s]},
               r = [ok |-> c.ok, s |-> IF c.ok THEN Keep(c.s, k) ELSE c.s]
        PROVE  /\ Sound(r.s) /\ r.ok \in BOOLEAN
               /\ r.s.db[k].in
               /\ s.item[k].in => r.s.item[k].in
    <2>1. Sound(c.s) /\ c.s.item[k] = s.item[k] /\ c.s.db[k] = s.db[k] /\ c.ok \in BOOLEAN
      BY <1>3
    <2>2. CASE c.ok
      <3>1. r.s = Keep(c.s, k) /\ r.ok
        BY <1>6, <2>2
      <3>2. Sound(Keep(c.s, k))
        BY <2>1, SoundKeep
      <3>3. /\ Keep(c.s, k).db = c.s.db
            /\ Keep(c.s, k).item = [c.s.item EXCEPT ![k] = Regular(c.s.item[k].fc, c.s.db[k].rc)]
        BY DEF Keep
      <3>4. Keep(c.s, k).item[k] = Regular(c.s.item[k].fc, c.s.db[k].rc)
        BY <3>3, <2>1 DEF Sound
      <3>5. Keep(c.s, k).item[k].in
        BY <3>4 DEF Regular
      <3> QED
        BY <3>1, <3>2, <3>3, <3>5, <2>1
    <2>3. CASE ~c.ok
      <3>1. r.s = c.s /\ r.ok = c.ok
        BY <1>6, <2>3
      <3> QED
        BY <3>1, <2>1
    <2> QED
      BY <2>2, <2>3
  <1> QED
    BY <1>4, <1>5, <1>6

\* Counters of an item with a value change in the cache only.
LEMMA ItemFields ==
  ASSUME NEW it \in Item, NEW n \in Nat
  PROVE  /\ WithCc(it, n) \in Item /\ WithFc(it, n) \in Item
         /\ WithCc(it, n).cc = n /\ WithFc(it, n).fc = n
         /\ WithCc(it, n).rc = it.rc /\ WithFc(it, n).rc = it.rc
         /\ WithCc(it, n).fc = it.fc /\ WithFc(it, n).cc = it.cc
         /\ WithCc(it, n).in = it.in /\ WithFc(it, n).in = it.in
         /\ WithCc(it, n).val = it.val /\ WithFc(it, n).val = it.val
         /\ isWanted(WithCc(it, n)) <=> isWanted(it)
         /\ isWanted(WithFc(it, n)) <=> isWanted(it)
  BY DEF Item, isWanted, WithCc, WithFc

\* Replacing one item of a sound state.
LEMMA SoundWithItem ==
  ASSUME NEW s, Sound(s), NEW k \in Keys, NEW it \in Item, ItemSound(WithItem(s, k, it), k)
  PROVE  /\ Sound(WithItem(s, k, it))
         /\ WithItem(s, k, it).item[k] = it /\ WithItem(s, k, it).db = s.db
  <1> DEFINE t == WithItem(s, k, it)
  <1>1. s.item \in [Keys -> Item] /\ s.db \in [Keys -> Db]
    BY DEF Sound
  <1>2. t.item = [s.item EXCEPT ![k] = it] /\ t.db = s.db
    BY DEF WithItem
  <1>3. t.item[k] = it
    BY <1>1, <1>2
  <1> HIDE DEF t
  <1>4. t.item = [s.item EXCEPT ![k] = t.item[k]] /\ t.db = [s.db EXCEPT ![k] = t.db[k]]
        /\ t.db[k] \in Db
    BY <1>1, <1>2, <1>3
  <1>5. ItemSound(t, k)
    BY DEF t
  <1>6. Sound(t)
    BY <1>3, <1>4, <1>5, SoundWith
  <1> QED
    BY <1>2, <1>3, <1>6 DEF t

\* Get, Inc, Set and a reject on a cached item.
LEMMA SoundTouch ==
  ASSUME NEW s, Sound(s), NEW k \in Keys, NEW inc \in Int, s.item[k].val,
         NEW t \in TouchItem(s, k, inc)
  PROVE  Sound(t)
  <1> DEFINE it == WithCc(s.item[k], Sat(s.item[k].cc + inc))
             u  == WithItem(s, k, it)
  <1>1. s.item[k] \in Item /\ s.db[k] \in Db /\ ItemSound(s, k) /\ s.item \in [Keys -> Item]
    BY DEF Sound
  <1>2. Sat(s.item[k].cc + inc) \in Nat
    BY <1>1, SatNat DEF Item
  <1>3. /\ it \in Item /\ it.cc >= 0 /\ it.rc = s.item[k].rc /\ it.fc = s.item[k].fc
        /\ it.in = s.item[k].in /\ it.val /\ (isWanted(it) <=> isWanted(s.item[k]))
    <2> DEFINE n == Sat(s.item[k].cc + inc)
    <2>1. n \in Nat /\ s.item[k] \in Item
      BY <1>1, <1>2
    <2> HIDE DEF n
    <2>2. WithCc(s.item[k], n).cc = n /\ n >= 0
      BY <2>1, ItemFields
    <2>3. WithCc(s.item[k], n) \in Item
      BY <2>1, ItemFields
    <2>4. /\ WithCc(s.item[k], n).rc = s.item[k].rc /\ WithCc(s.item[k], n).fc = s.item[k].fc
          /\ WithCc(s.item[k], n).in = s.item[k].in /\ WithCc(s.item[k], n).val
          /\ isWanted(WithCc(s.item[k], n)) <=> isWanted(s.item[k])
      BY <2>1, ItemFields
    <2> QED
      BY <2>2, <2>3, <2>4 DEF n
  <1>4. u.item[k] = it /\ u.db = s.db
    BY <1>1 DEF WithItem
  <1> HIDE DEF it
  <1>5. ItemSound(u, k)
    <2> HIDE DEF u
    <2> QED
      BY <1>1, <1>3, <1>4 DEF ItemSound
  <1>6. Sound(u)
    BY <1>3, <1>5, SoundWithItem
  <1>7. t = u \/ t = Evict(u, {k})
    <2>1. TouchItem(s, k, inc) = IF u.item[k].cc # 0 THEN {u}
                                 ELSE {Evict(u, {k})} \cup IF DBFails THEN {u} ELSE {}
      BY DEF TouchItem, it
    <2> HIDE DEF u
    <2> QED
      BY <2>1
  <1>8. {k} \in SUBSET {j \in Keys : u.item[j].val}
    BY <1>3, <1>4
  <1> HIDE DEF u
  <1> QED
    BY <1>6, <1>7, <1>8, SoundEvict

-----------------------------------------------------------------------------
(* The exported methods.                                                    *)

IInv == TypeOK /\ Coherent

\* The state while the cache is open.
LEMMA OpenSound == ASSUME IInv, phase = "open" PROVE Sound(Now)
  BY DEF IInv, TypeOK, Coherent, Sound, Now, Db

\* A step that leads to a sound state.
LEMMA SoundBecomes ==
  ASSUME NEW s, Sound(s), item' = s.item, db' = s.db PROVE Sound(Now)'
  <1>1. Now'.item = s.item /\ Now'.db = s.db
    BY DEF Now
  <1>2. \A k \in Keys : ItemSound(s, k) => ItemSound(Now', k)
    BY <1>1 DEF ItemSound
  <1> QED
    BY <1>1, <1>2 DEF Sound

\* A step that changes neither the cache nor the DB.
LEMMA SoundStutter == ASSUME Sound(Now), UNCHANGED <<item, db>> PROVE Sound(Now)'
  BY SoundBecomes DEF Now

\* What Get, Set and Inc answer has its type.
LEMMA AnswerType ==
  ASSUME NEW op \in {"Get", "Inc", "Set"}, NEW k \in Keys, NEW ok \in BOOLEAN, NEW rc \in Int,
         Answer(op, k, ok, rc)
  PROVE  reply' \in Reply
  BY DEF Answer, Reply

LEMMA NoReplyType == NoReply \in Reply /\ Idle \in Mail
  <1>1. (CHOOSE k \in Keys : TRUE) \in Keys
    BY KeysAssumption
  <1> QED
    BY <1>1 DEF NoReply, Reply, Idle, Mail

LEMMA NothingStep ==
  ASSUME Sound(Now), NEW op \in {"Get", "Inc", "Set"}, NEW k \in Keys, Nothing(op, k)
  PROVE  Sound(Now)' /\ reply' \in Reply
  <1>1. Answer(op, k, FALSE, 0) /\ UNCHANGED <<item, db>>
    BY DEF Nothing
  <1>2. Sound(Now)'
    BY <1>1, SoundStutter
  <1>3. reply' \in Reply
    BY <1>1 DEF Answer, Reply
  <1> QED
    BY <1>2, <1>3

\* The counters of one key are numbers.
LEMMA Numbers ==
  ASSUME NEW s, Sound(s), NEW k \in Keys
  PROVE  /\ s.item[k].fc \in Nat /\ s.item[k].cc \in Int /\ s.item[k].rc \in Nat
         /\ s.db[k].rc \in Nat /\ s.item[k] \in Item /\ s.db[k] \in Db
  <1>1. s.item[k] \in Item /\ s.db[k] \in Db
    BY DEF Sound
  <1> QED
    BY <1>1 DEF Item, Db

LEMMA OnItemStep ==
  ASSUME Sound(Now), NEW op \in {"Get", "Inc", "Set"}, NEW k \in Keys, NEW inc \in Int,
         OnItem(op, k, inc)
  PROVE  Sound(Now)' /\ reply' \in Reply
  <1>1. item[k].val /\ Now.item[k].val /\ Now.item = item
    BY DEF OnItem, Now
  <1>2. PICK t \in TouchItem(Now, k, inc) : Becomes(t)
    BY DEF OnItem
  <1>3. Sound(t)
    BY <1>1, SoundTouch
  <1>4. Sound(Now)'
    BY <1>2, <1>3, SoundBecomes DEF Becomes
  <1>5. item[k].cc \in Int /\ item[k].fc \in Nat
    BY <1>1, Numbers
  <1>6. Sat(item[k].cc + inc) - item[k].fc \in Int
    BY <1>5, SatNat
  <1> QED
    BY <1>4, <1>6, AnswerType DEF OnItem

\* Get, Inc and Set of a key the cache has no value of.
LEMMA OnDbStep ==
  ASSUME Sound(Now), NEW op \in {"Get", "Inc", "Set"}, NEW k \in Keys, NEW inc \in Int,
         OnFilling(op, k, inc) \/ OnDB(op, k, inc)
  PROVE  Sound(Now)' /\ reply' \in Reply
  <1> DEFINE u == DbInc(Now, k, inc)
  <1>1. ~Now.item[k].val /\ Now.db[k].in /\ Now.item = item /\ Now.db = db
    <2>1. CASE OnFilling(op, k, inc)
      BY <2>1 DEF OnFilling, isFilling, Now
    <2>2. CASE OnDB(op, k, inc)
      <3>1. ItemSound(Now, k)
        BY DEF Sound
      <3> QED
        BY <2>2, <3>1 DEF OnDB, Now, ItemSound
    <2> QED
      BY <2>1, <2>2
  <1>2. Sound(u) /\ u.item = item /\ u.db[k].in
    BY <1>1, SoundDbInc
  <1>3. ~u.item[k].val
    BY <1>1, <1>2
  <1>4. u.db[k].rc \in Nat /\ item[k].fc \in Nat
    BY <1>2, Numbers
  <1>5. PICK r \in Put(u, k), rc \in Int : Becomes(r.s) /\ Answer(op, k, r.ok, rc)
    <2> HIDE DEF u
    <2>1. CASE OnFilling(op, k, inc)
      <3>1. PICK r \in Put(u, k) : Becomes(r.s) /\ Answer(op, k, r.ok, u.db[k].rc - item[k].fc)
        BY <2>1 DEF OnFilling, u
      <3>2. u.db[k].rc - item[k].fc \in Int
        BY <1>4
      <3> QED
        BY <3>1, <3>2
    <2>2. CASE OnDB(op, k, inc)
      <3>1. PICK r \in Put(u, k) :
              Becomes(r.s) /\ Answer(op, k, r.ok, IF op = "Get" THEN u.db[k].rc ELSE 0)
        BY <2>2 DEF OnDB, u
      <3>2. (IF op = "Get" THEN u.db[k].rc ELSE 0) \in Int
        BY <1>4
      <3> QED
        BY <3>1, <3>2
    <2> QED
      BY <2>1, <2>2
  <1> HIDE DEF u
  <1>6. Sound(r.s) /\ r.ok \in BOOLEAN
    BY <1>2, <1>3, SoundPut
  <1>7. Sound(Now)'
    BY <1>5, <1>6, SoundBecomes DEF Becomes
  <1> QED
    BY <1>5, <1>6, <1>7, AnswerType

\* Replacing one item of the current state.
LEMMA SoundItemStep ==
  ASSUME Sound(Now), NEW k \in Keys, NEW it \in Item, ItemSound(WithItem(Now, k, it), k),
         item' = [item EXCEPT ![k] = it], db' = db
  PROVE  Sound(Now)'
  <1>1. Sound(WithItem(Now, k, it))
    BY SoundWithItem
  <1>2. item' = WithItem(Now, k, it).item /\ db' = WithItem(Now, k, it).db
    BY DEF WithItem, Now
  <1> QED
    BY <1>1, <1>2, SoundBecomes

\* An item that replaces another is sound if it fits the DB entry.
LEMMA ItemFits ==
  ASSUME NEW s, Sound(s), NEW k \in Keys, NEW it \in Item,
         \/ it.val /\ it.in /\ s.db[k].in /\ it.rc = s.db[k].rc /\ ~isWanted(it) /\ it.cc >= 0
         \/ ~it.val /\ it.cc = 0 /\ it.rc = 0,
         isWanted(it) => it.in /\ ~s.db[k].in,
         it.fc > 0 => it.in /\ s.db[k].in
  PROVE  ItemSound(WithItem(s, k, it), k)
  <1>1. s.item \in [Keys -> Item] /\ ItemSound(s, k)
    BY DEF Sound
  <1>2. WithItem(s, k, it).item[k] = it /\ WithItem(s, k, it).db = s.db
    BY <1>1 DEF WithItem
  <1> QED
    BY <1>1, <1>2 DEF ItemSound

LEMMA GetStep ==
  ASSUME Sound(Now), NEW k \in Keys, NEW inc \in Int,
         Get(k, inc) \/ Inc(k, inc) \/ getNoCache(k, inc)
  PROVE  Sound(Now)' /\ reply' \in Reply
  <1>1. CASE Get(k, inc)
    BY <1>1, NothingStep, OnItemStep, OnDbStep DEF Get
  <1>2. CASE Inc(k, inc)
    BY <1>2, NothingStep, OnItemStep, OnDbStep DEF Inc
  <1>3. CASE getNoCache(k, inc)
    <2>1. CASE /\ ~item[k].in /\ db[k].in
               /\ Becomes(DbInc(Now, k, inc))
               /\ Answer("Get", k, TRUE, db'[k].rc)
      <3>1. ItemSound(Now, k) /\ Now.item = item /\ Now.db = db
        BY DEF Sound, Now
      <3>2. ~Now.item[k].val /\ Now.db[k].in
        BY <2>1, <3>1 DEF ItemSound
      <3>3. Sound(DbInc(Now, k, inc))
        BY <3>2, SoundDbInc
      <3>4. Sound(Now)' /\ db' = DbInc(Now, k, inc).db
        BY <2>1, <3>3, SoundBecomes DEF Becomes
      <3>5. db'[k].rc \in Int
        BY <3>3, <3>4, Numbers
      <3> QED
        BY <2>1, <3>4, <3>5, AnswerType
    <2> QED
      BY <1>3, <2>1, NothingStep, OnItemStep, OnDbStep DEF getNoCache
  <1> QED
    BY <1>1, <1>2, <1>3

\* CXDS.Set of a key the cache has no value of.
LEMMA SoundDbSet ==
  ASSUME NEW s, Sound(s), NEW k \in Keys, NEW inc \in Nat, ~s.item[k].val, ~isWanted(s.item[k])
  PROVE  /\ Sound(DbSet(s, k, inc))
         /\ DbSet(s, k, inc).item = s.item
         /\ DbSet(s, k, inc).db[k].in
  <1>1. CASE s.db[k].in
    BY <1>1, SoundDbInc DEF DbSet
  <1>2. CASE ~s.db[k].in
    <2> DEFINE d == [in |-> TRUE, rc |-> IF Drive THEN 1 ELSE inc]
               t == WithDb(s, k, d)
    <2>1. s.item \in [Keys -> Item] /\ s.db \in [Keys -> Db] /\ ItemSound(s, k)
      BY DEF Sound
    <2>2. d \in Db /\ d.in
      BY DEF Db
    <2>3. DbSet(s, k, inc) = t /\ t.item = s.item /\ t.db = [s.db EXCEPT ![k] = d]
      BY <1>2 DEF DbSet, WithDb
    <2> HIDE DEF d
    <2>4. t.db[k] = d
      BY <2>1, <2>3
    <2> HIDE DEF t
    <2>5. ItemSound(t, k)
      BY <1>2, <2>1, <2>2, <2>3, <2>4 DEF ItemSound
    <2>6. t.item = [s.item EXCEPT ![k] = t.item[k]] /\ t.item[k] \in Item
      BY <2>1, <2>3
    <2>7. Sound(t)
      BY <2>1, <2>2, <2>3, <2>4, <2>5, <2>6, SoundWith
    <2> QED
      BY <2>2, <2>3, <2>4, <2>7
  <1> QED
    BY <1>1, <1>2

\* What CXDS.Set makes of the DB, whatever the item.
LEMMA DbSetEntry ==
  ASSUME NEW s, Sound(s), NEW k \in Keys, NEW inc \in Nat
  PROVE  /\ DbSet(s, k, inc).item = s.item
         /\ DbSet(s, k, inc).db = [s.db EXCEPT ![k] = DbSet(s, k, inc).db[k]]
         /\ DbSet(s, k, inc).db[k] \in Db /\ DbSet(s, k, inc).db[k].in
  <1> DEFINE d == IF s.db[k].in THEN [in |-> TRUE, rc |-> Sat(s.db[k].rc + inc)]
                                ELSE [in |-> TRUE, rc |-> IF Drive THEN 1 ELSE inc]
             t == DbSet(s, k, inc)
  <1>1. s.db \in [Keys -> Db] /\ s.db[k].rc \in Nat
    BY Numbers DEF Sound
  <1>2. Sat(s.db[k].rc + inc) \in Nat
    BY <1>1, SatNat
  <1>3. d \in Db /\ d.in
    BY <1>2 DEF Db
  <1>4. t.item = s.item /\ t.db = [s.db EXCEPT ![k] = d]
    BY DEF DbSet, DbInc, WithDb
  <1> HIDE DEF d, t
  <1>5. t.db[k] = d
    BY <1>1, <1>4
  <1>6. t.item = s.item /\ t.db = [s.db EXCEPT ![k] = t.db[k]] /\ t.db[k] \in Db /\ t.db[k].in
    BY <1>3, <1>4, <1>5
  <1> QED
    BY <1>6 DEF t

\* Messages to the wanters of a key.
LEMMA DeliverType ==
  ASSUME mail \in [Wanters -> Mail], NEW k \in Keys, NEW msg \in Mail
  PROVE  Deliver(k, msg) \in [Wanters -> Mail]
  BY DEF Deliver

LEMMA RefuseStep ==
  ASSUME Sound(Now), mail \in [Wanters -> Mail], NEW k \in Keys, Refuse(k)
  PROVE  Sound(Now)' /\ mail' \in [Wanters -> Mail]
  <1>1. NoItem \in Item /\ ~isWanted(NoItem) /\ ~NoItem.val /\ NoItem.cc = 0 /\ NoItem.rc = 0
        /\ NoItem.fc = 0
    BY Built
  <1>2. ItemSound(WithItem(Now, k, NoItem), k)
    BY <1>1, ItemFits
  <1>3. Sound(Now)'
    BY <1>1, <1>2, SoundItemStep DEF Refuse
  <1>4. [st |-> "err", key |-> k, rc |-> 0] \in Mail
    BY DEF Mail
  <1> QED
    BY <1>3, <1>4, DeliverType DEF Refuse

LEMMA ArriveStep ==
  ASSUME Sound(Now), mail \in [Wanters -> Mail], NEW k \in Keys, NEW inc \in Nat,
         NEW answers \in BOOLEAN, Arrive(k, inc, answers)
  PROVE  Sound(Now)' /\ mail' \in [Wanters -> Mail] /\ reply' \in Reply
  <1> DEFINE n == Wincs(item[k])
             m == inc + n
             fc == item[k].fc + n
             u == DbSet(Now, k, m)
             hard == u.db[k].rc - (n + item[k].fc)
             v == WithItem(u, k, Shell(fc))
  <1>1. Now.item = item /\ item[k] \in Item /\ item \in [Keys -> Item]
    BY DEF Now, Sound
  <1>2. n \in Nat /\ item[k].fc \in Nat
    BY <1>1, WincsNat DEF Item
  <1>3. m \in Nat /\ fc \in Nat
    BY <1>2
  <1>4. /\ mail' = Deliver(k, [st |-> "ok", key |-> k, rc |-> hard])
        /\ \E r \in Put(v, k) :
             Becomes(r.s) /\ IF answers THEN Answer("Set", k, r.ok, hard) ELSE reply' = NoReply
    BY DEF Arrive
  <1> HIDE DEF n, m, fc
  <1>5. u.item = item /\ u.db = [Now.db EXCEPT ![k] = u.db[k]] /\ u.db[k] \in Db /\ u.db[k].in
    BY <1>1, <1>3, DbSetEntry
  <1>6. hard \in Int
    BY <1>2, <1>5 DEF Db
  <1> HIDE DEF u
  <1>7. v.item = [item EXCEPT ![k] = Shell(fc)] /\ v.db = u.db
    BY <1>5 DEF WithItem
  <1>8. v.item[k] = Shell(fc)
    BY <1>1, <1>7
  <1> HIDE DEF v, hard
  <1>9. /\ Shell(fc) \in Item /\ ~isWanted(Shell(fc)) /\ Shell(fc).in /\ ~Shell(fc).val
        /\ Shell(fc).cc = 0 /\ Shell(fc).rc = 0
    BY <1>3, Built
  <1>10. ItemSound(v, k)
    BY <1>5, <1>7, <1>8, <1>9 DEF ItemSound
  <1>11. Sound(v)
    <2>1. v.item = [Now.item EXCEPT ![k] = v.item[k]] /\ v.db = [Now.db EXCEPT ![k] = v.db[k]]
      BY <1>1, <1>5, <1>7, <1>8
    <2> QED
      BY <2>1, <1>5, <1>7, <1>8, <1>9, <1>10, SoundWith
  <1>12. PICK r \in Put(v, k) :
           Becomes(r.s) /\ IF answers THEN Answer("Set", k, r.ok, hard) ELSE reply' = NoReply
    BY <1>4
  <1>13. Sound(r.s) /\ r.ok \in BOOLEAN
    BY <1>5, <1>7, <1>8, <1>9, <1>11, SoundPut
  <1>14. Sound(Now)'
    BY <1>12, <1>13, SoundBecomes DEF Becomes
  <1>15. reply' \in Reply
    BY <1>6, <1>12, <1>13, AnswerType, NoReplyType
  <1>16. [st |-> "ok", key |-> k, rc |-> hard] \in Mail
    BY <1>6 DEF Mail
  <1> QED
    BY <1>4, <1>14, <1>15, <1>16, DeliverType

LEMMA OnNewStep ==
  ASSUME Sound(Now), NEW k \in Keys, NEW inc \in Nat, OnNew(k, inc)
  PROVE  Sound(Now)' /\ reply' \in Reply
  <1> DEFINE u == DbSet(Now, k, inc)
  <1>1. ItemSound(Now, k) /\ Now.item = item /\ ~item[k].in
    BY DEF Sound, Now, OnNew
  <1>2. ~Now.item[k].val /\ ~isWanted(Now.item[k])
    BY <1>1 DEF ItemSound
  <1>3. Sound(u) /\ u.item = Now.item /\ u.db[k].in
    BY <1>2, SoundDbSet
  <1>4. ~u.item[k].val /\ u.db[k].rc \in Int
    BY <1>2, <1>3, Numbers
  <1>5. PICK r \in Put(u, k) : Becomes(r.s) /\ Answer("Set", k, r.ok, u.db[k].rc)
    BY DEF OnNew
  <1> HIDE DEF u
  <1>6. Sound(r.s) /\ r.ok \in BOOLEAN
    BY <1>3, <1>4, SoundPut
  <1>7. Sound(Now)'
    BY <1>5, <1>6, SoundBecomes DEF Becomes
  <1> QED
    BY <1>4, <1>5, <1>6, <1>7, AnswerType

LEMMA SetStep ==
  ASSUME Sound(Now), mail \in [Wanters -> Mail], NEW k \in Keys, NEW inc \in Nat, Set(k, inc)
  PROVE  Sound(Now)' /\ mail' \in [Wanters -> Mail] /\ reply' \in Reply
  <1>0. ASSUME Answer("Set", k, FALSE, 0) PROVE reply' \in Reply
    BY <1>0 DEF Answer, Reply
  <1>1. CASE Refuse(k) /\ Answer("Set", k, FALSE, 0)
    BY <1>0, <1>1, RefuseStep
  <1>2. CASE Arrive(k, inc, TRUE)
    BY <1>2, ArriveStep
  <1>3. CASE OnItem("Set", k, inc) /\ UNCHANGED mail
    BY <1>3, OnItemStep
  <1>4. CASE OnFilling("Set", k, inc) /\ UNCHANGED mail
    BY <1>4, OnDbStep
  <1>5. CASE OnNew(k, inc) /\ UNCHANGED mail
    BY <1>5, OnNewStep
  <1>6. CASE Answer("Set", k, FALSE, 0) /\ UNCHANGED <<item, db, amount, volume>> /\ UNCHANGED mail
    BY <1>0, <1>6, SoundStutter
  <1> QED
    BY <1>1, <1>2, <1>3, <1>4, <1>5, <1>6 DEF Set

LEMMA SetWantedStep ==
  ASSUME Sound(Now), mail \in [Wanters -> Mail], NEW k \in Keys, SetWanted(k)
  PROVE  Sound(Now)' /\ mail' \in [Wanters -> Mail] /\ reply' \in Reply
  <1>1. CASE Refuse(k) /\ reply' = NoReply
    BY <1>1, RefuseStep, NoReplyType
  <1>2. CASE Arrive(k, 0, FALSE)
    BY <1>2, ArriveStep
  <1>3. CASE reply' = NoReply /\ UNCHANGED <<item, db, amount, volume, mail>>
    BY <1>3, SoundStutter, NoReplyType
  <1> QED
    BY <1>1, <1>2, <1>3 DEF SetWanted

\* A message to one wanter.
LEMMA MailType ==
  ASSUME mail \in [Wanters -> Mail], NEW w \in Wanters, NEW k \in Keys,
         NEW st \in {"wait", "ok"}, NEW rc \in Int,
         mail' = [mail EXCEPT ![w] = [st |-> st, key |-> k, rc |-> rc]]
  PROVE  mail' \in [Wanters -> Mail]
  <1>1. [st |-> st, key |-> k, rc |-> rc] \in Mail
    BY DEF Mail
  <1> QED
    BY <1>1

LEMMA WaitType ==
  ASSUME mail \in [Wanters -> Mail], NEW w \in Wanters, NEW k \in Keys,
         mail' = [mail EXCEPT ![w] = [st |-> "wait", key |-> k, rc |-> 0]]
  PROVE  mail' \in [Wanters -> Mail]
  <1>1. [st |-> "wait", key |-> k, rc |-> 0] \in Mail
    BY DEF Mail
  <1> QED
    BY <1>1

\* Items somebody waits for.
LEMMA WaitingType ==
  ASSUME NEW it \in Item, NEW W \in SUBSET Wanters, NEW f \in [W -> {0, 1}]
  PROVE  /\ Waiting(it, f) \in Item /\ Waiting(it, f).in /\ ~Waiting(it, f).val
         /\ Waiting(it, f).cc = 0 /\ Waiting(it, f).rc = 0 /\ Waiting(it, f).fc = it.fc
         /\ isWanted(Waiting(it, f)) <=> W # {}
  <1>1. f \in UNION {[V -> {0, 1}] : V \in SUBSET Wanters}
    OBVIOUS
  <1>2. Waiting(it, f) \in Item
    BY <1>1 DEF Waiting, Item
  <1> QED
    BY <1>2 DEF Waiting, isWanted

\* The wanters of an item are wanters.
LEMMA FwantType ==
  ASSUME NEW it \in Item
  PROVE  DOMAIN it.fwant \subseteq Wanters /\ it.fwant \in [DOMAIN it.fwant -> {0, 1}]
  BY DEF Item

LEMMA WantStep ==
  ASSUME Sound(Now), mail \in [Wanters -> Mail],
         NEW k \in Keys, NEW w \in Wanters, NEW inc \in {0, 1}, Want(k, w, inc)
  PROVE  Sound(Now)' /\ mail' \in [Wanters -> Mail] /\ reply' \in Reply
  <1>1. reply' \in Reply
    BY NoReplyType DEF Want
  <1>2. /\ Now.item = item /\ Now.db = db /\ item[k] \in Item /\ db[k] \in Db
        /\ ItemSound(Now, k) /\ item \in [Keys -> Item] /\ db \in [Keys -> Db]
    BY DEF Now, Sound
  <1>3. item[k].fc \in Nat /\ item[k].cc \in Int /\ item[k].rc \in Nat
    BY <1>2 DEF Item
  <1>4. CASE /\ isWanted(item[k]) \/ ~db[k].in
             /\ item' = [item EXCEPT ![k] = Waiting(item[k],
                          [x \in DOMAIN item[k].fwant \cup {w} |-> IF x = w THEN inc ELSE item[k].fwant[x]])]
             /\ mail' = [mail EXCEPT ![w] = [st |-> "wait", key |-> k, rc |-> 0]]
             /\ UNCHANGED <<db, amount, volume>>
    <2> DEFINE W == DOMAIN item[k].fwant \cup {w}
               f == [x \in W |-> IF x = w THEN inc ELSE item[k].fwant[x]]
    <2>1. W \in SUBSET Wanters /\ W # {} /\ f \in [W -> {0, 1}]
      BY <1>2, FwantType
    <2>2. item' = [item EXCEPT ![k] = Waiting(item[k], f)]
      BY <1>4
    <2> HIDE DEF f, W
    <2>3. /\ Waiting(item[k], f) \in Item /\ Waiting(item[k], f).in /\ ~Waiting(item[k], f).val
          /\ Waiting(item[k], f).cc = 0 /\ Waiting(item[k], f).rc = 0
          /\ Waiting(item[k], f).fc = item[k].fc
      BY <1>2, <2>1, WaitingType
    <2>4. ~db[k].in /\ ~(item[k].fc > 0)
      BY <1>2, <1>4 DEF ItemSound
    <2> DEFINE it == Waiting(item[k], f)
    <2> HIDE DEF it
    <2>5. ItemSound(WithItem(Now, k, it), k)
      BY <1>2, <2>3, <2>4, ItemFits DEF it
    <2>6. Sound(Now)'
      BY <1>4, <2>2, <2>3, <2>5, SoundItemStep DEF it
    <2> QED
      BY <1>1, <1>4, <2>6, WaitType
  <1>5. CASE /\ ~item[k].val /\ ~isWanted(item[k]) /\ db[k].in
             /\ LET u == DbInc(Now, k, inc)
                    v == WithItem(u, k, Shell(item[k].fc))
                IN  /\ mail' = [mail EXCEPT ![w] =
                                 [st |-> "ok", key |-> k, rc |-> u.db[k].rc - item[k].fc - inc]]
                    /\ \E r \in Put(v, k) :
                         Becomes(WithItem(r.s, k, WithFc(r.s.item[k], r.s.item[k].fc + inc)))
    <2> DEFINE u  == DbInc(Now, k, inc)
               sh == Shell(item[k].fc)
               v  == WithItem(u, k, sh)
    <2>1. Sound(u) /\ u.item = item /\ u.db[k].in
      BY <1>2, <1>5, SoundDbInc
    <2>2. u.db[k].rc - item[k].fc - inc \in Int
      BY <1>3, <2>1, Numbers
    <2>3. PICK r \in Put(v, k) :
            Becomes(WithItem(r.s, k, WithFc(r.s.item[k], r.s.item[k].fc + inc)))
      BY <1>5
    <2>4. mail' \in [Wanters -> Mail]
      <3>1. mail' = [mail EXCEPT ![w] = [st |-> "ok", key |-> k, rc |-> u.db[k].rc - item[k].fc - inc]]
        BY <1>5
      <3> HIDE DEF u
      <3> QED
        BY <2>2, <3>1, MailType
    <2> HIDE DEF u
    <2>5. sh \in Item /\ ~isWanted(sh) /\ sh.in /\ ~sh.val /\ sh.cc = 0 /\ sh.rc = 0
      BY <1>3, Built
    <2> HIDE DEF sh
    <2>6. Sound(v) /\ v.item[k] = sh /\ v.db = u.db
      <3>1. ItemSound(WithItem(u, k, sh), k)
        BY <2>1, <2>5, ItemFits
      <3> QED
        BY <2>1, <2>5, <3>1, SoundWithItem
    <2> HIDE DEF v
    <2>7. Sound(r.s) /\ r.s.db[k].in /\ r.s.item[k].in
      BY <2>1, <2>5, <2>6, SoundPut
    <2> DEFINE old == r.s.item[k]
               n   == old.fc + inc
               it  == WithFc(old, n)
    <2>8. old \in Item /\ n \in Nat /\ ItemSound(r.s, k)
      BY <2>7, Numbers DEF Sound
    <2> HIDE DEF n
    <2>9. /\ it \in Item /\ it.cc = old.cc /\ it.rc = old.rc /\ it.in = old.in /\ it.val = old.val
          /\ (isWanted(it) <=> isWanted(old))
      BY <2>8, ItemFields
    <2> HIDE DEF it
    <2>10. ItemSound(WithItem(r.s, k, it), k)
      <3>1. \/ /\ it.val /\ it.in /\ r.s.db[k].in /\ it.rc = r.s.db[k].rc /\ ~isWanted(it)
               /\ it.cc >= 0
            \/ ~it.val /\ it.cc = 0 /\ it.rc = 0
        BY <2>7, <2>8, <2>9 DEF ItemSound
      <3>2. it.in /\ r.s.db[k].in /\ ~isWanted(it)
        BY <2>7, <2>8, <2>9 DEF ItemSound
      <3> QED
        BY <2>7, <2>9, <3>1, <3>2, ItemFits
    <2>11. Sound(WithItem(r.s, k, it))
      BY <2>7, <2>9, <2>10, SoundWithItem
    <2>12. Sound(Now)'
      BY <2>3, <2>11, SoundBecomes DEF Becomes, it, n
    <2> QED
      BY <1>1, <2>4, <2>12
  <1>6. CASE /\ item[k].val
             /\ item' = [item EXCEPT ![k] = WithFc(item[k], item[k].fc + inc)]
             /\ mail' = [mail EXCEPT ![w] = [st |-> "ok", key |-> k, rc |-> item[k].cc - item'[k].fc]]
             /\ UNCHANGED <<db, amount, volume>>
    <2> DEFINE n  == item[k].fc + inc
               it == WithFc(item[k], n)
    <2>1. n \in Nat
      BY <1>3
    <2>2. item' = [item EXCEPT ![k] = it]
      BY <1>6
    <2> HIDE DEF n
    <2>3. /\ it \in Item /\ it.cc = item[k].cc /\ it.rc = item[k].rc /\ it.in = item[k].in
          /\ it.val = item[k].val /\ (isWanted(it) <=> isWanted(item[k])) /\ it.fc = n
      BY <1>2, <2>1, ItemFields
    <2> HIDE DEF it
    <2>4. ItemSound(WithItem(Now, k, it), k)
      <3>1. /\ \/ it.val /\ it.in /\ Now.db[k].in /\ it.rc = Now.db[k].rc /\ ~isWanted(it) /\ it.cc >= 0
               \/ ~it.val /\ it.cc = 0 /\ it.rc = 0
            /\ isWanted(it) => it.in /\ ~Now.db[k].in
            /\ it.fc > 0 => it.in /\ Now.db[k].in
        BY <1>2, <1>6, <2>3 DEF ItemSound
      <3> QED
        BY <2>3, <3>1, ItemFits
    <2>5. Sound(Now)'
      BY <1>6, <2>2, <2>3, <2>4, SoundItemStep
    <2>6. item'[k] = it
      BY <1>2, <2>2
    <2>7. item[k].cc - item'[k].fc \in Int
      BY <1>3, <2>1, <2>3, <2>6
    <2>8. mail' \in [Wanters -> Mail]
      BY <1>6, <2>7, MailType
    <2> QED
      BY <1>1, <2>5, <2>8
  <1>7. CASE /\ mail' = [mail EXCEPT ![w] = [st |-> "wait", key |-> k, rc |-> 0]]
             /\ UNCHANGED <<item, db, amount, volume>>
    BY <1>1, <1>7, SoundStutter, WaitType
  <1> QED
    BY <1>2, <1>4, <1>5, <1>6, <1>7 DEF Want

LEMMA UnwantStep ==
  ASSUME Sound(Now), mail \in [Wanters -> Mail], NEW w \in Wanters, Unwant(w)
  PROVE  Sound(Now)' /\ mail' \in [Wanters -> Mail] /\ reply' \in Reply
  <1> DEFINE k == mail[w].key
             W == DOMAIN item[k].fwant \ {w}
             f == [x \in W |-> item[k].fwant[x]]
             it == IF ~isWanted(item[k]) THEN item[k]
                   ELSE IF W = {} /\ item[k].fc = 0 /\ ~item[k].val THEN NoItem
                   ELSE Waiting(item[k], f)
  <1>1. k \in Keys
    BY DEF Mail
  <1>2. /\ Now.item = item /\ Now.db = db /\ item[k] \in Item /\ ItemSound(Now, k)
        /\ item \in [Keys -> Item]
    BY <1>1 DEF Now, Sound
  <1>3. mail' = [mail EXCEPT ![w] = Idle] /\ reply' = NoReply /\ db' = db
        /\ item' = [item EXCEPT ![k] = it]
    BY <1>1, <1>2 DEF Unwant
  <1>4. W \in SUBSET Wanters /\ f \in [W -> {0, 1}]
    BY <1>2, FwantType
  <1> HIDE DEF f, W, k
  <1>5. it \in Item /\ ItemSound(WithItem(Now, k, it), k)
    <2>1. CASE ~isWanted(item[k])
      <3>1. it = item[k]
        BY <2>1
      <3>2. ItemSound(WithItem(Now, k, item[k]), k)
        BY <1>1, <1>2, ItemFits DEF ItemSound
      <3> QED
        BY <1>2, <3>1, <3>2
    <2>2. CASE isWanted(item[k]) /\ W = {} /\ item[k].fc = 0 /\ ~item[k].val
      <3>1. it = NoItem
        BY <2>2
      <3>2. NoItem \in Item /\ ~isWanted(NoItem) /\ ~NoItem.val /\ NoItem.cc = 0 /\ NoItem.rc = 0
            /\ NoItem.fc = 0
        BY Built
      <3>3. ItemSound(WithItem(Now, k, NoItem), k)
        BY <1>1, <3>2, ItemFits
      <3> QED
        BY <3>1, <3>2, <3>3
    <2>3. CASE isWanted(item[k]) /\ ~(W = {} /\ item[k].fc = 0 /\ ~item[k].val)
      <3>1. it = Waiting(item[k], f)
        BY <2>3
      <3>2. /\ it \in Item /\ it.in /\ ~it.val /\ it.cc = 0 /\ it.rc = 0 /\ it.fc = item[k].fc
        BY <1>2, <1>4, <3>1, WaitingType
      <3>3. ~db[k].in /\ ~(item[k].fc > 0)
        BY <1>2, <2>3 DEF ItemSound
      <3> HIDE DEF it
      <3>4. ItemSound(WithItem(Now, k, it), k)
        BY <1>1, <1>2, <3>2, <3>3, ItemFits
      <3> QED
        BY <3>2, <3>4
    <2> QED
      BY <2>1, <2>2, <2>3
  <1> HIDE DEF it
  <1>6. Sound(Now)'
    BY <1>1, <1>3, <1>5, SoundItemStep
  <1>7. Idle \in Mail /\ NoReply \in Reply
    BY NoReplyType
  <1> QED
    BY <1>3, <1>6, <1>7

\* The item of a filler that gives up references: fewer of them, the rest of
\* the item as it was.
LEMMA FewerHeld ==
  ASSUME Sound(Now), NEW k \in Keys, NEW n \in Nat, item[k].in, n <= item[k].fc
  PROVE  /\ WithFc(item[k], item[k].fc - n) \in Item
         /\ Sound(WithItem(Now, k, WithFc(item[k], item[k].fc - n)))
         /\ ItemSound(WithItem(Now, k, WithFc(item[k], item[k].fc - n)), k)
         /\ WithItem(Now, k, WithFc(item[k], item[k].fc - n)).db = db
         /\ WithItem(Now, k, WithFc(item[k], item[k].fc - n)).item[k]
              = WithFc(item[k], item[k].fc - n)
         /\ WithFc(item[k], item[k].fc - n).val = item[k].val
  <1> DEFINE m  == item[k].fc - n
             it == WithFc(item[k], m)
  <1>1. /\ Now.item = item /\ Now.db = db /\ item[k] \in Item /\ ItemSound(Now, k)
        /\ item[k].fc \in Nat
    BY Numbers DEF Now, Sound
  <1>2. m \in Nat /\ (m > 0 => item[k].fc > 0)
    BY <1>1
  <1> HIDE DEF m
  <1>3. /\ it \in Item /\ it.cc = item[k].cc /\ it.rc = item[k].rc /\ it.in = item[k].in
        /\ it.val = item[k].val /\ (isWanted(it) <=> isWanted(item[k])) /\ it.fc = m
    BY <1>1, <1>2, ItemFields
  <1> HIDE DEF it
  <1>4. ItemSound(WithItem(Now, k, it), k)
    <2>1. ItemSound(Now, k) /\ Now.item[k] = item[k]
      BY <1>1
    <2>2. /\ \/ item[k].val /\ item[k].in /\ Now.db[k].in /\ item[k].rc = Now.db[k].rc
                /\ ~isWanted(item[k]) /\ item[k].cc >= 0
             \/ ~item[k].val /\ item[k].cc = 0 /\ item[k].rc = 0
          /\ isWanted(item[k]) => item[k].in /\ ~Now.db[k].in
          /\ item[k].fc > 0 => item[k].in /\ Now.db[k].in
      BY <2>1, Zenon DEF ItemSound
    <2>3. /\ \/ it.val /\ it.in /\ Now.db[k].in /\ it.rc = Now.db[k].rc /\ ~isWanted(it) /\ it.cc >= 0
             \/ ~it.val /\ it.cc = 0 /\ it.rc = 0
          /\ isWanted(it) => it.in /\ ~Now.db[k].in
          /\ it.fc > 0 => it.in /\ Now.db[k].in
      BY <1>2, <1>3, <2>2, Zenon
    <2> QED
      BY <1>3, <2>3, ItemFits
  <1>5. Sound(WithItem(Now, k, it)) /\ WithItem(Now, k, it).db = db /\ WithItem(Now, k, it).item[k] = it
    BY <1>1, <1>3, <1>4, SoundWithItem
  <1> QED
    BY <1>3, <1>4, <1>5 DEF it, m

LEMMA ApplyStep ==
  ASSUME Sound(Now), NEW k \in Keys, NEW n \in Nat, Apply(k, n)
  PROVE  Sound(Now)' /\ reply' \in Reply /\ mail' = mail
  <1>1. reply' \in Reply /\ mail' = mail /\ db' = db /\ item[k].in /\ n <= item[k].fc
    BY NoReplyType DEF Apply
  <1>2. item \in [Keys -> Item]
    BY DEF Now, Sound
  <1>3. CASE item' = [item EXCEPT ![k] = NoItem]
    <2>1. NoItem \in Item /\ ~isWanted(NoItem) /\ ~NoItem.val /\ NoItem.cc = 0 /\ NoItem.rc = 0
          /\ NoItem.fc = 0
      BY Built
    <2>2. ItemSound(WithItem(Now, k, NoItem), k)
      BY <2>1, ItemFits
    <2> QED
      BY <1>1, <1>3, <2>1, <2>2, SoundItemStep
  <1>4. CASE item' = [item EXCEPT ![k] = WithFc(item[k], item[k].fc - n)]
    BY <1>1, <1>4, FewerHeld, SoundItemStep
  <1> QED
    BY <1>2, <1>3, <1>4 DEF Apply

LEMMA RejectStep ==
  ASSUME Sound(Now), NEW k \in Keys, NEW n \in Nat, Reject(k, n)
  PROVE  Sound(Now)' /\ reply' \in Reply /\ mail' = mail
  <1> DEFINE it == WithFc(item[k], item[k].fc - n)
             s  == WithItem(Now, k, it)
  <1>1. reply' \in Reply /\ mail' = mail /\ item[k].in /\ n <= item[k].fc /\ -n \in Int
    BY NoReplyType DEF Reject
  <1>2. Sound(s) /\ s.db = db /\ s.item[k] = it /\ it.val = item[k].val
    BY <1>1, FewerHeld
  <1>3. CASE /\ item[k].val
             /\ \E t \in TouchItem(s, k, -n) : Becomes(t)
    <2>1. PICK t \in TouchItem(s, k, -n) : Becomes(t)
      BY <1>3
    <2> HIDE DEF s, it
    <2>2. Sound(t)
      BY <1>1, <1>2, <1>3, SoundTouch
    <2> QED
      BY <1>1, <2>1, <2>2, SoundBecomes DEF Becomes
  <1>4. CASE /\ isFilling(item[k]) /\ db[k].in
             /\ \E r \in Put(DbInc(s, k, -n), k) : Becomes(r.s)
    <2>1. PICK r \in Put(DbInc(s, k, -n), k) : Becomes(r.s)
      BY <1>4
    <2>2. ~item[k].val
      BY <1>4 DEF isFilling
    <2> HIDE DEF s, it
    <2> DEFINE u == DbInc(s, k, -n)
    <2>3. Sound(u) /\ u.item = s.item /\ u.db[k].in
      BY <1>1, <1>2, <1>4, <2>2, SoundDbInc
    <2> HIDE DEF u
    <2>4. r \in Put(u, k)
      BY DEF u
    <2>5. Sound(r.s)
      BY <1>2, <2>2, <2>3, <2>4, SoundPut
    <2> QED
      BY <1>1, <2>1, <2>5, SoundBecomes DEF Becomes
  <1>5. CASE Becomes(s)
    BY <1>1, <1>2, <1>5, SoundBecomes DEF Becomes
  <1> QED
    BY <1>3, <1>4, <1>5 DEF Reject

LEMMA RemoveStep ==
  ASSUME Sound(Now), RemoveObjects
  PROVE  Sound(Now)' /\ reply' \in Reply /\ mail' = mail
  <1>1. reply' \in Reply /\ mail' = mail /\ item' = item
    BY NoReplyType DEF RemoveObjects
  <1>2. Now.item = item /\ Now.db = db /\ item \in [Keys -> Item] /\ db \in [Keys -> Db]
        /\ Now'.item = item' /\ Now'.db = db'
    BY DEF Now, Sound
  <1>3. db' = [k \in Keys |-> IF db[k].rc = 0 /\ ~item[k].in THEN [in |-> FALSE, rc |-> 0] ELSE db[k]]
    BY DEF RemoveObjects
  <1>4. db' \in [Keys -> Db]
    BY <1>2, <1>3 DEF Db
  <1>5. ASSUME NEW k \in Keys PROVE ItemSound(Now', k)
    <2>1. ItemSound(Now, k)
      BY DEF Sound
    <2>2. db'[k] = db[k] \/ (~item[k].in /\ ~db'[k].in /\ db'[k].rc = 0)
      BY <1>3
    <2> QED
      BY <1>1, <1>2, <2>1, <2>2 DEF ItemSound
  <1> QED
    BY <1>1, <1>2, <1>4, <1>5 DEF Sound

\* Close keeps the types; what it leaves behind is not used.
LEMMA CloseStep ==
  ASSUME Sound(Now), Close
  PROVE  /\ item' \in [Keys -> Item] /\ db' \in [Keys -> Db] /\ reply' \in Reply /\ mail' = mail
         /\ phase' \in {"closed", "failed"}
  <1>1. item \in [Keys -> Item] /\ db \in [Keys -> Db]
    BY DEF Now, Sound
  <1>2. reply' \in Reply /\ mail' = mail /\ phase' \in {"closed", "failed"}
    BY NoReplyType DEF Close
  <1>3. ASSUME NEW k \in Keys PROVE Settled(item[k]) \in Int /\ Undone(item[k]) \in Item
    <2>1. item[k] \in Item /\ Wincs(item[k]) \in Nat
      BY <1>1, WincsNat
    <2>2. Settled(item[k]) \in Int
      BY <2>1 DEF Settled, Item
    <2>3. NoWants \in UNION {[W -> {0, 1}] : W \in SUBSET Wanters}
      <3>1. NoWants \in [{} -> {0, 1}]
        BY DEF NoWants
      <3> QED
        BY <3>1
    <2>4. Undone(item[k]) \in Item
      BY <2>1, <2>2, <2>3 DEF Undone, Item
    <2> QED
      BY <2>2, <2>4
  <1>4. ASSUME NEW K, Saved(K) PROVE db' \in [Keys -> Db]
    <2>1. ASSUME NEW k \in Keys
          PROVE  /\ db[k] \in Db
                 /\ [in |-> TRUE, rc |-> Sat(db[k].rc + (Settled(item[k]) - item[k].rc))] \in Db
      <3>1. db[k].rc \in Nat /\ item[k].rc \in Nat /\ Settled(item[k]) \in Int /\ db[k] \in Db
        BY <1>1, <1>3 DEF Item, Db
      <3>2. Sat(db[k].rc + (Settled(item[k]) - item[k].rc)) \in Nat
        BY <3>1, SatNat
      <3> QED
        BY <3>1, <3>2 DEF Db
    <2> QED
      BY <1>4, <2>1 DEF Saved
  <1>5. db' \in [Keys -> Db]
    BY <1>4 DEF Close
  <1>6. item' \in [Keys -> Item]
    <2>1. NoItem \in Item
      BY Built
    <2>2. CASE item' = [k \in Keys |-> NoItem]
      BY <2>1, <2>2
    <2>3. ASSUME NEW x \in Keys, NEW K,
                 item' = [k \in Keys |-> IF k \in K THEN NoItem
                                         ELSE IF k = x THEN Undone(item[x]) ELSE item[k]]
          PROVE  item' \in [Keys -> Item]
      BY <1>1, <1>3, <2>1, <2>3
    <2>4. \/ item' = [k \in Keys |-> NoItem]
          \/ \E x \in Keys : \E K \in SUBSET Keys :
               item' = [k \in Keys |-> IF k \in K THEN NoItem
                                       ELSE IF k = x THEN Undone(item[x]) ELSE item[k]]
      <3> DEFINE F(x, K) == [k \in Keys |-> IF k \in K THEN NoItem
                                          ELSE IF k = x THEN Undone(item[x]) ELSE item[k]]
      <3>1. \/ item' = [k \in Keys |-> NoItem]
            \/ \E x \in (IF CloseWanted THEN Stuck ELSE {})
                    \cup (IF DBFails THEN {k \in {j \in Keys : item[j].in} :
                                           Settled(item[k]) # item[k].rc} ELSE {}) :
                 \E K \in SUBSET ({k \in Keys : item[k].in} \ (Stuck \cup {x})) : item' = F(x, K)
        BY Zenon DEF Close
      <3> HIDE DEF F
      <3>2. Stuck \subseteq Keys
        BY DEF Stuck
      <3>3. item' = [k \in Keys |-> NoItem] \/ \E x \in Keys : \E K \in SUBSET Keys : item' = F(x, K)
        BY <3>1, <3>2
      <3> QED
        BY <3>3 DEF F
    <2> QED
      BY <2>2, <2>3, <2>4
  <1> QED
    BY <1>2, <1>5, <1>6

-----------------------------------------------------------------------------
\* The initial state of initCache satisfies the invariant.
LEMMA InitIInv == Init => IInv
  <1> SUFFICES ASSUME Init PROVE IInv
    OBVIOUS
  <1>1. /\ NoItem \in Item /\ ~isWanted(NoItem) /\ ~NoItem.val /\ NoItem.cc = 0 /\ NoItem.rc = 0
        /\ NoItem.fc = 0
    BY Built
  <1>2. NoReply \in Reply /\ Idle \in Mail
    BY NoReplyType
  <1>3. /\ item = [k \in Keys |-> NoItem]
        /\ db = [k \in Keys |-> [in |-> FALSE, rc |-> 0]]
        /\ mail = [w \in Wanters |-> Idle]
        /\ reply = NoReply
        /\ phase = "open"
    BY DEF Init
  <1>4. TypeOK
    <2>1. item \in [Keys -> Item]
      BY <1>1, <1>3
    <2>2. db \in [Keys -> [in : BOOLEAN, rc : Nat]]
      BY <1>3
    <2>3. mail \in [Wanters -> Mail]
      BY <1>2, <1>3
    <2> QED
      BY <1>2, <1>3, <2>1, <2>2, <2>3 DEF TypeOK
  <1>5. ASSUME NEW k \in Keys PROVE ItemSound(Now, k)
    <2>1. Now.item[k] = NoItem /\ ~Now.db[k].in /\ Now.db[k].rc = 0
      BY <1>3 DEF Now
    <2> QED
      BY <1>1, <2>1 DEF ItemSound
  <1> QED
    BY <1>4, <1>5 DEF IInv, Coherent

\* Every step of an open cache keeps the invariant.
LEMMA StepIInv == IInv /\ [Next]_vars => IInv'
  <1> SUFFICES ASSUME IInv, [Next]_vars PROVE IInv'
    OBVIOUS
  <1>1. CASE UNCHANGED vars
    <2>1. Now' = Now
      BY <1>1 DEF vars, Now
    <2>2. Coherent'
      BY <1>1, <2>1 DEF IInv, Coherent, vars
    <2> QED
      BY <1>1, <2>2 DEF IInv, TypeOK, vars
  <1>2. CASE Next
    <2>1. phase = "open" /\ Sound(Now) /\ mail \in [Wanters -> Mail]
      BY <1>2, OpenSound DEF Next, IInv, TypeOK
    <2>2. ASSUME Sound(Now)', mail' \in [Wanters -> Mail], reply' \in Reply,
                 phase' \in {"open", "panic"}
          PROVE  IInv'
      <3>1. Now'.item = item' /\ Now'.db = db'
        BY DEF Now
      <3> QED
        BY <2>2, <3>1 DEF IInv, TypeOK, Coherent, Sound, Db
    <2>3. ASSUME NEW k \in Keys, NEW inc \in Incs,
                 Get(k, inc) \/ getNoCache(k, inc) \/ Inc(k, inc), UNCHANGED phase
          PROVE  IInv'
      <3>1. inc \in Int
        BY IncsAssumption
      <3>2. UNCHANGED mail
        BY <2>3 DEF Get, getNoCache, Inc
      <3> QED
        BY <2>1, <2>2, <2>3, <3>1, <3>2, GetStep
    <2>4. ASSUME NEW k \in Keys, NEW inc \in SetIncs, Set(k, inc), UNCHANGED phase PROVE IInv'
      <3>1. inc \in Nat
        BY IncsAssumption
      <3> QED
        BY <2>1, <2>2, <2>4, <3>1, SetStep
    <2>5. ASSUME NEW k \in Keys, SetWanted(k) PROVE IInv'
      <3>1. phase' \in {"open", "panic"}
        BY <2>1, <2>5 DEF SetWanted
      <3> QED
        BY <2>1, <2>2, <2>5, <3>1, SetWantedStep
    <2>6. ASSUME NEW k \in Keys, NEW w \in Wanters, NEW inc \in {0, 1}, Want(k, w, inc) PROVE IInv'
      <3>1. phase' = phase
        BY <2>6 DEF Want
      <3> QED
        BY <2>1, <2>2, <2>6, <3>1, WantStep
    <2>7. ASSUME NEW w \in Wanters, Unwant(w) PROVE IInv'
      <3>1. phase' = phase
        BY <2>7 DEF Unwant
      <3> QED
        BY <2>1, <2>2, <2>7, <3>1, UnwantStep
    <2>8. ASSUME NEW k \in Keys, NEW n \in 1..Cardinality(Wanters), Apply(k, n) \/ Reject(k, n)
          PROVE  IInv'
      <3>1. n \in Nat
        BY KeysAssumption, FS_CardinalityType
      <3>2. phase' \in {"open", "panic"}
        BY <2>1, <2>8 DEF Apply, Reject
      <3> QED
        BY <2>1, <2>2, <2>8, <3>1, <3>2, ApplyStep, RejectStep
    <2>9. CASE RemoveObjects
      <3>1. phase' = phase
        BY <2>9 DEF RemoveObjects
      <3> QED
        BY <2>1, <2>2, <2>9, <3>1, RemoveStep
    <2>10. CASE Close
      <3>1. /\ item' \in [Keys -> Item] /\ db' \in [Keys -> Db] /\ reply' \in Reply /\ mail' = mail
            /\ phase' \in {"closed", "failed"}
        BY <2>1, <2>10, CloseStep
      <3> QED
        BY <2>1, <3>1 DEF IInv, TypeOK, Coherent, Db
    <2> QED
      BY <1>2, <2>3, <2>4, <2>5, <2>6, <2>7, <2>8, <2>9, <2>10 DEF Next
  <1> QED
    BY <1>1, <1>2

\* The write-behind cache never loses track of the counter it has to write
\* back: what an item remembers of the DB is what the DB holds, for every
\* configuration, with failing DB accesses, late Wants and evictions at any
\* point (delete writes cc - rc, cache.go:290).
THEOREM CacheCoherent == Spec => []Coherent
  <1>1. IInv => Coherent
    BY DEF IInv
  <1> QED
    BY <1>1, InitIInv, StepIInv, PTL DEF Spec

\* The counters of the DB and of the cache, the wanters and the answers keep
\* their types; no counter of the DB falls below zero.
THEOREM CacheTypeOK == Spec => []TypeOK
  <1>1. IInv => TypeOK
    BY DEF IInv
  <1> QED
    BY <1>1, InitIInv, StepIInv, PTL DEF Spec
-----------------------------------------------------------------------------
(* What a state of the cache and the DB is to its users: whether an object *)
(* is there, its references, the held ones among them and who waits.       *)

RefsIn(s, k) == IF s.item[k].val THEN s.item[k].cc ELSE s.db[k].rc

\* t differs from s in the references of k only, which are n
CountsTo(s, t, k, n) ==
  \A j \in Keys :
    /\ t.db[j].in = s.db[j].in
    /\ t.item[j].fc = s.item[j].fc
    /\ t.item[j].fwant = s.item[j].fwant
    /\ RefsIn(t, j) = IF j = k THEN n ELSE RefsIn(s, j)

\* t is the same to the users as s
Alike(s, t) == \A k \in Keys : CountsTo(s, t, k, RefsIn(s, k))

\* An item nobody waits for has no wanters.
LEMMA NotWanted ==
  ASSUME NEW it \in Item, ~isWanted(it)
  PROVE  it.fwant = NoWants
  <1>1. PICK W \in SUBSET Wanters : it.fwant \in [W -> {0, 1}]
    BY DEF Item
  <1>2. W = {}
    BY <1>1 DEF isWanted
  <1> QED
    BY <1>1, <1>2 DEF NoWants

\* The ways out of putItem and putFillingItem.
LEMMA PutWays ==
  ASSUME NEW s, NEW k \in Keys, NEW r \in Put(s, k)
  PROVE  \/ r.s = s /\ r.ok
         \/ r.s = Keep(s, k) /\ r.ok
         \/ \E E \in SUBSET Rank(s) : r.s = Keep(Evict(s, E), k) /\ r.ok
         \/ \E E \in SUBSET Rank(s) : r.s = Evict(s, E) /\ ~r.ok /\ DBFails
  <1> DEFINE Same == {[ok |-> TRUE, s |-> s]}
             Fine == CleanDown(s, Vol[k])
             Bad  == CleanDownFailed(s, Vol[k])
  <1>1. r = [ok |-> TRUE, s |-> s]
        \/ \E c \in Same \cup Fine \cup Bad : r = [ok |-> c.ok, s |-> IF c.ok THEN Keep(c.s, k) ELSE c.s]
    BY DEF Put
  <1>2. CASE r = [ok |-> TRUE, s |-> s]
    BY <1>2
  <1>3. ASSUME NEW c \in Same, r = [ok |-> c.ok, s |-> IF c.ok THEN Keep(c.s, k) ELSE c.s]
        PROVE  r.s = Keep(s, k) /\ r.ok
    BY <1>3
  <1>4. ASSUME NEW c \in Fine, r = [ok |-> c.ok, s |-> IF c.ok THEN Keep(c.s, k) ELSE c.s]
        PROVE  \E E \in SUBSET Rank(s) : r.s = Keep(Evict(s, E), k) /\ r.ok
    <2>1. PICK E \in Victims(s, Vol[k]) : c = [ok |-> TRUE, s |-> Evict(s, E)]
      BY DEF CleanDown
    <2>2. E \in SUBSET Rank(s)
      BY DEF Victims
    <2>3. c.ok /\ c.s = Evict(s, E)
      BY <2>1
    <2> QED
      BY <1>4, <2>2, <2>3
  <1>5. ASSUME NEW c \in Bad, r = [ok |-> c.ok, s |-> IF c.ok THEN Keep(c.s, k) ELSE c.s]
        PROVE  \E E \in SUBSET Rank(s) : r.s = Evict(s, E) /\ ~r.ok /\ DBFails
    <2>1. DBFails /\ \E E \in SUBSET Rank(s) : c = [ok |-> FALSE, s |-> Evict(s, E)]
      BY DEF CleanDownFailed
    <2>2. PICK E \in SUBSET Rank(s) : c = [ok |-> FALSE, s |-> Evict(s, E)]
      BY <2>1
    <2>3. ~c.ok /\ c.s = Evict(s, E)
      BY <2>2
    <2> QED
      BY <1>5, <2>1, <2>3
  <1> HIDE DEF Same, Fine, Bad
  <1> QED
    BY <1>1, <1>2, <1>3, <1>4, <1>5

\* Evicting keeps the references: what the cache gained is written (delete).
LEMMA EvictAlike ==
  ASSUME NEW s, Sound(s), NEW E \in SUBSET {k \in Keys : s.item[k].val}
  PROVE  Alike(s, Evict(s, E))
  <1> DEFINE t == Evict(s, E)
  <1>1. ASSUME NEW j \in Keys
        PROVE  /\ t.db[j].in = s.db[j].in /\ t.item[j].fc = s.item[j].fc
               /\ t.item[j].fwant = s.item[j].fwant /\ RefsIn(t, j) = RefsIn(s, j)
    <2>1. CASE j \notin E
      <3>1. t.item[j] = s.item[j] /\ t.db[j] = s.db[j]
        BY <2>1, SoundEvict
      <3> HIDE DEF t
      <3> QED
        BY <3>1 DEF RefsIn
    <2>2. CASE j \in E
      <3>1. /\ s.item[j].val /\ s.item[j] \in Item /\ ItemSound(s, j)
            /\ s.item[j].fc \in Nat /\ s.item[j].cc \in Int /\ s.item[j].rc \in Nat /\ s.db[j].rc \in Nat
        BY <2>2, Numbers DEF Sound
      <3>2. ~isWanted(s.item[j]) /\ s.item[j].rc = s.db[j].rc /\ s.item[j].cc >= 0
        BY <3>1 DEF ItemSound
      <3>3. /\ t.item[j] = Left(s.item[j])
            /\ t.db[j] = [in |-> s.db[j].in, rc |-> Sat(s.db[j].rc + (s.item[j].cc - s.item[j].rc))]
        BY <2>2 DEF Evict
      <3> HIDE DEF t
      <3>4. t.db[j].in = s.db[j].in /\ t.db[j].rc = Sat(s.db[j].rc + (s.item[j].cc - s.item[j].rc))
        BY <3>3
      <3>5. t.db[j].rc = s.item[j].cc
        BY <3>1, <3>2, <3>4 DEF Sat
      <3>6. s.item[j].fwant = NoWants
        BY <3>1, <3>2, NotWanted
      <3>7. t.item[j].fc = s.item[j].fc /\ t.item[j].fwant = NoWants /\ ~t.item[j].val
        BY <3>1, <3>3 DEF Left, NoItem, Shell
      <3> QED
        BY <3>1, <3>4, <3>5, <3>6, <3>7 DEF RefsIn
    <2> QED
      BY <2>1, <2>2
  <1> HIDE DEF t
  <1>2. Alike(s, t)
    BY <1>1 DEF Alike, CountsTo
  <1> QED
    BY <1>2 DEF t

\* Caching the value of an object nobody waits for keeps them.
LEMMA KeepAlike ==
  ASSUME NEW s, Sound(s), NEW k \in Keys, ~s.item[k].val, ~isWanted(s.item[k])
  PROVE  Alike(s, Keep(s, k))
  <1> DEFINE t == Keep(s, k)
  <1>1. s.item[k] \in Item /\ s.item \in [Keys -> Item]
    BY DEF Sound
  <1>2. t.item = [s.item EXCEPT ![k] = Regular(s.item[k].fc, s.db[k].rc)] /\ t.db = s.db
    BY DEF Keep
  <1> HIDE DEF t
  <1>3. s.item[k].fwant = NoWants
    BY <1>1, NotWanted
  <1>4. t.item[k] = Regular(s.item[k].fc, s.db[k].rc) /\ \A j \in Keys : j # k => t.item[j] = s.item[j]
    BY <1>1, <1>2
  <1>5. t.item[k].val /\ t.item[k].cc = s.db[k].rc /\ t.item[k].fc = s.item[k].fc /\ t.item[k].fwant = NoWants
    BY <1>4 DEF Regular
  <1>6. Alike(s, t)
    BY <1>2, <1>3, <1>4, <1>5 DEF Alike, CountsTo, RefsIn
  <1> QED
    BY <1>6 DEF t

LEMMA AlikeAlike ==
  ASSUME NEW s, NEW t, NEW u, Alike(s, t), Alike(t, u)
  PROVE  Alike(s, u)
  BY DEF Alike, CountsTo

\* Reading an object into the cache is invisible, with all it pushes out.
LEMMA PutAlike ==
  ASSUME NEW s, Sound(s), NEW k \in Keys, ~s.item[k].val, ~isWanted(s.item[k]), NEW r \in Put(s, k)
  PROVE  Alike(s, r.s) /\ (~DBFails => r.ok)
  <1>1. Rank(s) \subseteq {j \in Keys : s.item[j].val}
    BY DEF Rank
  <1>2. Alike(s, s)
    BY DEF Alike, CountsTo
  <1>3. ASSUME NEW E \in SUBSET Rank(s)
        PROVE  Alike(s, Evict(s, E)) /\ Alike(s, Keep(Evict(s, E), k))
    <2>1. E \in SUBSET {j \in Keys : s.item[j].val} /\ k \in Keys \ E
      BY <1>1
    <2>2. Alike(s, Evict(s, E))
      BY <2>1, EvictAlike
    <2>3. Sound(Evict(s, E)) /\ Evict(s, E).item[k] = s.item[k]
      BY <2>1, SoundEvict
    <2>4. Alike(Evict(s, E), Keep(Evict(s, E), k))
      BY <2>3, KeepAlike
    <2> QED
      BY <2>2, <2>4, AlikeAlike
  <1> QED
    BY <1>2, <1>3, PutWays, KeepAlike

\* A counter that changes in the cache, to none included.
LEMMA TouchCounts ==
  ASSUME NEW s, Sound(s), NEW k \in Keys, NEW inc \in Int, s.item[k].val,
         NEW t \in TouchItem(s, k, inc)
  PROVE  CountsTo(s, t, k, Sat(RefsIn(s, k) + inc))
  <1> DEFINE n == Sat(s.item[k].cc + inc)
             it == WithCc(s.item[k], n)
             u  == WithItem(s, k, it)
  <1>1. /\ s.item[k] \in Item /\ s.item \in [Keys -> Item] /\ ItemSound(s, k)
        /\ s.item[k].cc \in Int
    BY Numbers DEF Sound
  <1>2. n \in Nat
    BY <1>1, SatNat
  <1>3. t = u \/ t = Evict(u, {k})
    BY DEF TouchItem
  <1> HIDE DEF n
  <1>4. /\ it \in Item /\ it.cc = n /\ it.rc = s.item[k].rc /\ it.fc = s.item[k].fc
        /\ it.in = s.item[k].in /\ it.val /\ (isWanted(it) <=> isWanted(s.item[k]))
    BY <1>1, <1>2, ItemFields
  <1>5. it.fwant = s.item[k].fwant
    BY <1>1 DEF WithCc, Item
  <1>6. u.item = [s.item EXCEPT ![k] = it] /\ u.db = s.db
    BY DEF WithItem
  <1>7. u.item[k] = it /\ \A j \in Keys : j # k => u.item[j] = s.item[j]
    BY <1>1, <1>6
  <1> HIDE DEF it
  <1>8. ItemSound(u, k)
    <2> HIDE DEF u
    <2> QED
      BY <1>1, <1>2, <1>4, <1>6, <1>7 DEF ItemSound
  <1>9. Sound(u)
    BY <1>4, <1>8, SoundWithItem
  <1> HIDE DEF u
  <1>10. CountsTo(s, u, k, n)
    BY <1>4, <1>5, <1>6, <1>7 DEF CountsTo, RefsIn
  <1>11. {k} \in SUBSET {j \in Keys : u.item[j].val}
    BY <1>4, <1>7
  <1>12. Alike(u, Evict(u, {k}))
    BY <1>9, <1>11, EvictAlike
  <1>13. CountsTo(s, Evict(u, {k}), k, n)
    BY <1>10, <1>12 DEF Alike, CountsTo
  <1> QED
    BY <1>3, <1>10, <1>13 DEF n, RefsIn

\* A counter that changes in the DB.
LEMMA DbIncCounts ==
  ASSUME NEW s, Sound(s), NEW k \in Keys, NEW inc \in Int, ~s.item[k].val, s.db[k].in
  PROVE  CountsTo(s, DbInc(s, k, inc), k, Sat(RefsIn(s, k) + inc))
  <1> DEFINE t == DbInc(s, k, inc)
  <1>1. /\ t.item = s.item
        /\ t.db = [s.db EXCEPT ![k] = [in |-> TRUE, rc |-> Sat(s.db[k].rc + inc)]]
    BY DEF DbInc, WithDb
  <1>2. s.db \in [Keys -> Db]
    BY DEF Sound
  <1> HIDE DEF t
  <1>3. /\ t.db[k].in = TRUE /\ t.db[k].rc = Sat(s.db[k].rc + inc)
        /\ s.db[k].in = TRUE
        /\ \A j \in Keys : j # k => t.db[j] = s.db[j]
    BY <1>1, <1>2 DEF Db
  <1>4. CountsTo(s, t, k, Sat(RefsIn(s, k) + inc))
    BY <1>1, <1>3 DEF CountsTo, RefsIn
  <1> QED
    BY <1>4 DEF t

\* A change of the counter in the DB, and the item read into the cache.
LEMMA ReadCounts ==
  ASSUME NEW s, Sound(s), NEW k \in Keys, NEW inc \in Int, ~s.item[k].val, ~isWanted(s.item[k]),
         s.db[k].in, NEW r \in Put(DbInc(s, k, inc), k)
  PROVE  /\ CountsTo(s, r.s, k, Sat(RefsIn(s, k) + inc))
         /\ ~DBFails => r.ok
  <1> DEFINE u == DbInc(s, k, inc)
  <1>1. Sound(u) /\ u.item = s.item
    BY SoundDbInc
  <1>2. CountsTo(s, u, k, Sat(RefsIn(s, k) + inc))
    BY DbIncCounts
  <1> HIDE DEF u
  <1>3. Alike(u, r.s) /\ (~DBFails => r.ok)
    BY <1>1, PutAlike DEF u
  <1> QED
    BY <1>2, <1>3 DEF Alike, CountsTo

-----------------------------------------------------------------------------
(* The Cache implements CountedStore: every step of the cache is a step of *)
(* the store its users see.                                                *)

\* The store the users see, when one counter becomes n.
LEMMA StoreCounts ==
  ASSUME Sound(Now), NEW k \in Keys, NEW n, NEW t, CountsTo(Now, t, k, n), Becomes(t)
  PROVE  /\ {j \in Keys : db'[j].in} = {j \in Keys : db[j].in}
         /\ [j \in Keys |-> Refs(j)]' = [[j \in Keys |-> Refs(j)] EXCEPT ![k] = n]
         /\ [j \in Keys |-> item'[j].fc] = [j \in Keys |-> item[j].fc]
         /\ [j \in Keys |-> item'[j].fwant] = [j \in Keys |-> item[j].fwant]
  <1>1. /\ Now.item = item /\ Now.db = db /\ item' = t.item /\ db' = t.db
    BY DEF Now, Becomes
  <1>2. ASSUME NEW j \in Keys
        PROVE  /\ db'[j].in = db[j].in /\ item'[j].fc = item[j].fc /\ item'[j].fwant = item[j].fwant
               /\ Refs(j)' = IF j = k THEN n ELSE Refs(j)
    BY <1>1 DEF CountsTo, RefsIn, Refs
  <1> QED
    BY <1>2

\* A counter that changes is a Touch, or a Set of an object that is there.
LEMMA StoreTouches ==
  ASSUME Sound(Now), NEW k \in Keys, NEW inc \in Int, NEW t,
         CountsTo(Now, t, k, Sat(Refs(k) + inc)), Becomes(t), db[k].in, UNCHANGED mail,
         NEW op, NEW rc, Answer(op, k, TRUE, rc),
         op # "Inc" => rc = Sat(Refs(k) + inc) - item[k].fc
  PROVE  Store!Touch(op, k, inc) /\ (op = "Set" => Store!Set(k, inc))
  <1> DEFINE refs == [j \in Keys |-> Refs(j)]
             n    == Sat(Refs(k) + inc)
  <1>1. /\ {j \in Keys : db'[j].in} = {j \in Keys : db[j].in}
        /\ refs' = [refs EXCEPT ![k] = n]
        /\ [j \in Keys |-> item'[j].fc] = [j \in Keys |-> item[j].fc]
        /\ [j \in Keys |-> item'[j].fwant] = [j \in Keys |-> item[j].fwant]
    BY StoreCounts
  <1>2. reply'.op = op /\ reply'.key = k /\ reply'.ok /\ reply'.rc = rc
    BY DEF Answer
  <1>3. refs[k] = Refs(k) /\ refs'[k] = n
    BY <1>1
  <1>4. Store!Answer(op, k, refs'[k] - [j \in Keys |-> item[j].fc][k])
    BY <1>2, <1>3 DEF Store!Answer
  <1> QED
    BY <1>1, <1>3, <1>4 DEF Store!Touch, Store!Set, Store!Sat, Sat

\* A call that finds nothing.
LEMMA StoreNothing ==
  ASSUME Sound(Now), ~DBFails, NEW k \in Keys, NEW inc, NEW op, Nothing(op, k), UNCHANGED mail
  PROVE  Store!Touch(op, k, inc)
  <1>1. Now.item = item /\ Now.db = db /\ ItemSound(Now, k)
    BY DEF Now, Sound
  <1>2. ~db[k].in
    BY <1>1 DEF Nothing, ItemSound
  <1>3. reply' = [op |-> op, key |-> k, ok |-> FALSE, rc |-> 0] /\ UNCHANGED <<item, db, mail>>
    BY DEF Nothing, Answer
  <1> QED
    BY <1>2, <1>3 DEF Store!Touch, Store!NotFound, Refs

\* A call on an item with its value.
LEMMA StoreOnItem ==
  ASSUME Sound(Now), NEW k \in Keys, NEW inc \in Int, NEW op, OnItem(op, k, inc), UNCHANGED mail
  PROVE  Store!Touch(op, k, inc) /\ (op = "Set" => Store!Set(k, inc))
  <1>1. Now.item = item /\ Now.db = db /\ ItemSound(Now, k) /\ item[k].val
    BY DEF Now, Sound, OnItem
  <1>2. db[k].in /\ Refs(k) = item[k].cc /\ RefsIn(Now, k) = Refs(k)
    BY <1>1 DEF ItemSound, Refs, RefsIn
  <1>3. PICK t \in TouchItem(Now, k, inc) : Becomes(t)
    BY DEF OnItem
  <1>4. CountsTo(Now, t, k, Sat(Refs(k) + inc))
    BY <1>1, <1>2, TouchCounts
  <1>5. Answer(op, k, TRUE, Sat(Refs(k) + inc) - item[k].fc)
    BY <1>2 DEF OnItem
  <1> QED
    BY <1>2, <1>3, <1>4, <1>5, StoreTouches

\* A call on an object only the DB has the value of.
LEMMA StoreOnDb ==
  ASSUME Sound(Now), ~DBFails, NEW k \in Keys, NEW inc \in Int, NEW op \in {"Get", "Inc", "Set"},
         OnFilling(op, k, inc) \/ (op # "Set" /\ OnDB(op, k, inc)), UNCHANGED mail
  PROVE  Store!Touch(op, k, inc) /\ (op = "Set" => Store!Set(k, inc))
  <1> DEFINE u == DbInc(Now, k, inc)
  <1>1. /\ Now.item = item /\ Now.db = db /\ ItemSound(Now, k) /\ item[k] \in Item
        /\ item[k].fc \in Nat /\ db \in [Keys -> Db]
    BY Numbers DEF Now, Sound
  <1>2. ~item[k].val /\ ~isWanted(item[k]) /\ db[k].in
    BY <1>1 DEF OnFilling, OnDB, isFilling, ItemSound
  <1>3. Refs(k) = db[k].rc /\ RefsIn(Now, k) = Refs(k)
    BY <1>1, <1>2 DEF Refs, RefsIn
  <1>4. u.db[k].rc = Sat(Refs(k) + inc)
    BY <1>1, <1>3 DEF DbInc, WithDb
  <1>5. PICK r \in Put(u, k) :
          Becomes(r.s) /\ \E rc : Answer(op, k, r.ok, rc) /\ (op # "Inc" => rc = u.db[k].rc - item[k].fc)
    <2>1. CASE OnFilling(op, k, inc)
      BY <2>1 DEF OnFilling
    <2>2. CASE op # "Set" /\ OnDB(op, k, inc)
      <3>1. item[k].fc = 0
        BY <1>1, <2>2 DEF OnDB, ItemSound
      <3>2. u.db[k].rc \in Int
        BY <1>1, <1>2, SoundDbInc, Numbers
      <3>3. PICK r \in Put(u, k) : Becomes(r.s) /\ Answer(op, k, r.ok, IF op = "Get" THEN u.db[k].rc ELSE 0)
        BY <2>2 DEF OnDB
      <3> HIDE DEF u
      <3>4. op # "Inc" => (IF op = "Get" THEN u.db[k].rc ELSE 0) = u.db[k].rc - item[k].fc
        BY <2>2, <3>1, <3>2
      <3> QED
        BY <3>3, <3>4
    <2> QED
      BY <2>1, <2>2
  <1>6. PICK rc : Answer(op, k, r.ok, rc) /\ (op # "Inc" => rc = u.db[k].rc - item[k].fc)
    BY <1>5
  <1>7. CountsTo(Now, r.s, k, Sat(Refs(k) + inc)) /\ r.ok
    BY <1>1, <1>2, <1>3, ReadCounts
  <1>8. r.ok = TRUE
    <2>1. Sound(u) /\ u.item = item /\ u.db[k].in
      BY <1>1, <1>2, SoundDbInc
    <2> HIDE DEF u
    <2> QED
      BY <1>2, <1>7, <2>1, SoundPut
  <1> HIDE DEF u
  <1> QED
    BY <1>2, <1>4, <1>5, <1>6, <1>7, <1>8, StoreTouches

\* Get, getNoCache and Inc.
LEMMA StoreGets ==
  ASSUME Sound(Now), ~DBFails, NEW k \in Keys, NEW inc \in Int,
         Get(k, inc) \/ getNoCache(k, inc) \/ Inc(k, inc)
  PROVE  Store!Touch("Get", k, inc) \/ Store!Touch("Inc", k, inc)
  <1>1. CASE Get(k, inc)
    BY <1>1, StoreNothing, StoreOnItem, StoreOnDb DEF Get
  <1>2. CASE Inc(k, inc)
    BY <1>2, StoreNothing, StoreOnItem, StoreOnDb DEF Inc
  <1>3. CASE getNoCache(k, inc)
    <2>1. CASE /\ ~item[k].in /\ db[k].in
               /\ Becomes(DbInc(Now, k, inc))
               /\ Answer("Get", k, TRUE, db'[k].rc)
      <3>1. /\ Now.item = item /\ Now.db = db /\ ItemSound(Now, k) /\ db \in [Keys -> Db]
            /\ item[k].fc \in Nat
        BY Numbers DEF Now, Sound
      <3>2. ~item[k].val /\ item[k].fc = 0
        BY <2>1, <3>1 DEF ItemSound
      <3>3. Refs(k) = db[k].rc /\ RefsIn(Now, k) = Refs(k) /\ db[k].rc + inc \in Int
        BY <3>1, <3>2 DEF Refs, RefsIn, Db
      <3>4. CountsTo(Now, DbInc(Now, k, inc), k, Sat(Refs(k) + inc))
        BY <2>1, <3>1, <3>2, <3>3, DbIncCounts
      <3>5. db'[k].rc = Sat(Refs(k) + inc)
        BY <2>1, <3>1, <3>3 DEF Becomes, DbInc, WithDb
      <3>6. db'[k].rc = Sat(Refs(k) + inc) - item[k].fc
        BY <3>2, <3>3, <3>5, SatNat
      <3> QED
        BY <1>3, <2>1, <3>4, <3>6, StoreTouches DEF getNoCache
    <2> QED
      BY <1>3, <2>1, StoreNothing, StoreOnItem, StoreOnDb DEF getNoCache
  <1> QED
    BY <1>1, <1>2, <1>3

\* The store the users see after a step to t.
LEMMA StoreAt ==
  ASSUME NEW t, Becomes(t)
  PROVE  /\ {j \in Keys : db[j].in}' = {j \in Keys : t.db[j].in}
         /\ [j \in Keys |-> Refs(j)]' = [j \in Keys |-> RefsIn(t, j)]
         /\ [j \in Keys |-> item[j].fc]' = [j \in Keys |-> t.item[j].fc]
         /\ [j \in Keys |-> item[j].fwant]' = [j \in Keys |-> t.item[j].fwant]
  BY DEF Becomes, Refs, RefsIn

\* The users see no difference between states that are alike.
LEMMA AlikeAt ==
  ASSUME NEW s, NEW t, Alike(s, t)
  PROVE  /\ {j \in Keys : t.db[j].in} = {j \in Keys : s.db[j].in}
         /\ [j \in Keys |-> RefsIn(t, j)] = [j \in Keys |-> RefsIn(s, j)]
         /\ [j \in Keys |-> t.item[j].fc] = [j \in Keys |-> s.item[j].fc]
         /\ [j \in Keys |-> t.item[j].fwant] = [j \in Keys |-> s.item[j].fwant]
  BY DEF Alike, CountsTo

\* A wanted object is not there and has no references.
LEMMA WantedAbsent ==
  ASSUME Sound(Now), NEW k \in Keys, isWanted(item[k])
  PROVE  ~db[k].in /\ item[k].fc = 0 /\ Refs(k) = 0 /\ ~item[k].val
  <1>1. Now.item = item /\ Now.db = db /\ ItemSound(Now, k) /\ item[k].fc \in Nat
    BY Numbers DEF Now, Sound
  <1> QED
    BY <1>1 DEF ItemSound, Refs

\* An object that is refused.
LEMMA StoreRefuse ==
  ASSUME Sound(Now), NEW k \in Keys, Refuse(k), reply' = NoReply \/ Answer("Set", k, FALSE, 0)
  PROVE  Store!Refuse(k)
  <1> DEFINE refs == [j \in Keys |-> Refs(j)]
             hold == [j \in Keys |-> item[j].fc]
             wants == [j \in Keys |-> item[j].fwant]
  <1>1. ~db[k].in /\ item[k].fc = 0 /\ ~item[k].val
    BY WantedAbsent DEF Refuse
  <1>2. item' = [item EXCEPT ![k] = NoItem] /\ db' = db /\ item \in [Keys -> Item]
    BY DEF Refuse, Sound, Now
  <1>3. ASSUME NEW j \in Keys
        PROVE  Refs(j)' = Refs(j) /\ item'[j].fc = item[j].fc
               /\ item'[j].fwant = IF j = k THEN NoWants ELSE item[j].fwant
    BY <1>1, <1>2 DEF NoItem, Refs
  <1>4. refs' = refs /\ hold' = hold /\ wants' = [wants EXCEPT ![k] = NoWants]
    BY <1>3
  <1>5. mail' = Store!Deliver(DOMAIN wants[k], [st |-> "err", key |-> k, rc |-> 0])
    BY DEF Refuse, Deliver, Store!Deliver
  <1>6. reply' = Store!NoReply \/ Store!NotFound("Set", k)
    BY DEF Answer, NoReply, Store!NoReply, Store!NotFound
  <1> QED
    BY <1>1, <1>2, <1>4, <1>5, <1>6 DEF Store!Refuse, NoWants, Store!NoWants

\* The incs of wanters are counted the same.
LEMMA StoreWincs == ASSUME NEW it PROVE Store!Wincs(it.fwant) = Wincs(it)
  BY DEF Store!Wincs, Wincs, Store!Cardinality, Cardinality

\* An object somebody waits for comes.
LEMMA StoreArrive ==
  ASSUME Sound(Now), ~Drive, ~DBFails, mail \in [Wanters -> Mail], NEW k \in Keys, NEW inc \in Nat,
         NEW answers \in BOOLEAN, Arrive(k, inc, answers)
  PROVE  /\ Store!Create(k, inc)
         /\ answers => Store!Answer("Set", k, [j \in Keys |-> Refs(j)]'[k] - [j \in Keys |-> item[j].fc]'[k])
         /\ ~answers => reply' = Store!NoReply
  <1> DEFINE n == Wincs(item[k])
             m == inc + n
             sh == Shell(item[k].fc + n)
             u == DbSet(Now, k, m)
             hard == u.db[k].rc - (n + item[k].fc)
             v == WithItem(u, k, sh)
  <1>1. Now.item = item /\ Now.db = db /\ item[k] \in Item /\ item \in [Keys -> Item] /\ db \in [Keys -> Db]
    BY DEF Now, Sound
  <1>2. ~db[k].in /\ item[k].fc = 0 /\ ~item[k].val
    BY WantedAbsent DEF Arrive
  <1>3. n \in Nat /\ m \in Nat
    BY <1>1, WincsNat
  <1>4. /\ mail' = Deliver(k, [st |-> "ok", key |-> k, rc |-> hard])
        /\ \E r \in Put(v, k) :
             Becomes(r.s) /\ IF answers THEN Answer("Set", k, r.ok, hard) ELSE reply' = NoReply
    BY DEF Arrive
  <1> HIDE DEF n, m
  <1>5. u.item = item /\ u.db = [db EXCEPT ![k] = [in |-> TRUE, rc |-> m]]
    BY <1>1, <1>2 DEF DbSet, WithDb
  <1>6. u.db[k] = [in |-> TRUE, rc |-> m] /\ u.db[k].rc = m
    BY <1>1, <1>5
  <1>7. hard = m - n
    BY <1>2, <1>3, <1>6
  <1> HIDE DEF u, hard
  <1>8. /\ sh \in Item /\ ~isWanted(sh) /\ ~sh.val /\ sh.fc = n /\ sh.in /\ sh.cc = 0 /\ sh.rc = 0
        /\ sh.fwant = NoWants
    <2>1. item[k].fc + n = n
      BY <1>2, <1>3
    <2> QED
      BY <1>3, <2>1, Built DEF Shell
  <1> HIDE DEF sh
  <1>9. v.item = [item EXCEPT ![k] = sh] /\ v.item[k] = sh /\ v.db = u.db
    BY <1>1, <1>5 DEF WithItem
  <1> HIDE DEF v
  <1>10. Sound(v)
    <2>1. ItemSound(v, k)
      BY <1>3, <1>6, <1>8, <1>9 DEF ItemSound
    <2>2. v.item = [Now.item EXCEPT ![k] = v.item[k]] /\ v.db = [Now.db EXCEPT ![k] = v.db[k]]
      <3>1. v.db[k] = [in |-> TRUE, rc |-> m]
        BY <1>6, <1>9
      <3> QED
        BY <1>1, <1>5, <1>9, <3>1
    <2>3. v.db[k] \in Db
      <3>1. v.db[k] = [in |-> TRUE, rc |-> m] /\ [in |-> TRUE, rc |-> m] \in Db
        BY <1>3, <1>6, <1>9 DEF Db
      <3> QED
        BY <3>1, Zenon
    <2> QED
      BY <1>8, <1>9, <2>1, <2>2, <2>3, SoundWith
  <1>11. PICK r \in Put(v, k) :
           Becomes(r.s) /\ IF answers THEN Answer("Set", k, r.ok, hard) ELSE reply' = NoReply
    BY <1>4
  <1>12. Alike(v, r.s) /\ r.ok
    BY <1>8, <1>9, <1>10, PutAlike
  <1> DEFINE refs == [j \in Keys |-> Refs(j)]
             hold == [j \in Keys |-> item[j].fc]
             wants == [j \in Keys |-> item[j].fwant]
             stored == {j \in Keys : db[j].in}
  <1>13. /\ stored' = {j \in Keys : v.db[j].in}
         /\ refs' = [j \in Keys |-> RefsIn(v, j)]
         /\ hold' = [j \in Keys |-> v.item[j].fc]
         /\ wants' = [j \in Keys |-> v.item[j].fwant]
    <2>1. /\ stored' = {j \in Keys : r.s.db[j].in}
          /\ refs' = [j \in Keys |-> RefsIn(r.s, j)]
          /\ hold' = [j \in Keys |-> r.s.item[j].fc]
          /\ wants' = [j \in Keys |-> r.s.item[j].fwant]
      BY <1>11, StoreAt
    <2>2. /\ {j \in Keys : r.s.db[j].in} = {j \in Keys : v.db[j].in}
          /\ [j \in Keys |-> RefsIn(r.s, j)] = [j \in Keys |-> RefsIn(v, j)]
          /\ [j \in Keys |-> r.s.item[j].fc] = [j \in Keys |-> v.item[j].fc]
          /\ [j \in Keys |-> r.s.item[j].fwant] = [j \in Keys |-> v.item[j].fwant]
      BY <1>12, AlikeAt
    <2> QED
      BY <2>1, <2>2
  <1>14. ASSUME NEW j \in Keys
         PROVE  /\ v.db[j].in <=> (j = k \/ db[j].in)
                /\ RefsIn(v, j) = IF j = k THEN m ELSE Refs(j)
                /\ v.item[j].fc = IF j = k THEN n ELSE item[j].fc
                /\ v.item[j].fwant = IF j = k THEN NoWants ELSE item[j].fwant
    <2>1. CASE j = k
      BY <1>6, <1>8, <1>9, <2>1 DEF RefsIn
    <2>2. CASE j # k
      <3>1. v.db[j] = db[j] /\ v.item[j] = item[j]
        BY <1>1, <1>5, <1>9, <2>2
      <3>2. db[j].in \in BOOLEAN
        BY <1>1 DEF Db
      <3> QED
        BY <2>2, <3>1, <3>2 DEF RefsIn, Refs
    <2> QED
      BY <2>1, <2>2
  <1>15. /\ stored' = stored \cup {k}
         /\ refs' = [refs EXCEPT ![k] = m]
         /\ hold' = [hold EXCEPT ![k] = n]
         /\ wants' = [wants EXCEPT ![k] = NoWants]
    BY <1>13, <1>14
  <1>16. refs'[k] = m /\ hold'[k] = n /\ hold[k] + n = n /\ wants[k] = item[k].fwant
    <2>1. [refs EXCEPT ![k] = m][k] = m /\ [hold EXCEPT ![k] = n][k] = n
      OBVIOUS
    <2>2. hold[k] = 0 /\ wants[k] = item[k].fwant
      BY <1>2
    <2>3. refs'[k] = m /\ hold'[k] = n
      BY <1>15, <2>1, Zenon
    <2>4. 0 + n = n
      BY <1>3
    <2> QED
      BY <2>2, <2>3, <2>4, Zenon
  <1>17. Store!Wincs(wants[k]) = n
    <2>1. Store!Wincs(item[k].fwant) = n
      BY StoreWincs DEF n
    <2>2. wants[k] = item[k].fwant
      OBVIOUS
    <2> HIDE DEF wants
    <2> QED
      BY <2>1, <2>2, Zenon
  <1>18. mail' = Store!Deliver(DOMAIN wants[k], Store!Told(k, refs'[k] - hold'[k]))
    BY <1>4, <1>7, <1>16 DEF Deliver, Store!Deliver, Store!Told
  <1>19. Store!Create(k, inc)
    <2>1. k \notin stored /\ m = inc + n /\ NoWants = Store!NoWants
      BY <1>2 DEF m, NoWants, Store!NoWants
    <2>2. refs' = [refs EXCEPT ![k] = inc + Store!Wincs(wants[k])]
      BY <1>15, <1>17, <2>1
    <2>3. hold' = [hold EXCEPT ![k] = @ + Store!Wincs(wants[k])]
      BY <1>15, <1>16, <1>17
    <2> HIDE DEF refs, hold, wants, stored
    <2> QED
      BY <1>15, <1>18, <2>1, <2>2, <2>3 DEF Store!Create, refs, hold, wants, stored
  <1>20. answers => Store!Answer("Set", k, refs'[k] - hold'[k])
    BY <1>7, <1>11, <1>12, <1>16 DEF Store!Answer, Answer
  <1>21. ~answers => reply' = Store!NoReply
    BY <1>11 DEF NoReply, Store!NoReply
  <1> QED
    BY <1>19, <1>20, <1>21

\* Steps that change nothing but the answer.
LEMMA StoreIdle ==
  ASSUME Sound(Now), UNCHANGED <<item, db, mail>>, reply' = NoReply
  PROVE  Store!Forget
  <1> DEFINE refs == [j \in Keys |-> Refs(j)]
             stored == {j \in Keys : db[j].in}
  <1>1. /\ stored' = stored /\ refs' = refs /\ stored = stored \ {}
        /\ refs = [j \in Keys |-> IF j \in {} THEN 0 ELSE refs[j]]
    BY DEF Refs
  <1>2. \E K \in SUBSET {j \in stored : [i \in Keys |-> item[i].fc][j] = 0 /\ (refs[j] = 0 \/ FALSE)} :
          stored' = stored \ K /\ refs' = [j \in Keys |-> IF j \in K THEN 0 ELSE refs[j]]
    <2>1. {} \in SUBSET {j \in stored : [i \in Keys |-> item[i].fc][j] = 0 /\ (refs[j] = 0 \/ FALSE)}
      OBVIOUS
    <2> HIDE DEF refs, stored
    <2> QED
      BY <1>1, <2>1
  <1>3. reply' = Store!NoReply
    BY DEF NoReply, Store!NoReply
  <1> QED
    BY <1>2, <1>3 DEF Store!Forget

LEMMA StoreSetWanted ==
  ASSUME Sound(Now), ~Drive, ~DBFails, mail \in [Wanters -> Mail], NEW k \in Keys, SetWanted(k)
  PROVE  Store!Next
  <1>1. CASE Refuse(k) /\ reply' = NoReply
    BY <1>1, StoreRefuse DEF Store!Next
  <1>2. CASE Wincs(item[k]) > 0 /\ Arrive(k, 0, FALSE)
    <2>1. Store!Create(k, 0) /\ reply' = Store!NoReply
      BY <1>2, StoreArrive
    <2>2. Store!Wincs([j \in Keys |-> item[j].fwant][k]) > 0
      BY <1>2, StoreWincs
    <2>3. Store!SetWanted(k)
      BY <2>1, <2>2 DEF Store!SetWanted
    <2> QED
      BY <2>3 DEF Store!Next
  <1>3. CASE reply' = NoReply /\ UNCHANGED <<item, db, mail>>
    BY <1>3, StoreIdle DEF Store!Next
  <1> QED
    BY <1>1, <1>2, <1>3 DEF SetWanted

\* No object over the limit is stored.
Fits == \A k \in Keys : db[k].in => ~TooLarge(k)

LEMMA StoreSet ==
  ASSUME Sound(Now), ~Drive, ~DBFails, Fits, mail \in [Wanters -> Mail], NEW k \in Keys,
         NEW inc \in SetIncs, Set(k, inc)
  PROVE  Store!Next
  <1>1. inc \in Nat /\ inc > 0 /\ inc \in Incs \cup SetIncs
    BY IncsAssumption
  <1>2. ASSUME Store!Set(k, inc) PROVE Store!Next
    BY <1>1, <1>2 DEF Store!Next
  <1>3. ASSUME Store!Refuse(k) PROVE Store!Next
    BY <1>3 DEF Store!Next
  <1>4. CASE Refuse(k) /\ Answer("Set", k, FALSE, 0)
    BY <1>3, <1>4, StoreRefuse
  <1>5. CASE Arrive(k, inc, TRUE)
    <2>1. Store!Create(k, inc)
          /\ Store!Answer("Set", k, [j \in Keys |-> Refs(j)]'[k] - [j \in Keys |-> item[j].fc]'[k])
      BY <1>1, <1>5, StoreArrive
    <2> QED
      BY <1>2, <2>1 DEF Store!Set
  <1>6. CASE (OnItem("Set", k, inc) \/ OnFilling("Set", k, inc)) /\ UNCHANGED mail
    BY <1>1, <1>2, <1>6, StoreOnItem, StoreOnDb
  <1>7. CASE OnNew(k, inc) /\ UNCHANGED mail
    <2> DEFINE u == DbSet(Now, k, inc)
    <2>1. Now.item = item /\ Now.db = db /\ ItemSound(Now, k) /\ ~item[k].in
          /\ item[k] \in Item /\ db \in [Keys -> Db] /\ item[k].fc \in Nat
      BY <1>7, Numbers DEF Now, Sound, OnNew
    <2>2. ~item[k].val /\ ~isWanted(item[k]) /\ item[k].fc = 0
      BY <2>1 DEF ItemSound
    <2>3. PICK r \in Put(u, k) : Becomes(r.s) /\ Answer("Set", k, r.ok, u.db[k].rc)
      BY <1>7 DEF OnNew
    <2>4. CASE db[k].in
      <3>1. u = DbInc(Now, k, inc)
        BY <2>1, <2>4 DEF DbSet
      <3>2. Refs(k) = db[k].rc /\ RefsIn(Now, k) = Refs(k) /\ Refs(k) + inc \in Int
        BY <1>1, <2>1, <2>2 DEF Refs, RefsIn, Db
      <3>3. CountsTo(Now, r.s, k, Sat(Refs(k) + inc)) /\ r.ok
        BY <1>1, <2>1, <2>2, <2>3, <2>4, <3>1, <3>2, ReadCounts
      <3>4. u.db[k].rc = Sat(Refs(k) + inc) - item[k].fc
        <4>1. u.db[k].rc = Sat(Refs(k) + inc)
          BY <2>1, <3>1, <3>2 DEF DbInc, WithDb
        <4> QED
          BY <2>2, <3>2, <4>1, SatNat
      <3>5. r.ok = TRUE
        <4>1. Sound(u) /\ u.item = item /\ u.db[k].in
          BY <1>1, <2>1, <2>2, SoundDbSet
        <4> HIDE DEF u
        <4> QED
          BY <2>2, <3>3, <4>1, SoundPut
      <3> HIDE DEF u
      <3>6. Answer("Set", k, TRUE, Sat(Refs(k) + inc) - item[k].fc)
        BY <2>3, <3>4, <3>5, Zenon
      <3>7. inc \in Int
        BY <1>1
      <3>8. Store!Set(k, inc)
        BY <1>7, <2>3, <2>4, <3>3, <3>6, <3>7, StoreTouches
      <3> QED
        BY <1>2, <3>8
    <2>5. CASE ~db[k].in
      <3> DEFINE refs == [j \in Keys |-> Refs(j)]
                 hold == [j \in Keys |-> item[j].fc]
                 wants == [j \in Keys |-> item[j].fwant]
                 stored == {j \in Keys : db[j].in}
      <3>1. u.item = item /\ u.db = [db EXCEPT ![k] = [in |-> TRUE, rc |-> inc]]
        BY <2>1, <2>5 DEF DbSet, WithDb
      <3>2. Sound(u)
        BY <1>1, <2>1, <2>2, SoundDbSet
      <3>3. u.db[k].in = TRUE /\ u.db[k].rc = inc /\ \A j \in Keys : j # k => u.db[j] = db[j]
        BY <2>1, <3>1
      <3> HIDE DEF u
      <3>4. Alike(u, r.s) /\ r.ok
        BY <2>2, <2>3, <3>1, <3>2, PutAlike
      <3>5. /\ stored' = {j \in Keys : u.db[j].in}
            /\ refs' = [j \in Keys |-> RefsIn(u, j)]
            /\ hold' = [j \in Keys |-> u.item[j].fc]
            /\ wants' = [j \in Keys |-> u.item[j].fwant]
        <4>1. /\ stored' = {j \in Keys : r.s.db[j].in}
              /\ refs' = [j \in Keys |-> RefsIn(r.s, j)]
              /\ hold' = [j \in Keys |-> r.s.item[j].fc]
              /\ wants' = [j \in Keys |-> r.s.item[j].fwant]
          BY <2>3, StoreAt
        <4>2. /\ {j \in Keys : r.s.db[j].in} = {j \in Keys : u.db[j].in}
              /\ [j \in Keys |-> RefsIn(r.s, j)] = [j \in Keys |-> RefsIn(u, j)]
              /\ [j \in Keys |-> r.s.item[j].fc] = [j \in Keys |-> u.item[j].fc]
              /\ [j \in Keys |-> r.s.item[j].fwant] = [j \in Keys |-> u.item[j].fwant]
          BY <3>4, AlikeAt
        <4> QED
          BY <4>1, <4>2
      <3>6. wants[k] = NoWants /\ hold[k] = 0
        BY <2>1, <2>2, NotWanted
      <3>7. /\ stored' = stored \cup {k}
            /\ refs' = [refs EXCEPT ![k] = inc]
            /\ hold' = hold
            /\ wants' = wants
        <4>1. ASSUME NEW j \in Keys
              PROVE  /\ u.db[j].in <=> (j = k \/ db[j].in)
                     /\ RefsIn(u, j) = IF j = k THEN inc ELSE Refs(j)
          BY <2>2, <3>1, <3>3 DEF RefsIn, Refs
        <4> QED
          BY <3>1, <3>5, <4>1
      <3>8. wants[k] = item[k].fwant /\ Store!Wincs(wants[k]) = 0
        <4>1. Wincs(item[k]) = 0
          <5>1. {w \in DOMAIN item[k].fwant : item[k].fwant[w] = 1} = {}
            BY <2>2 DEF isWanted
          <5> QED
            BY <5>1, FS_EmptySet DEF Wincs
        <4>2. Store!Wincs(item[k].fwant) = 0
          BY <4>1, StoreWincs
        <4> QED
          BY <4>2
      <3>9. refs'[k] = inc /\ hold'[k] = 0 /\ refs'[k] - hold'[k] = inc
        <4>1. [refs EXCEPT ![k] = inc][k] = inc
          OBVIOUS
        <4>2. refs'[k] = inc /\ hold'[k] = 0
          BY <3>6, <3>7, <4>1, Zenon
        <4> QED
          BY <1>1, <4>2
      <3>10. mail' = Store!Deliver(DOMAIN wants[k], Store!Told(k, refs'[k] - hold'[k]))
        <4>1. DOMAIN wants[k] = {}
          BY <3>6 DEF NoWants
        <4>2. mail' = [w \in Wanters |-> IF w \in {} THEN Store!Told(k, inc) ELSE mail[w]]
          BY <1>7
        <4> QED
          BY <3>9, <4>1, <4>2 DEF Store!Deliver
      <3>11. Store!Create(k, inc)
        <4>1. k \notin stored /\ NoWants = Store!NoWants /\ inc + 0 = inc
          <5>1. NoWants = Store!NoWants
            BY DEF NoWants, Store!NoWants
          <5> QED
            BY <1>1, <2>5, <5>1
        <4>2. refs' = [refs EXCEPT ![k] = inc + Store!Wincs(wants[k])]
          BY <3>7, <3>8, <4>1
        <4>3. hold' = [hold EXCEPT ![k] = @ + Store!Wincs(wants[k])]
          <5>1. [hold EXCEPT ![k] = 0] = hold /\ hold[k] + Store!Wincs(wants[k]) = 0
            BY <3>6, <3>8
          <5> QED
            BY <3>7, <5>1
        <4>4. wants' = [wants EXCEPT ![k] = Store!NoWants]
          BY <3>6, <3>7, <4>1
        <4> HIDE DEF refs, hold, wants, stored
        <4> QED
          BY <3>7, <3>10, <4>1, <4>2, <4>3, <4>4 DEF Store!Create, refs, hold, wants, stored
      <3>12. Store!Answer("Set", k, refs'[k] - hold'[k])
        BY <2>3, <3>3, <3>4, <3>9 DEF Store!Answer, Answer
      <3> QED
        BY <1>2, <3>11, <3>12 DEF Store!Set
    <2> QED
      BY <2>4, <2>5
  <1>8. CASE /\ ~item[k].in /\ TooLarge(k) /\ Answer("Set", k, FALSE, 0)
             /\ UNCHANGED <<item, db, amount, volume>> /\ UNCHANGED mail
    <2> DEFINE wants == [j \in Keys |-> item[j].fwant]
    <2>1. Now.item = item /\ Now.db = db /\ ItemSound(Now, k) /\ item[k] \in Item
      BY DEF Now, Sound
    <2>2. ~db[k].in /\ ~isWanted(item[k])
      BY <1>8, <2>1 DEF Fits, ItemSound
    <2>3. wants[k] = NoWants /\ DOMAIN wants[k] = {}
      BY <2>1, <2>2, NotWanted DEF NoWants
    <2>4. mail' = Store!Deliver(DOMAIN wants[k], [st |-> "err", key |-> k, rc |-> 0])
      BY <1>8, <2>3 DEF Store!Deliver
    <2>5. wants' = [wants EXCEPT ![k] = Store!NoWants]
      BY <1>8, <2>3 DEF NoWants, Store!NoWants
    <2>6. Store!NotFound("Set", k)
      BY <1>8 DEF Answer, Store!NotFound
    <2>7. Store!Refuse(k)
      BY <1>8, <2>2, <2>4, <2>5, <2>6 DEF Store!Refuse, Refs
    <2> QED
      BY <1>3, <2>7
  <1> QED
    BY <1>4, <1>5, <1>6, <1>7, <1>8 DEF Set

\* A filler or a peer asks for an object.
LEMMA StoreWant ==
  ASSUME Sound(Now), ~DBFails, "cache" \notin LateWants, mail \in [Wanters -> Mail],
         NEW k \in Keys, NEW w \in Wanters, NEW inc \in {0, 1}, Want(k, w, inc)
  PROVE  Store!Want(k, w, inc)
  <1> DEFINE refs == [j \in Keys |-> Refs(j)]
             hold == [j \in Keys |-> item[j].fc]
             wants == [j \in Keys |-> item[j].fwant]
             stored == {j \in Keys : db[j].in}
             f == [x \in DOMAIN item[k].fwant \cup {w} |-> IF x = w THEN inc ELSE item[k].fwant[x]]
  <1>1. mail[w] = Store!Idle /\ reply' = Store!NoReply
    BY DEF Want, Idle, Store!Idle, NoReply, Store!NoReply
  <1>2. /\ Now.item = item /\ Now.db = db /\ item[k] \in Item /\ db[k] \in Db
        /\ ItemSound(Now, k) /\ item \in [Keys -> Item] /\ db \in [Keys -> Db]
        /\ item[k].fc \in Nat /\ item[k].cc \in Int /\ db[k].rc \in Nat
    BY Numbers DEF Now, Sound
  <1>3. CASE /\ isWanted(item[k]) \/ ~db[k].in
             /\ item' = [item EXCEPT ![k] = Waiting(item[k], f)]
             /\ mail' = [mail EXCEPT ![w] = [st |-> "wait", key |-> k, rc |-> 0]]
             /\ UNCHANGED <<db, amount, volume>>
    <2>1. ~db[k].in /\ ~item[k].val
      BY <1>2, <1>3 DEF ItemSound
    <2>2. Waiting(item[k], f).fwant = f /\ Waiting(item[k], f).fc = item[k].fc /\ ~Waiting(item[k], f).val
      BY DEF Waiting
    <2> HIDE DEF f
    <2>3. ASSUME NEW j \in Keys
          PROVE  Refs(j)' = Refs(j) /\ item'[j].fc = item[j].fc
                 /\ item'[j].fwant = IF j = k THEN f ELSE item[j].fwant
      BY <1>2, <1>3, <2>1, <2>2 DEF Refs
    <2>4. refs' = refs /\ hold' = hold /\ stored' = stored /\ wants' = [wants EXCEPT ![k] = f]
      BY <1>3, <2>3
    <2>5. f = [x \in DOMAIN wants[k] \cup {w} |-> IF x = w THEN inc ELSE wants[k][x]]
      BY DEF f
    <2>6. k \notin stored
      BY <2>1
    <2> HIDE DEF refs, hold, wants, stored
    <2> QED
      BY <1>1, <1>3, <2>4, <2>5, <2>6 DEF Store!Want, refs, hold, wants, stored
  <1>4. CASE /\ ~item[k].val /\ ~isWanted(item[k]) /\ db[k].in
             /\ LET u == DbInc(Now, k, inc)
                    v == WithItem(u, k, Shell(item[k].fc))
                IN  /\ mail' = [mail EXCEPT ![w] =
                                 [st |-> "ok", key |-> k, rc |-> u.db[k].rc - item[k].fc - inc]]
                    /\ \E r \in Put(v, k) :
                         Becomes(WithItem(r.s, k, WithFc(r.s.item[k], r.s.item[k].fc + inc)))
    <2> DEFINE u  == DbInc(Now, k, inc)
               sh == Shell(item[k].fc)
               v  == WithItem(u, k, sh)
    <2>1. Sound(u) /\ u.item = item /\ u.db[k].in
      BY <1>2, <1>4, SoundDbInc
    <2>2. u.db = [db EXCEPT ![k] = [in |-> TRUE, rc |-> db[k].rc + inc]]
      <3>1. Sat(db[k].rc + inc) = db[k].rc + inc
        BY <1>2 DEF Sat
      <3> QED
        BY <1>2, <3>1 DEF DbInc, WithDb
    <2>3. u.db[k].rc = db[k].rc + inc /\ u.db[k].in = TRUE /\ \A j \in Keys : j # k => u.db[j] = db[j]
      BY <1>2, <2>2
    <2>4. mail' = [mail EXCEPT ![w] = [st |-> "ok", key |-> k, rc |-> u.db[k].rc - item[k].fc - inc]]
      BY <1>4
    <2>5. PICK r \in Put(v, k) : Becomes(WithItem(r.s, k, WithFc(r.s.item[k], r.s.item[k].fc + inc)))
      BY <1>4
    <2> HIDE DEF u
    <2>6. /\ sh \in Item /\ ~isWanted(sh) /\ sh.in /\ ~sh.val /\ sh.cc = 0 /\ sh.rc = 0
          /\ sh.fc = item[k].fc /\ sh.fwant = NoWants
      BY <1>2, Built DEF Shell
    <2> HIDE DEF sh
    <2>7. Sound(v) /\ v.item[k] = sh /\ v.db = u.db /\ v.item = [u.item EXCEPT ![k] = sh]
      <3>1. ItemSound(WithItem(u, k, sh), k)
        BY <2>1, <2>6, ItemFits
      <3> QED
        BY <2>1, <2>6, <3>1, SoundWithItem DEF WithItem
    <2> HIDE DEF v
    <2>8. Alike(v, r.s)
      BY <2>6, <2>7, PutAlike
    <2>9. Sound(r.s)
      BY <2>1, <2>6, <2>7, SoundPut
    <2>10. item[k].fwant = NoWants
      BY <1>2, <1>4, NotWanted
    <2> DEFINE it == WithFc(r.s.item[k], r.s.item[k].fc + inc)
               t  == WithItem(r.s, k, it)
    <2>11. /\ r.s.item[k] \in Item /\ r.s.item \in [Keys -> Item]
           /\ r.s.item[k].fc + inc \in Nat
      BY <2>9, Numbers DEF Sound
    <2>12. /\ it.fc = r.s.item[k].fc + inc /\ it.val = r.s.item[k].val /\ it.cc = r.s.item[k].cc
           /\ it.fwant = r.s.item[k].fwant
      BY <2>11 DEF WithFc, Item
    <2>13. t.db = r.s.db /\ t.item = [r.s.item EXCEPT ![k] = it]
      BY DEF WithItem
    <2> HIDE DEF it
    <2>14. t.item[k] = it /\ \A j \in Keys : j # k => t.item[j] = r.s.item[j]
      BY <2>11, <2>13
    <2>15. Becomes(t)
      BY <2>5 DEF it
    <2> HIDE DEF t
    <2>16. ASSUME NEW j \in Keys
           PROVE  /\ t.db[j].in <=> db[j].in
                  /\ RefsIn(t, j) = IF j = k THEN Refs(k) + inc ELSE Refs(j)
                  /\ t.item[j].fc = IF j = k THEN item[k].fc + inc ELSE item[j].fc
                  /\ t.item[j].fwant = item[j].fwant
      <3>1. /\ r.s.db[j].in = v.db[j].in /\ r.s.item[j].fc = v.item[j].fc
            /\ r.s.item[j].fwant = v.item[j].fwant /\ RefsIn(r.s, j) = RefsIn(v, j)
        BY <2>8 DEF Alike, CountsTo
      <3>2. CASE j = k
        <4>1. RefsIn(v, k) = db[k].rc + inc /\ Refs(k) = db[k].rc
          BY <1>4, <2>3, <2>6, <2>7 DEF RefsIn, Refs
        <4>2. RefsIn(t, k) = RefsIn(r.s, k)
          BY <2>12, <2>13, <2>14 DEF RefsIn
        <4>3. t.db[k].in <=> db[k].in
          BY <1>4, <2>3, <2>7, <2>13, <3>1, <3>2
        <4> QED
          BY <2>6, <2>7, <2>10, <2>12, <2>14, <3>1, <3>2, <4>1, <4>2, <4>3
      <3>3. CASE j # k
        <4>1. v.item[j] = item[j] /\ v.db[j] = db[j]
          BY <1>2, <2>1, <2>3, <2>7, <3>3
        <4>2. t.item[j] = r.s.item[j] /\ t.db[j] = r.s.db[j]
          BY <2>13, <2>14, <3>3
        <4>3. RefsIn(v, j) = Refs(j) /\ RefsIn(t, j) = RefsIn(r.s, j)
          BY <4>1, <4>2 DEF RefsIn, Refs
        <4> QED
          BY <3>1, <3>3, <4>1, <4>2, <4>3
      <3> QED
        BY <3>2, <3>3
    <2>17. /\ stored' = stored
           /\ refs' = [refs EXCEPT ![k] = @ + inc]
           /\ hold' = [hold EXCEPT ![k] = @ + inc]
           /\ wants' = wants
      <3>1. /\ stored' = {j \in Keys : t.db[j].in}
            /\ refs' = [j \in Keys |-> RefsIn(t, j)]
            /\ hold' = [j \in Keys |-> t.item[j].fc]
            /\ wants' = [j \in Keys |-> t.item[j].fwant]
        BY <2>15, StoreAt
      <3> QED
        BY <2>16, <3>1
    <2>18. k \in stored /\ refs[k] = db[k].rc /\ hold[k] = item[k].fc
      BY <1>4 DEF Refs
    <2>19. mail' = [mail EXCEPT ![w] = Store!Told(k, refs'[k] - hold'[k])]
      <3>1. [refs EXCEPT ![k] = @ + inc][k] = refs[k] + inc /\ [hold EXCEPT ![k] = @ + inc][k] = hold[k] + inc
        OBVIOUS
      <3> HIDE DEF refs, hold
      <3>2. refs'[k] = db[k].rc + inc /\ hold'[k] = item[k].fc + inc
        BY <2>17, <2>18, <3>1
      <3>3. refs'[k] - hold'[k] = u.db[k].rc - item[k].fc - inc
        BY <1>2, <2>3, <3>2
      <3> QED
        BY <2>4, <3>3 DEF Store!Told
    <2> HIDE DEF refs, hold, wants, stored
    <2> QED
      BY <1>1, <2>17, <2>18, <2>19 DEF Store!Want, refs, hold, wants, stored
  <1>5. CASE /\ item[k].val
             /\ item' = [item EXCEPT ![k] = WithFc(item[k], item[k].fc + inc)]
             /\ mail' = [mail EXCEPT ![w] = [st |-> "ok", key |-> k, rc |-> item[k].cc - item'[k].fc]]
             /\ UNCHANGED <<db, amount, volume>>
    <2>1. db[k].in
      BY <1>2, <1>5 DEF ItemSound
    <2>2. inc = 0
      BY <1>5, <2>1 DEF Want
    <2>3. item[k].fc + inc = item[k].fc
      BY <1>2, <2>2
    <2>4. WithFc(item[k], item[k].fc) = item[k]
      BY <1>2 DEF WithFc, Item
    <2>5. item' = item
      BY <1>2, <1>5, <2>3, <2>4
    <2>6. refs' = refs /\ hold' = hold /\ wants' = wants /\ stored' = stored
      BY <1>5, <2>5 DEF Refs
    <2>7. refs[k] + inc = refs[k] /\ hold[k] + inc = hold[k] /\ refs[k] = item[k].cc /\ hold[k] = item[k].fc
      BY <1>2, <1>5, <2>2 DEF Refs
    <2>8. refs = [refs EXCEPT ![k] = refs[k]] /\ hold = [hold EXCEPT ![k] = hold[k]] /\ k \in stored
      BY <2>1
    <2>9. mail' = [mail EXCEPT ![w] = Store!Told(k, refs'[k] - hold'[k])]
      BY <1>5, <2>5, <2>6, <2>7 DEF Store!Told
    <2>10. refs' = [refs EXCEPT ![k] = @ + inc] /\ hold' = [hold EXCEPT ![k] = @ + inc]
      BY <2>6, <2>7, <2>8
    <2> HIDE DEF refs, hold, wants, stored
    <2> QED
      BY <1>1, <2>6, <2>8, <2>9, <2>10 DEF Store!Want, refs, hold, wants, stored
  <1> QED
    BY <1>2, <1>3, <1>4, <1>5 DEF Want

\* A step on one item that leaves the DB: what the users see of it.
LEMMA StoreItem ==
  ASSUME Sound(Now), NEW k \in Keys, NEW it, item' = [item EXCEPT ![k] = it], db' = db,
         Refs(k) = IF it.val THEN it.cc ELSE db[k].rc
  PROVE  /\ {j \in Keys : db[j].in}' = {j \in Keys : db[j].in}
         /\ [j \in Keys |-> Refs(j)]' = [j \in Keys |-> Refs(j)]
         /\ [j \in Keys |-> item[j].fc]' = [[j \in Keys |-> item[j].fc] EXCEPT ![k] = it.fc]
         /\ [j \in Keys |-> item[j].fwant]' = [[j \in Keys |-> item[j].fwant] EXCEPT ![k] = it.fwant]
  <1>1. item \in [Keys -> Item]
    BY DEF Now, Sound
  <1>2. ASSUME NEW j \in Keys
        PROVE  /\ Refs(j)' = Refs(j)
               /\ item'[j].fc = IF j = k THEN it.fc ELSE item[j].fc
               /\ item'[j].fwant = IF j = k THEN it.fwant ELSE item[j].fwant
    <2>1. CASE j = k
      <3>1. item'[k] = it
        BY <1>1
      <3> QED
        BY <2>1, <3>1 DEF Refs
    <2>2. CASE j # k
      <3>1. item'[j] = item[j]
        BY <1>1, <2>2
      <3> QED
        BY <2>2, <3>1 DEF Refs
    <2> QED
      BY <2>1, <2>2
  <1> QED
    BY <1>2

LEMMA StoreUnwant ==
  ASSUME Sound(Now), mail \in [Wanters -> Mail], NEW w \in Wanters, Unwant(w)
  PROVE  Store!Unwant(w)
  <1> DEFINE k == mail[w].key
             f == [x \in DOMAIN item[k].fwant \ {w} |-> item[k].fwant[x]]
             it == IF ~isWanted(item[k]) THEN item[k]
                   ELSE IF DOMAIN f = {} /\ item[k].fc = 0 /\ ~item[k].val THEN NoItem
                   ELSE Waiting(item[k], f)
             refs == [j \in Keys |-> Refs(j)]
             hold == [j \in Keys |-> item[j].fc]
             wants == [j \in Keys |-> item[j].fwant]
             stored == {j \in Keys : db[j].in}
  <1>1. k \in Keys
    BY DEF Mail
  <1>2. Now.item = item /\ Now.db = db /\ item[k] \in Item /\ ItemSound(Now, k) /\ item \in [Keys -> Item]
    BY <1>1 DEF Now, Sound
  <1>3. mail' = [mail EXCEPT ![w] = Store!Idle] /\ reply' = Store!NoReply /\ db' = db /\ mail[w] # Store!Idle
    BY DEF Unwant, Idle, NoReply, Store!Idle, Store!NoReply
  <1>4. item' = [item EXCEPT ![k] = it]
    BY <1>1, <1>2 DEF Unwant
  <1>5. /\ Refs(k) = IF it.val THEN it.cc ELSE db[k].rc
        /\ it.fc = item[k].fc
        /\ it.fwant = f
    <2>1. CASE ~isWanted(item[k])
      <3>1. it = item[k]
        BY <2>1
      <3>2. item[k].fwant = NoWants
        BY <1>2, <2>1, NotWanted
      <3>3. f = NoWants
        BY <3>2 DEF NoWants
      <3> QED
        BY <3>1, <3>2, <3>3 DEF Refs
    <2>2. CASE isWanted(item[k])
      <3>1. ~item[k].val
        BY <1>1, <2>2, WantedAbsent
      <3>2. CASE DOMAIN f = {} /\ item[k].fc = 0
        <4>1. it = NoItem
          BY <2>2, <3>1, <3>2
        <4>2. f = NoWants
          BY <3>2 DEF NoWants
        <4> QED
          BY <3>1, <3>2, <4>1, <4>2 DEF Refs, NoItem
      <3>3. CASE ~(DOMAIN f = {} /\ item[k].fc = 0)
        <4>1. it = Waiting(item[k], f)
          BY <2>2, <3>3
        <4> HIDE DEF f
        <4> QED
          BY <3>1, <4>1 DEF Refs, Waiting
      <3> QED
        BY <3>2, <3>3
    <2> QED
      BY <2>1, <2>2
  <1> HIDE DEF it
  <1>6. /\ stored' = stored /\ refs' = refs
        /\ hold' = [hold EXCEPT ![k] = it.fc]
        /\ wants' = [wants EXCEPT ![k] = it.fwant]
    BY <1>1, <1>3, <1>4, <1>5, StoreItem
  <1>7. hold' = hold
    BY <1>1, <1>5, <1>6
  <1>8. wants' = [wants EXCEPT ![k] = Store!Remove(@, w)]
    <2>1. wants[k] = item[k].fwant
      BY <1>1
    <2>2. f = Store!Remove(item[k].fwant, w)
      BY DEF Store!Remove
    <2> HIDE DEF f, wants
    <2> QED
      BY <1>5, <1>6, <2>1, <2>2
  <1> HIDE DEF f, refs, hold, wants, stored
  <1> QED
    BY <1>3, <1>6, <1>7, <1>8 DEF Store!Unwant, refs, hold, wants, stored

\* A filling that has ended.
LEMMA StoreApply ==
  ASSUME Sound(Now), NEW k \in Keys, NEW n \in Nat, Apply(k, n)
  PROVE  Store!Finc(k, n, TRUE)
  <1> DEFINE it == IF item[k].fc = n /\ ~isWanted(item[k]) /\ ~item[k].val
                   THEN NoItem ELSE WithFc(item[k], item[k].fc - n)
             refs == [j \in Keys |-> Refs(j)]
             hold == [j \in Keys |-> item[j].fc]
             wants == [j \in Keys |-> item[j].fwant]
             stored == {j \in Keys : db[j].in}
  <1>1. /\ Now.item = item /\ item[k] \in Item /\ item \in [Keys -> Item] /\ item[k].fc \in Nat
    BY Numbers DEF Now, Sound
  <1>2. n <= item[k].fc /\ reply' = Store!NoReply /\ db' = db /\ mail' = mail /\ item' = [item EXCEPT ![k] = it]
    BY <1>1 DEF Apply, NoReply, Store!NoReply
  <1>3. /\ Refs(k) = IF it.val THEN it.cc ELSE db[k].rc
        /\ it.fc = item[k].fc - n
        /\ it.fwant = item[k].fwant
    <2>1. CASE item[k].fc = n /\ ~isWanted(item[k]) /\ ~item[k].val
      <3>1. item[k].fwant = NoWants /\ item[k].fc - n = 0
        BY <1>1, <2>1, NotWanted
      <3> QED
        BY <2>1, <3>1 DEF NoItem, Refs
    <2>2. CASE ~(item[k].fc = n /\ ~isWanted(item[k]) /\ ~item[k].val)
      <3>1. it = WithFc(item[k], item[k].fc - n)
        BY <2>2
      <3> QED
        BY <1>1, <3>1 DEF WithFc, Item, Refs
    <2> QED
      BY <2>1, <2>2
  <1> HIDE DEF it
  <1>4. /\ stored' = stored /\ refs' = refs
        /\ hold' = [hold EXCEPT ![k] = it.fc]
        /\ wants' = [wants EXCEPT ![k] = it.fwant]
    BY <1>2, <1>3, StoreItem
  <1>5. hold[k] = item[k].fc /\ wants[k] = item[k].fwant /\ wants = [wants EXCEPT ![k] = wants[k]]
    OBVIOUS
  <1> HIDE DEF refs, hold, wants, stored
  <1>6. hold' = [hold EXCEPT ![k] = @ - n] /\ wants' = wants /\ n <= hold[k]
    BY <1>2, <1>3, <1>4, <1>5
  <1> QED
    BY <1>2, <1>4, <1>6 DEF Store!Finc, refs, hold, wants, stored

\* A filling that has failed.
LEMMA StoreReject ==
  ASSUME Sound(Now), ~DBFails, NEW k \in Keys, NEW n \in Nat, Reject(k, n)
  PROVE  Store!Finc(k, n, FALSE)
  <1> DEFINE it == WithFc(item[k], item[k].fc - n)
             s  == WithItem(Now, k, it)
             refs == [j \in Keys |-> Refs(j)]
             hold == [j \in Keys |-> item[j].fc]
             wants == [j \in Keys |-> item[j].fwant]
             stored == {j \in Keys : db[j].in}
  <1>1. /\ Now.item = item /\ Now.db = db /\ item[k] \in Item /\ item \in [Keys -> Item]
        /\ item[k].fc \in Nat /\ ItemSound(Now, k) /\ db[k].rc \in Nat /\ item[k].cc \in Int
    BY Numbers DEF Now, Sound
  <1>2. /\ reply' = Store!NoReply /\ mail' = mail /\ item[k].in /\ n <= item[k].fc /\ -n \in Int
    BY DEF Reject, NoReply, Store!NoReply
  <1>3. Sound(s) /\ s.db = db /\ s.item[k] = it
    BY <1>2, FewerHeld
  <1>4. it.val = item[k].val /\ it.cc = item[k].cc /\ it.fc = item[k].fc - n /\ it.fwant = item[k].fwant
    BY <1>1, <1>2 DEF WithFc, Item
  <1>5. s.item = [item EXCEPT ![k] = it]
    BY <1>1 DEF WithItem
  <1>6. PICK t : Becomes(t) /\ CountsTo(s, t, k, Sat(RefsIn(s, k) + (-n)))
    <2>1. CASE item[k].val /\ \E t \in TouchItem(s, k, -n) : Becomes(t)
      <3> HIDE DEF s, it
      <3>1. PICK t \in TouchItem(s, k, -n) : Becomes(t)
        BY <2>1
      <3>2. CountsTo(s, t, k, Sat(RefsIn(s, k) + (-n)))
        BY <1>2, <1>3, <1>4, <2>1, TouchCounts
      <3> QED
        BY <3>1, <3>2
    <2>2. CASE isFilling(item[k]) /\ db[k].in /\ \E r \in Put(DbInc(s, k, -n), k) : Becomes(r.s)
      <3>1. ~item[k].val /\ ~isWanted(item[k])
        BY <2>2 DEF isFilling
      <3>2. ~isWanted(it)
        BY <1>4, <3>1 DEF isWanted
      <3> HIDE DEF s, it
      <3>3. PICK r \in Put(DbInc(s, k, -n), k) : Becomes(r.s)
        BY <2>2
      <3>4. CountsTo(s, r.s, k, Sat(RefsIn(s, k) + (-n)))
        BY <1>2, <1>3, <1>4, <2>2, <3>1, <3>2, ReadCounts
      <3> QED
        BY <3>3, <3>4
    <2> QED
      BY <2>1, <2>2 DEF Reject
  <1>7. RefsIn(s, k) = Refs(k) /\ Refs(k) \in Int
    <2>1. RefsIn(s, k) = IF it.val THEN it.cc ELSE db[k].rc
      BY <1>3 DEF RefsIn
    <2> HIDE DEF s, it
    <2> QED
      BY <1>1, <1>4, <2>1 DEF Refs
  <1>8. ASSUME NEW j \in Keys, j # k
        PROVE  s.item[j] = item[j] /\ s.db[j] = db[j]
    BY <1>1, <1>3, <1>5, <1>8
  <1> HIDE DEF s, it
  <1>9. ASSUME NEW j \in Keys
        PROVE  /\ t.db[j].in = db[j].in
               /\ RefsIn(t, j) = IF j = k THEN Sat(Refs(k) - n) ELSE Refs(j)
               /\ t.item[j].fc = IF j = k THEN item[k].fc - n ELSE item[j].fc
               /\ t.item[j].fwant = item[j].fwant
    <2>1. CASE j = k
      <3>1. Refs(k) + (-n) = Refs(k) - n
        BY <1>7
      <3> QED
        BY <1>3, <1>4, <1>6, <1>7, <2>1, <3>1 DEF CountsTo
    <2>2. CASE j # k
      <3>1. s.item[j] = item[j] /\ s.db[j] = db[j] /\ RefsIn(s, j) = Refs(j)
        BY <1>8, <2>2 DEF RefsIn, Refs
      <3> QED
        BY <1>6, <2>2, <3>1 DEF CountsTo
    <2> QED
      BY <2>1, <2>2
  <1>10. /\ stored' = stored
         /\ refs' = [refs EXCEPT ![k] = Sat(@ - n)]
         /\ hold' = [hold EXCEPT ![k] = @ - n]
         /\ wants' = wants
    <2>1. /\ stored' = {j \in Keys : t.db[j].in}
          /\ refs' = [j \in Keys |-> RefsIn(t, j)]
          /\ hold' = [j \in Keys |-> t.item[j].fc]
          /\ wants' = [j \in Keys |-> t.item[j].fwant]
      BY <1>6, StoreAt
    <2> QED
      BY <1>9, <2>1
  <1>11. n <= hold[k]
    BY <1>2
  <1> HIDE DEF refs, hold, wants, stored
  <1> QED
    BY <1>2, <1>10, <1>11 DEF Store!Finc, Store!Sat, Sat, refs, hold, wants, stored

\* Objects without references are removed.
LEMMA StoreRemove ==
  ASSUME Sound(Now), RemoveObjects
  PROVE  Store!Forget
  <1> DEFINE refs == [j \in Keys |-> Refs(j)]
             hold == [j \in Keys |-> item[j].fc]
             wants == [j \in Keys |-> item[j].fwant]
             stored == {j \in Keys : db[j].in}
             K == {j \in stored : db[j].rc = 0 /\ ~item[j].in}
  <1>1. ASSUME NEW j \in Keys
        PROVE  /\ ItemSound(Now, j) /\ Now.item = item /\ Now.db = db
               /\ item[j].fc \in Nat /\ db[j].rc \in Nat
    BY Numbers DEF Now, Sound
  <1>2. ASSUME NEW j \in Keys, ~item[j].in
        PROVE  ~item[j].val /\ item[j].fc = 0 /\ Refs(j) = db[j].rc
    BY <1>1, <1>2 DEF ItemSound, Refs
  <1>3. /\ db' = [j \in Keys |-> IF db[j].rc = 0 /\ ~item[j].in THEN [in |-> FALSE, rc |-> 0] ELSE db[j]]
        /\ reply' = Store!NoReply /\ UNCHANGED <<item, mail>>
    BY DEF RemoveObjects, NoReply, Store!NoReply
  <1>4. ASSUME NEW j \in Keys
        PROVE  /\ db'[j].in <=> (db[j].in /\ j \notin K)
               /\ Refs(j)' = IF j \in K THEN 0 ELSE Refs(j)
    <2>1. CASE db[j].rc = 0 /\ ~item[j].in
      <3>1. db'[j] = [in |-> FALSE, rc |-> 0] /\ item'[j] = item[j]
        BY <1>3, <2>1
      <3>2. ~item[j].val /\ Refs(j) = 0
        BY <1>2, <2>1
      <3> QED
        BY <2>1, <3>1, <3>2 DEF Refs
    <2>2. CASE ~(db[j].rc = 0 /\ ~item[j].in)
      <3>1. db'[j] = db[j] /\ item'[j] = item[j]
        BY <1>3, <2>2
      <3> QED
        BY <2>2, <3>1 DEF Refs
    <2> QED
      BY <2>1, <2>2
  <1>5. K \in SUBSET {j \in stored : hold[j] = 0 /\ (refs[j] = 0 \/ FALSE)}
    <2>1. ASSUME NEW j \in K PROVE j \in stored /\ hold[j] = 0 /\ refs[j] = 0
      BY <1>2
    <2> HIDE DEF refs, hold, stored, K
    <2> QED
      BY <2>1
  <1>6. stored' = stored \ K /\ refs' = [j \in Keys |-> IF j \in K THEN 0 ELSE refs[j]]
    <2> HIDE DEF K
    <2> QED
      BY <1>4
  <1>7. hold' = hold /\ wants' = wants
    BY <1>3
  <1> HIDE DEF refs, hold, wants, stored, K
  <1> QED
    BY <1>3, <1>5, <1>6, <1>7 DEF Store!Forget, refs, hold, wants, stored

\* Close undoes what fillers hold and saves the rest.
LEMMA StoreClose ==
  ASSUME Sound(Now), ~DBFails, ~CloseWanted, Close
  PROVE  Store!Close
  <1> DEFINE refs == [j \in Keys |-> Refs(j)]
             hold == [j \in Keys |-> item[j].fc]
             wants == [j \in Keys |-> item[j].fwant]
             stored == {j \in Keys : db[j].in}
             is == {k \in Keys : item[k].in}
  <1>1. Stuck = {} /\ Saved(is) /\ item' = [k \in Keys |-> NoItem]
    BY DEF Close
  <1>2. reply' = Store!NoReply /\ mail' = mail
    BY DEF Close, NoReply, Store!NoReply
  <1>3. ASSUME NEW j \in Keys
        PROVE  /\ db'[j].in <=> db[j].in
               /\ Refs(j)' = Sat(Refs(j) - item[j].fc)
               /\ item'[j].fc = 0 /\ item'[j].fwant = NoWants
    <2>1. /\ Now.item = item /\ Now.db = db /\ ItemSound(Now, j) /\ item[j] \in Item
          /\ item[j].fc \in Nat /\ item[j].cc \in Int /\ db[j].rc \in Nat /\ item[j].rc \in Nat
          /\ db[j].in \in BOOLEAN
      BY Numbers DEF Now, Sound, Db
    <2>2. item'[j] = NoItem /\ ~item'[j].val /\ item'[j].fc = 0 /\ item'[j].fwant = NoWants
      <3>1. item'[j] = NoItem
        BY <1>1
      <3> QED
        BY <3>1 DEF NoItem
    <2>3. Refs(j)' = db'[j].rc
      BY <2>2 DEF Refs
    <2>4. CASE j \in is /\ db[j].in
      <3>1. ~isWanted(item[j])
        BY <2>1, <2>4 DEF ItemSound
      <3>2. Wincs(item[j]) = 0
        <4>1. {w \in DOMAIN item[j].fwant : item[j].fwant[w] = 1} = {}
          BY <3>1 DEF isWanted
        <4> QED
          BY <4>1, FS_EmptySet DEF Wincs
      <3>3. db'[j] = [in |-> TRUE, rc |-> Sat(db[j].rc + (Settled(item[j]) - item[j].rc))]
        BY <1>1, <2>4 DEF Saved
      <3>4. Settled(item[j]) = item[j].cc - item[j].fc
        BY <2>1, <3>2 DEF Settled
      <3>5. db'[j].in /\ db'[j].rc = Sat(db[j].rc + (item[j].cc - item[j].fc - item[j].rc))
        BY <3>3, <3>4
      <3>6. Refs(j) - item[j].fc = db[j].rc + (item[j].cc - item[j].fc - item[j].rc)
        BY <2>1 DEF ItemSound, Refs
      <3> QED
        BY <2>2, <2>3, <2>4, <3>5, <3>6
    <2>5. CASE ~(j \in is /\ db[j].in)
      <3>1. db'[j] = db[j]
        BY <1>1, <2>5 DEF Saved
      <3>2. ~item[j].val /\ item[j].fc = 0
        BY <2>1, <2>5 DEF ItemSound
      <3>3. Refs(j) = db[j].rc /\ Sat(Refs(j) - item[j].fc) = db[j].rc
        BY <2>1, <3>2 DEF Refs, Sat
      <3> QED
        BY <2>2, <2>3, <3>1, <3>3
    <2> QED
      BY <2>4, <2>5
  <1>4. /\ stored' = stored
        /\ refs' = [k \in Keys |-> Store!Sat(refs[k] - hold[k])]
        /\ hold' = [k \in Keys |-> 0]
        /\ wants' = [k \in Keys |-> Store!NoWants]
    BY <1>3 DEF Store!Sat, Sat, NoWants, Store!NoWants
  <1> HIDE DEF refs, hold, wants, stored
  <1> QED
    BY <1>2, <1>4 DEF Store!Close, refs, hold, wants, stored

\* Only objects within the limit reach the DB: everything but Set leaves the
\* stored objects or removes some.
LEMMA FitsOthers ==
  ASSUME Fits, NEW k \in Keys, NEW inc,
         \/ Store!Touch("Get", k, inc) \/ Store!Touch("Inc", k, inc) \/ Store!Touch("Set", k, inc)
         \/ Store!Refuse(k) \/ Store!Forget \/ Store!Close
         \/ \E w \in Wanters : Store!Want(k, w, inc) \/ Store!Unwant(w)
         \/ \E n, keep : Store!Finc(k, n, keep)
  PROVE  Fits'
  <1> DEFINE stored == {j \in Keys : db[j].in}
  <1>1. stored' = stored \/ \E K : stored' = stored \ K
    BY DEF Store!Touch, Store!Refuse, Store!Forget, Store!Close, Store!Want, Store!Unwant, Store!Finc
  <1>2. ASSUME NEW j \in Keys, db'[j].in PROVE db[j].in
    BY <1>1, <1>2
  <1> QED
    BY <1>2 DEF Fits, TooLarge

\* An object that is stored has passed the check.
LEMMA FitsNew ==
  ASSUME Fits, NEW k \in Keys, ~TooLarge(k), \A j \in Keys : db'[j].in => j = k \/ db[j].in
  PROVE  Fits'
  BY DEF Fits, TooLarge

LEMMA FitsArrive ==
  ASSUME Sound(Now), Fits, ~Drive, ~DBFails, mail \in [Wanters -> Mail], NEW k \in Keys, NEW inc \in Nat,
         NEW answers \in BOOLEAN, Arrive(k, inc, answers)
  PROVE  Fits'
  <1>1. ~TooLarge(k) /\ Store!Create(k, inc)
    BY StoreArrive DEF Arrive
  <1>2. {j \in Keys : db'[j].in} = {j \in Keys : db[j].in} \cup {k}
    BY <1>1 DEF Store!Create
  <1>3. \A j \in Keys : db'[j].in => j = k \/ db[j].in
    BY <1>2
  <1> QED
    BY <1>1, <1>3, FitsNew

LEMMA FitsSet ==
  ASSUME Sound(Now), Fits, ~Drive, ~DBFails, mail \in [Wanters -> Mail], NEW k \in Keys,
         NEW inc \in SetIncs, Set(k, inc)
  PROVE  Fits'
  <1>1. inc \in Nat
    BY IncsAssumption
  <1>2. CASE Refuse(k) \/ UNCHANGED db
    <2>1. db' = db
      BY <1>2 DEF Refuse
    <2> QED
      BY <2>1 DEF Fits, TooLarge
  <1>3. CASE Arrive(k, inc, TRUE)
    BY <1>1, <1>3, FitsArrive
  <1>4. CASE (OnItem("Set", k, inc) \/ OnFilling("Set", k, inc)) /\ UNCHANGED mail
    <2>1. Store!Touch("Set", k, inc)
      BY <1>1, <1>4, StoreOnItem, StoreOnDb
    <2> QED
      BY <2>1, FitsOthers
  <1>5. CASE OnNew(k, inc)
    <2> DEFINE u == DbSet(Now, k, inc)
    <2>1. Now.item = item /\ Now.db = db /\ ItemSound(Now, k) /\ db \in [Keys -> Db] /\ ~item[k].in
      BY <1>5 DEF Now, Sound, OnNew
    <2>2. ~item[k].val /\ ~isWanted(item[k])
      BY <2>1 DEF ItemSound
    <2>3. Sound(u) /\ u.item = item
      BY <1>1, <2>1, <2>2, SoundDbSet
    <2>4. ASSUME NEW j \in Keys, j # k PROVE u.db[j] = db[j]
      BY <2>1, <2>4 DEF DbSet, DbInc, WithDb
    <2>5. PICK r \in Put(u, k) : db' = r.s.db
      BY <1>5 DEF OnNew, Becomes
    <2> HIDE DEF u
    <2>6. Alike(u, r.s)
      BY <2>2, <2>3, PutAlike
    <2>7. \A j \in Keys : db'[j].in => j = k \/ db[j].in
      BY <2>4, <2>5, <2>6 DEF Alike, CountsTo
    <2> QED
      BY <1>5, <2>7, FitsNew DEF OnNew
  <1> QED
    BY <1>2, <1>3, <1>4, <1>5 DEF Set

\* The state the refinement needs.
Promised == IInv /\ (phase = "open" => Fits)

\* A step of the cache is a step of the store, and keeps what it needs.
LEMMA StoreStep ==
  ASSUME ~Drive, ~DBFails, ~CloseWanted, "cache" \notin LateWants, Promised, Next
  PROVE  Store!Next /\ Fits'
  <1>1. phase = "open" /\ Sound(Now) /\ mail \in [Wanters -> Mail] /\ Fits
    BY OpenSound DEF Next, Promised, IInv, TypeOK
  <1>2. ASSUME NEW k \in Keys, NEW inc \in Incs, Get(k, inc) \/ getNoCache(k, inc) \/ Inc(k, inc)
        PROVE  Store!Next /\ Fits'
    <2>1. inc \in Int /\ inc \in Incs \cup SetIncs
      BY IncsAssumption
    <2>2. Store!Touch("Get", k, inc) \/ Store!Touch("Inc", k, inc)
      BY <1>1, <1>2, <2>1, StoreGets
    <2> QED
      BY <1>1, <2>1, <2>2, FitsOthers DEF Store!Next
  <1>3. ASSUME NEW k \in Keys, NEW inc \in SetIncs, Set(k, inc) PROVE Store!Next /\ Fits'
    BY <1>1, <1>3, StoreSet, FitsSet
  <1>4. ASSUME NEW k \in Keys, SetWanted(k) PROVE Store!Next /\ Fits'
    <2>1. CASE Refuse(k) \/ UNCHANGED db
      <3>1. db' = db
        BY <2>1 DEF Refuse
      <3>2. Fits'
        BY <1>1, <3>1 DEF Fits, TooLarge
      <3> QED
        BY <1>1, <1>4, <3>2, StoreSetWanted
    <2>2. CASE Arrive(k, 0, FALSE)
      BY <1>1, <1>4, <2>2, StoreSetWanted, FitsArrive
    <2> QED
      BY <1>4, <2>1, <2>2 DEF SetWanted
  <1>5. ASSUME NEW k \in Keys, NEW w \in Wanters, NEW inc \in {0, 1}, Want(k, w, inc)
        PROVE  Store!Next /\ Fits'
    <2>1. Store!Want(k, w, inc)
      BY <1>1, <1>5, StoreWant
    <2> QED
      BY <1>1, <2>1, FitsOthers DEF Store!Next
  <1>6. ASSUME NEW w \in Wanters, Unwant(w) PROVE Store!Next /\ Fits'
    <2>1. Store!Unwant(w)
      BY <1>1, <1>6, StoreUnwant
    <2>2. \E k \in Keys : TRUE
      BY KeysAssumption
    <2> QED
      BY <1>1, <2>1, <2>2, FitsOthers DEF Store!Next
  <1>7. ASSUME NEW k \in Keys, NEW n \in 1..Cardinality(Wanters), Apply(k, n) \/ Reject(k, n)
        PROVE  Store!Next /\ Fits'
    <2>1. n \in Nat
      BY KeysAssumption, FS_CardinalityType
    <2>2. Store!Finc(k, n, TRUE) \/ Store!Finc(k, n, FALSE)
      BY <1>1, <1>7, <2>1, StoreApply, StoreReject
    <2>3. n \in 1..Store!Cardinality(Wanters)
      BY DEF Store!Cardinality, Cardinality
    <2> QED
      BY <1>1, <2>2, <2>3, FitsOthers DEF Store!Next
  <1>8. CASE RemoveObjects
    <2>1. Store!Forget
      BY <1>1, <1>8, StoreRemove
    <2>2. \E k \in Keys : TRUE
      BY KeysAssumption
    <2> QED
      BY <1>1, <2>1, <2>2, FitsOthers DEF Store!Next
  <1>9. CASE Close
    <2>1. Store!Close
      BY <1>1, <1>9, StoreClose
    <2>2. \E k \in Keys : TRUE
      BY KeysAssumption
    <2> QED
      BY <1>1, <2>1, <2>2, FitsOthers DEF Store!Next
  <1> QED
    BY <1>2, <1>3, <1>4, <1>5, <1>6, <1>7, <1>8, <1>9 DEF Next

\* Caching is invisible: over a store in memory that does not fail, whose Wants
\* do not come after the object was cached and which is not closed under
\* fillers, every operation with all the evictions it causes is the step of
\* CountedStore, for any objects, limits, wanters and incs (cache.go).
THEOREM CacheTransparent ==
  ASSUME ~Drive, ~DBFails, ~CloseWanted, "cache" \notin LateWants
  PROVE  Spec => Transparent
  <1>1. Init => Promised /\ Store!Init
    <2> SUFFICES ASSUME Init PROVE Promised /\ Store!Init
      OBVIOUS
    <2>1. Promised
      BY InitIInv DEF Promised, Init, Fits
    <2>2. /\ item = [k \in Keys |-> NoItem] /\ db = [k \in Keys |-> [in |-> FALSE, rc |-> 0]]
          /\ mail = [w \in Wanters |-> Store!Idle] /\ reply = Store!NoReply
      BY DEF Init, Idle, NoReply, Store!Idle, Store!NoReply
    <2>3. ASSUME NEW k \in Keys
          PROVE  ~db[k].in /\ Refs(k) = 0 /\ item[k].fc = 0 /\ item[k].fwant = Store!NoWants
      BY <2>2 DEF Refs, NoItem, NoWants, Store!NoWants
    <2> QED
      BY <2>1, <2>2, <2>3 DEF Store!Init
  <1>2. Promised /\ [Next]_vars => Promised' /\ [Store!Next]_(Store!vars)
    <2> SUFFICES ASSUME Promised, [Next]_vars PROVE Promised' /\ [Store!Next]_(Store!vars)
      OBVIOUS
    <2>1. IInv'
      BY StepIInv DEF Promised
    <2>2. CASE Next
      BY <2>1, <2>2, StoreStep DEF Promised
    <2>3. CASE UNCHANGED vars
      <3>1. UNCHANGED Store!vars
        BY <2>3 DEF vars, Store!vars, Refs
      <3>2. Promised'
        BY <2>1, <2>3 DEF Promised, Fits, TooLarge, vars
      <3> QED
        BY <3>1, <3>2
    <2> QED
      BY <2>2, <2>3
  <1> QED
    BY <1>1, <1>2, PTL DEF Spec, Transparent, Store!Spec
-----------------------------------------------------------------------------
(* What cleanDown trusts: amount and volume are those of the cached values. *)

Vals(s) == {k \in Keys : s.item[k].val}

Counted(s) == s.amount = Cardinality(Vals(s)) /\ s.volume = TotalVol(Vals(s))

\* There are finitely many items and their volumes are numbers.
LEMMA ValsFinite ==
  ASSUME NEW s
  PROVE  /\ IsFiniteSet(Vals(s)) /\ Cardinality(Vals(s)) \in Nat /\ TotalVol(Vals(s)) \in Nat
         /\ \A k \in Vals(s) : Vol[k] \in Nat
  <1>1. Vals(s) \subseteq Keys
    BY DEF Vals
  <1>2. IsFiniteSet(Vals(s))
    BY <1>1, FS_Subset, KeysAssumption
  <1>3. \A k \in Vals(s) : Vol[k] \in Nat
    BY <1>1, VolAssumption
  <1>4. TotalVol(Vals(s)) \in Nat
    BY <1>2, <1>3, BytesFinite DEF TotalVol
  <1> QED
    BY <1>2, <1>3, <1>4, FS_CardinalityType

\* Counters, fillers and wanters are not counted.
LEMMA CountedSame ==
  ASSUME NEW s, Counted(s), NEW t, t.amount = s.amount, t.volume = s.volume,
         \A k \in Keys : t.item[k].val <=> s.item[k].val
  PROVE  Counted(t)
  <1>1. Vals(t) = Vals(s)
    BY DEF Vals
  <1> QED
    BY <1>1 DEF Counted

\* delete and cleanDown subtract what they remove.
LEMMA CountedEvict ==
  ASSUME NEW s, Counted(s), NEW E \in SUBSET Vals(s)
  PROVE  Counted(Evict(s, E)) /\ Vals(Evict(s, E)) = Vals(s) \ E
  <1> DEFINE t == Evict(s, E)
  <1>1. /\ t.amount = s.amount - Cardinality(E) /\ t.volume = s.volume - TotalVol(E)
        /\ t.item = [k \in Keys |-> IF k \in E THEN Left(s.item[k]) ELSE s.item[k]]
    BY DEF Evict
  <1> HIDE DEF t
  <1>2. \A it : ~Left(it).val
    BY DEF Left, NoItem, Shell
  <1>3. ASSUME NEW k \in Keys PROVE t.item[k].val <=> (s.item[k].val /\ k \notin E)
    BY <1>1, <1>2
  <1>4. Vals(t) = Vals(s) \ E
    BY <1>3 DEF Vals
  <1>5. Vals(s) \cap E = E
    OBVIOUS
  <1>6. Cardinality(Vals(s) \ E) = Cardinality(Vals(s)) - Cardinality(E)
    BY <1>5, ValsFinite, FS_Difference
  <1>7. TotalVol(Vals(s) \ E) = TotalVol(Vals(s)) - TotalVol(E)
    BY ValsFinite, VolumeMinus DEF TotalVol
  <1>8. Counted(t)
    BY <1>1, <1>4, <1>6, <1>7 DEF Counted
  <1> QED
    BY <1>4, <1>8 DEF t

\* putItem and putFillingItem add what they put.
LEMMA CountedKeep ==
  ASSUME NEW s, Counted(s), DOMAIN s.item = Keys, NEW k \in Keys, k \notin Vals(s)
  PROVE  Counted(Keep(s, k))
  <1> DEFINE t == Keep(s, k)
  <1>1. /\ t.amount = s.amount + 1 /\ t.volume = s.volume + Vol[k]
        /\ t.item = [s.item EXCEPT ![k] = Regular(s.item[k].fc, s.db[k].rc)]
    BY DEF Keep
  <1> HIDE DEF t
  <1>2. Regular(s.item[k].fc, s.db[k].rc).val
    BY DEF Regular
  <1>3. Vals(t) = Vals(s) \cup {k}
    BY <1>1, <1>2 DEF Vals
  <1>4. Cardinality(Vals(s) \cup {k}) = Cardinality(Vals(s)) + 1
    BY ValsFinite, FS_AddElement
  <1>5. TotalVol(Vals(s) \cup {k}) = TotalVol(Vals(s)) + Vol[k]
    BY ValsFinite, VolumePlus, VolAssumption DEF TotalVol
  <1>6. Counted(t)
    BY <1>1, <1>3, <1>4, <1>5 DEF Counted
  <1> QED
    BY <1>6 DEF t

\* Reading an object into the cache counts it, whatever is pushed out for it.
LEMMA CountedPut ==
  ASSUME NEW s, DOMAIN s.item = Keys, Counted(s), NEW k \in Keys, ~s.item[k].val, NEW r \in Put(s, k)
  PROVE  Counted(r.s)
  <1>1. Rank(s) \subseteq Vals(s)
    BY DEF Rank, Vals
  <1>2. k \notin Vals(s)
    BY DEF Vals
  <1>3. ASSUME NEW E \in SUBSET Rank(s)
        PROVE  Counted(Evict(s, E)) /\ Counted(Keep(Evict(s, E), k))
    <2>1. E \in SUBSET Vals(s)
      BY <1>1
    <2>2. Counted(Evict(s, E)) /\ k \notin Vals(Evict(s, E))
      BY <1>2, <2>1, CountedEvict
    <2>3. DOMAIN Evict(s, E).item = Keys
      BY DEF Evict
    <2> QED
      BY <2>2, <2>3, CountedKeep
  <1> QED
    BY <1>2, <1>3, PutWays, CountedKeep

\* A counter of a cached item changes; with the last reference it is removed.
LEMMA CountedTouch ==
  ASSUME NEW s, s.item \in [Keys -> Item], Counted(s), NEW k \in Keys, NEW inc, s.item[k].val,
         NEW t \in TouchItem(s, k, inc)
  PROVE  Counted(t)
  <1> DEFINE it == WithCc(s.item[k], Sat(s.item[k].cc + inc))
             u  == WithItem(s, k, it)
  <1>1. t = u \/ t = Evict(u, {k})
    BY DEF TouchItem
  <1>2. it.val
    BY DEF WithCc, Item
  <1> HIDE DEF it
  <1>3. u.item = [s.item EXCEPT ![k] = it] /\ u.amount = s.amount /\ u.volume = s.volume
    BY DEF WithItem
  <1> HIDE DEF u
  <1>4. \A j \in Keys : u.item[j].val <=> s.item[j].val
    BY <1>2, <1>3
  <1>5. Counted(u) /\ {k} \in SUBSET Vals(u)
    BY <1>2, <1>3, <1>4, CountedSame DEF Vals
  <1> QED
    BY <1>1, <1>5, CountedEvict

\* A step that leads to a state with the right counts.
LEMMA CountedBecomes == ASSUME NEW s, Counted(s), Becomes(s) PROVE Counted(Now)'
  BY DEF Becomes, Now, Counted, Vals

\* A step that leaves the counts and the presence of the values alone.
LEMMA CountedStutter ==
  ASSUME Counted(Now), UNCHANGED <<amount, volume>>, \A k \in Keys : item'[k].val <=> item[k].val
  PROVE  Counted(Now)'
  <1>1. \A k \in Keys : Now'.item[k].val <=> Now.item[k].val
    BY DEF Now
  <1>2. Now'.amount = Now.amount /\ Now'.volume = Now.volume
    BY DEF Now
  <1>3. Vals(Now') = Vals(Now)
    BY <1>1 DEF Vals
  <1> QED
    BY <1>2, <1>3 DEF Counted

\* Replacing an item by one that keeps its value as long.
LEMMA CountedWith ==
  ASSUME Counted(Now), item \in [Keys -> Item], NEW k \in Keys, NEW it, it.val <=> item[k].val,
         item' = [item EXCEPT ![k] = it], UNCHANGED <<amount, volume>>
  PROVE  Counted(Now)'
  <1>1. \A j \in Keys : item'[j].val <=> item[j].val
    OBVIOUS
  <1> QED
    BY <1>1, CountedStutter

\* Get, Inc and Set of a key the cache has no value of: u is what the DB makes
\* of it, which changes no item but to one without a value.
LEMMA CountedRead ==
  ASSUME Counted(Now), NEW u, DOMAIN u.item = Keys, u.amount = amount, u.volume = volume,
         NEW k \in Keys, ~item[k].val, ~u.item[k].val, \A j \in Keys : j # k => u.item[j] = item[j],
         NEW r \in Put(u, k)
  PROVE  Counted(r.s)
  <1>1. Counted(u)
    <2>1. /\ u.amount = Now.amount /\ u.volume = Now.volume
          /\ \A j \in Keys : u.item[j].val <=> Now.item[j].val
      BY DEF Now
    <2> QED
      BY <2>1, CountedSame
  <1> QED
    BY <1>1, CountedPut

\* The steps Get, Inc and Set are made of.
LEMMA CountedTouches ==
  ASSUME Sound(Now), Counted(Now), NEW op, NEW k \in Keys, NEW inc,
         Nothing(op, k) \/ OnItem(op, k, inc) \/ OnFilling(op, k, inc) \/ OnDB(op, k, inc)
  PROVE  Counted(Now)'
  <1> DEFINE u == DbInc(Now, k, inc)
  <1>1. Now.item = item /\ item \in [Keys -> Item] /\ ItemSound(Now, k)
    BY DEF Now, Sound
  <1>2. CASE Nothing(op, k)
    BY <1>2, CountedStutter DEF Nothing
  <1>3. CASE OnItem(op, k, inc)
    <2>1. PICK t \in TouchItem(Now, k, inc) : Becomes(t)
      BY <1>3 DEF OnItem
    <2>2. Now.item[k].val
      BY <1>1, <1>3 DEF OnItem
    <2>3. Counted(t)
      BY <1>1, <2>2, CountedTouch
    <2> QED
      BY <2>1, <2>3, CountedBecomes
  <1>4. CASE OnFilling(op, k, inc) \/ OnDB(op, k, inc)
    <2>1. PICK r \in Put(u, k) : Becomes(r.s)
      BY <1>4 DEF OnFilling, OnDB
    <2>2. ~item[k].val
      BY <1>1, <1>4 DEF OnFilling, OnDB, isFilling, ItemSound
    <2>3. u.item = item /\ u.amount = amount /\ u.volume = volume
      BY DEF DbInc, WithDb, Now
    <2> HIDE DEF u
    <2>4. Counted(r.s)
      BY <1>1, <2>2, <2>3, CountedRead
    <2> QED
      BY <2>1, <2>4, CountedBecomes
  <1> QED
    BY <1>2, <1>3, <1>4

LEMMA CountedGets ==
  ASSUME Sound(Now), Counted(Now), NEW k \in Keys, NEW inc,
         Get(k, inc) \/ getNoCache(k, inc) \/ Inc(k, inc)
  PROVE  Counted(Now)'
  <1>1. CASE /\ ~item[k].in /\ db[k].in
             /\ Becomes(DbInc(Now, k, inc))
    <2> DEFINE u == DbInc(Now, k, inc)
    <2>1. u.item = Now.item /\ u.amount = Now.amount /\ u.volume = Now.volume
      BY DEF DbInc, WithDb
    <2>2. Becomes(u)
      BY <1>1
    <2> HIDE DEF u
    <2>3. Counted(u)
      BY <2>1, CountedSame
    <2> QED
      BY <2>2, <2>3, CountedBecomes
  <1>2. ASSUME NEW op, Nothing(op, k) \/ OnItem(op, k, inc) \/ OnFilling(op, k, inc) \/ OnDB(op, k, inc)
        PROVE  Counted(Now)'
    BY <1>2, CountedTouches
  <1> QED
    BY <1>1, <1>2 DEF Get, getNoCache, Inc

\* DbSet changes no item and no count.
LEMMA DbSetItems ==
  ASSUME NEW k, NEW inc
  PROVE  LET u == DbSet(Now, k, inc) IN u.item = item /\ u.amount = amount /\ u.volume = volume
  BY DEF DbSet, DbInc, WithDb, Now

LEMMA CountedArrive ==
  ASSUME Sound(Now), Counted(Now), NEW k \in Keys, NEW inc, NEW answers, Arrive(k, inc, answers)
  PROVE  Counted(Now)'
  <1> DEFINE u == DbSet(Now, k, inc + Wincs(item[k]))
             sh == Shell(item[k].fc + Wincs(item[k]))
             v == WithItem(u, k, sh)
  <1>1. Now.item = item /\ item \in [Keys -> Item] /\ ItemSound(Now, k)
    BY DEF Now, Sound
  <1>2. PICK r \in Put(v, k) : Becomes(r.s)
    BY DEF Arrive
  <1>3. ~item[k].val
    BY <1>1 DEF Arrive, ItemSound
  <1>4. u.item = item /\ u.amount = amount /\ u.volume = volume
    BY DbSetItems
  <1>5. ~sh.val
    BY DEF Shell
  <1> HIDE DEF u, sh
  <1>6. v.item = [item EXCEPT ![k] = sh] /\ v.amount = amount /\ v.volume = volume
    BY <1>4 DEF WithItem
  <1> HIDE DEF v
  <1>7. DOMAIN v.item = Keys /\ ~v.item[k].val /\ \A j \in Keys : j # k => v.item[j] = item[j]
    BY <1>1, <1>5, <1>6
  <1>8. Counted(r.s)
    BY <1>3, <1>6, <1>7, CountedRead
  <1> QED
    BY <1>2, <1>8, CountedBecomes

LEMMA CountedRefuse ==
  ASSUME Sound(Now), Counted(Now), NEW k \in Keys, Refuse(k)
  PROVE  Counted(Now)'
  <1>1. Now.item = item /\ item \in [Keys -> Item] /\ ItemSound(Now, k)
    BY DEF Now, Sound
  <1>2. ~item[k].val /\ ~NoItem.val
    BY <1>1 DEF Refuse, ItemSound, NoItem
  <1>3. item' = [item EXCEPT ![k] = NoItem] /\ UNCHANGED <<amount, volume>>
    BY DEF Refuse
  <1> QED
    BY <1>1, <1>2, <1>3, CountedWith

LEMMA CountedSet ==
  ASSUME Sound(Now), Counted(Now), NEW k \in Keys, NEW inc, Set(k, inc)
  PROVE  Counted(Now)'
  <1>1. CASE OnNew(k, inc)
    <2> DEFINE u == DbSet(Now, k, inc)
    <2>1. Now.item = item /\ item \in [Keys -> Item] /\ ItemSound(Now, k)
      BY DEF Now, Sound
    <2>2. PICK r \in Put(u, k) : Becomes(r.s)
      BY <1>1 DEF OnNew
    <2>3. ~item[k].val
      BY <1>1, <2>1 DEF OnNew, ItemSound
    <2>4. u.item = item /\ u.amount = amount /\ u.volume = volume
      BY DbSetItems
    <2> HIDE DEF u
    <2>5. Counted(r.s)
      BY <2>1, <2>3, <2>4, CountedRead
    <2> QED
      BY <2>2, <2>5, CountedBecomes
  <1>2. CASE UNCHANGED <<item, db, amount, volume>>
    BY <1>2, CountedStutter
  <1>3. CASE OnItem("Set", k, inc) \/ OnFilling("Set", k, inc)
    BY <1>3, CountedTouches
  <1> QED
    BY <1>1, <1>2, <1>3, CountedRefuse, CountedArrive DEF Set

LEMMA CountedSetWanted ==
  ASSUME Sound(Now), Counted(Now), NEW k \in Keys, SetWanted(k)
  PROVE  Counted(Now)'
  <1>1. CASE UNCHANGED <<item, db, amount, volume>>
    BY <1>1, CountedStutter
  <1> QED
    BY <1>1, CountedRefuse, CountedArrive DEF SetWanted

LEMMA CountedWant ==
  ASSUME Sound(Now), Counted(Now), NEW k \in Keys, NEW w, NEW inc \in {0, 1}, Want(k, w, inc)
  PROVE  Counted(Now)'
  <1>1. Now.item = item /\ item \in [Keys -> Item] /\ ItemSound(Now, k) /\ item[k] \in Item
    BY DEF Now, Sound
  <1>2. CASE /\ isWanted(item[k]) \/ ~db[k].in
             /\ item' = [item EXCEPT ![k] = Waiting(@,
                          [x \in DOMAIN @.fwant \cup {w} |-> IF x = w THEN inc ELSE @.fwant[x]])]
             /\ UNCHANGED <<db, amount, volume>>
    <2>1. ~item[k].val
      BY <1>1, <1>2 DEF ItemSound, Now
    <2> DEFINE it == Waiting(item[k],
                       [x \in DOMAIN item[k].fwant \cup {w} |-> IF x = w THEN inc ELSE item[k].fwant[x]])
    <2>2. item' = [item EXCEPT ![k] = it] /\ ~it.val
      BY <1>2 DEF Waiting
    <2> HIDE DEF it
    <2> QED
      BY <1>1, <1>2, <2>1, <2>2, CountedWith
  <1>3. CASE /\ ~item[k].val /\ ~isWanted(item[k]) /\ db[k].in
             /\ LET u == DbInc(Now, k, inc)
                    v == WithItem(u, k, Shell(item[k].fc))
                IN  \E r \in Put(v, k) :
                      Becomes(WithItem(r.s, k, WithFc(r.s.item[k], r.s.item[k].fc + inc)))
    <2> DEFINE u == DbInc(Now, k, inc)
               sh == Shell(item[k].fc)
               v == WithItem(u, k, sh)
    <2>1. PICK r \in Put(v, k) : Becomes(WithItem(r.s, k, WithFc(r.s.item[k], r.s.item[k].fc + inc)))
      BY <1>3
    <2>2. u.item = item /\ u.amount = amount /\ u.volume = volume
      BY DEF DbInc, WithDb, Now
    <2>3. Sound(u) /\ u.db[k].in
      <3>1. ~Now.item[k].val /\ Now.db[k].in
        BY <1>3 DEF Now
      <3>2. inc \in Int
        OBVIOUS
      <3> QED
        BY <3>1, <3>2, SoundDbInc
    <2> HIDE DEF u
    <2>4. sh \in Item /\ ~isWanted(sh) /\ sh.in /\ ~sh.val /\ sh.cc = 0 /\ sh.rc = 0
      BY <1>1, Numbers, Built DEF Sound
    <2> HIDE DEF sh
    <2>5. v.item = [item EXCEPT ![k] = sh] /\ v.amount = amount /\ v.volume = volume /\ v.db = u.db
      BY <2>2 DEF WithItem
    <2>6. Sound(v)
      <3>1. ItemSound(WithItem(u, k, sh), k)
        BY <2>3, <2>4, ItemFits
      <3> QED
        BY <2>3, <2>4, <3>1, SoundWithItem
    <2> HIDE DEF v
    <2>7. DOMAIN v.item = Keys /\ ~v.item[k].val /\ \A j \in Keys : j # k => v.item[j] = item[j]
      BY <1>1, <2>4, <2>5
    <2>8. Counted(r.s)
      BY <1>3, <2>5, <2>7, CountedRead
    <2>9. Sound(r.s)
      BY <2>3, <2>5, <2>6, <2>7, SoundPut
    <2> DEFINE s == r.s
               it == WithFc(s.item[k], s.item[k].fc + inc)
               t == WithItem(s, k, it)
    <2>10. s.item \in [Keys -> Item] /\ (it.val <=> s.item[k].val)
      BY <2>9 DEF WithFc, Sound, Item
    <2> HIDE DEF s, it
    <2>11. t.item = [s.item EXCEPT ![k] = it] /\ t.amount = s.amount /\ t.volume = s.volume
      BY DEF WithItem
    <2>12. Counted(s) /\ Becomes(t)
      BY <2>1, <2>8 DEF s, it
    <2> HIDE DEF t
    <2>13. Counted(t)
      <3>1. \A j \in Keys : t.item[j].val <=> s.item[j].val
        BY <2>10, <2>11
      <3> QED
        BY <2>11, <2>12, <3>1, CountedSame
    <2> QED
      BY <2>12, <2>13, CountedBecomes
  <1>4. CASE /\ item[k].val
             /\ item' = [item EXCEPT ![k] = WithFc(@, @.fc + inc)]
             /\ UNCHANGED <<db, amount, volume>>
    <2> DEFINE it == WithFc(item[k], item[k].fc + inc)
    <2>1. it.val /\ item' = [item EXCEPT ![k] = it]
      BY <1>1, <1>4 DEF WithFc, Item
    <2> HIDE DEF it
    <2> QED
      BY <1>1, <1>4, <2>1, CountedWith
  <1>5. CASE UNCHANGED <<item, db, amount, volume>>
    BY <1>5, CountedStutter
  <1> QED
    BY <1>2, <1>3, <1>4, <1>5 DEF Want

LEMMA CountedUnwant ==
  ASSUME Sound(Now), Counted(Now), mail \in [Wanters -> Mail], NEW w \in Wanters, Unwant(w)
  PROVE  Counted(Now)'
  <1> DEFINE k == mail[w].key
             f == [x \in DOMAIN item[k].fwant \ {w} |-> item[k].fwant[x]]
             it == IF ~isWanted(item[k]) THEN item[k]
                   ELSE IF DOMAIN f = {} /\ item[k].fc = 0 /\ ~item[k].val THEN NoItem
                   ELSE Waiting(item[k], f)
  <1>1. k \in Keys
    BY DEF Mail
  <1>2. Now.item = item /\ item \in [Keys -> Item] /\ ItemSound(Now, k)
    BY <1>1 DEF Now, Sound
  <1>3. item' = [item EXCEPT ![k] = it] /\ UNCHANGED <<amount, volume>>
    BY DEF Unwant
  <1>4. it.val <=> item[k].val
    BY <1>2 DEF ItemSound, Waiting, NoItem
  <1> HIDE DEF it, f, k
  <1> QED
    BY <1>1, <1>2, <1>3, <1>4, CountedWith

LEMMA CountedApply ==
  ASSUME Sound(Now), Counted(Now), NEW k \in Keys, NEW n, Apply(k, n)
  PROVE  Counted(Now)'
  <1> DEFINE it == IF item[k].fc = n /\ ~isWanted(item[k]) /\ ~item[k].val
                   THEN NoItem ELSE WithFc(item[k], item[k].fc - n)
  <1>1. item \in [Keys -> Item]
    BY DEF Now, Sound
  <1>2. item' = [item EXCEPT ![k] = it] /\ UNCHANGED <<amount, volume>>
    BY DEF Apply
  <1>3. it.val <=> item[k].val
    BY <1>1 DEF NoItem, WithFc, Item
  <1> HIDE DEF it
  <1> QED
    BY <1>1, <1>2, <1>3, CountedWith

LEMMA CountedReject ==
  ASSUME Sound(Now), Counted(Now), NEW k \in Keys, NEW n \in Nat, Reject(k, n)
  PROVE  Counted(Now)'
  <1> DEFINE it == WithFc(item[k], item[k].fc - n)
             s  == WithItem(Now, k, it)
  <1>1. item[k].in /\ n <= item[k].fc
    BY DEF Reject
  <1>2. it \in Item /\ Sound(s) /\ s.item[k] = it /\ it.val = item[k].val
    BY <1>1, FewerHeld
  <1>3. item \in [Keys -> Item]
    BY DEF Now, Sound
  <1>4. s.item = [item EXCEPT ![k] = it] /\ s.amount = amount /\ s.volume = volume
    BY DEF WithItem, Now
  <1>5. Reject(k, n) <=>
          /\ item[k].in /\ n <= item[k].fc
          /\ \/ /\ item[k].val
                /\ \E t \in TouchItem(s, k, -n) : Becomes(t)
                /\ UNCHANGED phase
             \/ /\ isFilling(item[k]) /\ db[k].in
                /\ \E r \in Put(DbInc(s, k, -n), k) :
                     Becomes(r.s) /\ phase' = IF r.ok THEN phase ELSE "panic"
             \/ /\ DBFails /\ isFilling(item[k])
                /\ Becomes(s)
                /\ phase' = "panic"
          /\ reply' = NoReply /\ UNCHANGED mail
    BY DEF Reject
  <1> HIDE DEF s, it
  <1>6. \A j \in Keys : s.item[j].val <=> item[j].val
    BY <1>2, <1>3, <1>4
  <1>7. Counted(s)
    <2>1. s.amount = Now.amount /\ s.volume = Now.volume /\ \A j \in Keys : s.item[j].val <=> Now.item[j].val
      BY <1>4, <1>6 DEF Now
    <2> QED
      BY <2>1, CountedSame
  <1>8. CASE item[k].val /\ \E t \in TouchItem(s, k, -n) : Becomes(t)
    <2>1. PICK t \in TouchItem(s, k, -n) : Becomes(t)
      BY <1>8
    <2>2. Counted(t)
      BY <1>2, <1>7, <1>8, CountedTouch DEF Sound
    <2> QED
      BY <2>1, <2>2, CountedBecomes
  <1>9. CASE isFilling(item[k]) /\ \E r \in Put(DbInc(s, k, -n), k) : Becomes(r.s)
    <2> DEFINE u == DbInc(s, k, -n)
    <2>1. PICK r \in Put(u, k) : Becomes(r.s)
      BY <1>9
    <2>2. u.item = s.item /\ u.amount = amount /\ u.volume = volume
      BY <1>4 DEF DbInc, WithDb
    <2> HIDE DEF u
    <2>3. ~item[k].val /\ ~u.item[k].val /\ DOMAIN u.item = Keys
      BY <1>2, <1>9, <2>2 DEF isFilling, Sound
    <2>4. \A j \in Keys : j # k => u.item[j] = item[j]
      BY <1>3, <1>4, <2>2
    <2>5. Counted(r.s)
      BY <2>2, <2>3, <2>4, CountedRead
    <2> QED
      BY <2>1, <2>5, CountedBecomes
  <1>10. CASE Becomes(s)
    BY <1>7, <1>10, CountedBecomes
  <1> QED
    BY <1>5, <1>8, <1>9, <1>10

CountInv == IInv /\ (phase = "open" => Counted(Now))

\* A step of an open cache that leaves it open keeps the counts.
LEMMA CountStep ==
  ASSUME CountInv, Next, phase' = "open"
  PROVE  Counted(Now)'
  <1>1. phase = "open" /\ Sound(Now) /\ Counted(Now) /\ mail \in [Wanters -> Mail]
    BY OpenSound DEF Next, CountInv, IInv, TypeOK
  <1>2. ASSUME NEW k \in Keys, NEW n \in 1..Cardinality(Wanters), Apply(k, n) \/ Reject(k, n)
        PROVE  Counted(Now)'
    <2>1. n \in Nat
      BY KeysAssumption, FS_CardinalityType
    <2> QED
      BY <1>1, <1>2, <2>1, CountedApply, CountedReject
  <1>3. CASE RemoveObjects
    BY <1>1, <1>3, CountedStutter DEF RemoveObjects
  <1>4. ~Close
    BY DEF Close
  <1> QED
    BY <1>1, <1>2, <1>3, <1>4, CountedGets, CountedSet, CountedSetWanted, CountedWant, CountedUnwant DEF Next

\* The amount and the volume cleanDown compares with its limits are those of
\* the values the cache keeps, whatever was evicted, rejected, refused by the
\* DB or half cleaned, for any objects and any configuration (cache.go:325).
THEOREM CacheAccounting == Spec => []Accounting
  <1>1. Init => CountInv
    <2> SUFFICES ASSUME Init PROVE Counted(Now)
      BY InitIInv DEF CountInv
    <2>1. \A k \in Keys : ~item[k].val
      BY DEF Init, NoItem
    <2>2. Vals(Now) = {} /\ Now.amount = 0 /\ Now.volume = 0
      BY <2>1 DEF Init, Vals, Now
    <2>3. TotalVol({}) = 0 /\ Cardinality({}) = 0
      <3>1. Bytes(Vol, {}) = {}
        BY DEF Bytes
      <3> QED
        BY <3>1, FS_EmptySet DEF TotalVol, VolumeOf
    <2> QED
      BY <2>2, <2>3 DEF Counted
  <1>2. CountInv /\ [Next]_vars => CountInv'
    <2> SUFFICES ASSUME CountInv, [Next]_vars PROVE CountInv'
      OBVIOUS
    <2>1. IInv'
      BY StepIInv DEF CountInv
    <2>2. CASE Next
      BY <2>1, <2>2, CountStep DEF CountInv
    <2>3. CASE UNCHANGED vars
      <3>1. phase' = phase /\ UNCHANGED <<amount, volume>> /\ item' = item
        BY <2>3 DEF vars
      <3> QED
        BY <2>1, <3>1, CountedStutter DEF CountInv
    <2> QED
      BY <2>2, <2>3
  <1>3. CountInv => Accounting
    BY DEF CountInv, Counted, Vals, Now, Accounting
  <1> QED
    BY <1>1, <1>2, <1>3, PTL DEF Spec

-----------------------------------------------------------------------------
(* Who waits: a channel is registered for the key it waits for, and only   *)
(* there.                                                                  *)

Registered ==
  \A w \in Wanters, k \in Keys :
    (w \in DOMAIN item[k].fwant) <=> (mail[w].st = "wait" /\ mail[w].key = k)

\* t has the wanters of s
SameWants(s, t) == \A k \in Keys : t.item[k].fwant = s.item[k].fwant

\* No cached item is wanted.
Apart(s) ==
  /\ s.item \in [Keys -> Item]
  /\ \A k \in Keys : s.item[k].val => ~isWanted(s.item[k])

LEMMA OpenApart == ASSUME Sound(Now) PROVE Apart(Now) /\ Now.item = item
  BY DEF Sound, ItemSound, Apart, Now

\* Evictions, and objects read into the cache, wake and forget nobody.
LEMMA EvictWants ==
  ASSUME NEW s, Apart(s), NEW E \in SUBSET {k \in Keys : s.item[k].val}
  PROVE  SameWants(s, Evict(s, E))
  <1>1. ASSUME NEW k \in Keys PROVE Evict(s, E).item[k].fwant = s.item[k].fwant
    <2>1. Evict(s, E).item[k] = IF k \in E THEN Left(s.item[k]) ELSE s.item[k]
      BY DEF Evict
    <2>2. Left(s.item[k]).fwant = NoWants
      BY DEF Left, NoItem, Shell
    <2>3. k \in E => s.item[k].fwant = NoWants
      BY NotWanted DEF Apart
    <2> QED
      BY <2>1, <2>2, <2>3
  <1> QED
    BY <1>1 DEF SameWants

LEMMA KeepWants ==
  ASSUME NEW s, DOMAIN s.item = Keys, NEW k \in Keys, s.item[k].fwant = NoWants
  PROVE  SameWants(s, Keep(s, k))
  <1> DEFINE t == Keep(s, k)
             it == Regular(s.item[k].fc, s.db[k].rc)
  <1>1. t.item = [s.item EXCEPT ![k] = it]
    BY DEF Keep
  <1>2. it.fwant = NoWants
    BY DEF Regular
  <1> HIDE DEF t, it
  <1>3. SameWants(s, t)
    BY <1>1, <1>2 DEF SameWants
  <1> QED
    BY <1>3 DEF t

LEMMA PutWants ==
  ASSUME NEW s, Apart(s), NEW k \in Keys, ~isWanted(s.item[k]), NEW r \in Put(s, k)
  PROVE  SameWants(s, r.s)
  <1>1. Rank(s) \subseteq {j \in Keys : s.item[j].val}
    BY DEF Rank
  <1>2. s.item[k].fwant = NoWants /\ DOMAIN s.item = Keys
    BY NotWanted DEF Apart
  <1>3. ASSUME NEW E \in SUBSET Rank(s)
        PROVE  SameWants(s, Evict(s, E)) /\ SameWants(s, Keep(Evict(s, E), k))
    <2>1. SameWants(s, Evict(s, E))
      BY <1>1, EvictWants
    <2>2. Evict(s, E).item[k].fwant = NoWants
      BY <1>2, <2>1 DEF SameWants
    <2>3. DOMAIN Evict(s, E).item = Keys
      BY DEF Evict
    <2>4. SameWants(Evict(s, E), Keep(Evict(s, E), k))
      BY <2>2, <2>3, KeepWants
    <2> QED
      BY <2>1, <2>4 DEF SameWants
  <1>4. SameWants(s, s)
    BY DEF SameWants
  <1> QED
    BY <1>2, <1>3, <1>4, PutWays, KeepWants

LEMMA TouchWants ==
  ASSUME NEW s, Apart(s), NEW k \in Keys, NEW inc \in Int, s.item[k].val, NEW t \in TouchItem(s, k, inc)
  PROVE  SameWants(s, t)
  <1> DEFINE it == WithCc(s.item[k], Sat(s.item[k].cc + inc))
             u  == WithItem(s, k, it)
  <1>1. t = u \/ t = Evict(u, {k})
    BY DEF TouchItem
  <1>2. s.item \in [Keys -> Item] /\ s.item[k] \in Item
    BY DEF Apart
  <1>3. s.item[k].cc \in Int
    BY <1>2 DEF Item
  <1>4. Sat(s.item[k].cc + inc) \in Nat
    BY <1>3, SatNat
  <1>5. it \in Item /\ it.val /\ (isWanted(it) <=> isWanted(s.item[k]))
    BY <1>2, <1>4, ItemFields
  <1>6. it.fwant = s.item[k].fwant
    BY <1>2 DEF WithCc, Item
  <1> HIDE DEF it
  <1>7. u.item = [s.item EXCEPT ![k] = it]
    BY DEF WithItem
  <1> HIDE DEF u
  <1>8. Apart(u) /\ SameWants(s, u) /\ {k} \in SUBSET {j \in Keys : u.item[j].val}
    BY <1>2, <1>5, <1>6, <1>7 DEF Apart, SameWants
  <1> QED
    BY <1>1, <1>8, EvictWants DEF SameWants

\* A step that neither wakes nor registers anybody.
LEMMA KeptBecomes ==
  ASSUME Registered, UNCHANGED mail, Sound(Now), NEW s, SameWants(Now, s), item' = s.item
  PROVE  Registered'
  <1>1. \A k \in Keys : item'[k].fwant = item[k].fwant
    BY OpenApart DEF SameWants
  <1> QED
    BY <1>1 DEF Registered

LEMMA KeptStutter == ASSUME Registered, UNCHANGED <<item, mail>> PROVE Registered'
  BY DEF Registered

\* The steps Get, Inc and Set are made of.
LEMMA KeptTouches ==
  ASSUME Sound(Now), Registered, UNCHANGED mail, NEW op, NEW k \in Keys, NEW inc \in Int,
         Nothing(op, k) \/ OnItem(op, k, inc) \/ OnFilling(op, k, inc) \/ OnDB(op, k, inc)
  PROVE  Registered'
  <1> DEFINE u == DbInc(Now, k, inc)
  <1>1. Now.item = item /\ Apart(Now) /\ ItemSound(Now, k)
    BY OpenApart DEF Sound
  <1>2. CASE Nothing(op, k)
    BY <1>2, KeptStutter DEF Nothing
  <1>3. CASE OnItem(op, k, inc)
    <2>1. PICK t \in TouchItem(Now, k, inc) : Becomes(t)
      BY <1>3 DEF OnItem
    <2>2. Now.item[k].val
      BY <1>1, <1>3 DEF OnItem
    <2>3. SameWants(Now, t)
      BY <1>1, <2>2, TouchWants
    <2> QED
      BY <2>1, <2>3, KeptBecomes DEF Becomes
  <1>4. CASE OnFilling(op, k, inc) \/ OnDB(op, k, inc)
    <2>1. PICK r \in Put(u, k) : Becomes(r.s)
      BY <1>4 DEF OnFilling, OnDB
    <2>2. ~isWanted(item[k])
      BY <1>1, <1>4 DEF OnFilling, OnDB, isFilling, ItemSound
    <2>3. u.item = item
      BY DEF DbInc, WithDb, Now
    <2> HIDE DEF u
    <2>4. Apart(u)
      BY <1>1, <2>3 DEF Apart
    <2>5. SameWants(Now, r.s)
      BY <1>1, <2>2, <2>3, <2>4, PutWants DEF SameWants
    <2> QED
      BY <2>1, <2>5, KeptBecomes DEF Becomes
  <1> QED
    BY <1>2, <1>3, <1>4

LEMMA KeptGets ==
  ASSUME Sound(Now), Registered, NEW k \in Keys, NEW inc \in Int,
         Get(k, inc) \/ getNoCache(k, inc) \/ Inc(k, inc)
  PROVE  Registered'
  <1>1. UNCHANGED mail
    BY DEF Get, getNoCache, Inc
  <1>2. CASE Becomes(DbInc(Now, k, inc))
    BY <1>1, <1>2, KeptStutter DEF Becomes, DbInc, WithDb, Now
  <1>3. ASSUME NEW op, Nothing(op, k) \/ OnItem(op, k, inc) \/ OnFilling(op, k, inc) \/ OnDB(op, k, inc)
        PROVE  Registered'
    BY <1>1, <1>3, KeptTouches
  <1> QED
    BY <1>2, <1>3 DEF Get, getNoCache, Inc

\* The wanters of k are told, and it has none any more.
LEMMA KeptDeliver ==
  ASSUME Registered, item \in [Keys -> Item], NEW k \in Keys, NEW msg, msg.st # "wait", mail' = Deliver(k, msg),
         \A j \in Keys : item'[j].fwant = IF j = k THEN NoWants ELSE item[j].fwant
  PROVE  Registered'
  <1>1. ASSUME NEW w \in Wanters, NEW j \in Keys
        PROVE  (w \in DOMAIN item'[j].fwant) <=> (mail'[w].st = "wait" /\ mail'[w].key = j)
    <2>1. mail'[w] = IF w \in DOMAIN item[k].fwant THEN msg ELSE mail[w]
      BY DEF Deliver
    <2>2. DOMAIN item'[k].fwant = {}
      BY DEF NoWants
    <2>3. CASE w \in DOMAIN item[k].fwant
      <3>1. mail[w].key = k /\ mail'[w].st # "wait"
        BY <2>1, <2>3 DEF Registered
      <3>2. j # k => w \notin DOMAIN item[j].fwant
        BY <3>1 DEF Registered
      <3> QED
        BY <2>2, <3>1, <3>2
    <2>4. CASE w \notin DOMAIN item[k].fwant
      <3>1. mail'[w] = mail[w] /\ ~(mail[w].st = "wait" /\ mail[w].key = k)
        BY <2>1, <2>4 DEF Registered
      <3>2. CASE j = k
        BY <2>2, <3>1, <3>2
      <3>3. CASE j # k
        BY <3>1, <3>3 DEF Registered
      <3> QED
        BY <3>2, <3>3
    <2> QED
      BY <2>3, <2>4
  <1> QED
    BY <1>1 DEF Registered

LEMMA KeptRefuse ==
  ASSUME Sound(Now), Registered, NEW k \in Keys, Refuse(k)
  PROVE  Registered'
  <1>1. item \in [Keys -> Item]
    BY OpenApart DEF Apart
  <1>2. item' = [item EXCEPT ![k] = NoItem] /\ NoItem.fwant = NoWants
    BY DEF Refuse, NoItem
  <1>3. \A j \in Keys : item'[j].fwant = IF j = k THEN NoWants ELSE item[j].fwant
    BY <1>1, <1>2
  <1>4. PICK msg : msg.st # "wait" /\ mail' = Deliver(k, msg)
    BY DEF Refuse
  <1> QED
    BY <1>1, <1>3, <1>4, KeptDeliver

LEMMA KeptArrive ==
  ASSUME Sound(Now), Registered, NEW k \in Keys, NEW inc, NEW answers, Arrive(k, inc, answers)
  PROVE  Registered'
  <1> DEFINE u == DbSet(Now, k, inc + Wincs(item[k]))
             sh == Shell(item[k].fc + Wincs(item[k]))
             v == WithItem(u, k, sh)
             msg == [st |-> "ok", key |-> k, rc |-> u.db[k].rc - (Wincs(item[k]) + item[k].fc)]
  <1>1. Now.item = item /\ Apart(Now) /\ item \in [Keys -> Item]
    BY OpenApart DEF Apart
  <1>2. mail' = Deliver(k, msg) /\ msg.st # "wait" /\ \E r \in Put(v, k) : Becomes(r.s)
    BY DEF Arrive
  <1>3. PICK r \in Put(v, k) : Becomes(r.s)
    BY <1>2
  <1>4. u.item = item
    BY DbSetItems
  <1>5. sh \in Item /\ sh.fwant = NoWants /\ ~isWanted(sh) /\ ~sh.val
    <2>1. item[k].fc + Wincs(item[k]) \in Nat
      BY <1>1, WincsNat DEF Item
    <2> QED
      BY <2>1, Built DEF Shell
  <1> HIDE DEF u, sh, msg
  <1>6. v.item = [item EXCEPT ![k] = sh]
    BY <1>4 DEF WithItem
  <1> HIDE DEF v
  <1>7. Apart(v) /\ ~isWanted(v.item[k])
    BY <1>1, <1>5, <1>6 DEF Apart
  <1>8. SameWants(v, r.s)
    BY <1>7, PutWants
  <1>9. \A j \in Keys : v.item[j].fwant = IF j = k THEN NoWants ELSE item[j].fwant
    BY <1>1, <1>5, <1>6
  <1>10. \A j \in Keys : item'[j].fwant = IF j = k THEN NoWants ELSE item[j].fwant
    BY <1>3, <1>8, <1>9 DEF SameWants, Becomes
  <1> QED
    BY <1>1, <1>2, <1>10, KeptDeliver

LEMMA KeptSet ==
  ASSUME Sound(Now), Registered, NEW k \in Keys, NEW inc \in Int, Set(k, inc)
  PROVE  Registered'
  <1>1. CASE OnNew(k, inc) /\ UNCHANGED mail
    <2> DEFINE u == DbSet(Now, k, inc)
    <2>1. Now.item = item /\ Apart(Now) /\ ItemSound(Now, k)
      BY OpenApart DEF Sound
    <2>2. PICK r \in Put(u, k) : Becomes(r.s)
      BY <1>1 DEF OnNew
    <2>3. ~isWanted(item[k])
      BY <1>1, <2>1 DEF OnNew, ItemSound
    <2>4. u.item = item
      BY DbSetItems
    <2> HIDE DEF u
    <2>5. Apart(u)
      BY <2>1, <2>4 DEF Apart
    <2>6. SameWants(Now, r.s)
      BY <2>1, <2>3, <2>4, <2>5, PutWants DEF SameWants
    <2> QED
      BY <1>1, <2>2, <2>6, KeptBecomes DEF Becomes
  <1>2. CASE UNCHANGED <<item, mail>>
    BY <1>2, KeptStutter
  <1>3. CASE (OnItem("Set", k, inc) \/ OnFilling("Set", k, inc)) /\ UNCHANGED mail
    BY <1>3, KeptTouches
  <1> QED
    BY <1>1, <1>2, <1>3, KeptRefuse, KeptArrive DEF Set

LEMMA KeptSetWanted ==
  ASSUME Sound(Now), Registered, NEW k \in Keys, SetWanted(k)
  PROVE  Registered'
  <1>1. CASE UNCHANGED <<item, mail>>
    BY <1>1, KeptStutter
  <1> QED
    BY <1>1, KeptRefuse, KeptArrive DEF SetWanted

\* A Want that is answered at once registers nobody.
LEMMA KeptAnswered ==
  ASSUME Registered, mail \in [Wanters -> Mail], NEW w \in Wanters, mail[w] = Idle,
         NEW msg, msg.st # "wait", mail' = [mail EXCEPT ![w] = msg],
         \A j \in Keys : item'[j].fwant = item[j].fwant
  PROVE  Registered'
  <1>1. mail[w].st # "wait" /\ mail'[w].st # "wait" /\ \A x \in Wanters : x # w => mail'[x] = mail[x]
    BY DEF Idle
  <1> QED
    BY <1>1 DEF Registered

LEMMA KeptWant ==
  ASSUME Sound(Now), Registered, ~DBFails, mail \in [Wanters -> Mail],
         NEW k \in Keys, NEW w \in Wanters, NEW inc \in {0, 1}, Want(k, w, inc)
  PROVE  Registered'
  <1>1. /\ Now.item = item /\ Apart(Now) /\ item \in [Keys -> Item] /\ item[k] \in Item
        /\ ItemSound(Now, k) /\ item[k].fc \in Nat
    BY OpenApart, Numbers DEF Apart, Sound
  <1>2. mail[w] = Idle /\ mail[w].st # "wait"
    BY DEF Want, Idle
  <1>3. CASE /\ item' = [item EXCEPT ![k] = Waiting(@,
                          [x \in DOMAIN @.fwant \cup {w} |-> IF x = w THEN inc ELSE @.fwant[x]])]
             /\ mail' = [mail EXCEPT ![w] = [st |-> "wait", key |-> k, rc |-> 0]]
    <2> DEFINE f == [x \in DOMAIN item[k].fwant \cup {w} |-> IF x = w THEN inc ELSE item[k].fwant[x]]
               msg == [st |-> "wait", key |-> k, rc |-> 0]
               it == Waiting(item[k], f)
    <2>1. item' = [item EXCEPT ![k] = it] /\ mail' = [mail EXCEPT ![w] = msg]
      BY <1>3
    <2>2. DOMAIN it.fwant = DOMAIN item[k].fwant \cup {w} /\ msg.st = "wait" /\ msg.key = k
      BY DEF Waiting
    <2> HIDE DEF it, msg
    <2>3. ASSUME NEW x \in Wanters, NEW j \in Keys
          PROVE  (x \in DOMAIN item'[j].fwant) <=> (mail'[x].st = "wait" /\ mail'[x].key = j)
      <3>1. DOMAIN item'[j].fwant = IF j = k THEN DOMAIN item[k].fwant \cup {w} ELSE DOMAIN item[j].fwant
        BY <1>1, <2>1, <2>2
      <3>2. mail'[x] = IF x = w THEN msg ELSE mail[x]
        BY <2>1
      <3>3. (x \in DOMAIN item[j].fwant) <=> (mail[x].st = "wait" /\ mail[x].key = j)
        BY DEF Registered
      <3>4. CASE x = w
        <4>1. x \notin DOMAIN item[j].fwant
          BY <1>2, <3>3, <3>4
        <4> QED
          BY <2>2, <3>1, <3>2, <3>4, <4>1
      <3>5. CASE x # w
        <4>1. (x \in DOMAIN item'[j].fwant) <=> (x \in DOMAIN item[j].fwant)
          BY <3>1, <3>5
        <4> QED
          BY <3>2, <3>3, <3>5, <4>1
      <3> QED
        BY <3>4, <3>5
    <2> QED
      BY <2>3 DEF Registered
  <1>4. CASE /\ ~item[k].val /\ ~isWanted(item[k])
             /\ LET u == DbInc(Now, k, inc)
                    v == WithItem(u, k, Shell(item[k].fc))
                IN  /\ mail' = [mail EXCEPT ![w] =
                                 [st |-> "ok", key |-> k, rc |-> u.db[k].rc - item[k].fc - inc]]
                    /\ \E r \in Put(v, k) :
                         Becomes(WithItem(r.s, k, WithFc(r.s.item[k], r.s.item[k].fc + inc)))
    <2> DEFINE u == DbInc(Now, k, inc)
               sh == Shell(item[k].fc)
               v == WithItem(u, k, sh)
               msg == [st |-> "ok", key |-> k, rc |-> u.db[k].rc - item[k].fc - inc]
    <2>1. PICK r \in Put(v, k) : Becomes(WithItem(r.s, k, WithFc(r.s.item[k], r.s.item[k].fc + inc)))
      BY <1>4
    <2>2. mail' = [mail EXCEPT ![w] = msg] /\ msg.st # "wait"
      BY <1>4
    <2>3. u.item = item
      BY DEF DbInc, WithDb, Now
    <2>4. sh \in Item /\ sh.fwant = NoWants /\ ~isWanted(sh) /\ ~sh.val
      BY <1>1, Built DEF Shell
    <2>5. item[k].fwant = NoWants
      BY <1>1, <1>4, NotWanted
    <2> HIDE DEF u, sh, msg
    <2>6. v.item = [item EXCEPT ![k] = sh]
      BY <2>3 DEF WithItem
    <2> HIDE DEF v
    <2>7. Apart(v) /\ ~isWanted(v.item[k])
      BY <1>1, <2>4, <2>6 DEF Apart
    <2>8. \A j \in Keys : v.item[j].fwant = item[j].fwant
      BY <1>1, <2>4, <2>5, <2>6
    <2>9. \A j \in Keys : r.s.item[j].fwant = item[j].fwant
      BY <2>7, <2>8, PutWants DEF SameWants
    <2> DEFINE s == r.s
               it == WithFc(s.item[k], s.item[k].fc + inc)
    <2>10. it.fwant = s.item[k].fwant
      <3>1. s.item[k].fwant = [s.item[k] EXCEPT !.fc = s.item[k].fc + inc].fwant
        OBVIOUS
      <3> QED
        BY <3>1 DEF WithFc
    <2> HIDE DEF s, it
    <2>11. item' = [s.item EXCEPT ![k] = it]
      BY <2>1 DEF Becomes, WithItem, s, it
    <2>12. \A j \in Keys : item'[j].fwant = s.item[j].fwant
      BY <2>10, <2>11
    <2>13. \A j \in Keys : item'[j].fwant = item[j].fwant
      BY <2>9, <2>12 DEF s
    <2> QED
      BY <1>2, <2>2, <2>13, KeptAnswered
  <1>5. CASE /\ item' = [item EXCEPT ![k] = WithFc(@, @.fc + inc)]
             /\ mail' = [mail EXCEPT ![w] = [st |-> "ok", key |-> k, rc |-> item[k].cc - item'[k].fc]]
    <2> DEFINE it == WithFc(item[k], item[k].fc + inc)
               msg == [st |-> "ok", key |-> k, rc |-> item[k].cc - item'[k].fc]
    <2>1. item' = [item EXCEPT ![k] = it] /\ it.fwant = item[k].fwant
      BY <1>1, <1>5 DEF WithFc, Item
    <2>2. mail' = [mail EXCEPT ![w] = msg] /\ msg.st # "wait"
      BY <1>5
    <2> HIDE DEF it, msg
    <2>3. \A j \in Keys : item'[j].fwant = item[j].fwant
      BY <1>1, <2>1
    <2> QED
      BY <1>2, <2>2, <2>3, KeptAnswered
  <1> QED
    BY <1>3, <1>4, <1>5 DEF Want

LEMMA KeptUnwant ==
  ASSUME Sound(Now), Registered, mail \in [Wanters -> Mail], NEW w \in Wanters, Unwant(w)
  PROVE  Registered'
  <1> DEFINE k == mail[w].key
             f == [x \in DOMAIN item[k].fwant \ {w} |-> item[k].fwant[x]]
             it == IF ~isWanted(item[k]) THEN item[k]
                   ELSE IF DOMAIN f = {} /\ item[k].fc = 0 /\ ~item[k].val THEN NoItem
                   ELSE Waiting(item[k], f)
  <1>1. k \in Keys
    BY DEF Mail
  <1>2. item \in [Keys -> Item]
    BY OpenApart DEF Apart
  <1>3. item' = [item EXCEPT ![k] = it] /\ mail' = [mail EXCEPT ![w] = Idle]
    BY DEF Unwant
  <1>4. DOMAIN it.fwant = DOMAIN item[k].fwant \ {w}
    <2>1. DOMAIN f = DOMAIN item[k].fwant \ {w}
      OBVIOUS
    <2>2. DOMAIN NoItem.fwant = {}
      BY DEF NoItem, NoWants
    <2> HIDE DEF f
    <2> QED
      BY <2>1, <2>2 DEF isWanted, Waiting
  <1> HIDE DEF it, f
  <1>5. ASSUME NEW x \in Wanters, NEW j \in Keys
        PROVE  (x \in DOMAIN item'[j].fwant) <=> (mail'[x].st = "wait" /\ mail'[x].key = j)
    <2>1. DOMAIN item'[j].fwant = IF j = k THEN DOMAIN item[k].fwant \ {w} ELSE DOMAIN item[j].fwant
      BY <1>1, <1>2, <1>3, <1>4
    <2>2. mail'[x] = IF x = w THEN Idle ELSE mail[x]
      BY <1>3
    <2>3. (x \in DOMAIN item[j].fwant) <=> (mail[x].st = "wait" /\ mail[x].key = j)
      BY DEF Registered
    <2>4. CASE x = w
      <3>1. x \notin DOMAIN item'[j].fwant
        BY <2>1, <2>3, <2>4
      <3> QED
        BY <2>2, <2>4, <3>1 DEF Idle
    <2>5. CASE x # w
      BY <2>1, <2>2, <2>3, <2>5
    <2> QED
      BY <2>4, <2>5
  <1> QED
    BY <1>5 DEF Registered

LEMMA KeptApply ==
  ASSUME Sound(Now), Registered, NEW k \in Keys, NEW n, Apply(k, n)
  PROVE  Registered'
  <1> DEFINE it == IF item[k].fc = n /\ ~isWanted(item[k]) /\ ~item[k].val
                   THEN NoItem ELSE WithFc(item[k], item[k].fc - n)
  <1>1. item \in [Keys -> Item]
    BY OpenApart DEF Apart
  <1>2. item' = [item EXCEPT ![k] = it] /\ UNCHANGED mail
    BY DEF Apply
  <1>3. it.fwant = item[k].fwant
    <2>1. ~isWanted(item[k]) => item[k].fwant = NoWants
      BY <1>1, NotWanted
    <2> QED
      BY <1>1, <2>1 DEF NoItem, WithFc, Item
  <1> HIDE DEF it
  <1>4. \A j \in Keys : item'[j].fwant = item[j].fwant
    BY <1>1, <1>2, <1>3
  <1> QED
    BY <1>2, <1>4 DEF Registered

LEMMA KeptReject ==
  ASSUME Sound(Now), Registered, NEW k \in Keys, NEW n \in Nat, Reject(k, n)
  PROVE  Registered'
  <1> DEFINE it == WithFc(item[k], item[k].fc - n)
             s  == WithItem(Now, k, it)
             u  == DbInc(s, k, -n)
  <1>1. item[k].in /\ n <= item[k].fc /\ UNCHANGED mail /\ -n \in Int
    BY DEF Reject
  <1>2. Sound(s) /\ s.item[k] = it /\ it.val = item[k].val
    BY <1>1, FewerHeld
  <1>3. item \in [Keys -> Item] /\ Now.item = item
    BY OpenApart DEF Apart
  <1>4. it.fwant = item[k].fwant
    BY <1>3 DEF WithFc, Item
  <1>5. \/ item[k].val /\ \E t \in TouchItem(s, k, -n) : Becomes(t)
        \/ isFilling(item[k]) /\ \E r \in Put(u, k) : Becomes(r.s)
        \/ Becomes(s)
    BY DEF Reject
  <1>6. u.item = s.item
    BY DEF DbInc, WithDb
  <1> HIDE DEF u
  <1>7. s.item = [item EXCEPT ![k] = it]
    BY DEF WithItem, Now
  <1> HIDE DEF s, it
  <1>8. SameWants(Now, s)
    BY <1>3, <1>4, <1>7 DEF SameWants
  <1>9. Apart(s)
    BY <1>2 DEF Sound, ItemSound, Apart
  <1>10. CASE item[k].val /\ \E t \in TouchItem(s, k, -n) : Becomes(t)
    <2>1. PICK t \in TouchItem(s, k, -n) : Becomes(t)
      BY <1>10
    <2>2. SameWants(s, t)
      BY <1>1, <1>2, <1>9, <1>10, TouchWants
    <2>3. SameWants(Now, t)
      BY <1>8, <2>2 DEF SameWants
    <2> QED
      BY <1>1, <2>1, <2>3, KeptBecomes DEF Becomes
  <1>11. CASE isFilling(item[k]) /\ \E r \in Put(u, k) : Becomes(r.s)
    <2>1. PICK r \in Put(u, k) : Becomes(r.s)
      BY <1>11
    <2>2. Apart(u) /\ ~isWanted(u.item[k])
      BY <1>2, <1>4, <1>6, <1>9, <1>11 DEF Apart, isFilling, isWanted
    <2>3. SameWants(u, r.s)
      BY <2>2, PutWants
    <2>4. SameWants(Now, r.s)
      BY <1>6, <1>8, <2>3 DEF SameWants
    <2> QED
      BY <1>1, <2>1, <2>4, KeptBecomes DEF Becomes
  <1>12. CASE Becomes(s)
    BY <1>1, <1>8, <1>12, KeptBecomes DEF Becomes
  <1> QED
    BY <1>5, <1>10, <1>11, <1>12

WaitInv == IInv /\ (phase = "open" => Registered)

\* A step of an open cache keeps the registrations.
LEMMA WaitStep ==
  ASSUME WaitInv, ~DBFails, Next, phase' = "open"
  PROVE  Registered'
  <1>1. phase = "open" /\ Sound(Now) /\ Registered /\ mail \in [Wanters -> Mail]
    BY OpenSound DEF Next, WaitInv, IInv, TypeOK
  <1>2. ASSUME NEW k \in Keys, NEW inc \in Incs \cup SetIncs,
               Get(k, inc) \/ getNoCache(k, inc) \/ Inc(k, inc) \/ Set(k, inc)
        PROVE  Registered'
    <2>1. inc \in Int
      BY IncsAssumption
    <2> QED
      BY <1>1, <1>2, <2>1, KeptGets, KeptSet
  <1>3. ASSUME NEW k \in Keys, NEW n \in 1..Cardinality(Wanters), Apply(k, n) \/ Reject(k, n)
        PROVE  Registered'
    <2>1. n \in Nat
      BY KeysAssumption, FS_CardinalityType
    <2> QED
      BY <1>1, <1>3, <2>1, KeptApply, KeptReject
  <1>4. CASE RemoveObjects
    BY <1>1, <1>4, KeptStutter DEF RemoveObjects
  <1>5. ~Close
    BY DEF Close
  <1> QED
    BY <1>1, <1>2, <1>3, <1>4, <1>5, KeptSetWanted, KeptWant, KeptUnwant DEF Next

\* Nobody waits on a channel the cache has forgotten, and nobody it remembers
\* has been answered: with a DB that does not fail, on drive or in memory, the
\* wanters of every item are exactly those that still wait for its key, through
\* late Wants, refusals, evictions and rejects (Want, setWanted and Unwant).
THEOREM CacheNoLostWakeup == ASSUME ~DBFails PROVE Spec => []NoLostWakeup
  <1>1. Init => WaitInv
    <2> SUFFICES ASSUME Init PROVE Registered
      BY InitIInv DEF WaitInv
    <2>1. \A k \in Keys : DOMAIN item[k].fwant = {}
      BY DEF Init, NoItem, NoWants
    <2>2. \A w \in Wanters : mail[w].st = "idle"
      BY DEF Init, Idle
    <2> QED
      BY <2>1, <2>2 DEF Registered
  <1>2. WaitInv /\ [Next]_vars => WaitInv'
    <2> SUFFICES ASSUME WaitInv, [Next]_vars PROVE WaitInv'
      OBVIOUS
    <2>1. IInv'
      BY StepIInv DEF WaitInv
    <2>2. CASE Next
      BY <2>1, <2>2, WaitStep DEF WaitInv
    <2>3. CASE UNCHANGED vars
      BY <2>1, <2>3, KeptStutter DEF vars, WaitInv
    <2> QED
      BY <2>2, <2>3
  <1>3. WaitInv => NoLostWakeup
    BY DEF WaitInv, Registered, NoLostWakeup, IInv, TypeOK, Mail
  <1> QED
    BY <1>1, <1>2, <1>3, PTL DEF Spec

=============================================================================
