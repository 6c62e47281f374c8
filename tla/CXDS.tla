-------------------------------- MODULE CXDS --------------------------------
(***************************************************************************)
(* The store of reference-counted objects (data/cxds): on drive, a boltdb  *)
(* file, or in memory, a map.  Both keep four counters beside the objects: *)
(* the amount and the volume of all objects and of the used ones (rc > 0). *)
(* On drive the counters live in memory; they are changed inside the write *)
(* transactions, but are no part of them, and reach the file in Close.     *)
(*                                                                         *)
(* A write transaction is one action: boltdb serialises them.  The value   *)
(* of a key is fixed (the key is its hash), so only its length matters.    *)
(***************************************************************************)
EXTENDS Integers, FiniteSets, Volume

CONSTANTS
  Keys,      \* hashes of objects
  Vol,       \* key -> length of its value
  Drive,     \* TRUE: driveCXDS, FALSE: memoryCXDS
  Incs,      \* inc arguments of Get and Inc
  SetIncs,   \* inc arguments of Set
  DelUsed,   \* TRUE: objects in use are removed too (Del, callbacks of IterateDel)
  Events,    \* what may happen: "commit" (it fails), "callback" (of IterateDel
             \* fails), "close", "crash"
  Width,     \* a counter is a uint32: Width stands for 2^32
  MaxRC,     \* bound of the counters
  MaxStat    \* bound of the wrong counters of objects

Version == 2

ASSUME KeysAssumption == IsFiniteSet(Keys) /\ Keys # {} /\ Vol \in [Keys -> Nat \ {0}]
ASSUME WidthAssumption == Width \in Nat /\ Width > 1 /\ MaxRC \in Nat /\ MaxStat \in Nat
ASSUME IncsAssumption == Incs \subseteq Int /\ SetIncs \subseteq 1..(Width - 1)
ASSUME SwitchAssumption ==
  /\ {Drive, DelUsed} \subseteq BOOLEAN
  /\ Events \subseteq {"commit", "callback", "close", "crash"}

VARIABLES
  objs,    \* key -> presence and rc: the bucket of objects or the map
  stat,    \* amountAll, amountUsed, volumeAll, volumeUsed
  saved,   \* the same in the meta bucket of the file
  phase,   \* "none": no file, "made": the file has no saved stat yet, "open",
           \* "shut": the file is there, "broken": it cannot be opened
  reply    \* the answer to the last call

vars == <<objs, stat, saved, phase, reply>>

Sat(n) == IF n < 0 THEN 0 ELSE n

Absent == [in |-> FALSE, rc |-> 0]

Stat(aa, au, va, vu) == [amountAll |-> aa, amountUsed |-> au, volumeAll |-> va, volumeUsed |-> vu]

Zero == Stat(0, 0, 0, 0)

NoStat == Stat(-1, -1, -1, -1)

\* encodeUint32 does not look at its argument
encodeUint32(n) == Version

Encoded(s) == Stat(encodeUint32(s.amountAll), encodeUint32(s.amountUsed),
                   encodeUint32(s.volumeAll), encodeUint32(s.volumeUsed))

TotalVol(K) == VolumeOf(Vol, K)

\* the new counter, as incr computes it
NewRC(rc, inc) == IF inc > 0 THEN (rc + inc) % Width ELSE Sat(rc + inc)

\* av: an object is killed or resurrected
av(s, rc, nrc, vol) ==
  IF rc = 0 /\ nrc > 0
  THEN Stat(s.amountAll, s.amountUsed + 1, s.volumeAll, s.volumeUsed + vol)
  ELSE IF rc > 0 /\ nrc = 0
  THEN Stat(s.amountAll, s.amountUsed - 1, s.volumeAll, s.volumeUsed - vol)
  ELSE s

addAll(s, vol) == Stat(s.amountAll + 1, s.amountUsed, s.volumeAll + vol, s.volumeUsed)

\* mutant of del: the removed objects were not in use
delUnused(s, D) ==
  Stat(s.amountAll - Cardinality(D), s.amountUsed, s.volumeAll - TotalVol(D), s.volumeUsed)

\* del, for all objects of D
del(s, D) ==
  LET used == {k \in D : objs[k].rc > 0}
  IN  Stat(s.amountAll - Cardinality(D), s.amountUsed - Cardinality(used),
           s.volumeAll - TotalVol(D), s.volumeUsed - TotalVol(used))

Present == {k \in Keys : objs[k].in}

Without(D) == [k \in Keys |-> IF k \in D THEN Absent ELSE objs[k]]

WithRC(k, rc) == [objs EXCEPT ![k] = [in |-> TRUE, rc |-> rc]]

-----------------------------------------------------------------------------
NoReply == [op |-> "none", key |-> CHOOSE k \in Keys : TRUE, ok |-> FALSE, rc |-> 0]

Answer(op, k, ok, rc) == reply' = [op |-> op, key |-> k, ok |-> ok, rc |-> rc]

Init ==
  /\ objs = [k \in Keys |-> Absent]
  /\ stat = Zero
  /\ saved = NoStat
  /\ phase = IF Drive THEN "none" ELSE "open"
  /\ reply = NoReply

\* A write transaction.  If it cannot be committed, the objects are as they
\* were; stat has been changed.
Update(o, s, op, k, rc) ==
  /\ stat' = s
  /\ \/ objs' = o /\ Answer(op, k, TRUE, rc)
     \/ Drive /\ "commit" \in Events /\ objs' = objs /\ Answer(op, k, FALSE, rc)

\* mutant of Incr: the counter as it was is answered
IncrOld(op, k, inc) ==
  LET rc  == objs[k].rc
      nrc == NewRC(rc, inc)
  IN  Update(WithRC(k, nrc), av(stat, rc, nrc, Vol[k]), op, k, rc)

Incr(op, k, inc) ==
  LET rc  == objs[k].rc
      nrc == NewRC(rc, inc)
  IN  Update(WithRC(k, nrc), av(stat, rc, nrc, Vol[k]), op, k, nrc)

\* Get and Inc; a zero inc only reads
Touch(op, k, inc) ==
  /\ phase = "open"
  /\ \/ objs[k].in /\ inc # 0 /\ Incr(op, k, inc)
     \/ /\ ~objs[k].in \/ inc = 0
        /\ Answer(op, k, objs[k].in, objs[k].rc)
        /\ UNCHANGED <<objs, stat>>
  /\ UNCHANGED <<saved, phase>>

\* on drive a new object gets one reference, whatever inc is
Set(k, inc) ==
  /\ phase = "open"
  /\ \/ objs[k].in /\ Incr("Set", k, inc)
     \/ /\ ~objs[k].in
        /\ LET rc == IF Drive THEN 1 ELSE inc % Width
           IN  Update(WithRC(k, rc), av(addAll(stat, Vol[k]), 0, 1, Vol[k]), "Set", k, rc)
  /\ UNCHANGED <<saved, phase>>

\* Del of the map only changes the counters
Del(k) ==
  /\ phase = "open" /\ DelUsed
  /\ LET D == Present \cap {k}
     IN  Update(IF Drive THEN Without(D) ELSE objs, del(stat, D), "Del", k, 0)
  /\ UNCHANGED <<saved, phase>>

\* IterateDel whose callback has chosen D before the end, or before it failed:
\* a transaction is rolled back, the map stays as it is
IterateDel(D) ==
  /\ phase = "open"
  /\ DelUsed \/ \A k \in D : objs[k].rc = 0
  /\ \/ Update(Without(D), del(stat, D), "IterateDel", NoReply.key, 0)
     \/ /\ "callback" \in Events
        /\ stat' = del(stat, D)
        /\ objs' = IF Drive THEN objs ELSE Without(D)
        /\ Answer("IterateDel", NoReply.key, FALSE, 0)
  /\ UNCHANGED <<saved, phase>>

\* NewDriveCXDS of a new file: the meta bucket, then the stat, each in a
\* transaction of its own; if the second fails the file is removed
Create ==
  /\ phase = "none"
  /\ phase' = "made"
  /\ reply' = NoReply /\ UNCHANGED <<objs, stat, saved>>

SaveZeroes ==
  /\ phase = "made"
  /\ \/ phase' = "open" /\ saved' = Encoded(stat)
     \/ "commit" \in Events /\ phase' = "none" /\ UNCHANGED saved
  /\ reply' = NoReply /\ UNCHANGED <<objs, stat>>

\* NewDriveCXDS of an existing file
Open ==
  /\ phase = "shut" /\ Drive
  /\ \/ saved = NoStat /\ phase' = "broken" /\ UNCHANGED stat
     \/ saved # NoStat /\ phase' = "open" /\ stat' = saved
  /\ reply' = NoReply /\ UNCHANGED <<objs, saved>>

Close ==
  /\ phase = "open" /\ "close" \in Events
  /\ phase' = "shut"
  /\ IF Drive
     THEN /\ saved' = Encoded(stat) \/ ("commit" \in Events /\ UNCHANGED saved)
          /\ UNCHANGED objs
     ELSE objs' = [k \in Keys |-> Absent] /\ UNCHANGED saved
  /\ reply' = NoReply /\ UNCHANGED stat

\* the process dies; what was committed stays
Crash ==
  /\ Drive /\ "crash" \in Events
  /\ phase \in {"made", "open"}
  /\ phase' = "shut"
  /\ stat' = Zero
  /\ reply' = NoReply /\ UNCHANGED <<objs, saved>>

Bounded(o, s) ==
  /\ \A k \in Keys : o[k].rc <= MaxRC
  /\ {s.amountAll, s.amountUsed, s.volumeAll, s.volumeUsed} \subseteq (-MaxStat)..MaxStat

Next ==
  /\ \/ \E k \in Keys, inc \in Incs : Touch("Get", k, inc) \/ Touch("Inc", k, inc)
     \/ \E k \in Keys, inc \in SetIncs : Set(k, inc)
     \/ \E k \in Keys : Del(k)
     \/ \E D \in SUBSET Present : IterateDel(D)
     \/ Create \/ SaveZeroes \/ Open \/ Close \/ Crash
  /\ Bounded(objs', stat')

Spec == Init /\ [][Next]_vars

-----------------------------------------------------------------------------
Stats == [amountAll : Int, amountUsed : Int, volumeAll : Int, volumeUsed : Int]

Reply == [op : {"none", "Get", "Inc", "Set", "Del", "IterateDel"}, key : Keys, ok : BOOLEAN, rc : Nat]

\* The values of the state; a counter keeps the width of a uint32 (incr).
TypeOK ==
  /\ objs \in [Keys -> [in : BOOLEAN, rc : 0..(Width - 1)]]
  /\ stat \in Stats /\ saved \in Stats
  /\ phase \in {"none", "made", "open", "shut", "broken"}
  /\ reply \in Reply

Used == {k \in Keys : objs[k].rc > 0}

\* the counters as they should be
True == Stat(Cardinality(Present), Cardinality(Used), TotalVol(Present), TotalVol(Used))

\* data/cxds.go: Amount and Volume tell the amount and the volume of the objects
StatExact == phase = "open" => stat = True

Drift == Stat(stat.amountAll - True.amountAll, stat.amountUsed - True.amountUsed,
              stat.volumeAll - True.volumeAll, stat.volumeUsed - True.volumeUsed)

\* A call that succeeds leaves the counters exactly as wrong as they were:
\* whatever is wrong comes from a transaction that was rolled back or from
\* opening the file, never from kills, resurrections or wrapped counters.
DriftByFailure == [][phase = "open" /\ phase' = "open" /\ reply'.ok => Drift' = Drift]_vars

\* An object is in use only if it is there.
UsedPresent == Used \subseteq Present

\* the state of CountedStore a store stands for
Store == INSTANCE CountedStore WITH
  Wanters <- {},
  Answered <- {"Get", "Inc", "Set"},
  Failing <- "commit" \in Events,
  Incs <- Incs \cup SetIncs,
  stored <- Present,
  refs <- [k \in Keys |-> objs[k].rc],
  hold <- [k \in Keys |-> 0],
  wants <- [k \in Keys |-> [w \in {} |-> 0]],
  mail <- [w \in {} |-> 0],
  reply <- IF reply.op \in {"Del", "IterateDel"} THEN NoReply ELSE reply

\* Both stores do what CountedStore promises of Get, Set, Inc and of removals, or
\* fail and do nothing; on drive a crash loses and repeats nothing.
Counted == Store!Spec
=============================================================================
