----------------------------- MODULE StoreLocks -----------------------------
(***************************************************************************)
(* The locks between the Cache and the CXDS below it: Cache.mx, the write  *)
(* lock of a boltdb file or the mutex of the map, and the mutex of the     *)
(* counters of a store on drive.  A call is the sequence of locks it takes *)
(* and releases; what it does under them is modelled in Cache and CXDS.    *)
(***************************************************************************)
EXTENDS Naturals, Sequences

CONSTANTS
  Threads,   \* goroutines
  Job,       \* goroutine -> the call it makes, again and again
  Drive      \* TRUE: driveCXDS, FALSE: memoryCXDS

Jobs == {"cache", "stat", "close", "cleanup"}

ASSUME JobAssumption == Job \in [Threads -> Jobs] /\ Drive \in BOOLEAN

VARIABLES pc,      \* goroutine -> the next step of its call, 1 if it makes none
          owner,   \* lock -> who has it
          opened   \* bolt.DB.opened

vars == <<pc, owner, opened>>

Cmx == "Cache.mx"
Rw  == "CXDS"        \* bolt.DB.rwlock or memoryCXDS.mx
Dmx == "driveCXDS.mx"

Locks == {Cmx, Rw, Dmx}

Nobody == "nobody"

Lock(l) == [do |-> "lock", lock |-> l, skip |-> 1]
Unlock(l) == [do |-> "unlock", lock |-> l, skip |-> 1]

\* steps that only some calls take
Skip(n) == <<[do |-> "maybe", lock |-> Nobody, skip |-> n]>>
Maybe(steps) == Skip(Len(steps) + 1) \o steps

Under(l, steps) == <<Lock(l)>> \o steps \o <<Unlock(l)>>

\* av, del, addAll; the counters of the map need no lock of their own
Count == IF Drive THEN Under(Dmx, <<>>) ELSE <<>>

\* Begin of a write transaction, or a method of the map: bolt skips the
\* transaction if the DB is closed
Transaction(body) ==
  <<[do |-> "begin", lock |-> Rw, skip |-> Len(body) + 2]>> \o body \o <<Unlock(Rw)>>

Write == Transaction(Count)

\* Amount and Volume
Amount == IF Drive THEN Under(Dmx, <<>>) ELSE Under(Rw, <<>>)

\* CXDS.Close; saveStat begins its transaction with the counters locked
CloseCXDS == (IF Drive THEN Under(Dmx, Transaction(<<>>)) ELSE <<>>)
               \o <<[do |-> "close", lock |-> Rw, skip |-> 1]>>

\* Set, Inc, Get, Want, Finc...
CacheCall == Under(Cmx, Write)

\* Container.Stat
StatCall == Under(Cmx, <<>>) \o Amount \o Amount

\* Container.Close: Cache.Close writes the items whose counter differs from that
\* of the DB, if there are such, returns if that fails, and closes the CXDS; the
\* DB closes it once more
CloseCall ==
  Under(Cmx, Maybe(Write \o Skip(Len(CloseCXDS) + 1)) \o CloseCXDS) \o CloseCXDS

\* cxoutils.RemoveObjects: IterateDel calls IsCached for what nobody refers to,
\* and deletes and counts what is not cached
RemoveObjects == Transaction(Maybe(Under(Cmx, <<>>) \o Maybe(Count)))

Code(t) == CASE Job[t] = "cache" -> CacheCall
             [] Job[t] = "stat" -> StatCall
             [] Job[t] = "close" -> CloseCall
             [] Job[t] = "cleanup" -> RemoveObjects

-----------------------------------------------------------------------------
Init ==
  /\ pc = [t \in Threads |-> 1]
  /\ owner = [l \in Locks |-> Nobody]
  /\ opened = TRUE

At(t, do) == Code(t) # <<>> /\ Code(t)[pc[t]].do = do

LockOf(t) == Code(t)[pc[t]].lock

\* a call that has returned may be made again
Advance(t, n) == pc' = [pc EXCEPT ![t] = IF @ + n > Len(Code(t)) THEN 1 ELSE @ + n]

Acquire(t) ==
  /\ At(t, "lock") \/ (At(t, "begin") /\ opened)
  /\ owner[LockOf(t)] = Nobody
  /\ owner' = [owner EXCEPT ![LockOf(t)] = t]
  /\ Advance(t, 1)
  /\ UNCHANGED opened

\* mutant of Refused: a transaction that does not begin is tried again
RefusedAgain(t) ==
  /\ At(t, "begin") /\ ~opened /\ owner[Rw] = Nobody
  /\ UNCHANGED <<pc, owner, opened>>

\* the transaction does not begin
Refused(t) ==
  /\ At(t, "begin") /\ ~opened /\ owner[Rw] = Nobody
  /\ Advance(t, Code(t)[pc[t]].skip)
  /\ UNCHANGED <<owner, opened>>

Release(t) ==
  /\ At(t, "unlock")
  /\ owner' = [owner EXCEPT ![LockOf(t)] = Nobody]
  /\ Advance(t, 1)
  /\ UNCHANGED opened

Choose(t) ==
  /\ At(t, "maybe")
  /\ Advance(t, 1) \/ Advance(t, Code(t)[pc[t]].skip)
  /\ UNCHANGED <<owner, opened>>

\* bolt.DB.Close waits for the running transaction
CloseDB(t) ==
  /\ At(t, "close") /\ owner[Rw] = Nobody
  /\ opened' = FALSE
  /\ Advance(t, 1)
  /\ UNCHANGED owner

Step(t) == Acquire(t) \/ Refused(t) \/ Release(t) \/ Choose(t) \/ CloseDB(t)

Next == \E t \in Threads : Step(t)

\* A mutex of Go hands itself over to whoever has waited too long, so a lock
\* that becomes free again and again is got; and a goroutine that holds a lock
\* goes on.  Nobody has to begin a new call.
Busy(t) == pc[t] # 1

Fairness == \A t \in Threads : SF_vars(Busy(t) /\ Step(t))

Spec == Init /\ [][Next]_vars /\ Fairness

-----------------------------------------------------------------------------
Waits(t, l) == Code(t)[pc[t]].do \in {"lock", "begin", "close"} /\ LockOf(t) = l

\* The DB is taken before the lock l by t, and after it by u.
CrossedOn(l, t, u) ==
  /\ owner[Rw] = t /\ Waits(t, l)
  /\ owner[l] = u /\ Waits(u, Rw) /\ opened

\* The deadlocks of the code.  RemoveObjects has the DB and waits for the Cache,
\* whose user waits for the DB.  Or it has asked the Cache and waits for the
\* counters of a closing CXDS, which waits for the DB: Cache.Close had nothing
\* to write.  After a Cache.Close that failed the DB closes the CXDS without
\* Cache.mx, and every writer may cross it.
Crossed ==
  \E t, u \in Threads :
    \/ Job[t] = "cleanup" /\ CrossedOn(Cmx, t, u)
    \/ Job[t] = "cleanup" /\ Job[u] = "close" /\ CrossedOn(Dmx, t, u)
    \/ Job[u] = "close" /\ owner[Cmx] # u /\ CrossedOn(Dmx, t, u)

\* Every call on the Container returns, whoever else uses it, unless two goroutines
\* cross in one of these ways: no other order of the three locks blocks anybody.
Returns == \A t \in Threads : Busy(t) ~> (~Busy(t) \/ Crossed)
=============================================================================
