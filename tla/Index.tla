-------------------------------- MODULE Index --------------------------------
(***************************************************************************)
(* The Index of a Container (skyobject/index.go): in memory, the last Root *)
(* of every head of every feed and the active head of every feed; on       *)
(* drive, the IdxDB (data/idxdb) with all Roots.  Beside them, the         *)
(* reference counters the values of Roots have in the CXDS, since Save and *)
(* the deletions change the Index first and the CXDS after it, without the *)
(* lock.                                                                   *)
(*                                                                         *)
(* What runs under Index.mx is one action; a transaction of the IdxDB is   *)
(* atomic, and the Index changes only after its commit, so a failed one    *)
(* changes nothing.  A Root is known by its hash, that is by feed, head,   *)
(* seq and time together: two Roots of the same seq are a fork.            *)
(***************************************************************************)
EXTENDS Integers, FiniteSets

CONSTANTS
  Feeds,     \* public keys
  Nonces,    \* nonces of heads, not zero
  Own,       \* the nonces this node saves Roots for
  Offers,    \* Roots that come from peers
  Users,     \* goroutines that save and delete
  Calls,     \* what may happen: "AddHead", "DelHead", "DelRoot", "DelFeed", "crash",
             \* "old" (a Root comes after one with a greater seq)
  MaxSeq, MaxTime, MaxRC   \* bounds

Roots == [feed : Feeds, nonce : Nonces, seq : 0..MaxSeq, time : 1..MaxTime]

ASSUME NoncesAssumption == Nonces \subseteq Nat \ {0} /\ Own \subseteq Nonces
ASSUME OffersAssumption == Offers \subseteq Roots
ASSUME FiniteAssumption == IsFiniteSet(Feeds) /\ IsFiniteSet(Nonces) /\ IsFiniteSet(Users)
ASSUME BoundsAssumption == MaxSeq \in Nat /\ MaxTime \in Nat /\ MaxRC \in Nat
ASSUME CallsAssumption ==
  Calls \subseteq {"AddHead", "DelHead", "DelRoot", "DelFeed", "crash", "old"}

Heads == Feeds \X Nonces

VARIABLES
  feeds,     \* keys of Index.feeds
  heads,     \* keys of the maps h of all feeds
  last,      \* head -> its last Root, {} if there is none (nil)
  activen, activet,   \* feed -> active head and its time
  feedsl,    \* Index.feedsl, the list Feeds returns
  dbfeeds, dbheads, roots,   \* the IdxDB
  rc,        \* Root -> references of its value in the CXDS
  job,       \* goroutine -> what it still has to do in the CXDS
  now,       \* the clock
  phase      \* "open" or "panic"

index == <<feeds, heads, last, activen, activet, feedsl>>
idxdb == <<dbfeeds, dbheads, roots>>
vars == <<index, idxdb, rc, job, now, phase>>

HeadOf(r) == <<r.feed, r.nonce>>

\* the bucket of a head
Of(h) == {r \in roots : HeadOf(r) = h}

\* mutant of LastOf: Ascend instead of Descend
LastOfFirst(R) == {r \in R : \A x \in R : r.seq <= x.seq}

\* what Descend finds first
LastOf(R) == {r \in R : \A x \in R : x.seq <= r.seq}

\* findRoot: the last Root of the Index, then the IdxDB
Found(h, seq) == h \in heads /\ last[h] # {} /\ \E r \in last[h] \cup Of(h) : r.seq = seq

\* newIndexHeads: a feed without heads
Blank(pk) ==
  /\ heads' = {h \in heads : h[1] # pk}
  /\ last' = [h \in Heads |-> IF h[1] = pk THEN {} ELSE last[h]]
  /\ activen' = [activen EXCEPT ![pk] = 0]
  /\ activet' = [activet EXCEPT ![pk] = 0]

\* times of the last Roots l of a feed
Times(pk, l) == {r.time : r \in UNION {l[h] : h \in {x \in Heads : x[1] = pk}}}

Newest(T) == IF T = {} THEN 0 ELSE CHOOSE t \in T : \A x \in T : x <= t

\* the heads of a feed whose last Root has the time t, 0 for none
At(pk, l, t) == IF t = 0 THEN {0} ELSE {n \in Nonces : \E r \in l[<<pk, n>>] : r.time = t}

Idle == [op |-> "idle", rs |-> {}]

-----------------------------------------------------------------------------
Init ==
  /\ feeds = {} /\ heads = {}
  /\ last = [h \in Heads |-> {}]
  /\ activen = [pk \in Feeds |-> 0]
  /\ activet = [pk \in Feeds |-> 0]
  /\ feedsl = {}
  /\ dbfeeds = {} /\ dbheads = {} /\ roots = {}
  /\ rc = [r \in Roots |-> 0]
  /\ job = [u \in Users |-> Idle]
  /\ now = 0
  /\ phase = "open"

AddFeed(pk) ==
  /\ pk \notin feeds
  /\ dbfeeds' = dbfeeds \cup {pk}
  /\ feeds' = feeds \cup {pk}
  /\ feedsl' = {}
  /\ Blank(pk)
  /\ UNCHANGED <<dbheads, roots, rc, job, now, phase>>

\* mutant of Replace: only a newer Root becomes the last
ReplaceNewer(r) ==
  /\ heads' = heads \cup {HeadOf(r)}
  /\ IF activet[r.feed] < r.time
     THEN /\ last' = [last EXCEPT ![HeadOf(r)] = {r}]
          /\ activet' = [activet EXCEPT ![r.feed] = r.time]
          /\ activen' = [activen EXCEPT ![r.feed] = r.nonce]
     ELSE UNCHANGED <<last, activen, activet>>
  /\ UNCHANGED <<feeds, feedsl>>

\* mutant of Replace: every Root makes its head active
ReplaceActive(r) ==
  /\ heads' = heads \cup {HeadOf(r)}
  /\ last' = [last EXCEPT ![HeadOf(r)] = {r}]
  /\ activet' = [activet EXCEPT ![r.feed] = r.time]
  /\ activen' = [activen EXCEPT ![r.feed] = r.nonce]
  /\ UNCHANGED <<feeds, feedsl>>

\* addRoot and addSavedRoot after the transaction: the Root becomes the last
Replace(r) ==
  /\ heads' = heads \cup {HeadOf(r)}
  /\ last' = [last EXCEPT ![HeadOf(r)] = {r}]
  /\ IF activet[r.feed] < r.time
     THEN /\ activet' = [activet EXCEPT ![r.feed] = r.time]
          /\ activen' = [activen EXCEPT ![r.feed] = r.nonce]
     ELSE UNCHANGED <<activen, activet>>
  /\ UNCHANGED <<feeds, feedsl>>

\* AddRoot of a full Root, whose value the Filler has saved in the CXDS before.
\* addRoot means to keep an old Root out of the Index, but compares it with the
\* Root findRoot has not found.  Set does not replace a Root of the same seq.
\* A node drops a Root that is not newer than the last (handleRoot); while it
\* is filled, Save may have made it old.
AddRoot(r) ==
  /\ r.feed \in feeds
  /\ "old" \in Calls \/ \A x \in last[HeadOf(r)] : x.seq < r.seq
  /\ rc[r] < MaxRC
  /\ rc' = [rc EXCEPT ![r] = @ + 1]
  /\ \/ Found(HeadOf(r), r.seq) /\ UNCHANGED <<index, idxdb>>
     \/ /\ ~Found(HeadOf(r), r.seq) /\ r.feed \in dbfeeds
        /\ dbheads' = dbheads \cup {HeadOf(r)}
        /\ roots' = IF \E x \in Of(HeadOf(r)) : x.seq = r.seq THEN roots ELSE roots \cup {r}
        /\ Replace(r)
        /\ UNCHANGED dbfeeds
  /\ UNCHANGED <<job, now, phase>>

\* Save, up to the commit of saveRoot.  The seq of the first Root of a head is
\* the one the given Root has.
SaveRoot(u, h) ==
  LET R == Of(h)
  IN /\ job[u] = Idle
     /\ h[1] \in feeds \cap dbfeeds /\ h[2] \in Own
     /\ now < MaxTime /\ now' = now + 1
     /\ \E seq \in 0..MaxSeq :
          LET r == [feed |-> h[1], nonce |-> h[2], seq |-> seq, time |-> now']
          IN /\ R = {} \/ \E x \in LastOf(R) : seq = x.seq + 1
             /\ dbheads' = dbheads \cup {h}
             /\ roots' = roots \cup {r}
             /\ Replace(r)
             /\ job' = [job EXCEPT ![u] = [op |-> "save", rs |-> {r}]]
     /\ UNCHANGED <<dbfeeds, rc, phase>>

\* the rest of Save: the value of the Root
SaveValue(u) ==
  /\ job[u].op = "save"
  /\ \E r \in job[u].rs : rc[r] < MaxRC /\ rc' = [rc EXCEPT ![r] = @ + 1]
  /\ job' = [job EXCEPT ![u] = Idle]
  /\ UNCHANGED <<index, idxdb, now, phase>>

\* what a deletion still has to do
ToDelete(u, R) ==
  /\ job[u] = Idle
  /\ job' = [job EXCEPT ![u] = IF R = {} THEN Idle ELSE [op |-> "del", rs |-> R]]

\* delRootRelatedValues of one Root: if the value is not there, the error ends
\* the whole call
DelValue(u) ==
  /\ job[u].op = "del"
  /\ \E r \in job[u].rs :
       IF rc[r] = 0
       THEN job' = [job EXCEPT ![u] = Idle] /\ UNCHANGED rc
       ELSE /\ rc' = [rc EXCEPT ![r] = @ - 1]
            /\ job' = [job EXCEPT ![u] = IF @.rs = {r} THEN Idle
                                         ELSE [op |-> "del", rs |-> @.rs \ {r}]]
  /\ UNCHANGED <<index, idxdb, now, phase>>

\* mutant of DelFeed: the list of feeds is not reset
DelFeedListed(u, pk) ==
  /\ "DelFeed" \in Calls
  /\ pk \in feeds
  /\ ToDelete(u, {r \in roots : r.feed = pk /\ HeadOf(r) \in heads})
  /\ dbfeeds' = dbfeeds \ {pk}
  /\ dbheads' = {h \in dbheads : h[1] # pk}
  /\ roots' = {r \in roots : r.feed # pk}
  /\ feeds' = feeds \ {pk}
  /\ Blank(pk)
  /\ UNCHANGED <<feedsl, rc, now, phase>>

\* delFeed knows the Roots of the heads of the Index only
DelFeed(u, pk) ==
  /\ "DelFeed" \in Calls
  /\ pk \in feeds
  /\ ToDelete(u, {r \in roots : r.feed = pk /\ HeadOf(r) \in heads})
  /\ dbfeeds' = dbfeeds \ {pk}
  /\ dbheads' = {h \in dbheads : h[1] # pk}
  /\ roots' = {r \in roots : r.feed # pk}
  /\ feeds' = feeds \ {pk}
  /\ feedsl' = {}
  /\ Blank(pk)
  /\ UNCHANGED <<rc, now, phase>>

\* mutant of DelHead: the head stays in the Index
DelHeadInDB(u, h) ==
  /\ "DelHead" \in Calls
  /\ h \in heads
  /\ ToDelete(u, Of(h))
  /\ dbheads' = dbheads \ {h}
  /\ roots' = roots \ Of(h)
  /\ UNCHANGED <<index, dbfeeds, rc, now, phase>>

\* the active head stays, even if it is the deleted one
DelHead(u, h) ==
  /\ "DelHead" \in Calls
  /\ h \in heads
  /\ ToDelete(u, Of(h))
  /\ dbheads' = dbheads \ {h}
  /\ roots' = roots \ Of(h)
  /\ heads' = heads \ {h}
  /\ last' = [last EXCEPT ![h] = {}]
  /\ UNCHANGED <<feeds, activen, activet, feedsl, dbfeeds, rc, now, phase>>

\* mutant of DelRoot: a Root that is not the last stays in the IdxDB
DelRootIndex(u, h, r) ==
  /\ "DelRoot" \in Calls
  /\ h \in heads /\ r \in Of(h)
  /\ \A x \in last[h] : x.seq # r.seq
  /\ ToDelete(u, {r})
  /\ UNCHANGED <<index, idxdb, rc, now, phase>>

\* delRoot compares the time of the active head with the Root that is last now,
\* or with the deleted one if nothing is left.  setActive reads the last Root
\* of every head of the feed and panics on a blank one; what the process does
\* before it dies of that is left out.
DelRoot(u, h, r) ==
  LET isLast == \E x \in last[h] : x.seq = r.seq
      rest == LastOf(Of(h) \ {r})
      ir == IF ~isLast THEN last[h] ELSE IF rest = {} THEN last[h] ELSE rest
      l == IF isLast THEN [last EXCEPT ![h] = rest] ELSE last
      compares == \E x \in ir : x.time = activet[h[1]]
      panics == last[h] = {} \/ (compares /\ \E x \in heads : x[1] = h[1] /\ l[x] = {})
  IN /\ "DelRoot" \in Calls
     /\ h \in heads /\ r \in Of(h)
     /\ ToDelete(u, {r})
     /\ roots' = roots \ {r}
     /\ last' = l
     /\ phase' = IF panics THEN "panic" ELSE phase
     /\ IF compares /\ ~panics
        THEN LET t == Newest(Times(h[1], l))
             IN  \E n \in At(h[1], l, t) :
                   /\ activet' = [activet EXCEPT ![h[1]] = t]
                   /\ activen' = [activen EXCEPT ![h[1]] = n]
        ELSE UNCHANGED <<activen, activet>>
     /\ UNCHANGED <<feeds, heads, feedsl, dbfeeds, dbheads, rc, now>>

\* AddHead creates the head in the IdxDB and an Index of the feed without heads
AddHead(h) ==
  /\ "AddHead" \in Calls
  /\ h[1] \in feeds \cap dbfeeds /\ h \notin heads
  /\ dbheads' = dbheads \cup {h}
  /\ Blank(h[1])
  /\ UNCHANGED <<feeds, feedsl, dbfeeds, roots, rc, job, now, phase>>

\* Feeds: the list is built once until feeds are added or removed
ListFeeds ==
  /\ feedsl' = IF Cardinality(feedsl) # Cardinality(feeds) THEN feedsl \cup feeds ELSE feedsl
  /\ UNCHANGED <<feeds, heads, last, activen, activet, idxdb, rc, job, now, phase>>

\* LastRoot does not look at the error of rootByHash and panics without a value
LastRoot(h) ==
  /\ h \in heads /\ \E r \in last[h] : rc[r] = 0
  /\ phase' = "panic"
  /\ UNCHANGED <<index, idxdb, rc, job, now>>

\* Close, or a crash, and load
Load ==
  /\ "crash" \in Calls \/ \A u \in Users : job[u] = Idle
  /\ feeds' = dbfeeds
  /\ heads' = dbheads
  /\ last' = [h \in Heads |-> LastOf(Of(h))]
  /\ feedsl' = {}
  /\ activet' = [pk \in Feeds |-> Newest(Times(pk, last'))]
  /\ activen' = [pk \in Feeds |->
                  CHOOSE n \in At(pk, last', activet'[pk]) : \A x \in At(pk, last', activet'[pk]) : n <= x]
  /\ job' = [u \in Users |-> Idle]
  /\ UNCHANGED <<idxdb, rc, now, phase>>

Next ==
  /\ phase = "open"
  /\ \/ \E pk \in Feeds : AddFeed(pk)
     \/ \E r \in Offers : AddRoot(r)
     \/ \E u \in Users, h \in Heads : SaveRoot(u, h) \/ DelHead(u, h)
     \/ \E u \in Users : SaveValue(u) \/ DelValue(u)
     \/ \E u \in Users, pk \in Feeds : DelFeed(u, pk)
     \/ \E u \in Users, h \in Heads : \E r \in Of(h) : DelRoot(u, h, r)
     \/ \E h \in Heads : AddHead(h) \/ LastRoot(h)
     \/ ListFeeds
     \/ Load

Spec == Init /\ [][Next]_vars

-----------------------------------------------------------------------------
\* The values of the state: only known feeds, heads and Roots, and no counter of
\* a value below zero (delRootRelatedValues).
TypeOK ==
  /\ feeds \subseteq Feeds /\ dbfeeds \subseteq Feeds /\ feedsl \subseteq Feeds
  /\ heads \subseteq Heads /\ dbheads \subseteq Heads
  /\ last \in [Heads -> SUBSET Roots]
  /\ activen \in [Feeds -> Nat] /\ activet \in [Feeds -> Nat]
  /\ roots \subseteq Roots
  /\ rc \in [Roots -> Nat]
  /\ job \in [Users -> [op : {"idle", "save", "del"}, rs : SUBSET Roots]]
  /\ now \in 0..MaxTime
  /\ phase \in {"open", "panic"}

\* one head in memory and on drive
Agrees(h) ==
  /\ h \in heads => (last[h] = {} <=> Of(h) = {})
  /\ h \notin heads => last[h] = {}
  /\ \A x \in last[h] : \E y \in Of(h) : y.seq = x.seq

\* The Index does not promise what the IdxDB does not have, up to a panic: the same
\* feeds, no other heads, a head of the Index is blank exactly when its bucket is
\* (index.go:811, by which delRoot reads ir.Seq), and the seq LastRootSeq
\* answers is one the IdxDB lists.
HeadsAgree ==
  phase = "open" =>
    /\ feeds = dbfeeds
    /\ heads \subseteq dbheads
    /\ \A r \in roots : HeadOf(r) \in dbheads
    /\ \A h \in Heads : Agrees(h)

Doing(op, r) == {u \in Users : job[u].op = op /\ r \in job[u].rs}

Listed(r) == IF r \in roots THEN 1 ELSE 0

\* A Root the IdxDB lists has its value, or Save is about to give it one, and
\* there is a reference more for every deletion under way: no deletion takes
\* the value from a Root that has come back in the meantime.
Kept ==
  \A r \in Roots :
    rc[r] + Cardinality(Doing("save", r)) >= Cardinality(Doing("del", r)) + Listed(r)

\* Feeds returns the feeds there are, whatever was added or removed since the
\* list was built
FeedsList == feedsl \in {{}, feeds}

\* The Index is what load would make of the IdxDB: every head, with the Root of
\* the greatest seq as the last (index.go:511)
LoadAgrees ==
  phase = "open" => heads = dbheads /\ \A h \in Heads : last[h] = LastOf(Of(h))

\* ActiveHead is the head with the newest of the last Roots (index.go:457)
ActiveNewest ==
  phase = "open" => \A pk \in feeds : activen[pk] \in At(pk, last, Newest(Times(pk, last)))
=============================================================================
