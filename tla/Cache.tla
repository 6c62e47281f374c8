-------------------------------- MODULE Cache --------------------------------
(***************************************************************************)
(* The write-behind cache of a Container (skyobject/cache.go).  Counters   *)
(* of cached objects change in memory only and reach the CXDS when the     *)
(* item leaves the cache.  Fillers subscribe for objects the DB does not   *)
(* have yet (Want), and the references they take are kept apart (fc) until *)
(* the Root they fill is full or has failed (Finc).                        *)
(*                                                                         *)
(* Every exported method runs under Cache.mx, so it is one action.  The    *)
(* CXDS below is modelled by what the cache uses of it: presence and       *)
(* counter of every key.  The value of a key is fixed (the key is its      *)
(* hash), so an item only says whether it keeps the value.                 *)
(***************************************************************************)
EXTENDS Integers, FiniteSets, FiniteSetsExt, Volume

CONSTANTS
  Keys,              \* hashes of objects
  Wanters,           \* the channels (one per call) passed to Want
  Vol,               \* key -> length of its value
  enable,            \* the cache is switched on
  CacheMaxAmount, CacheMaxVolume, CacheMaxItemSize,   \* Config
  amountc, volumec,  \* what cleanDown cleans down to
  MaxObjectSize,     \* Config
  Drive,             \* TRUE: boltdb CXDS, FALSE: CXDS in memory
  DBFails,           \* TRUE: a DB access may return an error
  Incs,              \* inc arguments of Get and Inc
  SetIncs,           \* inc arguments of Set
  LateWants,         \* where the Want of a filler may find an object stored after
                     \* its Get has found nothing: "db", "cache"
  CloseWanted,       \* TRUE: the Container may be closed while fillers wait
  MaxRC              \* bound of the counters

ASSUME KeysAssumption == IsFiniteSet(Keys) /\ Keys # {} /\ IsFiniteSet(Wanters)
ASSUME VolAssumption == Vol \in [Keys -> Nat \ {0}]
\* (*Config).Validate keeps an item under the lower boundary of the cleaning
ASSUME ConfigAssumption ==
  /\ {CacheMaxAmount, CacheMaxVolume, CacheMaxItemSize, amountc, volumec, MaxObjectSize} \subseteq Nat
  /\ enable => CacheMaxAmount > 0 /\ volumec < CacheMaxVolume /\ CacheMaxItemSize <= volumec
  /\ {enable, Drive, DBFails, CloseWanted} \subseteq BOOLEAN
  /\ LateWants \subseteq {"db", "cache"}
ASSUME IncsAssumption == Incs \subseteq Int /\ SetIncs \subseteq Nat \ {0} /\ MaxRC \in Nat

VARIABLES
  item,    \* key -> item, the map Cache.is
  db,      \* key -> presence and counter in the CXDS
  amount,  \* Cache.amount
  volume,  \* Cache.volume
  mail,    \* channel -> the Want it was passed to and what was sent through it
  reply,   \* the answer of Get, Set or Inc, if the last step was one
  phase    \* "open", "closed", "failed" (Close returned an error), "panic"

vars == <<item, db, amount, volume, mail, reply, phase>>

Sat(n) == IF n < 0 THEN 0 ELSE n

NoWants == [w \in {} |-> 0]

NoItem == [in |-> FALSE, val |-> FALSE, fwant |-> NoWants, fc |-> 0, cc |-> 0, rc |-> 0]

\* an item without a value: filling, if some filler holds references
Shell(fc) == [in |-> TRUE, val |-> FALSE, fwant |-> NoWants, fc |-> fc, cc |-> 0, rc |-> 0]

\* mutant of Regular: the counter read from the DB is not remembered
RegularUnread(fc, rc) == [in |-> TRUE, val |-> TRUE, fwant |-> NoWants, fc |-> fc, cc |-> rc, rc |-> 0]

\* an item with its value, just read from the DB
Regular(fc, rc) == [in |-> TRUE, val |-> TRUE, fwant |-> NoWants, fc |-> fc, cc |-> rc, rc |-> rc]

\* a wanted item
Waiting(it, fwant) == [in |-> TRUE, val |-> FALSE, fwant |-> fwant, fc |-> it.fc, cc |-> 0, rc |-> 0]

WithCc(it, n) == [it EXCEPT !.cc = n]

WithFc(it, n) == [it EXCEPT !.fc = n]

Idle == [st |-> "idle", key |-> CHOOSE k \in Keys : TRUE, rc |-> 0]

isWanted(it) == DOMAIN it.fwant # {}

\* the item is there, but its value is not
isFilling(it) == it.in /\ ~isWanted(it) /\ ~it.val

Wincs(it) == Cardinality({w \in DOMAIN it.fwant : it.fwant[w] = 1})

-----------------------------------------------------------------------------
(* The state of the cache and of the DB as one value, and what the internal *)
(* methods make of it.                                                      *)

Now == [item |-> item, db |-> db, amount |-> amount, volume |-> volume]

Becomes(s) == item' = s.item /\ db' = s.db /\ amount' = s.amount /\ volume' = s.volume

Bounded(s) == \A k \in Keys : s.db[k].rc <= MaxRC /\ s.item[k].cc <= MaxRC /\ s.item[k].fc <= MaxRC

WithItem(s, k, it) == [item |-> [s.item EXCEPT ![k] = it], db |-> s.db,
                       amount |-> s.amount, volume |-> s.volume]

WithDb(s, k, d) == [item |-> s.item, db |-> [s.db EXCEPT ![k] = d],
                    amount |-> s.amount, volume |-> s.volume]

\* CXDS.Get and CXDS.Inc of a key that exists
DbInc(s, k, inc) == WithDb(s, k, [in |-> TRUE, rc |-> Sat(s.db[k].rc + inc)])

\* CXDS.Set; on drive a new object starts with one reference whatever inc is
DbSet(s, k, inc) ==
  IF s.db[k].in THEN DbInc(s, k, inc)
                ELSE WithDb(s, k, [in |-> TRUE, rc |-> IF Drive THEN 1 ELSE inc])

TotalVol(K) == VolumeOf(Vol, K)

\* (*Cache).delete of an item that leaves the cache: the DB gets what the
\* counter has gained since it was read; an item some filler uses stays
\* without its value
Left(it) == IF it.fc = 0 THEN NoItem ELSE Shell(it.fc)

\* mutant of Evict: the DB gets the whole counter
EvictWhole(s, E) ==
  [item   |-> [k \in Keys |-> IF k \in E THEN Left(s.item[k]) ELSE s.item[k]],
   db     |-> [k \in Keys |-> IF k \in E
                              THEN [in |-> s.db[k].in, rc |-> s.db[k].rc + s.item[k].cc]
                              ELSE s.db[k]],
   amount |-> s.amount - Cardinality(E),
   volume |-> s.volume - TotalVol(E)]

\* delete for all keys of E
Evict(s, E) ==
  [item   |-> [k \in Keys |-> IF k \in E THEN Left(s.item[k]) ELSE s.item[k]],
   db     |-> [k \in Keys |-> IF k \in E
                              THEN [in |-> s.db[k].in,
                                    rc |-> Sat(s.db[k].rc + (s.item[k].cc - s.item[k].rc))]
                              ELSE s.db[k]],
   amount |-> s.amount - Cardinality(E),
   volume |-> s.volume - TotalVol(E)]

\* the items cleanDown ranks; it gives up if it meets a wanted or a filling one
Rank(s) == IF \A k \in Keys : s.item[k].in => s.item[k].val
           THEN {k \in Keys : s.item[k].in} ELSE {}

\* The sets of items cleanDown(vol) removes.  The rank is sorted by points
\* (seconds of the last access or the number of them), the model allows every
\* order: A goes by amount, the rest of E by volume, until either fits.
Victims(s, vol) ==
  {E \in SUBSET Rank(s) :
     \E A \in SUBSET E :
       LET Over(X) == s.volume - TotalVol(X) + vol > volumec
       IN /\ Cardinality(A) = IF s.amount + 1 > CacheMaxAmount
                              THEN Min({Cardinality(Rank(s)), Sat(s.amount - amountc + 1)})
                              ELSE 0
          /\ IF s.volume - TotalVol(A) + vol < CacheMaxVolume
             THEN E = A
             ELSE /\ E = Rank(s) \/ ~Over(E)
                  /\ E = A \/ \E k \in E \ A : Over(E \ {k})}

\* what the cache may look like after cleanDown; an eviction the DB refuses
\* ends it
CleanDown(s, vol) == {[ok |-> TRUE, s |-> Evict(s, E)] : E \in Victims(s, vol)}

CleanDownFailed(s, vol) ==
  IF ~DBFails THEN {}
  ELSE {[ok |-> FALSE, s |-> Evict(s, E)] : E \in
          {D \in SUBSET Rank(s) : \E F \in Victims(s, vol) :
             \E k \in F \ D : D \subseteq F /\ s.item[k].cc # s.item[k].rc}}

Full(s, k) == s.amount + 1 > CacheMaxAmount \/ s.volume + Vol[k] > CacheMaxVolume

\* mutant of Keep: the amount is not counted
KeepUncounted(s, k) ==
  [item   |-> [s.item EXCEPT ![k] = Regular(s.item[k].fc, s.db[k].rc)],
   db     |-> s.db,
   amount |-> s.amount,
   volume |-> s.volume + Vol[k]]

Keep(s, k) ==
  [item   |-> [s.item EXCEPT ![k] = Regular(s.item[k].fc, s.db[k].rc)],
   db     |-> s.db,
   amount |-> s.amount + 1,
   volume |-> s.volume + Vol[k]]

\* putItem and putFillingItem, after the DB has answered
Put(s, k) ==
  IF ~enable \/ Vol[k] > CacheMaxItemSize \/ s.db[k].rc = 0
  THEN {[ok |-> TRUE, s |-> s]}
  ELSE {[ok |-> r.ok, s |-> IF r.ok THEN Keep(r.s, k) ELSE r.s] :
          r \in IF Full(s, k) THEN CleanDown(s, Vol[k]) \cup CleanDownFailed(s, Vol[k])
                              ELSE {[ok |-> TRUE, s |-> s]}}

\* mutant of TouchItem: an item the DB could not save is marked as saved
TouchItemSynced(s, k, inc) ==
  LET t == WithItem(s, k, WithCc(s.item[k], Sat(s.item[k].cc + inc)))
  IN  IF t.item[k].cc # 0 THEN {t}
      ELSE {Evict(t, {k})} \cup
           IF DBFails THEN {WithItem(t, k, [t.item[k] EXCEPT !.rc = t.item[k].cc])} ELSE {}

\* change cc of a cached item, removing the item with the last reference;
\* an error of the removal is dropped and the item stays with cc = 0
TouchItem(s, k, inc) ==
  LET t == WithItem(s, k, WithCc(s.item[k], Sat(s.item[k].cc + inc)))
  IN  IF t.item[k].cc # 0 THEN {t}
      ELSE {Evict(t, {k})} \cup IF DBFails THEN {t} ELSE {}

-----------------------------------------------------------------------------
NoReply == [op |-> "none", key |-> CHOOSE k \in Keys : TRUE, ok |-> FALSE, rc |-> 0]

Answer(op, k, ok, rc) == reply' = [op |-> op, key |-> k, ok |-> ok, rc |-> rc]

Init ==
  /\ item = [k \in Keys |-> NoItem]
  /\ db = [k \in Keys |-> [in |-> FALSE, rc |-> 0]]
  /\ amount = 0
  /\ volume = 0
  /\ mail = [w \in Wanters |-> Idle]
  /\ reply = NoReply
  /\ phase = "open"

\* an operation on a wanted item, on a missing object, or one the DB refuses
Nothing(op, k) ==
  /\ isWanted(item[k]) \/ (~item[k].val /\ (DBFails \/ ~db[k].in))
  /\ Answer(op, k, FALSE, 0)
  /\ UNCHANGED <<item, db, amount, volume>>

\* a regular item: the counter changes in the cache only
OnItem(op, k, inc) ==
  /\ item[k].val
  /\ \E t \in TouchItem(Now, k, inc) : Becomes(t)
  /\ Answer(op, k, TRUE, Sat(item[k].cc + inc) - item[k].fc)

\* getFilling, incFilling: the item has lost its value, the DB has it
OnFilling(op, k, inc) ==
  /\ isFilling(item[k]) /\ db[k].in
  /\ LET u == DbInc(Now, k, inc)
     IN  \E r \in Put(u, k) : Becomes(r.s) /\ Answer(op, k, r.ok, u.db[k].rc - item[k].fc)

\* get and inc of a key that is not in the cache; inc does not assign its rc
OnDB(op, k, inc) ==
  /\ ~item[k].in /\ db[k].in
  /\ LET u == DbInc(Now, k, inc)
     IN  \E r \in Put(u, k) :
           Becomes(r.s) /\ Answer(op, k, r.ok, IF op = "Get" THEN u.db[k].rc ELSE 0)

Get(k, inc) ==
  /\ Nothing("Get", k) \/ OnItem("Get", k, inc) \/ OnFilling("Get", k, inc) \/ OnDB("Get", k, inc)
  /\ UNCHANGED mail

Inc(k, inc) ==
  /\ Nothing("Inc", k) \/ OnItem("Inc", k, inc) \/ OnFilling("Inc", k, inc) \/ OnDB("Inc", k, inc)
  /\ UNCHANGED mail

\* like Get, but an object that is not in the cache is not put there
getNoCache(k, inc) ==
  /\ \/ Nothing("Get", k)
     \/ OnItem("Get", k, inc)
     \/ OnFilling("Get", k, inc)
     \/ /\ ~item[k].in /\ db[k].in
        /\ Becomes(DbInc(Now, k, inc))
        /\ Answer("Get", k, TRUE, db'[k].rc)
  /\ UNCHANGED mail

TooLarge(k) == Vol[k] > MaxObjectSize

Deliver(k, msg) == [w \in Wanters |-> IF w \in DOMAIN item[k].fwant THEN msg ELSE mail[w]]

\* mutant of Refuse: the item is dropped and nobody is told
RefuseSilently(k) ==
  /\ isWanted(item[k]) /\ TooLarge(k)
  /\ item' = [item EXCEPT ![k] = NoItem]
  /\ UNCHANGED <<db, amount, volume, mail>>

\* setWanted with an object over the limit: the wanters get the error and the
\* item is dropped
Refuse(k) ==
  /\ isWanted(item[k]) /\ TooLarge(k)
  /\ mail' = Deliver(k, [st |-> "err", key |-> k, rc |-> 0])
  /\ item' = [item EXCEPT ![k] = NoItem]
  /\ UNCHANGED <<db, amount, volume>>

\* setWanted: save the object with the incs of all wanters and wake them
Arrive(k, inc, answers) ==
  /\ isWanted(item[k]) /\ ~TooLarge(k)
  /\ LET u    == DbSet(Now, k, inc + Wincs(item[k]))
         hard == u.db[k].rc - (Wincs(item[k]) + item[k].fc)
         v    == WithItem(u, k, Shell(item[k].fc + Wincs(item[k])))
     IN  /\ mail' = Deliver(k, [st |-> "ok", key |-> k, rc |-> hard])
         /\ \E r \in Put(v, k) :
              Becomes(r.s) /\ IF answers THEN Answer("Set", k, r.ok, hard) ELSE reply' = NoReply

\* Set of a key that is not in the cache
OnNew(k, inc) ==
  /\ ~item[k].in /\ ~TooLarge(k)
  /\ LET u == DbSet(Now, k, inc)
     IN  \E r \in Put(u, k) : Becomes(r.s) /\ Answer("Set", k, r.ok, u.db[k].rc)

Set(k, inc) ==
  \/ Refuse(k) /\ Answer("Set", k, FALSE, 0)
  \/ Arrive(k, inc, TRUE)
  \/ /\ \/ OnItem("Set", k, inc)
        \/ OnFilling("Set", k, inc)
        \/ OnNew(k, inc)
        \/ /\ ~item[k].in /\ TooLarge(k)
           /\ Answer("Set", k, FALSE, 0)
           /\ UNCHANGED <<item, db, amount, volume>>
        \/ /\ DBFails /\ ~item[k].val
           /\ Answer("Set", k, FALSE, 0)
           /\ UNCHANGED <<item, db, amount, volume>>
     /\ UNCHANGED mail

\* An object comes from a peer.  If only peers wait for it (their inc is 0),
\* CXDS.Set gets a zero inc and panics.
SetWanted(k) ==
  \/ Refuse(k) /\ reply' = NoReply /\ UNCHANGED phase
  \/ Wincs(item[k]) > 0 /\ Arrive(k, 0, FALSE) /\ UNCHANGED phase
  \/ /\ isWanted(item[k]) /\ ~TooLarge(k) /\ Wincs(item[k]) = 0
     /\ phase' = "panic"
     /\ reply' = NoReply /\ UNCHANGED <<item, db, amount, volume, mail>>

\* Want by a filler (inc = 1) or for a peer (inc = 0) with a channel of its own.
\* A filler calls it after its Get has found nothing.  It drops the error of
\* Want: if the DB fails it waits without being subscribed.
Want(k, w, inc) ==
  /\ mail[w] = Idle
  /\ inc = 0 \/ ~db[k].in \/ (IF item[k].val THEN "cache" ELSE "db") \in LateWants
  /\ \/ /\ isWanted(item[k]) \/ ~db[k].in
        /\ item' = [item EXCEPT ![k] = Waiting(@,
                     [x \in DOMAIN @.fwant \cup {w} |-> IF x = w THEN inc ELSE @.fwant[x]])]
        /\ mail' = [mail EXCEPT ![w] = [st |-> "wait", key |-> k, rc |-> 0]]
        /\ UNCHANGED <<db, amount, volume>>
     \/ /\ ~item[k].val /\ ~isWanted(item[k]) /\ db[k].in
        /\ LET u == DbInc(Now, k, inc)
               v == WithItem(u, k, Shell(item[k].fc))
           IN  /\ mail' = [mail EXCEPT ![w] =
                            [st |-> "ok", key |-> k, rc |-> u.db[k].rc - item[k].fc - inc]]
               /\ \E r \in Put(v, k) : Becomes(WithItem(r.s, k, WithFc(r.s.item[k], r.s.item[k].fc + inc)))
     \/ /\ item[k].val
        /\ item' = [item EXCEPT ![k] = WithFc(@, @.fc + inc)]
        /\ mail' = [mail EXCEPT ![w] = [st |-> "ok", key |-> k, rc |-> item[k].cc - item'[k].fc]]
        /\ UNCHANGED <<db, amount, volume>>
     \/ /\ DBFails /\ ~item[k].val /\ ~isWanted(item[k])
        /\ mail' = [mail EXCEPT ![w] = [st |-> "wait", key |-> k, rc |-> 0]]
        /\ UNCHANGED <<item, db, amount, volume>>
  /\ reply' = NoReply /\ UNCHANGED phase

\* the deferred Unwant of the caller, who has got the object or has given up
Unwant(w) ==
  LET k == mail[w].key
      f == [x \in DOMAIN item[k].fwant \ {w} |-> item[k].fwant[x]]
  IN /\ mail[w] # Idle
     /\ mail' = [mail EXCEPT ![w] = Idle]
     /\ item' = [item EXCEPT ![k] =
                  IF ~isWanted(@) THEN @
                  ELSE IF DOMAIN f = {} /\ @.fc = 0 /\ ~@.val THEN NoItem
                  ELSE Waiting(@, f)]
     /\ reply' = NoReply /\ UNCHANGED <<db, amount, volume, phase>>

\* Finc(k, n): the Root is full
Apply(k, n) ==
  /\ item[k].in /\ n <= item[k].fc
  /\ item' = [item EXCEPT ![k] = IF @.fc = n /\ ~isWanted(@) /\ ~@.val
                                 THEN NoItem ELSE WithFc(@, @.fc - n)]
  /\ reply' = NoReply /\ UNCHANGED <<db, amount, volume, mail, phase>>

\* Finc(k, -n): the filling has failed; a filler panics if the DB does
Reject(k, n) ==
  /\ item[k].in /\ n <= item[k].fc
  /\ LET s == WithItem(Now, k, WithFc(item[k], item[k].fc - n))
     IN  \/ /\ item[k].val
            /\ \E t \in TouchItem(s, k, -n) : Becomes(t)
            /\ UNCHANGED phase
         \/ /\ isFilling(item[k]) /\ db[k].in
            /\ \E r \in Put(DbInc(s, k, -n), k) :
                 Becomes(r.s) /\ phase' = IF r.ok THEN phase ELSE "panic"
         \/ /\ DBFails /\ isFilling(item[k])
            /\ Becomes(s)
            /\ phase' = "panic"
  /\ reply' = NoReply /\ UNCHANGED mail

\* cxoutils.RemoveObjects
RemoveObjects ==
  /\ \E k \in Keys : db[k].in /\ db[k].rc = 0 /\ ~item[k].in
  /\ db' = [k \in Keys |-> IF db[k].rc = 0 /\ ~item[k].in THEN [in |-> FALSE, rc |-> 0] ELSE db[k]]
  /\ reply' = NoReply /\ UNCHANGED <<item, amount, volume, mail, phase>>

\* Close undoes the incs of fillers and saves all items.  A wanted item with
\* incs has nothing in the DB to undo: the error ends Close half way, as any
\* error of the DB does.
Stuck == {k \in Keys : isWanted(item[k]) /\ Wincs(item[k]) > 0}

Settled(it) == it.cc - it.fc - Wincs(it)

\* the item Close could not save
Undone(it) == [in |-> it.in, val |-> it.val, fwant |-> NoWants, fc |-> 0, cc |-> Settled(it), rc |-> it.rc]

Saved(K) ==
  /\ db' = [k \in Keys |->
             IF k \in K /\ db[k].in
             THEN [in |-> TRUE, rc |-> Sat(db[k].rc + (Settled(item[k]) - item[k].rc))]
             ELSE db[k]]
  /\ amount' = amount - Cardinality(K)
  /\ volume' = volume - TotalVol({k \in K : item[k].val})

Close ==
  LET is == {k \in Keys : item[k].in}
  IN /\ \/ /\ Stuck = {}
           /\ phase' = "closed"
           /\ Saved(is)
           /\ item' = [k \in Keys |-> NoItem]
        \/ /\ phase' = "failed"
           /\ \E x \in (IF CloseWanted THEN Stuck ELSE {})
                     \cup (IF DBFails THEN {k \in is : Settled(item[k]) # item[k].rc} ELSE {}) :
                \E K \in SUBSET (is \ (Stuck \cup {x})) :
                  /\ Saved(K)
                  /\ item' = [k \in Keys |->
                       IF k \in K THEN NoItem
                       ELSE IF k = x THEN Undone(item[x]) ELSE item[k]]
     /\ reply' = NoReply /\ UNCHANGED mail

Next ==
  /\ phase = "open"
  /\ \/ \E k \in Keys, inc \in Incs :
          (Get(k, inc) \/ getNoCache(k, inc) \/ Inc(k, inc)) /\ UNCHANGED phase
     \/ \E k \in Keys, inc \in SetIncs : Set(k, inc) /\ UNCHANGED phase
     \/ \E k \in Keys : SetWanted(k)
     \/ \E k \in Keys, w \in Wanters, inc \in {0, 1} : Want(k, w, inc)
     \/ \E w \in Wanters : Unwant(w)
     \/ \E k \in Keys, n \in 1..Cardinality(Wanters) : Apply(k, n) \/ Reject(k, n)
     \/ RemoveObjects
     \/ Close
  /\ Bounded([item |-> item', db |-> db'])

Spec == Init /\ [][Next]_vars

-----------------------------------------------------------------------------
Item == [in : BOOLEAN, val : BOOLEAN, fc : Nat, cc : Int, rc : Nat,
         fwant : UNION {[W -> {0, 1}] : W \in SUBSET Wanters}]

Mail == [st : {"idle", "wait", "ok", "err"}, key : Keys, rc : Int]

Reply == [op : {"none", "Get", "Inc", "Set"}, key : Keys, ok : BOOLEAN, rc : Int]

\* The values of the state: an item has no negative counter but cc, which a
\* failed Close leaves so.  Accounting gives amount and volume.
TypeOK ==
  /\ item \in [Keys -> Item]
  /\ db \in [Keys -> [in : BOOLEAN, rc : Nat]]
  /\ mail \in [Wanters -> Mail]
  /\ reply \in Reply
  /\ phase \in {"open", "closed", "failed", "panic"}

\* what Coherent says of one key
ItemSound(s, k) ==
  LET it == s.item[k]
  IN  /\ it.val => it.in /\ s.db[k].in /\ it.rc = s.db[k].rc /\ ~isWanted(it) /\ it.cc >= 0
      /\ ~it.val => it.cc = 0 /\ it.rc = 0
      /\ isWanted(it) => it.in /\ ~s.db[k].in
      /\ it.fc > 0 => it.in /\ s.db[k].in
      /\ ~s.db[k].in => s.db[k].rc = 0

\* An item that keeps a value remembers exactly the counter the DB has, so
\* that cc - rc is what the DB misses (cache.go:73, the inc of delete); an
\* item without a value has no counters; a wanted object is not in the DB and
\* nobody fills it; what fillers hold is in the DB.
Coherent == phase = "open" => \A k \in Keys : ItemSound(Now, k)

\* Cache.amount and Cache.volume count the items with a value and nothing
\* else, through evictions, rejects and failed cleanings: cleanDown trusts them.
Accounting ==
  phase = "open" =>
    LET C == {k \in Keys : item[k].val}
    IN  amount = Cardinality(C) /\ volume = TotalVol(C)

\* Nobody waits on a channel the cache has forgotten: a Want that was not
\* answered is registered in the item of its key, so the arrival of the object
\* wakes it.
NoLostWakeup ==
  phase = "open" => \A w \in Wanters :
    (mail[w].st = "wait") <=> \E k \in Keys : mail[w].key = k /\ w \in DOMAIN item[k].fwant

\* References of a key as its users see them, wherever they are kept
Refs(k) == IF item[k].val THEN item[k].cc ELSE db[k].rc

\* the state of CountedStore a state of the cache stands for
Store == INSTANCE CountedStore WITH
  Answered <- {"Get", "Set"},
  Failing <- DBFails,
  DelUsed <- FALSE,
  stored <- {k \in Keys : db[k].in},
  refs <- [k \in Keys |-> Refs(k)],
  hold <- [k \in Keys |-> item[k].fc],
  wants <- [k \in Keys |-> item[k].fwant],
  Incs <- Incs \cup SetIncs

\* Caching is invisible: every operation (Get, Set, Inc, Want, Finc...), with
\* all the evictions it causes, does to the counters what CountedStore says and
\* answers the hard count.
Transparent == Store!Spec
=============================================================================
