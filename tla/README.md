# CXO in TLA+

A verification project for CXO, an object system that shares trees of immutable,
reference-counted objects between nodes. Every object is known by the hash of its
value. A *feed* (a public key) has *heads*, a head is a sequence of signed *Root*
objects, and a Root is the top of a tree. A node saves its own Roots, receives Roots
from peers, *fills* them (asks peers for every object of the tree it does not have)
and publishes them when they are full.

## The system

| Part | State | Operations | Talks to |
|---|---|---|---|
| `data/cxds` (CXDS) | key -> value and `rc`; counters of all and of used objects | Get, Set, Inc, Del, Iterate, IterateDel, Amount, Volume, Close | boltdb or a map |
| `skyobject/cache.go` (Cache) | `is`: key -> item (`val`, `cc`, `rc`, `fc`, `fwant`), `amount`, `volume`; cached Registries | Get, Set, Inc, Want, Unwant, SetWanted, Finc, Registry, Close | CXDS; fillers through channels |
| `data/idxdb` (IdxDB) | feeds, heads, Roots | transactions over them | boltdb |
| `skyobject/index.go` (Index) | last Root of every head, active head of every feed, list of feeds | AddFeed, AddHead, AddRoot, DelFeed, DelHead, DelRoot, LastRoot, Feeds, load | IdxDB, Cache |
| `skyobject/unpack.go` | objects created since the last Save | Save, Set, Add | Index, Cache |
| `skyobject/fill.go` (Filler) | references taken for one Root, a limit of goroutines | Fill, Get, Fail, Close | Cache (Want, Finc), a head of the node |
| `skyobject/container.go` | the configuration, the DB | NewContainer, Close, Walk, recount of references | all of the above |
| `skyobject/registry` | schemas; the tree `Refs` | walking, splitting, modifying trees | a Pack over the Cache |
| `node/head.go`, `feed.go`, `feeds.go` | per head: the Root being filled, requests, who knows which Root | received Root, request, failure, result, add and remove connections | Filler, connections |
| `node/conn.go`, `handshake.go` | requests waiting for a response, subscriptions | request, response, Subscribe, Close | transports, feeds |
| `node/node.go` | pending and established connections by peer | connect, accept, Share, DontShare, Close | everything |
| `node/swarm.go` | known peers, retry counters | add, exchange, connect | node |

Hard behaviours:

- Cache: counters are written behind, only when an item leaves the cache; fillers
  subscribe for objects that are not there and take references that are not
  definite yet. A wrong counter shows long after the call that caused it.
- CXDS: in-memory counters beside transactions; crash; `uint32`.
- Locks: Cache.mx, boltdb's write lock, the mutex of the counters, Index.mx.
- Index: two stores (IdxDB and CXDS) without a common transaction, and deletions
  and Save that work on the second one after unlocking the first.
- Filler and node: goroutines, bounded channels, late results, timeouts, retries.
- Subscriptions: requests and pushes cross on one connection and meet in two goroutines.
- Connections: Connect, acceptConn, handshakes, Close and the swarm race for three maps
  and one mutex.
- Refs: a tree that is loaded, changed and saved in parts.

What makes each part correct: the cache is invisible and never loses a wakeup; the
CXDS counts; nobody waits for ever; memory and drive of the Index agree and a listed
Root has its value; a filling ends, and takes or gives back exactly the references
it took; a node closes, and requests are answered once. PROJECT.json lists the
hazards line by line.

## Modules

| Module | Models |
|---|---|
| `CountedStore` | abstract: what a store of counted objects promises its users and its fillers |
| `Volume` | the volume of a set of objects |
| `Cache` | `skyobject/cache.go` without Registries, and `cxoutils.RemoveObjects`; implements `CountedStore` |
| `CXDS` | `data/cxds`, both stores; implements `CountedStore` |
| `StoreLocks` | the order in which calls take the locks of Cache and CXDS |
| `Index` | `skyobject/index.go`, `Save` of `unpack.go`, and the IdxDB |
| `Refs` | `registry/refs.go`, `refs_node.go`, `refs_index.go`, `refs_walk.go`: the tree of references |
| `Fill` | `skyobject/fill.go` with `registry/split.go` and `split_refs.go`: fillings that share objects |
| `Head` | `node/head.go` with its part of `feeds.go` and `feed.go`: who is asked for what |
| `Subs` | `node/feeds.go`, `feed.go` and the requests of `node/conn.go`: two nodes that subscribe |
| `Conns` | `node/node.go`, `transports.go`, `handshake.go` and the life of a connection in `conn.go` |
| `Swarm` | `node/swarm.go`; extends `Conns` and shares its lock, maps and goroutines |
| `MC...` | instances for TLC |
| `...Proofs` | theorems, and the lemmas they rest on |

**Cache.** A call of an exported method holds `Cache.mx` from begin to end, so it is
one action, together with the evictions it causes. `item` is the map `is`; an item
that is not there is `NoItem`. A *regular* item has its value (`val`); a *filling*
one has lost it but some filler holds references (`fc`); a *wanted* one waits for
its object (`fwant`, channel -> inc). `cc` is the counter as the cache knows it and
`rc` as the DB has it. `mail[w]` is the channel a caller passed to Want. `reply` is
the answer of the last Get, Set or Inc. `LateWants` says whether the object a
filler wants may have been stored between its Get and its Want (and whether it is
then in the cache or in the DB only): the one race between two calls that a Filler
leaves open. Which items cleanDown picks is any set its two loops (by amount, by
volume) can reach with some order of the items, so that LRU and LFU are both
covered. With `DBFails` any call of the DB may fail: the handlers return or, in
fillers, the process dies (`phase = "panic"`).

**CXDS.** `objs` is the bucket or the map, `stat` the four counters in memory,
`saved` those in the file. A write transaction is one action that is committed or
fails as a whole, except for `stat`. `Create` and `SaveZeroes` are the two
transactions that make a new file; `Crash` may fall between them. `Width` stands
for 2^32.

**StoreLocks.** A call is a sequence of lock, unlock, begin (of a transaction,
which boltdb refuses on a closed file) and close. Steps that only some calls take are
behind a `Maybe`: a Close with nothing to write goes straight to the counters, and
`RemoveObjects` counts what it deletes without `Cache.mx`. What happens under the
locks is in `Cache` and `CXDS`.

**Index.** What runs under `Index.mx` is one action, the transaction of the IdxDB
included. Save and the deletions go on in the CXDS after they have unlocked: `job[u]`
is what goroutine `u` still has to do there, and `rc[r]` the references the value of
the Root `r` has. A Root is a record of feed, nonce, seq and time, which stand for
its hash; two Roots of one seq are a fork. `Calls` switches operations on. A process
that dies of a nil dereference is in `phase = "panic"` and takes no further step.

**Refs.** The hash of a node is the record it is the hash of, so a hash stands for
all that is below it and equal contents have equal hashes. A node has `kids`,
elements or nodes by its depth, `loaded` and `content` (`contentMod` of the code).
`r` is the Refs; `list` is what it should hold, kept beside it. Calls are sequential;
`Load` forgets the tree and reads it again from its hash, with other flags. The
recursion of the code is recursion over the tree. `dirty` means that LazyUpdating
left something to save, `lost` names calls that dropped the mark of it.

**Fill.** A goroutine is the sequence of operations it still has to do, so that a
function given to `Go` becomes the whole of a new goroutine or, when there is no
token, the front of its caller's. `Get`, `Want`, `Receive`, `Inc` are the parts of
`Filler.get` and `Filler.inc` between which others run. The Cache is here what
`Cache` promises: `stored`, the counts and the part of them that belongs to fillings
(`fc`). An object is `Whole` if some set of stored objects has it and no reference
that leads out. Run is goroutine 0: it waits for the Registry first, then starts the
Gos, or runs them itself when there is no token, and only then comes to the select
that reads errq. `Worlds` are small instances of two Roots: a shared subtree, a list
with two branches, an object or a node twice, an object or a Registry that is too
large, a Registry nobody has yet.

**Head.** `h` holds the fields of `fillHead`: the Root that is filled (`r`), the next
one (`p`), the keys to request (`rqo`), the connections (`fc`), the known Roots (`cs`)
and the number of requests (`requesting`). A value on an unbuffered channel is a
sender that stays where it is. `flights` are the goroutines of `request` of this
filling and `late` those of earlier ones. `next` is a Root the head has to hand to
the goroutine of the feeds before it creates the Filler. The Filler is only what it
asks, how it ends and where Run is: in getRegistry, walking, or in its select. A *get*
is a call of `Filler.get`; of an object that is twice in a Root there are two, and both
send the key. `failing` is a head that waits in `Fail` for the place of errq.

**Subs.** Per node: the goroutine of the feeds (a handler is atomic), the receiving
goroutine of the connection (`rcv`) and one goroutine of the user (`user`); both run
their calls in the steps between which the others come. `net` is ordered per
direction. A Root that the feeds accept is full at once, since `Head` and `Fill`
treat the filling.

**Conns and Swarm.** A task is a goroutine in `Connect` or `acceptConn`; the Conn it makes
has its name. What locks `n.mx` for a moment is one step; `Close` and `LeaveSwarm`
hold it while they wait, which is `held`. `stage` of a Conn goes from handshake to
gone; `rcv`, `calling` are its two goroutines, `init` the channel initq, `fc` the
factory connection. `past` records the two races that the properties except. The
goroutine of the swarm runs `Top`, `Tick` and one of needPeers with requestPeers,
clearOldPeers, needConns and createOutgoingConns; it starts tasks that connect and
subscribe, each with a copy of its Peer (`who`). The list of peers has a lock of its
own; a response that holds it while it waits for `n.mx` is in `mu`. `mine` are the
addresses the node listens on, or none.

**Between the modules.** `Cache` and `CXDS` both implement `CountedStore`, which is what
`Fill` and `Index` take of them. `Fill` and `Head` meet in the requests and the result
of a Filler: `Fill` leaves the peers free, `Head` the order in which a Filler asks.
`Subs` takes a filling for done and a feed for its active head, `Swarm` composes with `Conns` in one state.

## Runs

Every cfg names its bounds. All passing runs are exhaustive.

| Run | Checks |
|---|---|
| `cache_transparent` | two keys, room for one, a third key over `MaxObjectSize`, two wanters, store in memory: `Transparent` (refinement of CountedStore), `Coherent`, `Accounting`, `NoLostWakeup` |
| `cache_faults` | store on drive that may fail in any call, Close with wanters, late Wants, eviction by volume: `Coherent` |
| `cxds_drive` | failing commits and callbacks, removal of objects in use, closing, crashing: the store refines CountedStore (`Counted`), and a successful call causes no drift (`DriftByFailure`) |
| `locks_node` | two cache users, Stat, Close and RemoveObjects, store on drive: every call returns (`Returns`) unless two cross in one of three named ways |
| `index_calls` | all operations but crashes, two goroutines, two heads, a fork, Roots out of order: `HeadsAgree`, `Kept` |
| `index_order` | two feeds, Roots in order, deletion of feeds, crashes: `LoadAgrees`, `ActiveNewest`, `FeedsList` |
| `refs_tree` | up to 9 elements, degrees 2 and 3, four changing calls, with and without the hash table and LazyUpdating: the tree holds the list (`HoldsList`), knows its lengths (`WellFormed`), its hash stands for it (`HashActual`), the table agrees (`IndexAgrees`), readers see all in order (`ReadsList`), Rebuild leaves nothing unsaved (`RebuildSaves`) |
| `fill_two` | two fillings, one token each, three goroutines, a Registry in the DB or not, peers that deliver, refuse, or are not there, heads that close: `FullIsWhole`, `SkipsWhole`, `HoldsEnd`, and every filling ends unless Run waits with the error unread (`FillingEnds`) |
| `head_fill` | two connections, two Roots, one with an object twice, two pushes, requests that fail, and one of: the timer, a goroutine that fails, Unsub, deletion of the feed: `EachKeyKept`, `AsksOn`, `PendingNewer`, `FillingEnds`, `DeleteEnds` |
| `subs_two` | three calls of two users, one timeout, OnSubscribeRemote that accepts, rejects or shares: `Agree`, `NoRootMissed`, `IdleIsFree`, `ListIsTrue` |
| `swarm_net` | two tasks, two addresses of one peer, limits 1 and 2, Close of a connection and of the node, with a swarm or without, listening or not: `Registered`, `KnownPeers`, `CacheTrue`, `NoLeak`, `RemovedStays`, `ConnectEnds`, `ReleasesLock` |
| `swarm_wait` | a counterexample: `WaiterReturns`, which the comment in `initConn` (`node/node.go:411`) says. A Connect that waits for a handshake that fails closes `initq` again, and the process dies |

A property that ends in "unless" excepts exactly what the code does differently from
its comments, by name, in a definition or in `past`; everything else it claims. The
runs reach the exceptions, so they are behaviour of the models:

*Objects*
- `driveCXDS.Set` counts one reference for a new object whatever inc is
  (`data/cxds/drive.go:382`; `DbSet`, `CXDS!Set`), so two fillers of one object hold
  more than the DB has. `Transparent` is checked over the store in memory.
- A Want that finds the object adds to `fc` and not to `cc` (`cache.go:1044`; `cache.go:72`
  says "hard rc = cc -fc"), so the hard count is one too small and a reject takes a
  reference of somebody else (`LateWants = {"cache"}`).
- cleanDown evicts nothing while any item is wanted or filling (`cache.go:340`; `Rank`),
  so the cache may exceed its boundaries.
- A rejected filling may leave an item without value, wanters and fillers
  (`cache.go:1223`; `Reject`).
- Close ends half way on an item that is wanted with an inc (`cache.go:276`; `Stuck`).
- An object only peers wait for is saved with a zero inc, on which `CXDS.Set` panics
  (`cache.go:747`; `SetWanted`).
- `encodeUint32` writes the version number whatever its argument is (`cxds.go:59`;
  `Close` of `CXDS`): after closing and opening the four counters are 2.
- A failed commit leaves its changes in the counters (`drive.go:294`; `Update`); a crash
  between the two transactions of a new file leaves one that cannot be opened
  (`drive.go:134`; `Create`); `Del` in memory removes nothing (`memory.go:199`; `Del`).
- `RemoveObjects` asks the cache inside a write transaction (`cxoutils.go:92`; `Crossed`):
  with any call of the Cache beside it, both wait for ever. Past that question it waits
  for the mutex of the counters (`drive.go:434`), which `saveStat` holds while it begins
  its own transaction (`drive.go:198`): a Close that has nothing to write crosses it so.
  When `Cache.Close` has failed, the DB closes the CXDS without `Cache.mx`, and every
  writer may cross it.
- `checkSize` calls Get in a callback of Iterate and, on a store in memory, waits for
  itself (`container.go:236`; not in `StoreLocks`, which has calls of several goroutines).

*Index*
- An old Root that is not in the IdxDB replaces the last one (`index.go:395`; `AddRoot`):
  the check against it looks at the Root itself. `LoadAgrees` is checked for Roots
  in order.
- Deleting the only Root of the active head ends in a nil dereference (`index.go:844`;
  `DelRoot`). The active head is wrong after deleting it (`index.go:710`; `DelHead`) or
  the Root it was chosen for (`index.go:843`; `DelRoot`); AddHead forgets the heads of
  the feed (`index.go:1038`; `AddHead`); LastRoot and DelRoot that fall between the two
  halves of Save panic (`index.go:563`; `LastRoot`) or leak the value (`index.go:922`;
  `DelValue`).

*Refs*
- Append that passes a full node, Append after lazy changes and DeleteByHash of a
  single element of the table after lazy changes clear the mark of changes that are not
  saved (`lost`), so a Refs read again is not the one in memory.

*Filling*
- Run declares a Root full that is not when it was closed while it ran, when an error
  comes together with the end of the last goroutine (`fill.go:320`), or when a subtree
  was skipped that nobody has whole (`FullIsWhole`). A subtree is skipped if its object
  has references (`cache.go:514`), and those are of another filling that failed or
  still runs (`past.unfinished`, `past.overlapped`), or of the same one: of a node of a
  Refs that is twice in a Root one goroutine takes the reference of the other for that
  of a full Root, and both skip it (`split_refs.go:37`; `past.twice`).
- An object delivered to a Filler that is closed keeps its count (`past.dropped`). Get
  adds to the references and Want to those and to the held ones, and Finc takes both
  for the same: a Filler that has an object through Get applies or takes what another
  has through Want, and Finc panics if it is told more than is held (`Overdrawn`).
- Run reads errq in its last select only (`fill.go:320`). In getRegistry, or in a split
  it runs itself, it may wait for an object nobody is asked for any more, or in Fail for
  the one place of errq that only Run empties, and ErrNoConnections or the timer do not
  end the filling (`Jammed` of `Fill` and of `Head`). The next Fail of the head then
  waits too (`fill.go:140`, `head.go:189`), and the feed cannot be deleted (`DeleteEnds`).
- Every goroutine that misses an object sends its key (`fill.go:70`), so an object that is
  twice in a Root is requested twice.
- The head and the goroutine of the feeds wait for each other when a Root becomes full
  while the feeds hand the head a Root or close it (`Cycle`). Goroutines of request of a
  deleted feed wait for a head that is gone (`past.left`). The result of a request of
  the last filling counts for the next one (`lateResult`: "mixed", or a negative
  counter, which is a panic).
- `moveForward` removes the first Root it should keep (`head.go:586`), so a Root may be
  filled again.

*Subscriptions*
- Only the last Root of the active head is pushed after Subscribe (`conn.go:247`), and a
  Root is dropped for another one of its seq (`conn.go:734`): `NoRootMissed` is about the
  last seq, and `Subs` has one head per feed.
- The Root right behind the Ok is dropped if the goroutine of Subscribe has not added
  the feed yet (`conn.go:677`; `past.early`). An Unsub that crosses a Subscribe, and a
  timeout of one, leave the nodes disagreeing (`past.crossed`). The feeds are not told
  that a connection was closed (`Close`). A feed deleted during a subscription is
  created again behind the kept list (`past.recreated`).

*Connections*
- "It also chekcs if peer's pubkey, receieved during hanshake is duplicate"
  (`node.go:490`): `onConnInit` does not, so two connections of one peer may be up
  (`past.twice`).
- Closing a connection twice closes `closeq` twice (`phase = "panic"`).
- Close of the node and LeaveSwarm wait under `n.mx` for goroutines that need it: the
  swarm in needConns and createOutgoingConns, or, when a response with peers holds `s.mu`
  and waits for `n.mx` (`swarm.go:285`, `300`, `355`), in needPeers and clearOldPeers
  (`StuckSwarm`); a connection that answers RqPeers (`StuckConn`).
- A Conn that is closed and still ends may be returned by Connect (`conn.go:406`;
  `CacheTrue`).
- A connection that ended before the transport kept it stays in `cs` for ever, and
  `closeConn` may close another one of the address (`past.late`, `past.shadowed`). When
  initConn returns an existing Conn, the new factory connection stays open (`NoLeak`).
- `addPeers` has found and not found the wrong way round (`swarm.go:325`; `KeyFor`, `PeerFor`): an
  unknown peer is stored under the blank key, and a known one is replaced without its
  LastSeen. No property claims this; `RemovedStays` and the theorem `SwarmPeersLimit`
  hold with the branches either way. `isSelf` is true of every peer that lacks an
  address when the node does not listen. `resetPeerRetryTimes` decrements zero.
- "Set it to zero to disable the limit" (`config.go:204`), but a limit of zero refuses
  every connection (`AtLimit`).

**Bounds.** Two keys are needed for one to push the other out, and the proofs of
`Coherent` cover evictions of several at once; two wanters for two incs of one object. A counter up to 2
distinguishes none, one and more references and a saturated decrement; counters that wrap at 2^32 are covered by the
theorems about `CXDS`, which hold for any width. Two heads are needed for the active head to change, two
seqs for an order, two goroutines for a deletion beside a Save, and times up to 2
for the Root of another head to be older, as old or newer. Nine elements at degree
2 make a tree of depth 3, so that a node has siblings on two levels, and a batch of
five passes a full node; two hashes suffice for equal elements and equal subtrees.
One token is the smallest limit at which `Go` takes both of its ways, three
goroutines are as many as the graphs can use at once but for one, and two fillings
are what a shared object needs. Two connections are needed to try another one, and
two Roots for a pending one; the second push of a Root is needed for a connection
that joins a filling. Three calls are enough for Subscribe, Unsubscribe and Publish
to cross, or a Subscribe of each side with a DontShare. Two tasks are the smallest
number that races for an address, an address that is busy and one that is not are
needed beside two addresses of one peer; with a swarm one task is its own and the
address of the other is in its list; the node listens on both transports or on none,
which is what isSelf and validatePeer tell apart. Each world of `Fill` is the least
that makes its case; two fillings are begun in it, or one where the tree has nodes
that are twice or have two branches. The views leave out `reply`, on which no action
depends; the properties about it are action properties, which TLC evaluates on every
step before it applies the view. Symmetry is over wanters and over goroutines, which
the specifications treat alike, and never used with a liveness property.

**Fairness.** `StoreLocks`: strong for every step of a call that has begun: Go hands a
mutex to whoever has waited too long, and a goroutine with a lock runs on. No call
has to begin. `Fill`: weak for the goroutines of all Fillers together, so some of them goes
on; none does anything for ever, so this is enough. Per Filler, weak for an answer to one
of its wants or ErrNoConnections from the head, whichever comes, as long as errq is
empty: every request has a timeout (`ResponseTimeout`), and the head tells the Filler when
no connection is left. No peer owes an answer, and nothing is owed to a Filler with an
error in errq. `Head`: goroutines run, and a request has an answer or its timeout
(`ResponseTimeout`); pushes, Unsub, errors of goroutines and the timer of the filling are free. `Swarm`: ticks
go on, a handshake and a request end by themselves or by their timeouts, OnConnect
returns, and goroutines that only wait for each other go on; users and peers owe
nothing. `Subs` states the fairness of its goroutines; its properties are safety.

## Proofs

All theorems hold for every value of the constants that satisfies the named
assumptions (finite sets of keys, non-empty values, a valid configuration) and those
that a theorem states.

- `CacheProofs`: `CacheCoherent` and `CacheTypeOK`. `Coherent` alone is not
  inductive: an action sees types, and the invariant has to hold in the middle of a
  call, after cleanDown and before the new item is put. So it is stated of a
  record of the cache's state (`ItemSound(s, k)`), one lemma per internal method
  (Evict, CleanDown, Put, TouchItem, DbInc, DbSet) shows that the method keeps it,
  and the actions compose them. `CacheAccounting` needs nothing but that: each method
  keeps that amount and volume are those of `Vals(s)`, by the laws of cardinality of
  `VolumeProofs`. `CacheNoLostWakeup` (a DB that does not fail) strengthens the
  property per key: `w` is in the `fwant` of the item exactly if it waits for that
  key. `CacheTransparent` is the refinement of `CountedStore`: `Alike` says that two
  states are the same to users, evictions and reloads are alike, and what is left of a
  call counts exactly as the abstract one (`CountsTo`). It is about the store in
  memory without failures; the other assumptions are the exceptions above (a Want
  that finds the object in the cache, Close with a wanted item).
- `CXDSProofs`: `CXDSTypeOK`, `CXDSUsedPresent`, `CXDSDriftByFailure`,
  `CXDSStatExact` and `CXDSCounted`. The exactness of the counters needs the laws of
  cardinality (`VolumeProofs` proves them for volumes, which `Volume` defines as a
  number of bytes for that reason): adding, removing, killing and resurrecting an
  object changes amounts by one and volumes by its length. Drift and exactness assume
  `Drive \/ ~DelUsed`, since `Del` in memory does not remove, and exactness
  also that nothing fails and nothing is reopened. `CXDSCounted` is the
  refinement of `CountedStore` for both stores, with rollbacks, crashes and reopening
  as stutters; it assumes that no counter reaches the width, that new objects on
  drive come with one reference (`drive.go:382`), and that a map in memory is not closed
  where its objects must not go.
- `IndexProofs`: `IndexTypeOK`, `IndexHeadsAgree`, `IndexFeedsList`, and `IndexKept`
  without crashes. `Kept` needs that a job has a legal shape, that a goroutine
  saves at most one Root, and a counting argument over the goroutines at work on
  one Root. `IndexLoadAgrees` allows all deletions and crashes; it excludes AddHead and
  Roots out of order, which break it. `IndexActiveNewest` needs that no Root replaces
  a newer one of its head: Roots of other nodes come as they were made
  (`OffersInOrder`), own ones are not from the future (`Dated`). It excludes the
  deletion of heads and Roots, which leaves the active head wrong.
  `IndexHeadsAgree` is one direction: the Index has nothing the IdxDB does not have.
  AddHead makes it forget heads, so the other direction is `IndexLoadAgrees`, where
  AddHead is excluded. It says nothing of what a panic leaves behind.
- `FillProofs`: `FillFullIsWhole`, `FillSkipsWhole` and `FillHoldsEnd`. The first rests
  on `FillInv`: the references of every object a Filler has counted are counted, owed
  by an operation some goroutine still has to do (`Owe`), or whole, unless an error
  is on its way; when no goroutine is left, the counted objects are a set without
  references out of it, which is what `Whole` asks for. The second adds `TreeInv` (a
  Filler touches only its tree) and `SkipInv`: what is stored and not whole is in the
  tree of the only running Filler, which has counted it or has it in hand with no
  reference but its own (`Fresh`). The
  third bounds what the Cache holds by what is at hand and what is counted
  (`Backed`), two sets whose cardinalities change by one where an object is found,
  delivered and counted and by all of a Filler's counts where it ends.
- `SubsProofs`: `SubsIdleIsFree` and `SubsListIsTrue`, which together with the shape of
  the maps are inductive, and `SubsConnInv`, from which `SubsAgree` and
  `SubsNoRootMissed` follow. `ConnInv` is about one direction `(n, m)` of an open
  connection on which nothing timed out or crossed, and holds of both. `OneRequest`: the
  request of a node is on the way, served by the peer, or answered, never two of these,
  and no Unsub is behind it; so the reply that comes is that of the call that waits.
  `Agreeing`: a feed only one of the two is subscribed to is being granted (`Granted`:
  from the moment the peer has added it until Subscribe has) or being left (`Telling`:
  until the Unsub has been taken); a granted feed is there unless it was left since;
  and an Unsub that is on the way for a feed its sender has again is taken before the
  Ok, where it crosses (`Doomed`), so it is never one that removes a feed quietly.
  `Known`: no Root on the way is newer than what its sender has. `Supplied`: a Root a
  subscribed node lacks is in a message, in the queue of the feeds, about to be sent by
  Publish, by the end of Subscribe or by the handler of Sub, or comes with a grant. When
  all is quiet, nothing of `Granted`, `Telling` and `Coming` is left but the equality.
  The proof needs that there are two nodes (`NodesAssumption`) and what a user may call
  (`CallsAssumption`); nothing is assumed of callbacks, public nodes, calls or bounds.
  Before it was proved, every part of the invariant was checked with TLC on the instance
  of `subs_two` and with five calls (3.6 million states).
- `HeadProofs`: `HeadPendingNewer`, `HeadAsksOn` and `HeadEachKeyKept`. `AsksOn` needs
  that `requesting` counts at least the requests of this filling (`Requests`), a law of
  cardinality over the set of goroutines, since a result of an earlier filling is what
  makes it exact no more. `EachKeyKept` rests on an invariant of the whole filling (`Once`):
  every call of `Filler.get` is in at most one place, from the Filler on (what it has sent,
  the list of the head, the requests in the air), and one whose object is not there is in
  one at least. It says nothing of how often an object is asked for.
- `SwarmProofs`: `SwarmRegistered`, `SwarmKnownPeers`, `SwarmCacheTrue`, `SwarmNoLeak`,
  `SwarmPeersLimit` and `SwarmRemovedStays`. The inductive invariant
  says where a goroutine is in terms of the stage of its Conn (`Places`), that each map
  has a Conn exactly if it is of its kind and under its address (`Established`,
  `Pending`, `PeersOf`), and that no address is in both (`Apart`): without `Apart` the
  end of a handshake could push another connection out of `addrToConn`, and without
  `Places` the error of a waiter could be taken for that of the handshake. The limit
  follows from the laws of cardinality at the one step that adds a connection.
  `CacheTrue` and `NoLeak` are proved together: they add what a goroutine knows of the
  Conn it waits for (`TaskFit`), and that the transport keeps a Conn that has begun, at
  its address (`Cached`), and drops it when it ends (`Known`). `PeersLimit` holds as
  AddPeer stores one peer under the limit and addPeers takes no more of a list than there
  is room for, under however many keys it stores them; `RemovedStays` by the actions that
  end a goroutine, one by one.

Only model-checked: everything about `Refs`, whose tree is a RECURSIVE definition over
its nodes (what it computes for every tree is an induction over data). Every other
invariant of the runs, both refinements and the action properties are theorems, under the
assumptions named above. Liveness (`Returns`, `FillingEnds`, `DeleteEnds`, `ConnectEnds`,
`ReleasesLock`) is out of the prover's reach, as are ENABLED, RECURSIVE
operators and induction over data with the library's induction theorems.

## Not modelled

Schemas, encoding, printing, statistics, logging, RPC, the command line tools and
the examples: pure or I/O without state of their own. Discovery and the factories of
TCP and UDP are external libraries. The cache of Registries, the recount of references
in `initRoot`, the walk of a whole tree by Save and by deletion, and the modification
of a Refs inside a callback of its own iteration are parts of the core that are left.
PROJECT.json lists every part with its status.

## Plan

Done: 1. `CountedStore` and `Cache`. 2. `Volume` and `CXDS`. 3. `StoreLocks`. 4. `Index`
with the IdxDB. 5. `Fill`. 6. `Head`. 7. `Subs`. 8. `Conns`. 9. `Swarm`. 10. `Refs`.

Left, in this order:

11. `Unpack`: the counters of whole trees through Save, filling and DelRoot, and the
    recount of `initRoot`. Composes `Index` and the trees of `Fill`.
12. Modification of a `Refs` during its iteration (`refs_mod.go`).
13. `RegistryCache`: Registry and addRegistryToCache.

Abstract specifications to come: a filling as one atomic step (all references of a
Root or none) implemented by `Fill` where nothing is closed. Proofs to come: that
abstract filling, and the trees of `Refs` when induction over data is in reach.
