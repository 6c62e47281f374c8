-------------------------------- MODULE Swarm --------------------------------
(***************************************************************************)
(* The swarm of a feed (node/swarm.go) over the connections of its node    *)
(* (module Conns): the goroutine of the swarm asks connections for peers,  *)
(* forgets old ones and connects to some of those it has.                  *)
(*                                                                         *)
(* A key is a node; an address of a transport is an address or No, and the *)
(* address of a node that does not listen is No.  RetryTimes is a number   *)
(* of Width values.  A peer seen is "new", it gets "old" when its          *)
(* PeerExpirePeriod has passed, as a LastSeen that was never set is.       *)
(*                                                                         *)
(* The list of peers has a lock, s.mu.  Only a response holds it while it  *)
(* waits for another lock: it asks the node, under n.mx, for its addresses *)
(* (`mu').  Whoever holds both at once needs one step; so a response is    *)
(* seen with s.mu only when n.mx is held by Close or LeaveSwarm.           *)
(***************************************************************************)
EXTENDS Conns, FiniteSetsExt

CONSTANTS
  Infos,      \* PeerInfos that others send
  No,         \* the blank address
  Blank,      \* the blank key
  Own,        \* peers the user adds, as PeerInfos
  Mine,       \* addresses of the node, one of these
  MaxPeers,   \* limit of the peers; zero in the config is a default
  MaxConns,
  Width,
  SwarmTasks, \* bound of the tasks of a node that is in a swarm
  MaxEvents   \* bound of the ticks of the swarm and the calls of its user

ASSUME SwarmAssumption ==
  /\ {MaxPeers, MaxConns, Width, MaxEvents} \subseteq Nat /\ MaxPeers > 0 /\ Width > 1 /\ SwarmTasks \subseteq Tasks
  /\ \A i \in Infos \cup Own : i.key # Blank /\ i.tcp \in Addrs \cup {No}
  /\ Mine # {} /\ IsFiniteSet(Infos)

VARIABLES
  mine,   \* the addresses the node listens on
  peers,  \* key -> Peer
  mu,     \* the PeerInfos of a response that holds s.mu and waits for n.mx
  loop,   \* the goroutine of the swarm
  asked,  \* connections RqPeers was sent to
  subs,   \* connections of the feed (module Subs)
  who,    \* task -> the Peer createOutgoingConns connects to
  seen    \* what has happened, for the bounds and the properties

svars == <<mine, peers, mu, loop, asked, subs, who, seen>>
vars == <<cvars, svars>>

NoFun == [k \in {} |-> None]
Peer(i, n, s) == [tcp |-> i.tcp, udp |-> i.udp, retry |-> n, seen |-> s]
Store(ps, k, p) == [x \in DOMAIN ps \cup {k} |-> IF x = k THEN p ELSE ps[x]]
Drop(ps, ks) == [x \in DOMAIN ps \ ks |-> ps[x]]

Init ==
  /\ ConnsInit
  /\ peers = NoFun /\ mu = {} /\ asked = {} /\ subs = {}
  /\ who = [t \in Tasks |-> None]
  /\ \E joined \in BOOLEAN :
       /\ joined => limit = Max(Limits)
       /\ mine \in IF joined THEN Mine ELSE {CHOOSE m \in Mine : TRUE}
       /\ loop = [pc |-> IF joined THEN "top" ELSE "done", quit |-> FALSE, count |-> 0]
       /\ seen = [events |-> 0, left |-> ~joined, tasks |-> IF joined THEN SwarmTasks ELSE Tasks]

Event == seen.events < MaxEvents
Counted == seen' = [seen EXCEPT !.events = @ + 1]

-----------------------------------------------------------------------------
(* The list of peers                                                       *)

\* an address that is given is not one of the node
validatePeer(i) == (i.tcp # No => i.tcp # mine.tcp) /\ (i.udp # No => i.udp # mine.udp)

\* of a peer with an address, for which validatePeer needs n.mx
AddPeer(i) ==
  /\ Event /\ ~seen.left /\ mu = {} /\ held = "no" /\ validatePeer(i)
  /\ Cardinality(DOMAIN peers) < MaxPeers
  /\ peers' = Store(peers, i.key, Peer(i, 0, "new")) /\ Counted
  /\ UNCHANGED <<cvars, mine, mu, loop, asked, subs, who>>

RemovePeer(k) ==
  /\ Event /\ mu = {} /\ k \in DOMAIN peers
  /\ peers' = Drop(peers, {k}) /\ Counted
  /\ UNCHANGED <<cvars, mine, mu, loop, asked, subs, who>>

Age(k) ==
  /\ k \in DOMAIN peers /\ peers[k].seen = "new"
  /\ peers' = [peers EXCEPT ![k].seen = "old"]
  /\ UNCHANGED <<cvars, mine, mu, loop, asked, subs, who, seen>>

\* one address that is that of the node is enough: for a node that does not
\* listen, a PeerInfo without an address is its own
isSelf(i) == i.tcp = mine.tcp \/ i.udp = mine.udp

\* for a key that is not found the blank Peer is updated, and stored by its
\* blank key; a Peer that is found is replaced, without LastSeen
KeyFor(i) == IF i.key \in DOMAIN peers THEN i.key ELSE Blank
PeerFor(i) == Peer(i, 0, IF i.key \in DOMAIN peers THEN "old" ELSE "new")

Room(list) == LET r == MaxPeers - Cardinality(DOMAIN peers) IN IF Cardinality(list) < r THEN Cardinality(list) ELSE r

\* as many as there is room for, in any order; of those that go to one key the
\* last stays
addPeers(list) ==
  LET valid == {i \in list : ~isSelf(i) /\ validatePeer(i)} IN
  IF Cardinality(DOMAIN peers) >= MaxPeers THEN peers' = peers
  ELSE \E taken \in SUBSET valid :
         /\ Cardinality(taken) = Room(valid)
         /\ \E last \in [{KeyFor(i) : i \in taken} -> taken] :
              /\ \A k \in DOMAIN last : KeyFor(last[k]) = k
              /\ peers' = [k \in DOMAIN peers \cup DOMAIN last |-> IF k \in DOMAIN last THEN PeerFor(last[k]) ELSE peers[k]]

\* the response of a connection, or none: addPeers takes s.mu, and n.mx for
\* the first PeerInfo if there is room
Response(c) ==
  /\ c \in asked /\ asked' = asked \ {c}
  /\ \/ UNCHANGED <<peers, mu>>
     \/ /\ mu = {} /\ held = "no" /\ UNCHANGED mu
        /\ \E list \in SUBSET Infos : addPeers(list)
     \/ /\ mu = {} /\ held # "no" /\ Cardinality(DOMAIN peers) < MaxPeers /\ UNCHANGED peers
        /\ \E list \in SUBSET Infos : list # {} /\ mu' = list
  /\ UNCHANGED <<cvars, mine, loop, subs, who, seen>>

\* ... and has n.mx
ResponseEnds ==
  /\ mu # {} /\ held = "no"
  /\ addPeers(mu) /\ mu' = {}
  /\ UNCHANGED <<cvars, mine, loop, asked, subs, who, seen>>

\* mutant: a peer that is not found is a blank one
RetryBlank(k, d) ==
  LET p == IF k \in DOMAIN peers THEN peers[k] ELSE [tcp |-> No, udp |-> No, retry |-> 0, seen |-> "old"] IN
  mu = {} /\ peers' = Store(peers, k, [p EXCEPT !.retry = (@ + d) % Width])

\* incPeerRetryTimes, resetPeerRetryTimes: of a peer that is still there
Retry(k, d) ==
  /\ mu = {}
  /\ IF k \in DOMAIN peers THEN peers' = [peers EXCEPT ![k].retry = (@ + d) % Width] ELSE UNCHANGED peers

incPeerRetryTimes(k) == Retry(k, 1)
resetPeerRetryTimes(k) == Retry(k, Width - 1)

-----------------------------------------------------------------------------
(* The goroutine of the swarm                                              *)

At(pc) == loop.pc = pc
To(pc) == loop' = [loop EXCEPT !.pc = pc]

\* mutant: quit is read nowhere
TopOn == At("top") /\ To("select") /\ UNCHANGED <<cvars, mine, peers, mu, asked, subs, who, seen>>

Top ==
  /\ At("top") /\ To(IF loop.quit THEN "done" ELSE "select")
  /\ UNCHANGED <<cvars, mine, peers, mu, asked, subs, who, seen>>

\* the second select waits for a tick and for nothing else
Tick ==
  /\ At("select") /\ (Event \/ loop.quit)
  /\ To("peers") \/ To("clear") \/ To("need")
  /\ IF loop.quit THEN UNCHANGED seen ELSE Counted
  /\ UNCHANGED <<cvars, mine, peers, mu, asked, subs, who>>

needPeers ==
  /\ At("peers") /\ mu = {}
  /\ To(IF Cardinality(DOMAIN peers) < MaxPeers THEN "request" ELSE "top")
  /\ UNCHANGED <<cvars, mine, peers, mu, asked, subs, who, seen>>

requestPeers ==
  /\ At("request") /\ To("top")
  /\ asked' = asked \cup subs
  /\ UNCHANGED <<cvars, mine, peers, mu, subs, who, seen>>

clearOldPeers ==
  /\ At("clear") /\ mu = {} /\ To("top")
  /\ peers' = Drop(peers, {k \in DOMAIN peers : peers[k].seen = "old"})
  /\ UNCHANGED <<cvars, mine, mu, asked, subs, who, seen>>

needConns ==
  LET used == Cardinality(Kept(pend)) + Cardinality(Kept(addrTo))
      connCap == IF used >= limit THEN 0 ELSE limit - used
      need == MaxConns - Cardinality(subs)
  IN /\ At("need") /\ held = "no"
     /\ loop' = IF connCap = 0 \/ Cardinality(Kept(pend)) >= MaxPendingConnections \/ need <= 0
                THEN [loop EXCEPT !.pc = "top"]
                ELSE [loop EXCEPT !.pc = "create", !.count = IF need >= connCap THEN connCap ELSE need]
     /\ UNCHANGED <<cvars, mine, peers, mu, asked, subs, who, seen>>

Idle == {t \in seen.tasks : Pc(t, "idle") /\ who[t] = None}

\* some peers without a connection, as many as needed, in goroutines of their
\* own; the tasks that are left bound them.  It takes n.mx, then s.mu
createOutgoingConns ==
  LET able == {k \in DOMAIN peers : \A c \in Kept(addrTo) : IdOf(c) # k} IN
  /\ At("create") /\ held = "no" /\ mu = {}
  /\ \E chosen \in SUBSET able :
       /\ Cardinality(chosen) = CHOOSE n \in 0..loop.count :
            /\ n \in {loop.count, Cardinality(able), Cardinality(Idle)}
            /\ n <= Cardinality(able) /\ n <= Cardinality(Idle)
       /\ \E ts \in SUBSET Idle : \E by \in Bijection(chosen, ts) :
            who' = [t \in Tasks |-> IF t \notin ts THEN who[t]
                                    ELSE LET k == CHOOSE k \in chosen : by[k] = t IN [key |-> k, tcp |-> peers[k].tcp]]
  /\ loop' = [loop EXCEPT !.pc = "top", !.count = 0]
  /\ UNCHANGED <<cvars, mine, peers, mu, asked, subs, seen>>

-----------------------------------------------------------------------------
(* The goroutines that connect                                             *)

\* Connect to a Peer by the transport of the node, which takes n.mx; without a
\* TCP address it fails
Connect(t) ==
  LET p == who[t] IN
  /\ p # None /\ Pc(t, "idle")
  /\ \/ held = "no" /\ p.tcp \in Addrs /\ Dial(t, p.tcp, FALSE) /\ UNCHANGED <<peers, who>>
     \/ held = "no" /\ p.tcp \notin Addrs /\ incPeerRetryTimes(p.key) /\ who' = [who EXCEPT ![t] = None] /\ UNCHANGED cvars
  /\ UNCHANGED <<mine, mu, loop, asked, subs, seen>>

\* Subscribe fails by its answer, its timeout or the end of the connection
Subscribe(t) ==
  LET c == task[t].c IN
  /\ who[t] # None /\ Pc(t, "done")
  /\ who' = [who EXCEPT ![t] = None]
  /\ \/ c # None /\ ~conn[c].closed /\ subs' = subs \cup {c} /\ resetPeerRetryTimes(who[t].key)
     \/ incPeerRetryTimes(who[t].key) /\ UNCHANGED subs
  /\ UNCHANGED <<cvars, mine, mu, loop, asked, seen>>

\* a peer subscribes to the feed
SubscribeRemote(c) ==
  /\ Event /\ ~seen.left /\ Alive(c) /\ subs' = subs \cup {c} /\ Counted
  /\ UNCHANGED <<cvars, mine, peers, mu, loop, asked, who>>

-----------------------------------------------------------------------------
(* LeaveSwarm and Close                                                    *)

\* shutdown waits for the goroutine, under n.mx
LeaveSwarm ==
  /\ Event /\ held = "no" /\ ~seen.left
  /\ held' = "swarm" /\ loop' = [loop EXCEPT !.quit = TRUE]
  /\ seen' = [seen EXCEPT !.events = @ + 1, !.left = TRUE]
  /\ UNCHANGED <<limit, pend, addrTo, pkTo, cached, task, conn, closer, phase, past, mine, peers, mu, asked, subs, who>>

CloseNode ==
  /\ NodeClose(IF seen.left THEN "conns" ELSE "swarm")
  /\ loop' = [loop EXCEPT !.quit = TRUE]
  /\ UNCHANGED <<mine, peers, mu, asked, subs, who, seen>>

\* after Close the connections follow
ShutdownDone ==
  /\ held = "swarm" /\ At("done")
  /\ held' = IF seen.left THEN "no" ELSE "conns"
  /\ UNCHANGED <<limit, pend, addrTo, pkTo, cached, task, conn, closer, phase, past, svars>>

-----------------------------------------------------------------------------
Loop == Top \/ Tick \/ needPeers \/ requestPeers \/ clearOldPeers \/ needConns \/ createOutgoingConns

List ==
  \/ ResponseEnds \/ \E i \in Own : AddPeer(i)
  \/ \E k \in DOMAIN peers : RemovePeer(k) \/ Age(k)

Others(t) ==
  \/ t \in Idle /\ UNCHANGED svars /\ \E d \in Dials[t] : Dial(t, d[1], d[2])
  \/ Close(t) /\ UNCHANGED svars
  \/ SubscribeRemote(t)

Goroutine(t) == Connect(t) \/ Subscribe(t) \/ (Connecting(t) /\ UNCHANGED svars)
Closing == ShutdownDone \/ (NodeClosing /\ UNCHANGED svars)

Next ==
  /\ phase # "panic"
  /\ \/ Loop \/ List \/ LeaveSwarm \/ CloseNode \/ Closing
     \/ \E t \in Tasks : Goroutine(t) \/ Response(t) \/ Others(t) \/ (Running(t) /\ UNCHANGED svars)

\* Ticks go on; a handshake and a request have timeouts; OnConnect returns.
Fairness ==
  /\ WF_vars(Loop) /\ WF_vars(Closing)
  /\ \A t \in Tasks : WF_vars(Goroutine(t)) /\ WF_vars(Ending(t) /\ UNCHANGED svars)

Spec == Init /\ [][Next]_vars /\ Fairness

-----------------------------------------------------------------------------
(* Properties                                                              *)

\* A Close or LeaveSwarm under n.mx waits for the goroutine of the swarm, which
\* waits for n.mx, or for s.mu that a response holds while it waits for n.mx.
StuckSwarm ==
  /\ held = "swarm"
  /\ loop.pc \in {"need", "create"} \/ (mu # {} /\ loop.pc \in {"peers", "clear"})

Stuck == StuckSwarm \/ StuckConn \/ phase = "panic"

\* A peer that was removed or has expired while a goroutine connected to it stays
\* so when the goroutine has failed or subscribed and counts its retries: the
\* Peer it was started with is by then a copy (swarm.go:453, 478, 492).
RemovedStays == [][\A t \in Tasks : who[t] # None /\ who'[t] = None => DOMAIN peers' \subseteq DOMAIN peers]_vars

\* Every Connect and acceptConn returns, those too that wait for the handshake
\* of another, unless Close or LeaveSwarm wait for ever under n.mx.
ConnectEnds == \A t \in Tasks : task[t].pc \notin {"idle", "done"} ~> (Pc(t, "done") \/ Stuck)

\* Close and LeaveSwarm return, or wait for a goroutine that waits for n.mx.
ReleasesLock == held # "no" ~> (held = "no" \/ Stuck)

\* "will return existing connection (or error) after it finishes handshake"
\* (node.go:412)
WaiterReturns == past.why # "initq"
=============================================================================
