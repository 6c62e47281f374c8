-------------------------------- MODULE Conns --------------------------------
(***************************************************************************)
(* How a node makes, keeps and closes its connections: Connect and         *)
(* acceptConn of a transport (node/transports.go), initConn and the maps   *)
(* of the node (node/node.go), the handshake (node/handshake.go) and the   *)
(* life of a connection (node/conn.go).                                    *)
(*                                                                         *)
(* A task is a goroutine inside Connect or acceptConn, for one factory     *)
(* connection, and the Conn it makes has its name.  Every task runs once.  *)
(* What held the lock n.mx for a moment is one step; Close of the node     *)
(* and LeaveSwarm (module Swarm) hold it while they wait, which is `held'. *)
(***************************************************************************)
EXTENDS Integers, FiniteSets, Functions

CONSTANTS
  Tasks,      \* goroutines in Connect and acceptConn
  Addrs,      \* remote addresses
  PeerOf,     \* address -> the NodeID its owner sends in a handshake
  None,
  Dials,      \* task -> pairs of an address and whether it is incoming
  Limits,     \* MaxConnections of the config, one of these
  MaxPendingConnections,
  MaxCloses   \* bound of the calls of Close of a connection

ASSUME ConnsAssumption ==
  /\ None \notin Tasks /\ Addrs \subseteq DOMAIN PeerOf
  /\ Limits \cup {MaxPendingConnections, MaxCloses} \subseteq Nat
  /\ \A t \in Tasks : Dials[t] \subseteq Addrs \X BOOLEAN

VARIABLES
  limit,  \* MaxConnections
  pend,   \* pendConns: address -> Conn
  addrTo, \* addrToConn: address -> Conn
  pkTo,   \* pkToConn: NodeID -> Conn
  cached, \* cs of the transport: address -> Conn
  task,   \* the goroutines
  conn,   \* the Conns
  held,   \* who waits under n.mx: "no", "conns" or "swarm"
  closer, \* Close of the node: Conns to close, and the one it waits for
  phase,  \* "on", "closed" or "panic" of the process
  past    \* what has happened, for the bounds and the properties

cvars == <<limit, pend, addrTo, pkTo, cached, task, conn, held, closer, phase, past>>

Ids == {PeerOf[a] : a \in Addrs}
IdOf(c) == PeerOf[task[c].addr]

NoTask == [pc |-> "idle", addr |-> None, incoming |-> FALSE, c |-> None]
NoConn == [stage |-> "none", closed |-> FALSE, init |-> "open", rcv |-> "off", calling |-> FALSE, fc |-> "none"]

ConnsInit ==
  /\ limit \in Limits
  /\ pend = [a \in Addrs |-> None] /\ addrTo = [a \in Addrs |-> None]
  /\ cached = [a \in Addrs |-> None] /\ pkTo = [p \in Ids |-> None]
  /\ task = [t \in Tasks |-> NoTask] /\ conn = [t \in Tasks |-> NoConn]
  /\ held = "no" /\ closer = [todo |-> {}, at |-> None] /\ phase = "on"
  /\ past = [closes |-> 0, twice |-> FALSE, late |-> {}, shadowed |-> {}, why |-> "none"]

Kept(m) == Range(m) \ {None}
Pc(t, pc) == task[t].pc = pc
Goto(t, pc) == task' = [task EXCEPT ![t].pc = pc]
Stage(c, s) == conn' = [conn EXCEPT ![c].stage = s]
Alive(c) == conn[c].stage \in {"up", "ended"}

\* close(c.closeq), and the Conn that is left
CloseQ(c, left) ==
  /\ conn' = [conn EXCEPT ![c] = [left EXCEPT !.closed = TRUE]]
  /\ phase' = IF conn[c].closed THEN "panic" ELSE phase
  /\ past' = IF conn[c].closed THEN [past EXCEPT !.why = "closeq"] ELSE past

-----------------------------------------------------------------------------
(* Connect and acceptConn                                                  *)

\* a connection the transport knows is returned, or refuses an incoming one
Dial(t, a, incoming) ==
  LET known == cached[a] # None IN
  /\ Pc(t, "idle") /\ phase # "panic"
  /\ task' = [task EXCEPT ![t] = [pc |-> IF known THEN "done" ELSE "init", addr |-> a, incoming |-> incoming,
                                  c |-> IF known /\ ~incoming THEN cached[a] ELSE None]]
  /\ conn' = [conn EXCEPT ![t].fc = IF ~known THEN "open" ELSE IF incoming THEN "shut" ELSE "none"]
  /\ UNCHANGED <<limit, pend, addrTo, pkTo, cached, held, closer, phase, past>>

\* the factory cannot connect
Unreachable(t) ==
  /\ Pc(t, "init") /\ ~task[t].incoming
  /\ Goto(t, "done")
  /\ conn' = [conn EXCEPT ![t].fc = "none"]
  /\ UNCHANGED <<limit, pend, addrTo, pkTo, cached, held, closer, phase, past>>

\* mutant: the limit counts the established connections only
AtLimitOpen == Cardinality(Kept(addrTo)) >= limit \/ Cardinality(Kept(pend)) >= MaxPendingConnections

AtLimit ==
  \/ Cardinality(Kept(pend)) + Cardinality(Kept(addrTo)) >= limit
  \/ Cardinality(Kept(pend)) >= MaxPendingConnections

\* initConn fails and the transport closes the factory connection
Failed(t) == task' = [task EXCEPT ![t] = [@ EXCEPT !.pc = "done", !.c = None]]

onNewConn(t) ==
  LET a == task[t].addr IN
  /\ Pc(t, "init") /\ held = "no"
  /\ \/ AtLimit /\ Failed(t) /\ conn' = [conn EXCEPT ![t].fc = "shut"] /\ UNCHANGED pend
     \/ /\ ~AtLimit /\ addrTo[a] # None
        /\ task' = [task EXCEPT ![t] = [@ EXCEPT !.pc = "add", !.c = addrTo[a]]]
        /\ UNCHANGED <<pend, conn>>
     \/ /\ ~AtLimit /\ addrTo[a] = None /\ pend[a] # None
        /\ IF task[t].incoming
           THEN Failed(t) /\ conn' = [conn EXCEPT ![t].fc = "shut"]
           ELSE task' = [task EXCEPT ![t] = [@ EXCEPT !.pc = "wait", !.c = pend[a]]] /\ UNCHANGED conn
        /\ UNCHANGED pend
     \/ /\ ~AtLimit /\ addrTo[a] = None /\ pend[a] = None
        /\ pend' = [pend EXCEPT ![a] = t]
        /\ task' = [task EXCEPT ![t] = [@ EXCEPT !.pc = "hand", !.c = t]]
        /\ Stage(t, "handshake")
  /\ UNCHANGED <<limit, addrTo, pkTo, cached, held, closer, phase, past>>

\* the handshake passes if there is no connection of the peer, by then
handshake(t) ==
  /\ Pc(t, "hand")
  /\ \/ held = "no" /\ pkTo[IdOf(t)] = None /\ ~conn[t].closed /\ Goto(t, "checked")
     \/ Goto(t, "fail")
  /\ UNCHANGED <<limit, pend, addrTo, pkTo, cached, conn, held, closer, phase, past>>

\* mutant: nobody who waits is woken
onConnInitQuiet(t) ==
  /\ Pc(t, "checked") /\ held = "no"
  /\ pend' = [pend EXCEPT ![task[t].addr] = None]
  /\ addrTo' = [addrTo EXCEPT ![task[t].addr] = t]
  /\ pkTo' = [pkTo EXCEPT ![IdOf(t)] = t]
  /\ conn' = [conn EXCEPT ![t] = [@ EXCEPT !.stage = "up", !.rcv = "on", !.calling = TRUE]]
  /\ Goto(t, "add")
  /\ UNCHANGED <<limit, cached, held, closer, phase, past>>

\* and `go c.run()'
onConnInit(t) ==
  /\ Pc(t, "checked") /\ held = "no"
  /\ pend' = [pend EXCEPT ![task[t].addr] = None]
  /\ addrTo' = [addrTo EXCEPT ![task[t].addr] = t]
  /\ pkTo' = [pkTo EXCEPT ![IdOf(t)] = t]
  /\ conn' = [conn EXCEPT ![t] = [@ EXCEPT !.stage = "up", !.init = "ok", !.rcv = "on", !.calling = TRUE]]
  /\ Goto(t, "add")
  /\ past' = [past EXCEPT !.twice = @ \/ pkTo[IdOf(t)] # None]
  /\ UNCHANGED <<limit, cached, held, closer, phase>>

\* of the task that made the Conn, and of one that waited for it: close(initq)
onConnInitErr(t) ==
  LET c == task[t].c IN
  /\ Pc(t, "fail") /\ held = "no"
  /\ pend' = [pend EXCEPT ![task[t].addr] = None]
  /\ conn' = [conn EXCEPT ![c].init = "err", ![c].stage = IF c = t THEN "failed" ELSE @, ![t].fc = "shut"]
  /\ phase' = IF conn[c].init = "open" THEN phase ELSE "panic"
  /\ past' = IF conn[c].init = "open" THEN past ELSE [past EXCEPT !.why = "initq"]
  /\ Failed(t)
  /\ UNCHANGED <<limit, addrTo, pkTo, cached, held, closer>>

waitForInit(t) ==
  LET c == task[t].c IN
  /\ Pc(t, "wait") /\ conn[c].init # "open"
  /\ Goto(t, IF conn[c].init = "ok" THEN "add" ELSE "fail")
  /\ UNCHANGED <<limit, pend, addrTo, pkTo, cached, conn, held, closer, phase, past>>

\* the transport keeps what initConn returned
addConn(t) ==
  LET c == task[t].c
      old == cached[task[t].addr]
  IN /\ Pc(t, "add") /\ Goto(t, "done")
     /\ cached' = [cached EXCEPT ![task[t].addr] = c]
     /\ past' = [past EXCEPT !.late = IF conn[c].stage = "gone" THEN @ \cup {c} ELSE @,
                             !.shadowed = IF old \notin {None, c} THEN @ \cup {old, c} ELSE @]
     /\ UNCHANGED <<limit, pend, addrTo, pkTo, conn, held, closer, phase>>

Connecting(t) ==
  \/ Unreachable(t) \/ onNewConn(t) \/ handshake(t) \/ onConnInit(t) \/ onConnInitErr(t)
  \/ waitForInit(t) \/ addConn(t)

-----------------------------------------------------------------------------
(* A connection runs                                                       *)

\* OnConnect returns, with an error or without
onConnect(c) ==
  /\ conn[c].calling
  /\ \/ conn' = [conn EXCEPT ![c].calling = FALSE] /\ UNCHANGED <<phase, past>>
     \/ CloseQ(c, [conn[c] EXCEPT !.calling = FALSE])
  /\ UNCHANGED <<limit, pend, addrTo, pkTo, cached, task, held, closer>>

\* the receiving goroutine ends by an error, of the peer or of a handler
receiveFails(c) ==
  /\ conn[c].rcv = "on"
  /\ CloseQ(c, [conn[c] EXCEPT !.rcv = "off"])
  /\ UNCHANGED <<limit, pend, addrTo, pkTo, cached, task, held, closer>>

\* ... or by closeq
receiveEnds(c) ==
  /\ conn[c].rcv = "on" /\ conn[c].closed
  /\ conn' = [conn EXCEPT ![c].rcv = "off"]
  /\ UNCHANGED <<limit, pend, addrTo, pkTo, cached, task, held, closer, phase, past>>

\* handleRqPeers asks the node, InSwarm, which needs n.mx, and the swarm, whose
\* s.mu a response may hold until it has n.mx (module Swarm); it changes
\* nothing, so it is a step only when it has to wait
receiveAsks(c) ==
  /\ conn[c].rcv = "on" /\ held # "no"
  /\ conn' = [conn EXCEPT ![c].rcv = "lock"]
  /\ UNCHANGED <<limit, pend, addrTo, pkTo, cached, task, held, closer, phase, past>>

receiveAnswered(c) ==
  /\ conn[c].rcv = "lock" /\ held = "no"
  /\ conn' = [conn EXCEPT ![c].rcv = "on"]
  /\ UNCHANGED <<limit, pend, addrTo, pkTo, cached, task, held, closer, phase, past>>

\* c.await.Wait
ended(c) ==
  /\ conn[c].stage = "up" /\ conn[c].rcv = "off" /\ ~conn[c].calling
  /\ Stage(c, "ended")
  /\ UNCHANGED <<limit, pend, addrTo, pkTo, cached, task, held, closer, phase, past>>

\* mutant: the peer stays known
removeConnAddr(c) ==
  /\ conn[c].stage = "ended" /\ held = "no"
  /\ addrTo' = [addrTo EXCEPT ![task[c].addr] = None]
  /\ Stage(c, "removed")
  /\ UNCHANGED <<limit, pend, pkTo, cached, task, held, closer, phase, past>>

\* whichever Conn the peer is known by
removeConn(c) ==
  /\ conn[c].stage = "ended" /\ held = "no"
  /\ addrTo' = [addrTo EXCEPT ![task[c].addr] = None]
  /\ pkTo' = [pkTo EXCEPT ![IdOf(c)] = None]
  /\ Stage(c, "removed")
  /\ UNCHANGED <<limit, pend, cached, task, held, closer, phase, past>>

\* mutant: the transport keeps the connection
closeConnKept(c) ==
  /\ conn[c].stage = "removed"
  /\ conn' = [conn EXCEPT ![c].stage = "gone", ![c].fc = "shut"]
  /\ UNCHANGED <<limit, pend, addrTo, pkTo, cached, task, held, closer, phase, past>>

\* mutant: the factory connection stays open
closeConnOpen(c) ==
  /\ conn[c].stage = "removed"
  /\ Stage(c, "gone")
  /\ cached' = [cached EXCEPT ![task[c].addr] = None]
  /\ UNCHANGED <<limit, pend, addrTo, pkTo, task, held, closer, phase, past>>

\* closeConn of the transport closes what it has of that address, which may be
\* nothing, or another Conn
closeConn(c) ==
  LET a == task[c].addr
      o == cached[a]
  IN /\ conn[c].stage = "removed"
     /\ conn' = [t \in Tasks |-> [conn[t] EXCEPT !.stage = IF t = c THEN "gone" ELSE @, !.fc = IF t = o THEN "shut" ELSE @]]
     /\ cached' = [cached EXCEPT ![a] = None]
     /\ past' = [past EXCEPT !.late = IF o = None THEN @ \cup {c} ELSE @,
                             !.shadowed = IF o \notin {None, c} THEN @ \cup {o, c} ELSE @]
     /\ UNCHANGED <<limit, pend, addrTo, pkTo, task, held, closer, phase>>

Running(c) ==
  \/ onConnect(c) \/ receiveFails(c) \/ receiveEnds(c) \/ receiveAsks(c)
  \/ receiveAnswered(c) \/ ended(c) \/ removeConn(c) \/ closeConn(c)

\* steps of a connection that need nobody else
Ending(c) ==
  \/ onConnect(c) \/ receiveEnds(c) \/ receiveAnswered(c)
  \/ ended(c) \/ removeConn(c) \/ closeConn(c)

\* Close of a connection, by the user
Close(c) ==
  /\ conn[c].stage = "up" /\ past.closes < MaxCloses
  /\ conn' = [conn EXCEPT ![c].closed = TRUE]
  /\ phase' = IF conn[c].closed THEN "panic" ELSE phase
  /\ past' = [past EXCEPT !.closes = @ + 1, !.why = IF conn[c].closed THEN "closeq" ELSE @]
  /\ UNCHANGED <<limit, pend, addrTo, pkTo, cached, task, held, closer>>

-----------------------------------------------------------------------------
(* Close of the node, once                                                 *)

NodeClose(to) ==
  /\ phase = "on" /\ held = "no"
  /\ held' = to /\ phase' = "closed"
  /\ closer' = [todo |-> Kept(pend) \cup Kept(pkTo), at |-> None]
  /\ UNCHANGED <<limit, pend, addrTo, pkTo, cached, task, conn, past>>

\* close(closeq) of every connection, pending or known by its peer
CloseNext ==
  /\ held = "conns" /\ closer.at = None
  /\ \E c \in closer.todo : CloseQ(c, conn[c]) /\ closer' = [todo |-> closer.todo \ {c}, at |-> c]
  /\ UNCHANGED <<limit, pend, addrTo, pkTo, cached, task, held>>

\* c.await.Wait of its Close
CloseWait ==
  /\ held = "conns" /\ closer.at # None /\ conn[closer.at].rcv = "off"
  /\ closer' = [closer EXCEPT !.at = None]
  /\ UNCHANGED <<limit, pend, addrTo, pkTo, cached, task, conn, held, phase, past>>

CloseDone ==
  /\ held = "conns" /\ closer.at = None /\ closer.todo = {}
  /\ held' = "no"
  /\ UNCHANGED <<limit, pend, addrTo, pkTo, cached, task, conn, closer, phase, past>>

NodeClosing == CloseNext \/ CloseWait \/ CloseDone

-----------------------------------------------------------------------------
(* Properties                                                              *)

\* Close of the node waits under n.mx for a goroutine that needs n.mx.
StuckConn == held = "conns" /\ closer.at # None /\ conn[closer.at].rcv = "lock"

\* addrToConn has the connections that run and no others, pendConns those in
\* their handshake: no dead connection takes a place of the limit, and the
\* limit holds through all races of Connect, acceptConn and their errors.
Registered ==
  phase # "panic" =>
    /\ Cardinality({c \in Tasks : Alive(c) \/ conn[c].stage = "handshake"}) <= limit
    /\ Kept(addrTo) = {c \in Tasks : Alive(c)} /\ Kept(pend) = {c \in Tasks : conn[c].stage = "handshake"}

\* The node knows a peer (hasPeer refuses a connection) only by a connection that
\* runs, and the peer of every connection that runs, unless two handshakes with
\* one peer passed the check together.
KnownPeers ==
  /\ \A c \in Kept(pkTo) : Alive(c)
  /\ \A c \in Tasks : (Alive(c) /\ ~past.twice) => pkTo[IdOf(c)] = c

\* The transport returns no connection whose end is complete (one that is closed
\* and still ends it may return, conn.go:406), and it knows all that run, unless
\* a connection ended before the transport got it or another of its address came
\* in between.
CacheTrue ==
  \A c \in Tasks \ (past.late \cup past.shadowed) :
    /\ c \in Kept(cached) => Alive(c) \/ conn[c].stage = "removed"
    /\ (Pc(c, "done") /\ Alive(c)) => cached[task[c].addr] = c

\* A factory connection is open only for a connection that is not gone; but for
\* the ones above, and when initConn returns another connection instead.
NoLeak ==
  \A t \in Tasks \ (past.late \cup past.shadowed) :
    (Pc(t, "done") /\ conn[t].fc = "open") =>
       Alive(t) \/ conn[t].stage = "removed" \/ task[t].c \notin {t, None}
=============================================================================
