---------------------------- MODULE SwarmProofs ----------------------------
(***************************************************************************)
(* The maps of a node know its connections (Registered, KnownPeers), the   *)
(* transport returns those that run and leaves none open (CacheTrue,       *)
(* NoLeak), for any addresses, peers, limits and goroutines, with a swarm  *)
(* or without: through every race of Connect, acceptConn, handshakes,      *)
(* their errors, and the ends of connections.  The list of peers keeps its *)
(* limit (PeersLimit), and what was removed stays so (RemovedStays).       *)
(***************************************************************************)
EXTENDS Swarm, FiniteSetTheorems, TLAPS

TasksOf ==
  [pc : {"idle", "init", "wait", "hand", "checked", "fail", "add", "done"}, addr : Addrs \cup {None},
   incoming : BOOLEAN, c : Tasks \cup {None}]

ConnsOf ==
  [stage : {"none", "handshake", "up", "ended", "removed", "gone", "failed"}, closed : BOOLEAN,
   init : {"open", "ok", "err"}, rcv : {"off", "on", "lock"}, calling : BOOLEAN, fc : {"none", "open", "shut"}]

PastsOf ==
  [closes : Nat, twice : BOOLEAN, late : SUBSET Tasks, shadowed : SUBSET Tasks, why : {"none", "closeq", "initq"}]

Types ==
  /\ limit \in Nat
  /\ pend \in [Addrs -> Tasks \cup {None}] /\ addrTo \in [Addrs -> Tasks \cup {None}]
  /\ cached \in [Addrs -> Tasks \cup {None}] /\ pkTo \in [Ids -> Tasks \cup {None}]
  /\ task \in [Tasks -> TasksOf] /\ conn \in [Tasks -> ConnsOf]
  /\ closer \in [todo : SUBSET Tasks, at : Tasks \cup {None}]
  /\ past \in PastsOf

Shaking(c) == conn[c].stage = "handshake"

\* Where a goroutine is tells the stage of its Conn, and the Conn it waits for.
Places ==
  \A t \in Tasks :
    /\ ~Pc(t, "idle") => task[t].addr \in Addrs
    /\ task[t].pc \in {"idle", "init"} => conn[t].stage = "none"
    /\ task[t].pc \in {"hand", "checked"} => task[t].c = t /\ Shaking(t)
    /\ task[t].pc \in {"wait", "fail", "add"} => task[t].c \in Tasks
    /\ Pc(t, "wait") => task[t].c # t
    /\ Pc(t, "fail") /\ task[t].c = t => Shaking(t)
    /\ Pc(t, "fail") /\ task[t].c # t => conn[task[t].c].init # "open"

\* Every map has exactly the connections of its kind, each at its address.
Established == \A a \in Addrs, c \in Tasks : addrTo[a] = c <=> Alive(c) /\ task[c].addr = a
Pending == phase # "panic" => \A a \in Addrs, c \in Tasks : pend[a] = c <=> Shaking(c) /\ task[c].addr = a

\* No address is in both.
Apart == phase # "panic" => \A a \in Addrs : pend[a] # None => addrTo[a] = None

PeersOf ==
  /\ \A p \in Ids, c \in Tasks : pkTo[p] = c => Alive(c) /\ IdOf(c) = p
  /\ \A c \in Tasks : (Alive(c) /\ ~past.twice) => pkTo[IdOf(c)] = c

Live == {c \in Tasks : Alive(c) \/ Shaking(c)}
Limited == phase # "panic" => IsFiniteSet(Live) /\ Cardinality(Live) <= limit

ConnsInv == Types /\ Places /\ Established /\ Pending /\ Apart /\ PeersOf /\ Limited

-----------------------------------------------------------------------------
\* A node begins without connections.
LEMMA InitInv == Init => ConnsInv
  <1> SUFFICES ASSUME Init PROVE ConnsInv
    OBVIOUS
  <1> USE DEF Init, ConnsInit
  <1>1. Types
    <2>1. NoTask \in TasksOf /\ NoConn \in ConnsOf
      BY DEF NoTask, NoConn, TasksOf, ConnsOf
    <2>2. past \in PastsOf /\ closer \in [todo : SUBSET Tasks, at : Tasks \cup {None}]
      BY DEF PastsOf
    <2>3. limit \in Nat
      BY ConnsAssumption
    <2> QED BY <2>1, <2>2, <2>3 DEF Types
  <1>2. \A c \in Tasks : conn[c].stage = "none" /\ task[c].pc = "idle"
    BY DEF NoConn, NoTask
  <1>3. Places
    BY <1>2 DEF Places, Pc
  <1>4. Established /\ Pending /\ Apart
    BY <1>2, ConnsAssumption DEF Established, Pending, Apart, Alive, Shaking
  <1>5. PeersOf
    BY <1>2, ConnsAssumption DEF PeersOf, Alive
  <1>6. Limited
    <2>1. Live = {}
      BY <1>2 DEF Live, Alive, Shaking
    <2>2. limit \in Nat
      BY ConnsAssumption
    <2> QED BY <2>1, <2>2, FS_EmptySet DEF Limited
  <1> QED BY <1>1, <1>3, <1>4, <1>5, <1>6 DEF ConnsInv

\* A step after which every Conn is of the same kind keeps the maps.
LEMMA SameKinds ==
  ASSUME ConnsInv, Types', Places',
         UNCHANGED <<limit, pend, addrTo, pkTo>>, past'.twice = past.twice, phase # "panic",
         \A c \in Tasks : (Alive(c)' <=> Alive(c)) /\ (Shaking(c)' <=> Shaking(c)),
         \A c \in Tasks : Alive(c) \/ Shaking(c) => task'[c].addr = task[c].addr
  PROVE  ConnsInv'
  <1> USE DEF ConnsInv
  <1>1. Established' /\ Pending' /\ Apart'
    BY DEF Established, Pending, Apart
  <1>2. PeersOf'
    BY DEF PeersOf, IdOf
  <1>3. Live' = Live
    BY DEF Live
  <1>4. Limited'
    BY <1>3 DEF Limited
  <1> QED BY <1>1, <1>2, <1>4

\* One that leaves the goroutines and the Conns alone.
LEMMA SameConns ==
  ASSUME ConnsInv, UNCHANGED <<limit, pend, addrTo, pkTo, cached, task, conn>>, phase # "panic",
         closer' \in [todo : SUBSET Tasks, at : Tasks \cup {None}], past' = past
  PROVE  ConnsInv'
  <1>1. Types'
    BY DEF ConnsInv, Types
  <1>2. Places'
    BY DEF ConnsInv, Places, Pc, Shaking
  <1>3. \A c \in Tasks : (Alive(c)' <=> Alive(c)) /\ (Shaking(c)' <=> Shaking(c))
    BY DEF Alive, Shaking
  <1> QED BY <1>1, <1>2, <1>3, SameKinds

\* One that changes fields of a Conn other than its stage, opening nothing.
LEMMA SameStages ==
  ASSUME ConnsInv, UNCHANGED <<limit, pend, addrTo, pkTo, cached, task>>, phase # "panic",
         closer' \in [todo : SUBSET Tasks, at : Tasks \cup {None}],
         past' \in PastsOf, past'.twice = past.twice,
         conn' \in [Tasks -> ConnsOf],
         \A c \in Tasks : conn'[c].stage = conn[c].stage /\ conn'[c].init = conn[c].init
  PROVE  ConnsInv'
  <1>1. Types'
    BY DEF ConnsInv, Types
  <1>2. Places'
    BY DEF ConnsInv, Places, Pc, Shaking
  <1>3. \A c \in Tasks : (Alive(c)' <=> Alive(c)) /\ (Shaking(c)' <=> Shaking(c))
    BY DEF Alive, Shaking
  <1> QED BY <1>1, <1>2, <1>3, SameKinds

\* close(closeq) is such a step.
LEMMA CloseQInv ==
  ASSUME ConnsInv, NEW c \in Tasks, NEW left \in ConnsOf,
         left.stage = conn[c].stage, left.init = conn[c].init, CloseQ(c, left),
         UNCHANGED <<limit, pend, addrTo, pkTo, cached, task>>, phase # "panic",
         closer' \in [todo : SUBSET Tasks, at : Tasks \cup {None}]
  PROVE  ConnsInv'
  <1>1. conn \in [Tasks -> ConnsOf] /\ past \in PastsOf
    BY DEF ConnsInv, Types
  <1>2. conn' \in [Tasks -> ConnsOf]
    BY <1>1 DEF CloseQ, ConnsOf
  <1>3. \A d \in Tasks : conn'[d].stage = conn[d].stage /\ conn'[d].init = conn[d].init
    BY <1>1 DEF CloseQ, ConnsOf
  <1>4. past' \in PastsOf /\ past'.twice = past.twice
    BY <1>1 DEF CloseQ, PastsOf
  <1> QED BY <1>2, <1>3, <1>4, SameStages

-----------------------------------------------------------------------------
(* A task.  Its steps before the handshake leave every Conn of its kind.   *)

\* What a step that only moves a task has to keep.
LEMMA MovesTask ==
  ASSUME ConnsInv, NEW t \in Tasks, NEW x \in TasksOf,
         task' = [task EXCEPT ![t] = x], x.addr = task[t].addr,
         UNCHANGED <<limit, pend, addrTo, pkTo, closer>>, phase # "panic",
         cached' \in [Addrs -> Tasks \cup {None}],
         past' \in PastsOf, past'.twice = past.twice,
         conn' \in [Tasks -> ConnsOf],
         \A c \in Tasks : conn'[c].stage = conn[c].stage /\ conn'[c].init = conn[c].init,
         ~Pc(t, "idle"),
         x.pc \notin {"idle", "init"},
         x.pc \in {"hand", "checked"} => x.c = t /\ Shaking(t),
         x.pc \in {"wait", "fail", "add"} => x.c \in Tasks,
         x.pc = "wait" => x.c # t,
         x.pc = "fail" /\ x.c = t => Shaking(t),
         x.pc = "fail" /\ x.c # t => conn[x.c].init # "open"
  PROVE  ConnsInv'
  <1>1. task \in [Tasks -> TasksOf]
    BY DEF ConnsInv, Types
  <1>2. task' \in [Tasks -> TasksOf]
    BY <1>1
  <1>3. Types'
    BY <1>2 DEF ConnsInv, Types
  <1>4. \A u \in Tasks : u # t => task'[u] = task[u]
    BY <1>1
  <1>5. task'[t] = x
    BY <1>1
  <1>6. Places'
    <2> SUFFICES ASSUME NEW u \in Tasks
        PROVE  /\ task'[u].pc # "idle" => task'[u].addr \in Addrs
               /\ task'[u].pc \in {"idle", "init"} => conn'[u].stage = "none"
               /\ task'[u].pc \in {"hand", "checked"} => task'[u].c = u /\ conn'[u].stage = "handshake"
               /\ task'[u].pc \in {"wait", "fail", "add"} => task'[u].c \in Tasks
               /\ task'[u].pc = "wait" => task'[u].c # u
               /\ task'[u].pc = "fail" /\ task'[u].c = u => conn'[u].stage = "handshake"
               /\ task'[u].pc = "fail" /\ task'[u].c # u => conn'[task'[u].c].init # "open"
      BY DEF Places, Pc, Shaking
    <2>1. CASE u = t
      BY <1>5, <2>1 DEF ConnsInv, Places, Pc, Shaking
    <2>2. CASE u # t
      BY <1>4, <2>2 DEF ConnsInv, Places, Pc, Shaking
    <2> QED BY <2>1, <2>2
  <1>7. \A c \in Tasks : (Alive(c)' <=> Alive(c)) /\ (Shaking(c)' <=> Shaking(c))
    BY DEF Alive, Shaking
  <1>8. \A c \in Tasks : task'[c].addr = task[c].addr
    BY <1>4, <1>5
  <1> QED BY <1>3, <1>6, <1>7, <1>8, SameKinds

LEMMA DialInv ==
  ASSUME ConnsInv, NEW t \in Tasks, NEW a \in Addrs, NEW incoming \in BOOLEAN, Dial(t, a, incoming)
  PROVE  ConnsInv'
  <1>1. task \in [Tasks -> TasksOf] /\ conn \in [Tasks -> ConnsOf] /\ cached \in [Addrs -> Tasks \cup {None}]
    BY DEF ConnsInv, Types
  <1>2. conn[t].stage = "none" /\ Pc(t, "idle") /\ phase # "panic"
    BY DEF ConnsInv, Places, Dial, Pc
  <1>3. /\ conn' \in [Tasks -> ConnsOf]
        /\ \A c \in Tasks : conn'[c].stage = conn[c].stage /\ conn'[c].init = conn[c].init
    BY <1>1 DEF Dial, ConnsOf
  <1>4. PICK x \in TasksOf : /\ task' = [task EXCEPT ![t] = x] /\ x.addr = a
                             /\ x.pc \in {"init", "done"}
    <2> DEFINE x == [pc |-> IF cached[a] # None THEN "done" ELSE "init", addr |-> a, incoming |-> incoming,
                     c |-> IF cached[a] # None /\ ~incoming THEN cached[a] ELSE None]
    <2>1. x \in TasksOf /\ x.addr = a /\ x.pc \in {"init", "done"}
      BY <1>1 DEF TasksOf
    <2>2. task' = [task EXCEPT ![t] = x]
      BY DEF Dial
    <2> HIDE DEF x
    <2> QED BY <2>1, <2>2
  <1>5. \A u \in Tasks : task'[u] = IF u = t THEN x ELSE task[u]
    BY <1>1, <1>4
  <1>6. Types'
    BY <1>1, <1>3, <1>4 DEF ConnsInv, Types, Dial
  <1>7. Places'
    <2> SUFFICES ASSUME NEW u \in Tasks
        PROVE  /\ task'[u].pc # "idle" => task'[u].addr \in Addrs
               /\ task'[u].pc \in {"idle", "init"} => conn'[u].stage = "none"
               /\ task'[u].pc \in {"hand", "checked"} => task'[u].c = u /\ conn'[u].stage = "handshake"
               /\ task'[u].pc \in {"wait", "fail", "add"} => task'[u].c \in Tasks
               /\ task'[u].pc = "wait" => task'[u].c # u
               /\ task'[u].pc = "fail" /\ task'[u].c = u => conn'[u].stage = "handshake"
               /\ task'[u].pc = "fail" /\ task'[u].c # u => conn'[task'[u].c].init # "open"
      BY DEF Places, Pc, Shaking
    <2>1. CASE u = t
      BY <1>2, <1>3, <1>4, <1>5, <2>1
    <2>2. CASE u # t
      BY <1>3, <1>5, <2>2 DEF ConnsInv, Places, Pc, Shaking
    <2> QED BY <2>1, <2>2
  <1>8. \A c \in Tasks : (Alive(c)' <=> Alive(c)) /\ (Shaking(c)' <=> Shaking(c))
    BY <1>3 DEF Alive, Shaking
  <1>9. \A c \in Tasks : Alive(c) \/ Shaking(c) => task'[c].addr = task[c].addr
    BY <1>2, <1>5 DEF Alive, Shaking
  <1> QED BY <1>2, <1>6, <1>7, <1>8, <1>9, SameKinds DEF Dial

LEMMA UnreachableInv ==
  ASSUME ConnsInv, NEW t \in Tasks, Unreachable(t), phase # "panic"
  PROVE  ConnsInv'
  <1> DEFINE x == [task[t] EXCEPT !.pc = "done"]
  <1>1. task \in [Tasks -> TasksOf] /\ conn \in [Tasks -> ConnsOf]
    BY DEF ConnsInv, Types
  <1>2. x \in TasksOf /\ x.addr = task[t].addr /\ x.pc = "done" /\ task' = [task EXCEPT ![t] = x]
    BY <1>1 DEF TasksOf, Unreachable, Goto
  <1>3. /\ conn' \in [Tasks -> ConnsOf]
        /\ \A c \in Tasks : conn'[c].stage = conn[c].stage /\ conn'[c].init = conn[c].init
    BY <1>1 DEF Unreachable, ConnsOf
  <1>4. UNCHANGED <<limit, pend, addrTo, pkTo, closer, cached, past>> /\ Pc(t, "init")
    BY DEF Unreachable
  <1>5. cached' \in [Addrs -> Tasks \cup {None}] /\ past' \in PastsOf /\ ~Pc(t, "idle")
    BY <1>4 DEF ConnsInv, Types, Pc
  <1> HIDE DEF x
  <1> QED BY <1>2, <1>3, <1>4, <1>5, MovesTask

LEMMA HandshakeInv ==
  ASSUME ConnsInv, NEW t \in Tasks, handshake(t), phase # "panic"
  PROVE  ConnsInv'
  <1>1. task \in [Tasks -> TasksOf] /\ Pc(t, "hand") /\ task[t].c = t /\ Shaking(t) /\ ~Pc(t, "idle")
    BY DEF ConnsInv, Types, handshake, Places, Pc
  <1>2. PICK pc \in {"checked", "fail"} : Goto(t, pc)
    BY DEF handshake
  <1> DEFINE x == [task[t] EXCEPT !.pc = pc]
  <1>3. x \in TasksOf /\ x.addr = task[t].addr /\ x.pc = pc /\ x.c = t /\ task' = [task EXCEPT ![t] = x]
    BY <1>1, <1>2 DEF TasksOf, Goto
  <1>4. UNCHANGED <<limit, pend, addrTo, pkTo, closer, cached, past, conn>>
    BY DEF handshake
  <1>5. cached' \in [Addrs -> Tasks \cup {None}] /\ past' \in PastsOf /\ conn' \in [Tasks -> ConnsOf]
    BY <1>4 DEF ConnsInv, Types
  <1> HIDE DEF x
  <1> QED BY <1>1, <1>3, <1>4, <1>5, MovesTask

LEMMA WaitForInitInv ==
  ASSUME ConnsInv, NEW t \in Tasks, waitForInit(t), phase # "panic"
  PROVE  ConnsInv'
  <1>1. task \in [Tasks -> TasksOf] /\ task[t].c \in Tasks /\ task[t].c # t /\ conn[task[t].c].init # "open" /\ ~Pc(t, "idle")
    BY DEF ConnsInv, Types, waitForInit, Places, Pc
  <1>2. PICK pc \in {"add", "fail"} : Goto(t, pc)
    BY DEF waitForInit
  <1> DEFINE x == [task[t] EXCEPT !.pc = pc]
  <1>3. x \in TasksOf /\ x.addr = task[t].addr /\ x.pc = pc /\ x.c = task[t].c /\ task' = [task EXCEPT ![t] = x]
    BY <1>1, <1>2 DEF TasksOf, Goto
  <1>4. UNCHANGED <<limit, pend, addrTo, pkTo, closer, cached, past, conn>>
    BY DEF waitForInit
  <1>5. cached' \in [Addrs -> Tasks \cup {None}] /\ past' \in PastsOf /\ conn' \in [Tasks -> ConnsOf]
    BY <1>4 DEF ConnsInv, Types
  <1> HIDE DEF x
  <1> QED BY <1>1, <1>3, <1>4, <1>5, MovesTask

LEMMA AddConnInv ==
  ASSUME ConnsInv, NEW t \in Tasks, addConn(t), phase # "panic"
  PROVE  ConnsInv'
  <1> DEFINE c == task[t].c
             x == [task[t] EXCEPT !.pc = "done"]
             old == cached[task[t].addr]
  <1>1. /\ task \in [Tasks -> TasksOf] /\ c \in Tasks /\ ~Pc(t, "idle") /\ task[t].addr \in Addrs
        /\ cached \in [Addrs -> Tasks \cup {None}] /\ past \in PastsOf
    BY DEF ConnsInv, Types, addConn, Places, Pc
  <1>2. x \in TasksOf /\ x.addr = task[t].addr /\ x.pc = "done" /\ task' = [task EXCEPT ![t] = x]
    BY <1>1 DEF TasksOf, Goto, addConn
  <1>3. UNCHANGED <<limit, pend, addrTo, pkTo, closer, conn>> /\ conn' \in [Tasks -> ConnsOf]
    BY DEF addConn, ConnsInv, Types
  <1>4. cached' \in [Addrs -> Tasks \cup {None}]
    BY <1>1 DEF addConn
  <1>5. past' \in PastsOf /\ past'.twice = past.twice
    <2>1. old \in Tasks \cup {None}
      BY <1>1
    <2>2. past' = [past EXCEPT !.late = IF conn[c].stage = "gone" THEN @ \cup {c} ELSE @,
                               !.shadowed = IF old \notin {None, c} THEN @ \cup {old, c} ELSE @]
      BY DEF addConn
    <2> HIDE DEF c, old
    <2> QED BY <1>1, <2>1, <2>2 DEF PastsOf
  <1> HIDE DEF x, c, old
  <1> QED BY <1>1, <1>2, <1>3, <1>4, <1>5, MovesTask

-----------------------------------------------------------------------------
(* The steps that change a map                                             *)

\* The maps have what they should.
LEMMA Registers ==
  ASSUME ConnsInv
  PROVE  /\ Kept(addrTo) = {c \in Tasks : Alive(c)}
         /\ phase # "panic" => Kept(pend) = {c \in Tasks : Shaking(c)}
  <1>1. pend \in [Addrs -> Tasks \cup {None}] /\ addrTo \in [Addrs -> Tasks \cup {None}]
    BY DEF ConnsInv, Types
  <1>2. \A c \in Tasks : Alive(c) \/ Shaking(c) => task[c].addr \in Addrs
    BY DEF ConnsInv, Places, Pc, Alive, Shaking
  <1>3. Kept(addrTo) = {c \in Tasks : Alive(c)}
    <2>1. \A c \in Kept(addrTo) : c \in Tasks /\ Alive(c)
      BY <1>1 DEF Kept, Range, ConnsInv, Established
    <2>2. \A c \in Tasks : Alive(c) => c \in Kept(addrTo)
      BY <1>1, <1>2, ConnsAssumption DEF Kept, Range, ConnsInv, Established
    <2> QED BY <2>1, <2>2
  <1>4. ASSUME phase # "panic" PROVE Kept(pend) = {c \in Tasks : Shaking(c)}
    <2>1. \A c \in Kept(pend) : c \in Tasks /\ Shaking(c)
      BY <1>1, <1>4 DEF Kept, Range, ConnsInv, Pending
    <2>2. \A c \in Tasks : Shaking(c) => c \in Kept(pend)
      BY <1>1, <1>2, <1>4, ConnsAssumption DEF Kept, Range, ConnsInv, Pending
    <2> QED BY <2>1, <2>2
  <1> QED BY <1>3, <1>4

\* Below the limit there is a place for one more.
LEMMA OneMore ==
  ASSUME ConnsInv, phase # "panic", ~AtLimit, NEW t \in Tasks, ~Alive(t), ~Shaking(t)
  PROVE  IsFiniteSet(Live \cup {t}) /\ Cardinality(Live \cup {t}) <= limit
  <1> DEFINE A == {c \in Tasks : Alive(c)}
             S == {c \in Tasks : Shaking(c)}
  <1>1. Kept(addrTo) = A /\ Kept(pend) = S
    BY Registers
  <1>2. limit \in Nat /\ IsFiniteSet(Live)
    BY DEF ConnsInv, Types, Limited
  <1>3. Live = S \cup A /\ S \cap A = {}
    BY DEF Live, Alive, Shaking
  <1>4. t \notin Live
    BY DEF Live
  <1>5. IsFiniteSet(S) /\ IsFiniteSet(A)
    BY <1>2, <1>3, FS_Subset
  <1> HIDE DEF A, S
  <1>6. Cardinality(S) \in Nat /\ Cardinality(A) \in Nat /\ Cardinality(Live) \in Nat /\ Cardinality({}) = 0
    BY <1>2, <1>5, FS_CardinalityType, FS_EmptySet
  <1>7. Cardinality(S \cup A) = Cardinality(S) + Cardinality(A) - Cardinality(S \cap A)
    BY <1>5, FS_Union
  <1>8. Cardinality(Live) = Cardinality(S) + Cardinality(A)
    <2>1. Cardinality(Live) = Cardinality(S \cup A) /\ Cardinality(S \cap A) = 0
      BY <1>3, <1>6
    <2> QED BY <1>6, <1>7, <2>1
  <1>9. ~(Cardinality(S) + Cardinality(A) >= limit)
    BY <1>1 DEF AtLimit
  <1>10. IsFiniteSet(Live \cup {t}) /\ Cardinality(Live \cup {t}) = Cardinality(Live) + 1
    BY <1>2, <1>4, FS_AddElement
  <1> QED BY <1>2, <1>6, <1>8, <1>9, <1>10

\* With fewer connections, the limit holds.
LEMMA Fewer ==
  ASSUME ConnsInv, phase # "panic", limit' = limit, Live' \subseteq Live
  PROVE  Limited'
  <1>1. limit \in Nat /\ IsFiniteSet(Live) /\ Cardinality(Live) <= limit
    BY DEF ConnsInv, Types, Limited
  <1>2. IsFiniteSet(Live') /\ Cardinality(Live') <= Cardinality(Live)
    BY <1>1, FS_Subset
  <1>3. Cardinality(Live') \in Nat /\ Cardinality(Live) \in Nat
    BY <1>1, <1>2, FS_CardinalityType
  <1>4. Cardinality(Live') <= limit
    BY <1>1, <1>2, <1>3
  <1> QED BY <1>1, <1>2, <1>4 DEF Limited

LEMMA OnNewConnInv ==
  ASSUME ConnsInv, NEW t \in Tasks, onNewConn(t), phase # "panic"
  PROVE  ConnsInv'
  <1> DEFINE a == task[t].addr
  <1>1. /\ task \in [Tasks -> TasksOf] /\ conn \in [Tasks -> ConnsOf]
        /\ pend \in [Addrs -> Tasks \cup {None}] /\ addrTo \in [Addrs -> Tasks \cup {None}]
    BY DEF ConnsInv, Types
  <1>2. Pc(t, "init") /\ conn[t].stage = "none" /\ a \in Addrs /\ ~Pc(t, "idle") /\ ~Alive(t) /\ ~Shaking(t)
    BY DEF onNewConn, ConnsInv, Places, Pc, Alive, Shaking
  <1>3. UNCHANGED <<limit, addrTo, pkTo, cached, closer, phase, past>>
    BY DEF onNewConn
  <1>4. cached' \in [Addrs -> Tasks \cup {None}] /\ past' \in PastsOf /\ past'.twice = past.twice
    BY <1>3 DEF ConnsInv, Types
  <1>5. ASSUME Failed(t), conn' = [conn EXCEPT ![t].fc = "shut"], UNCHANGED pend
        PROVE  ConnsInv'
    <2> DEFINE x == [task[t] EXCEPT !.pc = "done", !.c = None]
    <2>1. x \in TasksOf /\ x.addr = task[t].addr /\ x.pc = "done" /\ task' = [task EXCEPT ![t] = x]
      BY <1>1, <1>5 DEF TasksOf, Failed
    <2>2. conn' \in [Tasks -> ConnsOf] /\ \A c \in Tasks : conn'[c].stage = conn[c].stage /\ conn'[c].init = conn[c].init
      BY <1>1, <1>5 DEF ConnsOf
    <2> HIDE DEF x
    <2> QED BY <1>2, <1>3, <1>4, <1>5, <2>1, <2>2, MovesTask
  <1>6. ASSUME NEW pc \in {"add", "wait"}, NEW c \in Tasks, pc = "wait" => c # t,
               task' = [task EXCEPT ![t] = [@ EXCEPT !.pc = pc, !.c = c]], UNCHANGED <<pend, conn>>
        PROVE  ConnsInv'
    <2> DEFINE x == [task[t] EXCEPT !.pc = pc, !.c = c]
    <2>1. x \in TasksOf /\ x.addr = task[t].addr /\ x.pc = pc /\ x.c = c /\ task' = [task EXCEPT ![t] = x]
      BY <1>1, <1>6 DEF TasksOf
    <2>2. conn' \in [Tasks -> ConnsOf]
      BY <1>1, <1>6
    <2> HIDE DEF x
    <2> QED BY <1>2, <1>3, <1>4, <1>6, <2>1, <2>2, MovesTask
  <1>7. CASE AtLimit /\ Failed(t) /\ conn' = [conn EXCEPT ![t].fc = "shut"] /\ UNCHANGED pend
    BY <1>5, <1>7
  <1>8. CASE /\ addrTo[a] # None
             /\ task' = [task EXCEPT ![t] = [@ EXCEPT !.pc = "add", !.c = addrTo[a]]]
             /\ UNCHANGED <<pend, conn>>
    <2>1. addrTo[a] \in Tasks
      BY <1>1, <1>2, <1>8
    <2> QED BY <1>6, <1>8, <2>1
  <1>9. CASE /\ pend[a] # None /\ UNCHANGED <<pend, conn>>
             /\ task' = [task EXCEPT ![t] = [@ EXCEPT !.pc = "wait", !.c = pend[a]]]
    <2>1. pend[a] \in Tasks /\ pend[a] # t
      BY <1>1, <1>2, <1>9 DEF ConnsInv, Pending
    <2> QED BY <1>6, <1>9, <2>1
  <1>10. CASE pend[a] # None /\ Failed(t) /\ conn' = [conn EXCEPT ![t].fc = "shut"] /\ UNCHANGED pend
    BY <1>5, <1>10
  <1>11. CASE /\ ~AtLimit /\ addrTo[a] = None /\ pend[a] = None
              /\ pend' = [pend EXCEPT ![a] = t]
              /\ task' = [task EXCEPT ![t] = [@ EXCEPT !.pc = "hand", !.c = t]]
              /\ Stage(t, "handshake")
    <2>1. /\ conn' \in [Tasks -> ConnsOf] /\ conn'[t].stage = "handshake"
          /\ \A c \in Tasks : conn'[c].init = conn[c].init /\ (c # t => conn'[c].stage = conn[c].stage)
      BY <1>1, <1>11 DEF Stage, ConnsOf
    <2>2. /\ task' \in [Tasks -> TasksOf] /\ task'[t].pc = "hand" /\ task'[t].c = t
          /\ \A c \in Tasks : task'[c].addr = task[c].addr /\ (c # t => task'[c] = task[c])
      BY <1>1, <1>11 DEF TasksOf
    <2>3. pend' \in [Addrs -> Tasks \cup {None}] /\ \A b \in Addrs : pend'[b] = IF b = a THEN t ELSE pend[b]
      BY <1>1, <1>11
    <2>4. Types'
      BY <1>3, <2>1, <2>2, <2>3 DEF ConnsInv, Types
    <2>5. Places'
      <3> SUFFICES ASSUME NEW u \in Tasks
          PROVE  /\ task'[u].pc # "idle" => task'[u].addr \in Addrs
                 /\ task'[u].pc \in {"idle", "init"} => conn'[u].stage = "none"
                 /\ task'[u].pc \in {"hand", "checked"} => task'[u].c = u /\ conn'[u].stage = "handshake"
                 /\ task'[u].pc \in {"wait", "fail", "add"} => task'[u].c \in Tasks
                 /\ task'[u].pc = "wait" => task'[u].c # u
                 /\ task'[u].pc = "fail" /\ task'[u].c = u => conn'[u].stage = "handshake"
                 /\ task'[u].pc = "fail" /\ task'[u].c # u => conn'[task'[u].c].init # "open"
        BY DEF Places, Pc, Shaking
      <3>1. CASE u = t
        BY <1>2, <2>1, <2>2, <3>1
      <3>2. CASE u # t
        BY <2>1, <2>2, <3>2 DEF ConnsInv, Places, Pc, Shaking
      <3> QED BY <3>1, <3>2
    <2>6. \A c \in Tasks : (Alive(c)' <=> Alive(c)) /\ (Shaking(c)' <=> (c = t \/ Shaking(c)))
      BY <1>2, <2>1 DEF Alive, Shaking
    <2>7. Established'
      BY <1>3, <2>2, <2>6 DEF ConnsInv, Established
    <2>8. Pending' /\ Apart'
      <3>1. \A c \in Tasks : Shaking(c) => task[c].addr # a
        BY <1>2, <1>11, ConnsAssumption DEF ConnsInv, Pending
      <3>2. \A b \in Addrs : pend[b] # t
        BY <1>2 DEF ConnsInv, Pending
      <3>3. Pending'
        BY <1>2, <2>2, <2>3, <2>6, <3>1, <3>2 DEF ConnsInv, Pending
      <3>4. Apart'
        BY <1>3, <1>11, <2>3 DEF ConnsInv, Apart
      <3> QED BY <3>3, <3>4
    <2>9. PeersOf'
      BY <1>3, <2>2, <2>6 DEF ConnsInv, PeersOf, IdOf
    <2>10. Limited'
      <3>1. Live' = Live \cup {t}
        BY <2>6 DEF Live
      <3> QED BY <1>2, <1>3, <1>11, <3>1, OneMore DEF Limited
    <2> QED BY <2>4, <2>5, <2>7, <2>8, <2>9, <2>10 DEF ConnsInv
  <1> HIDE DEF a
  <1> QED BY <1>7, <1>8, <1>9, <1>10, <1>11 DEF onNewConn, a

LEMMA OnConnInitInv ==
  ASSUME ConnsInv, NEW t \in Tasks, onConnInit(t), phase # "panic"
  PROVE  ConnsInv'
  <1> DEFINE a == task[t].addr
  <1>1. /\ task \in [Tasks -> TasksOf] /\ conn \in [Tasks -> ConnsOf] /\ past \in PastsOf
        /\ pend \in [Addrs -> Tasks \cup {None}] /\ addrTo \in [Addrs -> Tasks \cup {None}]
        /\ pkTo \in [Ids -> Tasks \cup {None}]
    BY DEF ConnsInv, Types
  <1>2. Pc(t, "checked") /\ task[t].c = t /\ Shaking(t) /\ a \in Addrs /\ ~Alive(t)
    BY DEF onConnInit, ConnsInv, Places, Pc, Alive, Shaking
  <1>3. UNCHANGED <<limit, cached, closer, phase>> /\ past'.twice = (past.twice \/ pkTo[IdOf(t)] # None) /\ past' \in PastsOf
    BY <1>1 DEF onConnInit, PastsOf
  <1>4. pend[a] = t /\ addrTo[a] = None
    BY <1>2, ConnsAssumption DEF ConnsInv, Pending, Apart
  <1>5. IdOf(t) \in Ids
    BY <1>2 DEF IdOf, Ids
  <1>6. /\ conn' \in [Tasks -> ConnsOf] /\ conn'[t].stage = "up" /\ conn'[t].init = "ok"
        /\ \A c \in Tasks : c # t => conn'[c] = conn[c]
    <2>1. conn' = [conn EXCEPT ![t] = [@ EXCEPT !.stage = "up", !.init = "ok", !.rcv = "on", !.calling = TRUE]]
      BY DEF onConnInit
    <2> DEFINE x == [conn[t] EXCEPT !.stage = "up", !.init = "ok", !.rcv = "on", !.calling = TRUE]
    <2>2. conn[t] \in ConnsOf
      BY <1>1
    <2>3. x \in ConnsOf /\ x.stage = "up" /\ x.init = "ok"
      BY <2>2, ZenonT(60) DEF ConnsOf
    <2>4. conn' = [conn EXCEPT ![t] = x]
      BY <2>1
    <2> HIDE DEF x
    <2> QED BY <1>1, <2>3, <2>4
  <1>7. /\ task' \in [Tasks -> TasksOf] /\ task'[t].pc = "add" /\ task'[t].c = t
        /\ \A c \in Tasks : task'[c].addr = task[c].addr /\ (c # t => task'[c] = task[c])
    <2>1. task' = [task EXCEPT ![t].pc = "add"]
      BY DEF onConnInit, Goto
    <2> QED BY <1>1, <1>2, <2>1 DEF TasksOf
  <1>8. /\ pend' \in [Addrs -> Tasks \cup {None}] /\ \A b \in Addrs : pend'[b] = IF b = a THEN None ELSE pend[b]
        /\ addrTo' \in [Addrs -> Tasks \cup {None}] /\ \A b \in Addrs : addrTo'[b] = IF b = a THEN t ELSE addrTo[b]
    BY <1>1 DEF onConnInit
  <1>9. pkTo' \in [Ids -> Tasks \cup {None}] /\ \A p \in Ids : pkTo'[p] = IF p = IdOf(t) THEN t ELSE pkTo[p]
    BY <1>1 DEF onConnInit
  <1>10. Types'
    BY <1>3, <1>6, <1>7, <1>8, <1>9 DEF ConnsInv, Types
  <1>11. Places'
    <2> SUFFICES ASSUME NEW u \in Tasks
        PROVE  /\ task'[u].pc # "idle" => task'[u].addr \in Addrs
               /\ task'[u].pc \in {"idle", "init"} => conn'[u].stage = "none"
               /\ task'[u].pc \in {"hand", "checked"} => task'[u].c = u /\ conn'[u].stage = "handshake"
               /\ task'[u].pc \in {"wait", "fail", "add"} => task'[u].c \in Tasks
               /\ task'[u].pc = "wait" => task'[u].c # u
               /\ task'[u].pc = "fail" /\ task'[u].c = u => conn'[u].stage = "handshake"
               /\ task'[u].pc = "fail" /\ task'[u].c # u => conn'[task'[u].c].init # "open"
      BY DEF Places, Pc, Shaking
    <2>1. CASE u = t
      BY <1>2, <1>6, <1>7, <2>1
    <2>2. CASE u # t
      BY <1>6, <1>7, <2>2 DEF ConnsInv, Places, Pc, Shaking
    <2> QED BY <2>1, <2>2
  <1>12. \A c \in Tasks : (Alive(c)' <=> (c = t \/ Alive(c))) /\ (Shaking(c)' <=> (c # t /\ Shaking(c)))
    BY <1>2, <1>6 DEF Alive, Shaking
  <1>13. Established'
    <2>1. \A c \in Tasks : Alive(c) => task[c].addr # a
      BY <1>2, <1>4, ConnsAssumption DEF ConnsInv, Established
    <2>2. \A b \in Addrs : addrTo[b] # t
      BY <1>2 DEF ConnsInv, Established
    <2> QED BY <1>7, <1>8, <1>12, <2>1, <2>2 DEF ConnsInv, Established
  <1>14. Pending' /\ Apart'
    <2>1. \A c \in Tasks : (c # t /\ Shaking(c)) => task[c].addr # a
      BY <1>2, <1>4 DEF ConnsInv, Pending
    <2>2. \A b \in Addrs : pend[b] = t => b = a
      BY <1>2 DEF ConnsInv, Pending
    <2>3. Pending'
      BY <1>7, <1>8, <1>12, <2>1, <2>2, ConnsAssumption DEF ConnsInv, Pending
    <2>4. Apart'
      BY <1>8 DEF ConnsInv, Apart
    <2> QED BY <2>3, <2>4
  <1>15. PeersOf'
    <2>1. \A c \in Tasks : IdOf(c)' = IdOf(c)
      BY <1>7 DEF IdOf
    <2>2. ASSUME NEW p \in Ids, NEW c \in Tasks, pkTo'[p] = c PROVE Alive(c)' /\ IdOf(c)' = p
      BY <1>9, <1>12, <2>1, <2>2 DEF ConnsInv, PeersOf
    <2>3. ASSUME NEW c \in Tasks, Alive(c)', ~past'.twice PROVE pkTo'[IdOf(c)'] = c
      <3>1. CASE c = t
        BY <1>5, <1>9, <2>1, <3>1
      <3>2. CASE c # t
        <4>1. Alive(c) /\ ~past.twice /\ pkTo[IdOf(t)] = None
          BY <1>3, <1>12, <2>3, <3>2
        <4>2. pkTo[IdOf(c)] = c
          BY <4>1 DEF ConnsInv, PeersOf
        <4>3. IdOf(c) \in Ids
          BY <4>1 DEF ConnsInv, Places, Pc, Alive, IdOf, Ids
        <4> QED BY <1>9, <2>1, <4>1, <4>2, <4>3, ConnsAssumption
      <3> QED BY <3>1, <3>2
    <2> QED BY <2>2, <2>3 DEF PeersOf
  <1>16. Limited'
    <2>1. Live' = Live
      BY <1>2, <1>12 DEF Live
    <2> QED BY <1>3, <2>1, Fewer
  <1> QED BY <1>10, <1>11, <1>13, <1>14, <1>15, <1>16 DEF ConnsInv

\* Only the task that made the Conn finds it pending; the others panic.
LEMMA OnConnInitErrInv ==
  ASSUME ConnsInv, NEW t \in Tasks, onConnInitErr(t), phase # "panic"
  PROVE  ConnsInv'
  <1> DEFINE a == task[t].addr
             c == task[t].c
  <1>1. /\ task \in [Tasks -> TasksOf] /\ conn \in [Tasks -> ConnsOf] /\ past \in PastsOf
        /\ pend \in [Addrs -> Tasks \cup {None}]
    BY DEF ConnsInv, Types
  <1>2. /\ Pc(t, "fail") /\ a \in Addrs /\ c \in Tasks
        /\ c = t => Shaking(t)
        /\ c # t => conn[c].init # "open"
    BY DEF onConnInitErr, ConnsInv, Places, Pc
  <1>3. UNCHANGED <<limit, addrTo, pkTo, cached, closer>> /\ past' \in PastsOf /\ past'.twice = past.twice
    BY <1>1 DEF onConnInitErr, PastsOf
  <1>4. phase' # "panic" => c = t
    BY <1>2 DEF onConnInitErr
  <1>5. /\ conn' \in [Tasks -> ConnsOf] /\ conn'[c].init = "err" /\ (c = t => conn'[t].stage = "failed")
        /\ \A d \in Tasks : (d # c => conn'[d].init = conn[d].init) /\ (~(c = t /\ d = t) => conn'[d].stage = conn[d].stage)
    <2>1. conn' = [conn EXCEPT ![c].init = "err", ![c].stage = IF c = t THEN "failed" ELSE @, ![t].fc = "shut"]
      BY DEF onConnInitErr
    <2> HIDE DEF c
    <2>2. CASE c = t
      <3>1. conn' = [conn EXCEPT ![t] = [@ EXCEPT !.init = "err", !.stage = "failed", !.fc = "shut"]]
        BY <1>1, <2>1, <2>2
      <3> DEFINE x == [conn[t] EXCEPT !.init = "err", !.stage = "failed", !.fc = "shut"]
      <3>2. conn[t] \in ConnsOf
        BY <1>1
      <3>3. x \in ConnsOf /\ x.stage = "failed" /\ x.init = "err"
        BY <3>2, ZenonT(60) DEF ConnsOf
      <3>4. conn' = [conn EXCEPT ![t] = x]
        BY <3>1
      <3> HIDE DEF x
      <3> QED BY <1>1, <2>2, <3>3, <3>4
    <2>3. CASE c # t
      <3>1. conn' = [conn EXCEPT ![c] = [@ EXCEPT !.init = "err"], ![t] = [@ EXCEPT !.fc = "shut"]]
        BY <1>1, <1>2, <2>1, <2>3 DEF ConnsOf
      <3> DEFINE x == [conn[c] EXCEPT !.init = "err"]
                 y == [conn[t] EXCEPT !.fc = "shut"]
      <3>2. conn[c] \in ConnsOf /\ conn[t] \in ConnsOf
        BY <1>1, <1>2
      <3>3. x \in ConnsOf /\ x.stage = conn[c].stage /\ x.init = "err"
        BY <3>2, ZenonT(60) DEF ConnsOf
      <3>4. y \in ConnsOf /\ y.stage = conn[t].stage /\ y.init = conn[t].init
        BY <3>2, ZenonT(60) DEF ConnsOf
      <3>5. conn' = [conn EXCEPT ![c] = x, ![t] = y]
        BY <3>1
      <3> HIDE DEF x, y
      <3> QED BY <1>1, <1>2, <2>3, <3>3, <3>4, <3>5
    <2> QED BY <2>2, <2>3
  <1>6. /\ task' \in [Tasks -> TasksOf] /\ task'[t].pc = "done"
        /\ \A d \in Tasks : task'[d].addr = task[d].addr /\ (d # t => task'[d] = task[d])
    <2>1. task' = [task EXCEPT ![t] = [@ EXCEPT !.pc = "done", !.c = None]]
      BY DEF onConnInitErr, Failed
    <2> QED BY <1>1, <2>1 DEF TasksOf
  <1>7. pend' \in [Addrs -> Tasks \cup {None}] /\ \A b \in Addrs : pend'[b] = IF b = a THEN None ELSE pend[b]
    BY <1>1 DEF onConnInitErr
  <1>8. Types'
    BY <1>3, <1>5, <1>6, <1>7 DEF ConnsInv, Types
  <1>9. Places'
    <2> SUFFICES ASSUME NEW u \in Tasks
        PROVE  /\ task'[u].pc # "idle" => task'[u].addr \in Addrs
               /\ task'[u].pc \in {"idle", "init"} => conn'[u].stage = "none"
               /\ task'[u].pc \in {"hand", "checked"} => task'[u].c = u /\ conn'[u].stage = "handshake"
               /\ task'[u].pc \in {"wait", "fail", "add"} => task'[u].c \in Tasks
               /\ task'[u].pc = "wait" => task'[u].c # u
               /\ task'[u].pc = "fail" /\ task'[u].c = u => conn'[u].stage = "handshake"
               /\ task'[u].pc = "fail" /\ task'[u].c # u => conn'[task'[u].c].init # "open"
      BY DEF Places, Pc, Shaking
    <2> HIDE DEF a, c
    <2>1. CASE u = t
      BY <1>2, <1>6, <2>1 DEF a, ConnsInv, Places
    <2>2. CASE u # t
      BY <1>5, <1>6, <2>2 DEF ConnsInv, Places, Pc, Shaking
    <2> QED BY <2>1, <2>2
  <1> HIDE DEF c
  <1>10. \A d \in Tasks : (Alive(d)' <=> Alive(d)) /\ (Shaking(d)' <=> (Shaking(d) /\ ~(c = t /\ d = t)))
    BY <1>2, <1>5 DEF Alive, Shaking
  <1>11. Established'
    BY <1>3, <1>6, <1>10 DEF ConnsInv, Established
  <1>12. ASSUME phase' # "panic" PROVE Pending' /\ Apart'
    <2>1. c = t /\ Shaking(t) /\ pend[a] = t
      BY <1>2, <1>4, <1>12 DEF ConnsInv, Pending
    <2>2. \A d \in Tasks : (d # t /\ Shaking(d)) => task[d].addr # a
      BY <1>2, <2>1 DEF ConnsInv, Pending
    <2>3. \A b \in Addrs : pend[b] = t => b = a
      BY <1>2 DEF ConnsInv, Pending
    <2>4. Pending'
      BY <1>6, <1>7, <1>10, <2>1, <2>2, <2>3, ConnsAssumption DEF ConnsInv, Pending
    <2>5. Apart'
      BY <1>3, <1>7 DEF ConnsInv, Apart
    <2> QED BY <2>4, <2>5
  <1>13. PeersOf'
    BY <1>3, <1>6, <1>10 DEF ConnsInv, PeersOf, IdOf
  <1>14. Limited'
    <2>1. Live' \subseteq Live
      BY <1>10 DEF Live
    <2> QED BY <1>3, <2>1, Fewer
  <1> QED BY <1>8, <1>9, <1>11, <1>12, <1>13, <1>14 DEF ConnsInv, Pending, Apart

LEMMA RemoveConnInv ==
  ASSUME ConnsInv, NEW t \in Tasks, removeConn(t), phase # "panic"
  PROVE  ConnsInv'
  <1> DEFINE a == task[t].addr
  <1>1. /\ task \in [Tasks -> TasksOf] /\ conn \in [Tasks -> ConnsOf]
        /\ addrTo \in [Addrs -> Tasks \cup {None}] /\ pkTo \in [Ids -> Tasks \cup {None}]
    BY DEF ConnsInv, Types
  <1>2. conn[t].stage = "ended" /\ Alive(t) /\ ~Shaking(t) /\ ~Pc(t, "idle") /\ a \in Addrs
    BY DEF removeConn, Alive, Shaking, ConnsInv, Places, Pc
  <1>3. UNCHANGED <<limit, pend, cached, task, closer, phase, past>>
    BY DEF removeConn
  <1>4. IdOf(t) \in Ids
    BY <1>2 DEF IdOf, Ids
  <1>5. /\ conn' \in [Tasks -> ConnsOf] /\ conn'[t].stage = "removed"
        /\ \A c \in Tasks : conn'[c].init = conn[c].init /\ (c # t => conn'[c].stage = conn[c].stage)
    BY <1>1 DEF removeConn, Stage, ConnsOf
  <1>6. addrTo' \in [Addrs -> Tasks \cup {None}] /\ \A b \in Addrs : addrTo'[b] = IF b = a THEN None ELSE addrTo[b]
    BY <1>1 DEF removeConn
  <1>7. pkTo' \in [Ids -> Tasks \cup {None}] /\ \A p \in Ids : pkTo'[p] = IF p = IdOf(t) THEN None ELSE pkTo[p]
    BY <1>1 DEF removeConn
  <1>8. Types'
    BY <1>3, <1>5, <1>6, <1>7 DEF ConnsInv, Types
  <1>9. Places'
    <2>1. \A c \in Tasks : conn[c].stage \in {"none", "handshake"} => conn'[c].stage = conn[c].stage
      BY <1>2, <1>5
    <2> QED BY <1>3, <1>5, <2>1 DEF ConnsInv, Places, Pc, Shaking
  <1>10. \A c \in Tasks : (Alive(c)' <=> (c # t /\ Alive(c))) /\ (Shaking(c)' <=> Shaking(c))
    BY <1>2, <1>5 DEF Alive, Shaking
  <1>11. Established'
    BY <1>2, <1>3, <1>6, <1>10, ConnsAssumption DEF ConnsInv, Established
  <1>12. Pending' /\ Apart'
    BY <1>3, <1>6, <1>10 DEF ConnsInv, Pending, Apart
  <1>13. PeersOf'
    <2>1. ASSUME NEW p \in Ids, NEW c \in Tasks, pkTo'[p] = c PROVE Alive(c)' /\ IdOf(c)' = p
      <3>1. p # IdOf(t) /\ pkTo[p] = c
        BY <1>7, <2>1, ConnsAssumption
      <3>2. Alive(c) /\ IdOf(c) = p
        BY <3>1 DEF ConnsInv, PeersOf
      <3> QED BY <1>3, <1>10, <3>1, <3>2 DEF IdOf
    <2>2. ASSUME NEW c \in Tasks, Alive(c)', ~past'.twice PROVE pkTo'[IdOf(c)'] = c
      <3>1. Alive(c) /\ c # t /\ ~past.twice
        BY <1>3, <1>10, <2>2
      <3>2. pkTo[IdOf(c)] = c /\ pkTo[IdOf(t)] = t
        BY <1>2, <3>1 DEF ConnsInv, PeersOf
      <3>3. IdOf(c) \in Ids
        BY <3>1 DEF ConnsInv, Places, Pc, Alive, IdOf, Ids
      <3> QED BY <1>3, <1>7, <3>1, <3>2, <3>3 DEF IdOf
    <2> QED BY <2>1, <2>2 DEF PeersOf
  <1>14. Limited'
    <2>1. Live' \subseteq Live
      BY <1>10 DEF Live
    <2> QED BY <1>3, <2>1, Fewer
  <1> QED BY <1>8, <1>9, <1>11, <1>12, <1>13, <1>14 DEF ConnsInv

\* The steps at the end of a connection that change no map of the node.
LEMMA EndsInv ==
  ASSUME ConnsInv, NEW t \in Tasks, ended(t) \/ closeConn(t), phase # "panic"
  PROVE  ConnsInv'
  <1>1. /\ task \in [Tasks -> TasksOf] /\ conn \in [Tasks -> ConnsOf] /\ past \in PastsOf
        /\ cached \in [Addrs -> Tasks \cup {None}]
    BY DEF ConnsInv, Types
  <1>2. /\ conn[t].stage \in {"up", "removed"}
        /\ UNCHANGED <<limit, pend, addrTo, pkTo, task, closer, phase>>
    BY DEF ended, closeConn
  <1>3. PICK s \in {"ended", "gone"} :
          /\ s = "ended" <=> conn[t].stage = "up"
          /\ conn' \in [Tasks -> ConnsOf] /\ conn'[t].stage = s
          /\ \A c \in Tasks : conn'[c].init = conn[c].init /\ (c # t => conn'[c].stage = conn[c].stage)
    <2>1. CASE ended(t)
      BY <1>1, <2>1 DEF ended, Stage, ConnsOf
    <2>2. CASE closeConn(t)
      <3> DEFINE o == cached[task[t].addr]
                 y(u) == [conn[u] EXCEPT !.stage = IF u = t THEN "gone" ELSE @, !.fc = IF u = o THEN "shut" ELSE @]
      <3>1. conn' = [u \in Tasks |-> y(u)] /\ conn[t].stage = "removed"
        BY <2>2 DEF closeConn
      <3>2. ASSUME NEW u \in Tasks
            PROVE  /\ y(u) \in ConnsOf /\ y(u).init = conn[u].init
                   /\ y(u).stage = IF u = t THEN "gone" ELSE conn[u].stage
        <4> DEFINE g == IF u = t THEN "gone" ELSE conn[u].stage
                   f == IF u = o THEN "shut" ELSE conn[u].fc
        <4>1. conn[u] \in ConnsOf
          BY <1>1
        <4>2. g \in {"none", "handshake", "up", "ended", "removed", "gone", "failed"} /\ f \in {"none", "open", "shut"}
          BY <4>1 DEF ConnsOf
        <4>3. y(u) = [conn[u] EXCEPT !.stage = g, !.fc = f]
          OBVIOUS
        <4> HIDE DEF o, f, y, g
        <4>4. y(u) \in ConnsOf /\ y(u).init = conn[u].init /\ y(u).stage = g
          BY <4>1, <4>2, <4>3, ZenonT(60) DEF ConnsOf
        <4> QED BY <4>4 DEF g
      <3> HIDE DEF y
      <3>3. conn' \in [Tasks -> ConnsOf]
        BY <3>1, <3>2
      <3>4. \A c \in Tasks : conn'[c].init = conn[c].init /\ conn'[c].stage = IF c = t THEN "gone" ELSE conn[c].stage
        BY <3>1, <3>2
      <3> QED BY <3>1, <3>3, <3>4
    <2> QED BY <2>1, <2>2
  <1>4. cached' \in [Addrs -> Tasks \cup {None}]
    BY <1>1 DEF ended, closeConn
  <1>5. past' \in PastsOf /\ past'.twice = past.twice
    <2>1. CASE ended(t)
      BY <1>1, <2>1 DEF ended
    <2>2. CASE closeConn(t)
      <3> DEFINE o == cached[task[t].addr]
      <3>1. past' = [past EXCEPT !.late = IF o = None THEN @ \cup {t} ELSE @,
                                 !.shadowed = IF o \notin {None, t} THEN @ \cup {o, t} ELSE @]
        BY <2>2 DEF closeConn
      <3>2. o \in Tasks \cup {None}
        BY <1>1, <1>2 DEF ConnsInv, Places, Pc
      <3> HIDE DEF o
      <3> QED BY <1>1, <3>1, <3>2 DEF PastsOf
    <2> QED BY <2>1, <2>2
  <1>6. Types'
    BY <1>2, <1>3, <1>4, <1>5 DEF ConnsInv, Types
  <1>7. Places'
    <2>1. \A c \in Tasks : conn[c].stage \in {"none", "handshake"} => conn'[c].stage = conn[c].stage
      BY <1>2, <1>3
    <2> QED BY <1>2, <1>3, <2>1 DEF ConnsInv, Places, Pc, Shaking
  <1>8. \A c \in Tasks : (Alive(c)' <=> Alive(c)) /\ (Shaking(c)' <=> Shaking(c))
    BY <1>2, <1>3 DEF Alive, Shaking
  <1> QED BY <1>2, <1>5, <1>6, <1>7, <1>8, SameKinds

\* The other steps of a connection.
LEMMA RunningInv ==
  ASSUME ConnsInv, NEW c \in Tasks, Running(c) \/ Close(c), phase # "panic"
  PROVE  ConnsInv'
  <1>1. /\ conn \in [Tasks -> ConnsOf] /\ past \in PastsOf /\ conn[c] \in ConnsOf
        /\ closer \in [todo : SUBSET Tasks, at : Tasks \cup {None}]
    BY DEF ConnsInv, Types
  <1>2. ASSUME NEW x \in ConnsOf, x.stage = conn[c].stage, x.init = conn[c].init, conn' = [conn EXCEPT ![c] = x],
               UNCHANGED <<limit, pend, addrTo, pkTo, cached, task, closer>>,
               past' \in PastsOf, past'.twice = past.twice
        PROVE  ConnsInv'
    <2>1. conn' \in [Tasks -> ConnsOf] /\ \A d \in Tasks : conn'[d].stage = conn[d].stage /\ conn'[d].init = conn[d].init
      BY <1>1, <1>2
    <2> QED BY <1>1, <1>2, <2>1, SameStages
  <1>3. CASE onConnect(c)
    <2> DEFINE x == [conn[c] EXCEPT !.calling = FALSE]
    <2>1. x \in ConnsOf /\ x.stage = conn[c].stage /\ x.init = conn[c].init
      BY <1>1 DEF ConnsOf
    <2>2. CASE conn' = [conn EXCEPT ![c].calling = FALSE] /\ UNCHANGED <<phase, past>>
      <3>1. conn' = [conn EXCEPT ![c] = x]
        BY <2>2
      <3> HIDE DEF x
      <3> QED BY <1>1, <1>2, <1>3, <2>1, <2>2, <3>1 DEF onConnect
    <2>3. CASE CloseQ(c, x)
      <3> HIDE DEF x
      <3> QED BY <1>1, <1>3, <2>1, <2>3, CloseQInv DEF onConnect
    <2> QED BY <1>3, <2>2, <2>3 DEF onConnect
  <1>4. CASE receiveFails(c)
    <2> DEFINE x == [conn[c] EXCEPT !.rcv = "off"]
    <2>1. x \in ConnsOf /\ x.stage = conn[c].stage /\ x.init = conn[c].init
      BY <1>1 DEF ConnsOf
    <2>2. CloseQ(c, x)
      BY <1>4 DEF receiveFails
    <2> HIDE DEF x
    <2> QED BY <1>1, <1>4, <2>1, <2>2, CloseQInv DEF receiveFails
  <1>5. CASE receiveEnds(c) \/ receiveAsks(c) \/ receiveAnswered(c)
    <2>1. PICK r \in {"off", "on", "lock"} : conn' = [conn EXCEPT ![c].rcv = r]
      BY <1>5 DEF receiveEnds, receiveAsks, receiveAnswered
    <2> DEFINE x == [conn[c] EXCEPT !.rcv = r]
    <2>2. x \in ConnsOf /\ x.stage = conn[c].stage /\ x.init = conn[c].init /\ conn' = [conn EXCEPT ![c] = x]
      BY <1>1, <2>1 DEF ConnsOf
    <2> HIDE DEF x
    <2> QED BY <1>1, <1>2, <1>5, <2>2 DEF receiveEnds, receiveAsks, receiveAnswered
  <1>6. CASE Close(c)
    <2> DEFINE x == [conn[c] EXCEPT !.closed = TRUE]
    <2>1. x \in ConnsOf /\ x.stage = conn[c].stage /\ x.init = conn[c].init /\ conn' = [conn EXCEPT ![c] = x]
      BY <1>1, <1>6 DEF ConnsOf, Close
    <2>2. past' \in PastsOf /\ past'.twice = past.twice
      <3> DEFINE w == IF conn[c].closed THEN "closeq" ELSE past.why
                 n == past.closes + 1
      <3>1. w \in {"none", "closeq", "initq"} /\ n \in Nat
        BY <1>1 DEF PastsOf
      <3>2. past' = [past EXCEPT !.closes = n, !.why = w]
        BY <1>6 DEF Close
      <3> HIDE DEF w, n
      <3> QED BY <1>1, <3>1, <3>2 DEF PastsOf
    <2> HIDE DEF x
    <2> QED BY <1>2, <1>6, <2>1, <2>2 DEF Close
  <1> QED BY <1>3, <1>4, <1>5, <1>6, EndsInv, RemoveConnInv DEF Running

-----------------------------------------------------------------------------
(* Close of the node, the swarm, and all steps                             *)

LEMMA NodeCloseInv ==
  ASSUME ConnsInv, NEW to, NodeClose(to) \/ NodeClosing, phase # "panic"
  PROVE  ConnsInv'
  <1>1. /\ conn \in [Tasks -> ConnsOf]
        /\ pend \in [Addrs -> Tasks \cup {None}] /\ pkTo \in [Ids -> Tasks \cup {None}]
        /\ closer \in [todo : SUBSET Tasks, at : Tasks \cup {None}]
    BY DEF ConnsInv, Types
  <1>2. CASE NodeClose(to)
    <2>1. Kept(pend) \subseteq Tasks /\ Kept(pkTo) \subseteq Tasks
      BY <1>1 DEF Kept, Range
    <2> QED BY <1>2, <2>1, SameConns DEF NodeClose
  <1>3. CASE CloseNext
    <2>1. PICK c \in closer.todo : CloseQ(c, conn[c]) /\ closer' = [todo |-> closer.todo \ {c}, at |-> c]
      BY <1>3 DEF CloseNext
    <2>2. c \in Tasks /\ conn[c] \in ConnsOf /\ closer' \in [todo : SUBSET Tasks, at : Tasks \cup {None}]
      BY <1>1, <2>1
    <2> QED BY <1>3, <2>1, <2>2, CloseQInv DEF CloseNext
  <1>4. CASE CloseWait
    BY <1>1, <1>4, SameConns DEF CloseWait
  <1>5. CASE CloseDone
    BY <1>1, <1>5, SameConns DEF CloseDone
  <1> QED BY <1>2, <1>3, <1>4, <1>5 DEF NodeClosing

\* The swarm itself changes no Conn; Dial of the goroutines it starts does.
LEMMA SwarmInv ==
  ASSUME ConnsInv, Loop \/ List \/ LeaveSwarm \/ CloseNode \/ Closing, phase # "panic"
  PROVE  ConnsInv'
  <1>1. closer \in [todo : SUBSET Tasks, at : Tasks \cup {None}]
    BY DEF ConnsInv, Types
  <1>2. CASE Loop \/ List
    <2>1. UNCHANGED cvars
      BY <1>2 DEF Loop, List, ResponseEnds, Top, Tick, needPeers, requestPeers, clearOldPeers, needConns, createOutgoingConns, AddPeer, RemovePeer, Age
    <2> QED BY <1>1, <2>1, SameConns DEF cvars
  <1>3. CASE LeaveSwarm \/ ShutdownDone
    BY <1>1, <1>3, SameConns DEF LeaveSwarm, ShutdownDone
  <1>4. CASE CloseNode \/ (NodeClosing /\ UNCHANGED svars)
    BY <1>4, NodeCloseInv DEF CloseNode
  <1> QED BY <1>2, <1>3, <1>4 DEF Closing

LEMMA TaskInv ==
  ASSUME ConnsInv, NEW t \in Tasks, Goroutine(t) \/ Response(t) \/ Others(t) \/ Running(t), phase # "panic"
  PROVE  ConnsInv'
  <1>1. closer \in [todo : SUBSET Tasks, at : Tasks \cup {None}]
    BY DEF ConnsInv, Types
  <1>2. ASSUME UNCHANGED cvars PROVE ConnsInv'
    BY <1>1, <1>2, SameConns DEF cvars
  <1>3. CASE Connect(t)
    BY <1>2, <1>3, DialInv DEF Connect
  <1>4. CASE Subscribe(t) \/ Response(t) \/ SubscribeRemote(t)
    BY <1>2, <1>4 DEF Subscribe, Response, SubscribeRemote
  <1>5. CASE Connecting(t)
    BY <1>5, UnreachableInv, OnNewConnInv, HandshakeInv, OnConnInitInv, OnConnInitErrInv, WaitForInitInv, AddConnInv
       DEF Connecting
  <1>6. CASE Running(t) \/ Close(t)
    BY <1>6, RunningInv
  <1>7. CASE \E d \in Dials[t] : Dial(t, d[1], d[2])
    <2>1. PICK d \in Dials[t] : Dial(t, d[1], d[2])
      BY <1>7
    <2>2. d[1] \in Addrs /\ d[2] \in BOOLEAN
      BY ConnsAssumption
    <2> QED BY <2>1, <2>2, DialInv
  <1> QED BY <1>3, <1>4, <1>5, <1>6, <1>7 DEF Goroutine, Others

LEMMA NextInv == ConnsInv /\ [Next]_vars => ConnsInv'
  <1> SUFFICES ASSUME ConnsInv, [Next]_vars PROVE ConnsInv'
    OBVIOUS
  <1>1. CASE UNCHANGED vars
    <2>1. UNCHANGED <<limit, pend, addrTo, pkTo, cached, task, conn, closer, phase, past>>
      BY <1>1 DEF vars, cvars
    <2>2. Live' = Live /\ Types' /\ Places'
      BY <2>1 DEF Live, Alive, Shaking, ConnsInv, Types, Places, Pc
    <2>3. Established' /\ Pending' /\ Apart' /\ PeersOf'
      BY <2>1 DEF ConnsInv, Established, Pending, Apart, PeersOf, Alive, Shaking, IdOf
    <2> QED BY <2>1, <2>2, <2>3 DEF ConnsInv, Limited
  <1>2. CASE phase # "panic" /\ (Loop \/ List \/ LeaveSwarm \/ CloseNode \/ Closing)
    BY <1>2, SwarmInv
  <1>3. CASE phase # "panic" /\ \E t \in Tasks : Goroutine(t) \/ Response(t) \/ Others(t) \/ (Running(t) /\ UNCHANGED svars)
    BY <1>3, TaskInv
  <1> QED BY <1>1, <1>2, <1>3 DEF Next

-----------------------------------------------------------------------------
\* The maps of the node are always about the connections it has.
THEOREM SwarmConnsInv == Spec => []ConnsInv
  <1>1. Init => ConnsInv
    BY InitInv
  <1>2. ConnsInv /\ [Next]_vars => ConnsInv'
    BY NextInv
  <1> QED BY <1>1, <1>2, PTL DEF Spec

\* addrToConn has the connections that run and pendConns those in their
\* handshake, and together they keep MaxConnections, for every number of
\* goroutines, addresses and peers (node.go onNewConn, onConnInit, onConnInitErr,
\* removeConn).
THEOREM SwarmRegistered == Spec => []Registered
  <1>1. ConnsInv => Registered
    BY Registers DEF Registered, ConnsInv, Limited, Live, Shaking
  <1> QED BY <1>1, SwarmConnsInv, PTL

\* hasPeer is true only of peers with a connection that runs, and of all of them
\* unless two handshakes with one peer passed the check together (node.go
\* hasPeer, onConnInit, removeConn).
THEOREM SwarmKnownPeers == Spec => []KnownPeers
  <1>1. ASSUME ConnsInv PROVE KnownPeers
    <2>1. pkTo \in [Ids -> Tasks \cup {None}]
      BY <1>1 DEF ConnsInv, Types
    <2>2. \A c \in Kept(pkTo) : Alive(c)
      BY <1>1, <2>1 DEF Kept, Range, ConnsInv, PeersOf
    <2> QED BY <1>1, <2>2 DEF KnownPeers, ConnsInv, PeersOf
  <1> QED BY <1>1, SwarmConnsInv, PTL

-----------------------------------------------------------------------------
(* What the transport keeps, and the factory connections                   *)

Began(c) == conn[c].stage \in {"up", "ended", "removed", "gone"}
Usable(c) == Alive(c) \/ conn[c].stage = "removed"
Excused == past.late \cup past.shadowed

\* The Conn a goroutine waits for, or has for the transport, is of its address,
\* and of its own if it made one.
TaskFit(t) ==
  /\ task[t].pc \in {"wait", "add"} => conn[task[t].c].stage # "none" /\ task[task[t].c].addr = task[t].addr
  /\ task[t].pc \in {"wait", "fail", "add"} => task[t].c = t \/ conn[t].stage = "none"
  /\ Pc(t, "add") => Began(task[t].c)
  /\ conn[t].init = "ok" => Began(t)

Cached == \A a \in Addrs, c \in Tasks : cached[a] = c => Began(c) /\ task[c].addr = a

Known ==
  \A c \in Tasks \ Excused :
    /\ \A a \in Addrs : cached[a] = c => Usable(c)
    /\ (Pc(c, "done") /\ Alive(c)) => cached[task[c].addr] = c

CacheInv == (\A t \in Tasks : TaskFit(t)) /\ Cached /\ Known /\ NoLeak

AllInv == ConnsInv /\ CacheInv

\* A step that leaves the goroutines, the transport, and what it asks of Conns.
LEMMA SameCache ==
  ASSUME AllInv, UNCHANGED <<task, cached>>,
         past'.late = past.late, past'.shadowed = past.shadowed,
         \A c \in Tasks : conn'[c].stage = conn[c].stage /\ conn'[c].init = conn[c].init /\ conn'[c].fc = conn[c].fc
  PROVE  CacheInv'
  <1>1. \A c \in Tasks : /\ Began(c)' <=> Began(c)
                         /\ Usable(c)' <=> Usable(c)
                         /\ Alive(c)' <=> Alive(c)
    BY DEF Began, Usable, Alive
  <1>2. \A t \in Tasks : task[t].pc \in {"wait", "add"} => task[t].c \in Tasks
    BY DEF AllInv, ConnsInv, Places, Pc
  <1>3. ASSUME NEW t \in Tasks PROVE TaskFit(t)'
    BY <1>1, <1>2 DEF AllInv, CacheInv, TaskFit, Pc
  <1>4. Cached'
    BY <1>1 DEF AllInv, CacheInv, Cached
  <1>5. Excused' = Excused
    BY DEF Excused
  <1>6. Known'
    BY <1>1, <1>5 DEF AllInv, CacheInv, Known, Pc
  <1>7. NoLeak'
    BY <1>1 DEF AllInv, CacheInv, NoLeak, Pc
  <1> QED BY <1>3, <1>4, <1>6, <1>7 DEF CacheInv

\* A step of one goroutine, or of its Conn, but for those of the transport.
LEMMA OneTask ==
  ASSUME AllInv, NEW t \in Tasks,
         cached' = cached, past'.late = past.late, past'.shadowed = past.shadowed,
         \A u \in Tasks : u # t => /\ task'[u] = task[u] /\ conn'[u].stage = conn[u].stage /\ conn'[u].fc = conn[u].fc
                                   /\ conn'[u].init = "ok" => conn[u].init = "ok",
         conn[t].stage # "none" => conn'[t].stage # "none" /\ task'[t].addr = task[t].addr,
         Began(t) => Began(t)',
         Usable(t) => Usable(t)',
         TaskFit(t)',
         task'[t].pc = "done" /\ Alive(t)' => Pc(t, "done") /\ Alive(t),
         task'[t].pc = "done" /\ conn'[t].fc = "open" => Usable(t)' \/ task'[t].c \notin {t, None}
  PROVE  CacheInv'
  <1>1. \A c \in Tasks : /\ Began(c) => Began(c)'
                         /\ Usable(c) => Usable(c)'
                         /\ c # t => (Usable(c)' <=> Usable(c)) /\ (Alive(c)' <=> Alive(c))
    BY DEF Began, Usable, Alive
  <1>2. \A c \in Tasks : Began(c) => conn[c].stage # "none"
    BY DEF Began
  <1>3. \A c \in Tasks : conn[c].stage # "none" => conn'[c].stage # "none" /\ task'[c].addr = task[c].addr
    OBVIOUS
  <1>4. ASSUME NEW u \in Tasks PROVE TaskFit(u)'
    <2>1. CASE u = t
      BY <2>1
    <2>2. CASE u # t
      <3>1. task[u].pc \in {"wait", "add"} => task[u].c \in Tasks
        BY DEF AllInv, ConnsInv, Places, Pc
      <3>2. TaskFit(u) /\ task'[u] = task[u] /\ conn'[u].stage = conn[u].stage /\ (conn'[u].init = "ok" => conn[u].init = "ok")
        BY <2>2 DEF AllInv, CacheInv
      <3> QED BY <1>1, <1>3, <3>1, <3>2 DEF TaskFit, Pc
    <2> QED BY <2>1, <2>2
  <1>5. Cached'
    BY <1>1, <1>2, <1>3 DEF AllInv, CacheInv, Cached
  <1>6. Excused' = Excused
    BY DEF Excused
  <1>7. Known'
    <2> SUFFICES ASSUME NEW c \in Tasks \ Excused
        PROVE  /\ \A a \in Addrs : cached[a] = c => Usable(c)'
               /\ task'[c].pc = "done" /\ Alive(c)' => cached[task'[c].addr] = c
      BY <1>6 DEF Known, Pc
    <2>1. /\ \A a \in Addrs : cached[a] = c => Usable(c)
          /\ (Pc(c, "done") /\ Alive(c)) => cached[task[c].addr] = c
      BY DEF AllInv, CacheInv, Known
    <2>2. task'[c].pc = "done" /\ Alive(c)' => Pc(c, "done") /\ Alive(c)
      BY <1>1 DEF Pc
    <2>3. Alive(c) => conn[c].stage # "none"
      BY DEF Alive
    <2> QED BY <1>1, <1>3, <2>1, <2>2, <2>3
  <1>8. NoLeak'
    <2> SUFFICES ASSUME NEW c \in Tasks \ Excused, task'[c].pc = "done", conn'[c].fc = "open"
        PROVE  Usable(c)' \/ task'[c].c \notin {c, None}
      BY <1>6 DEF NoLeak, Pc, Excused, Usable
    <2>1. CASE c = t
      BY <2>1
    <2>2. CASE c # t
      <3>1. (Pc(c, "done") /\ conn[c].fc = "open") => Usable(c) \/ task[c].c \notin {c, None}
        BY DEF AllInv, CacheInv, NoLeak, Usable, Excused
      <3> QED BY <1>1, <2>2, <3>1 DEF Pc
    <2> QED BY <2>1, <2>2
  <1> QED BY <1>4, <1>5, <1>7, <1>8 DEF CacheInv

\* Connect and acceptConn begin, or return at once.
LEMMA DialCache ==
  ASSUME AllInv, NEW t \in Tasks, NEW a \in Addrs, NEW incoming \in BOOLEAN, Dial(t, a, incoming)
  PROVE  CacheInv'
  <1>1. task \in [Tasks -> TasksOf] /\ conn \in [Tasks -> ConnsOf]
    BY DEF AllInv, ConnsInv, Types
  <1>2. conn[t].stage = "none" /\ TaskFit(t) /\ UNCHANGED <<cached, past>>
    BY DEF AllInv, ConnsInv, CacheInv, Places, Dial, Pc
  <1>3. /\ task'[t].pc \in {"done", "init"}
        /\ \A u \in Tasks : u # t => task'[u] = task[u]
    BY <1>1 DEF Dial
  <1>4. /\ \A u \in Tasks : conn'[u].stage = conn[u].stage /\ conn'[u].init = conn[u].init
        /\ \A u \in Tasks : u # t => conn'[u].fc = conn[u].fc
        /\ task'[t].pc = "done" => conn'[t].fc # "open"
    BY <1>1 DEF Dial, ConnsOf
  <1>5. ~Began(t) /\ ~Usable(t) /\ ~Alive(t)' /\ (Began(t)' <=> Began(t))
    BY <1>2, <1>4 DEF Began, Usable, Alive
  <1>6. TaskFit(t)'
    BY <1>2, <1>3, <1>4, <1>5 DEF TaskFit, Pc
  <1> QED BY <1>2, <1>3, <1>4, <1>5, <1>6, OneTask

LEMMA UnreachableCache ==
  ASSUME AllInv, NEW t \in Tasks, Unreachable(t)
  PROVE  CacheInv'
  <1>1. task \in [Tasks -> TasksOf] /\ conn \in [Tasks -> ConnsOf]
    BY DEF AllInv, ConnsInv, Types
  <1>2. conn[t].stage = "none" /\ TaskFit(t) /\ UNCHANGED <<cached, past>>
    BY DEF AllInv, ConnsInv, CacheInv, Places, Unreachable, Pc
  <1>3. /\ task'[t].pc = "done"
        /\ \A u \in Tasks : u # t => task'[u] = task[u]
    BY <1>1 DEF Unreachable, Goto, TasksOf
  <1>4. /\ \A u \in Tasks : conn'[u].stage = conn[u].stage /\ conn'[u].init = conn[u].init
        /\ \A u \in Tasks : u # t => conn'[u].fc = conn[u].fc
        /\ conn'[t].fc # "open"
    BY <1>1 DEF Unreachable, ConnsOf
  <1>5. ~Began(t) /\ ~Usable(t) /\ ~Alive(t)' /\ (Began(t)' <=> Began(t))
    BY <1>2, <1>4 DEF Began, Usable, Alive
  <1>6. TaskFit(t)'
    BY <1>2, <1>3, <1>4, <1>5 DEF TaskFit, Pc
  <1> QED BY <1>2, <1>3, <1>4, <1>5, <1>6, OneTask

\* A goroutine makes a Conn, waits for one of its address or takes it.
LEMMA OnNewConnCache ==
  ASSUME AllInv, NEW t \in Tasks, onNewConn(t), phase # "panic"
  PROVE  CacheInv'
  <1> DEFINE a == task[t].addr
  <1>1. /\ task \in [Tasks -> TasksOf] /\ conn \in [Tasks -> ConnsOf]
        /\ pend \in [Addrs -> Tasks \cup {None}] /\ addrTo \in [Addrs -> Tasks \cup {None}]
    BY DEF AllInv, ConnsInv, Types
  <1>2. /\ conn[t].stage = "none" /\ TaskFit(t) /\ UNCHANGED <<cached, past>> /\ a \in Addrs
        /\ ~Began(t) /\ ~Usable(t)
    BY DEF AllInv, ConnsInv, CacheInv, Places, onNewConn, Pc, Began, Usable, Alive
  <1>3. conn[t].init # "ok"
    BY <1>2 DEF TaskFit
  <1>4. ASSUME Failed(t), conn' = [conn EXCEPT ![t].fc = "shut"]
        PROVE  CacheInv'
    <2>1. task'[t].pc = "done" /\ \A u \in Tasks : u # t => task'[u] = task[u]
      BY <1>1, <1>4 DEF Failed, TasksOf
    <2>2. /\ \A u \in Tasks : conn'[u].stage = conn[u].stage /\ conn'[u].init = conn[u].init
          /\ \A u \in Tasks : u # t => conn'[u].fc = conn[u].fc
          /\ conn'[t].fc # "open"
      BY <1>1, <1>4 DEF ConnsOf
    <2>3. TaskFit(t)' /\ ~Alive(t)'
      BY <1>2, <1>3, <2>1, <2>2 DEF TaskFit, Pc, Alive
    <2> QED BY <1>2, <2>1, <2>2, <2>3, OneTask
  <1>5. ASSUME NEW pc \in {"add", "wait"}, NEW c \in Tasks, task[c].addr = a, conn[c].stage # "none",
               pc = "add" => Began(c),
               task' = [task EXCEPT ![t] = [@ EXCEPT !.pc = pc, !.c = c]], UNCHANGED conn
        PROVE  CacheInv'
    <2>1. /\ task'[t].pc = pc /\ task'[t].c = c /\ task'[t].addr = a
          /\ \A u \in Tasks : u # t => task'[u] = task[u]
      BY <1>1, <1>5 DEF TasksOf
    <2>2. TaskFit(t)'
      <3>1. task'[c].addr = a
        BY <1>5, <2>1
      <3>2. Began(c)' <=> Began(c)
        BY <1>5 DEF Began
      <3> QED BY <1>2, <1>3, <1>5, <2>1, <3>1, <3>2 DEF TaskFit, Pc
    <2> QED BY <1>2, <1>5, <2>1, <2>2, OneTask
  <1>6. CASE AtLimit /\ Failed(t) /\ conn' = [conn EXCEPT ![t].fc = "shut"]
    BY <1>4, <1>6
  <1>7. CASE /\ addrTo[a] # None
             /\ task' = [task EXCEPT ![t] = [@ EXCEPT !.pc = "add", !.c = addrTo[a]]]
             /\ UNCHANGED conn
    <2>1. addrTo[a] \in Tasks
      BY <1>1, <1>2, <1>7
    <2>2. Alive(addrTo[a]) /\ task[addrTo[a]].addr = a
      BY <1>2, <2>1 DEF AllInv, ConnsInv, Established
    <2>3. conn[addrTo[a]].stage # "none" /\ Began(addrTo[a])
      BY <2>2 DEF Alive, Began
    <2> HIDE DEF a
    <2> QED BY <1>5, <1>7, <2>1, <2>2, <2>3
  <1>8. CASE /\ pend[a] # None /\ UNCHANGED conn
             /\ task' = [task EXCEPT ![t] = [@ EXCEPT !.pc = "wait", !.c = pend[a]]]
    <2>1. pend[a] \in Tasks
      BY <1>1, <1>2, <1>8
    <2>2. Shaking(pend[a]) /\ task[pend[a]].addr = a
      BY <1>2, <2>1 DEF AllInv, ConnsInv, Pending
    <2>3. conn[pend[a]].stage # "none"
      BY <2>2 DEF Shaking
    <2> HIDE DEF a
    <2> QED BY <1>5, <1>8, <2>1, <2>2, <2>3
  <1>9. CASE task' = [task EXCEPT ![t] = [@ EXCEPT !.pc = "hand", !.c = t]] /\ Stage(t, "handshake")
    <2>1. task'[t].pc = "hand" /\ \A u \in Tasks : u # t => task'[u] = task[u]
      BY <1>1, <1>9 DEF TasksOf
    <2>2. /\ \A u \in Tasks : conn'[u].init = conn[u].init /\ conn'[u].fc = conn[u].fc
          /\ \A u \in Tasks : u # t => conn'[u].stage = conn[u].stage
          /\ conn'[t].stage = "handshake"
      BY <1>1, <1>9 DEF Stage, ConnsOf
    <2>3. TaskFit(t)'
      BY <1>3, <2>1, <2>2 DEF TaskFit, Pc
    <2> QED BY <1>2, <2>1, <2>2, <2>3, OneTask
  <1>10. \/ AtLimit /\ Failed(t) /\ conn' = [conn EXCEPT ![t].fc = "shut"]
         \/ /\ addrTo[a] # None
            /\ task' = [task EXCEPT ![t] = [@ EXCEPT !.pc = "add", !.c = addrTo[a]]]
            /\ UNCHANGED conn
         \/ Failed(t) /\ conn' = [conn EXCEPT ![t].fc = "shut"]
         \/ /\ pend[a] # None /\ UNCHANGED conn
            /\ task' = [task EXCEPT ![t] = [@ EXCEPT !.pc = "wait", !.c = pend[a]]]
         \/ task' = [task EXCEPT ![t] = [@ EXCEPT !.pc = "hand", !.c = t]] /\ Stage(t, "handshake")
    BY DEF onNewConn
  <1> QED BY <1>4, <1>6, <1>7, <1>8, <1>9, <1>10

\* The handshake and those who wait for it.
LEMMA WaitingCache ==
  ASSUME AllInv, NEW t \in Tasks, handshake(t) \/ waitForInit(t)
  PROVE  CacheInv'
  <1>1. task \in [Tasks -> TasksOf] /\ UNCHANGED <<cached, past, conn>> /\ TaskFit(t)
    BY DEF AllInv, ConnsInv, Types, CacheInv, handshake, waitForInit
  <1>2. task[t].pc \in {"hand", "wait"} /\ (Pc(t, "wait") => task[t].c \in Tasks)
    BY DEF AllInv, ConnsInv, Places, handshake, waitForInit, Pc
  <1>3. PICK pc \in {"checked", "fail", "add"} :
          Goto(t, pc) /\ (pc = "add" => Pc(t, "wait") /\ conn[task[t].c].init = "ok")
    BY DEF handshake, waitForInit
  <1>4. /\ task'[t].pc = pc /\ task'[t].c = task[t].c /\ task'[t].addr = task[t].addr
        /\ \A u \in Tasks : u # t => task'[u] = task[u]
    BY <1>1, <1>3 DEF Goto, TasksOf
  <1>5. \A c : (Began(c)' <=> Began(c)) /\ (Usable(c)' <=> Usable(c)) /\ (Alive(c)' <=> Alive(c))
    BY <1>1 DEF Began, Usable, Alive
  <1>6. TaskFit(t)'
    <2>1. CASE pc # "add"
      <3>1. task[t].c = t \/ conn[t].stage = "none"
        BY <1>1, <1>2 DEF TaskFit, AllInv, ConnsInv, Places, Pc
      <3> QED BY <1>1, <1>3, <1>4, <1>5, <2>1, <3>1 DEF TaskFit, Pc
    <2>2. CASE pc = "add"
      <3> DEFINE c == task[t].c
      <3>1. c \in Tasks /\ conn[c].stage # "none" /\ task[c].addr = task[t].addr /\ conn[c].init = "ok" /\ Pc(t, "wait")
        BY <1>1, <1>2, <1>3, <2>2 DEF TaskFit, Pc
      <3>2. Began(c)
        BY <3>1 DEF AllInv, CacheInv, TaskFit
      <3>3. conn[t].stage = "none"
        BY <1>1, <3>1 DEF AllInv, ConnsInv, Places, TaskFit, Pc
      <3>4. task'[c].addr = task[t].addr
        BY <1>4, <3>1
      <3> QED BY <1>1, <1>4, <1>5, <3>1, <3>2, <3>3, <3>4 DEF TaskFit, Pc
    <2> QED BY <2>1, <2>2
  <1> QED BY <1>1, <1>2, <1>3, <1>4, <1>5, <1>6, OneTask DEF Pc

\* The handshake succeeds: the Conn runs.
LEMMA OnConnInitCache ==
  ASSUME AllInv, NEW t \in Tasks, onConnInit(t)
  PROVE  CacheInv'
  <1>1. /\ task \in [Tasks -> TasksOf] /\ conn \in [Tasks -> ConnsOf] /\ past \in PastsOf
        /\ task[t].c = t /\ conn[t].stage = "handshake" /\ TaskFit(t)
    BY DEF AllInv, ConnsInv, Types, CacheInv, onConnInit, Places, Shaking, Pc
  <1>2. /\ task'[t].pc = "add" /\ task'[t].c = t /\ task'[t].addr = task[t].addr
        /\ \A u \in Tasks : u # t => task'[u] = task[u]
    BY <1>1 DEF onConnInit, Goto, TasksOf
  <1>3. /\ \A u \in Tasks : u # t => conn'[u] = conn[u]
        /\ conn'[t].stage = "up"
    BY <1>1 DEF onConnInit, ConnsOf
  <1>4. cached' = cached /\ past'.late = past.late /\ past'.shadowed = past.shadowed
    BY <1>1 DEF onConnInit, PastsOf
  <1>5. Began(t)' /\ Usable(t)'
    BY <1>3 DEF Began, Usable, Alive
  <1>6. TaskFit(t)'
    BY <1>2, <1>3, <1>5 DEF TaskFit, Pc, Began
  <1> QED BY <1>1, <1>2, <1>3, <1>4, <1>5, <1>6, OneTask

\* It fails, for the goroutine or for one that waits.
LEMMA OnConnInitErrCache ==
  ASSUME AllInv, NEW t \in Tasks, onConnInitErr(t)
  PROVE  CacheInv'
  <1> DEFINE c == task[t].c
  <1>1. /\ task \in [Tasks -> TasksOf] /\ conn \in [Tasks -> ConnsOf] /\ past \in PastsOf
        /\ c \in Tasks /\ (c = t => conn[t].stage = "handshake") /\ (c # t => conn[t].stage = "none") /\ TaskFit(t)
    BY DEF AllInv, ConnsInv, Types, CacheInv, onConnInitErr, Places, Shaking, Pc, TaskFit
  <1>2. task'[t].pc = "done" /\ task'[t].addr = task[t].addr /\ \A u \in Tasks : u # t => task'[u] = task[u]
    BY <1>1 DEF onConnInitErr, Failed, TasksOf
  <1>3. conn' = [conn EXCEPT ![c].init = "err", ![c].stage = IF c = t THEN "failed" ELSE @, ![t].fc = "shut"]
    BY DEF onConnInitErr
  <1>4. /\ \A u \in Tasks : u # t => conn'[u].stage = conn[u].stage /\ conn'[u].fc = conn[u].fc
                                     /\ (conn'[u].init = "ok" => conn[u].init = "ok")
        /\ conn'[t].stage = IF c = t THEN "failed" ELSE "none"
        /\ conn'[t].init = "ok" => conn[t].init = "ok"
        /\ conn'[t].fc = "shut"
    <2> HIDE DEF c
    <2>1. CASE c = t
      BY <1>1, <1>3, <2>1 DEF ConnsOf
    <2>2. CASE c # t
      BY <1>1, <1>3, <2>2 DEF ConnsOf
    <2> QED BY <2>1, <2>2
  <1>5. cached' = cached /\ past'.late = past.late /\ past'.shadowed = past.shadowed
    BY <1>1 DEF onConnInitErr, PastsOf
  <1>6. ~Began(t) /\ ~Usable(t) /\ ~Alive(t)'
    BY <1>1, <1>4 DEF Began, Usable, Alive
  <1>7. conn'[t].init # "ok"
    BY <1>1, <1>4, <1>6 DEF TaskFit
  <1>8. TaskFit(t)'
    BY <1>2, <1>7 DEF TaskFit, Pc
  <1>9. conn[t].stage # "none" => conn'[t].stage # "none"
    BY <1>1, <1>4
  <1> HIDE DEF c
  <1> QED BY <1>2, <1>4, <1>5, <1>6, <1>8, <1>9, OneTask

\* The transport gets the connection: what it had of the address is another
\* Conn, or this one.
LEMMA AddConnCache ==
  ASSUME AllInv, NEW t \in Tasks, addConn(t)
  PROVE  CacheInv'
  <1> DEFINE c == task[t].c
             a == task[t].addr
             old == cached[a]
  <1>1. /\ task \in [Tasks -> TasksOf] /\ conn \in [Tasks -> ConnsOf] /\ past \in PastsOf
        /\ cached \in [Addrs -> Tasks \cup {None}] /\ a \in Addrs
        /\ c \in Tasks /\ TaskFit(t) /\ Pc(t, "add") /\ conn' = conn
    BY DEF AllInv, ConnsInv, Types, CacheInv, addConn, Places, Pc
  <1>2. Began(c) /\ task[c].addr = a /\ (c = t \/ conn[t].stage = "none")
    BY <1>1 DEF TaskFit, Pc
  <1>3. /\ \A u \in Tasks : task'[u].addr = task[u].addr /\ task'[u].c = task[u].c
        /\ task'[t].pc = "done" /\ \A u \in Tasks : u # t => task'[u] = task[u]
    BY <1>1 DEF addConn, Goto, TasksOf
  <1>4. \A b \in Addrs : cached'[b] = IF b = a THEN c ELSE cached[b]
    BY <1>1 DEF addConn
  <1>5. /\ Excused \subseteq Excused'
        /\ conn[c].stage = "gone" => c \in Excused'
        /\ old \notin {None, c} => old \in Excused'
    <2>1. past' = [past EXCEPT !.late = IF conn[c].stage = "gone" THEN @ \cup {c} ELSE @,
                               !.shadowed = IF old \notin {None, c} THEN @ \cup {old, c} ELSE @]
      BY DEF addConn
    <2> HIDE DEF c, old
    <2> QED BY <1>1, <2>1 DEF PastsOf, Excused
  <1>6. \A u \in Tasks : (Began(u)' <=> Began(u)) /\ (Usable(u)' <=> Usable(u)) /\ (Alive(u)' <=> Alive(u))
    BY <1>1 DEF Began, Usable, Alive
  <1> HIDE DEF c, a, old
  <1>7. ASSUME NEW u \in Tasks PROVE TaskFit(u)'
    <2>1. task[u].pc \in {"wait", "add"} => task[u].c \in Tasks
      BY DEF AllInv, ConnsInv, Places, Pc
    <2>2. TaskFit(u)
      BY DEF AllInv, CacheInv
    <2> QED BY <1>1, <1>3, <1>6, <2>1, <2>2 DEF TaskFit, Pc
  <1>8. Cached'
    <2> SUFFICES ASSUME NEW b \in Addrs, NEW u \in Tasks, cached'[b] = u PROVE Began(u)' /\ task'[u].addr = b
      BY DEF Cached
    <2>1. CASE b = a
      BY <1>2, <1>3, <1>4, <1>6, <2>1
    <2>2. CASE b # a
      BY <1>3, <1>4, <1>6, <2>2 DEF AllInv, CacheInv, Cached
    <2> QED BY <2>1, <2>2
  <1>9. Usable(c) \/ conn[c].stage = "gone"
    BY <1>2 DEF Usable, Began, Alive
  <1>10. Known'
    <2> SUFFICES ASSUME NEW u \in Tasks, u \notin Excused'
        PROVE  /\ \A b \in Addrs : cached'[b] = u => Usable(u)'
               /\ task'[u].pc = "done" /\ Alive(u)' => cached'[task'[u].addr] = u
      BY DEF Known, Pc
    <2>1. /\ \A b \in Addrs : cached[b] = u => Usable(u)
          /\ (Pc(u, "done") /\ Alive(u)) => cached[task[u].addr] = u
      BY <1>5 DEF AllInv, CacheInv, Known
    <2>2. ASSUME NEW b \in Addrs, cached'[b] = u PROVE Usable(u)'
      BY <1>4, <1>5, <1>6, <1>9, <2>1, <2>2
    <2>3. ASSUME task'[u].pc = "done", Alive(u)' PROVE cached'[task'[u].addr] = u
      <3>1. Alive(u) /\ conn[u].stage # "none" /\ task'[u].addr = task[u].addr
        BY <1>3, <1>6, <2>3 DEF Alive
      <3>2. CASE u = t
        BY <1>1, <1>2, <1>3, <1>4, <3>1, <3>2
      <3>3. CASE u # t
        <4>1. cached[task[u].addr] = u
          BY <1>3, <2>1, <2>3, <3>1, <3>3 DEF Pc
        <4>2. task[u].addr \in Addrs
          BY <3>1 DEF AllInv, ConnsInv, Places, Pc
        <4>3. CASE task[u].addr = a
          <5>1. old = u
            BY <4>1, <4>3 DEF old
          <5>2. u = c
            BY <1>5, <5>1, ConnsAssumption
          <5> QED BY <1>4, <3>1, <4>2, <4>3, <5>2
        <4>4. CASE task[u].addr # a
          BY <1>4, <3>1, <4>1, <4>2, <4>4
        <4> QED BY <4>3, <4>4
      <3> QED BY <3>2, <3>3
    <2> QED BY <2>2, <2>3
  <1>11. NoLeak'
    <2> SUFFICES ASSUME NEW u \in Tasks, u \notin Excused', task'[u].pc = "done", conn'[u].fc = "open"
        PROVE  Usable(u)' \/ task'[u].c \notin {u, None}
      BY DEF NoLeak, Pc, Excused, Usable
    <2>1. CASE u = t
      BY <1>1, <1>3, <1>5, <1>6, <1>9, <2>1, ConnsAssumption DEF c
    <2>2. CASE u # t
      <3>1. (Pc(u, "done") /\ conn[u].fc = "open") => Usable(u) \/ task[u].c \notin {u, None}
        BY <1>5 DEF AllInv, CacheInv, NoLeak, Usable, Excused
      <3> QED BY <1>1, <1>3, <1>6, <2>2, <3>1 DEF Pc
    <2> QED BY <2>1, <2>2
  <1> QED BY <1>7, <1>8, <1>10, <1>11 DEF CacheInv

\* A connection ends and is removed; the transport has it still.
LEMMA EndedCache ==
  ASSUME AllInv, NEW t \in Tasks, ended(t) \/ removeConn(t)
  PROVE  CacheInv'
  <1>1. conn \in [Tasks -> ConnsOf] /\ UNCHANGED <<task, cached, past>> /\ TaskFit(t)
    BY DEF AllInv, ConnsInv, Types, CacheInv, ended, removeConn
  <1>2. PICK s \in {"ended", "removed"} : Stage(t, s) /\ (s = "ended" => Alive(t))
    BY DEF ended, removeConn, Alive
  <1>3. /\ \A u \in Tasks : u # t => conn'[u] = conn[u]
        /\ conn'[t].stage = s /\ conn'[t].init = conn[t].init /\ conn'[t].fc = conn[t].fc
    BY <1>1, <1>2 DEF Stage, ConnsOf
  <1>4. Usable(t) /\ Alive(t) /\ Usable(t)' /\ Began(t)' /\ conn[t].stage # "none"
    BY <1>2, <1>3 DEF ended, removeConn, Usable, Alive, Began
  <1>5. TaskFit(t)'
    <2>1. task[t].pc \in {"wait", "add"} => task[t].c \in Tasks
      BY DEF AllInv, ConnsInv, Places, Pc
    <2>2. \A u \in Tasks : (Began(u) => Began(u)') /\ (conn[u].stage # "none" => conn'[u].stage # "none")
      BY <1>3, <1>4 DEF Began
    <2> QED BY <1>1, <1>3, <1>4, <2>1, <2>2 DEF TaskFit, Pc
  <1> QED BY <1>1, <1>3, <1>4, <1>5, OneTask DEF Pc

\* What the transport has of its address is closed, and forgotten.
LEMMA CloseConnCache ==
  ASSUME AllInv, NEW t \in Tasks, closeConn(t)
  PROVE  CacheInv'
  <1> DEFINE a == task[t].addr
             o == cached[a]
  <1>1. /\ conn \in [Tasks -> ConnsOf] /\ past \in PastsOf /\ cached \in [Addrs -> Tasks \cup {None}]
        /\ conn[t].stage = "removed" /\ a \in Addrs /\ task' = task
    BY DEF AllInv, ConnsInv, Types, closeConn, Places, Pc
  <1>2. ASSUME NEW u \in Tasks
        PROVE  /\ conn'[u].stage = IF u = t THEN "gone" ELSE conn[u].stage
               /\ conn'[u].fc = IF u = o THEN "shut" ELSE conn[u].fc
               /\ conn'[u].init = conn[u].init
    <2> DEFINE g == IF u = t THEN "gone" ELSE conn[u].stage
               f == IF u = o THEN "shut" ELSE conn[u].fc
    <2>1. conn'[u] = [conn[u] EXCEPT !.stage = g, !.fc = f]
      BY DEF closeConn
    <2>2. conn[u] \in ConnsOf
      BY <1>1
    <2> HIDE DEF g, f, o
    <2>3. conn'[u].stage = g /\ conn'[u].fc = f /\ conn'[u].init = conn[u].init
      BY <2>1, <2>2 DEF ConnsOf
    <2> QED BY <2>3 DEF g, f
  <1>3. \A b \in Addrs : cached'[b] = IF b = a THEN None ELSE cached[b]
    BY <1>1 DEF closeConn
  <1>4. /\ Excused \subseteq Excused'
        /\ o = None => t \in Excused'
        /\ o \notin {None, t} => {o, t} \subseteq Excused'
    <2>1. past' = [past EXCEPT !.late = IF o = None THEN @ \cup {t} ELSE @,
                               !.shadowed = IF o \notin {None, t} THEN @ \cup {o, t} ELSE @]
      BY DEF closeConn
    <2> HIDE DEF o
    <2> QED BY <1>1, <2>1 DEF PastsOf, Excused
  <1>5. \A u \in Tasks : /\ Began(u)' <=> Began(u)
                         /\ Alive(u)' <=> Alive(u)
                         /\ u # t => (Usable(u)' <=> Usable(u))
                         /\ conn'[u].stage # "none" <=> conn[u].stage # "none"
    BY <1>1, <1>2 DEF Began, Alive, Usable
  <1> HIDE DEF a, o
  <1>6. ASSUME NEW u \in Tasks PROVE TaskFit(u)'
    <2>1. task[u].pc \in {"wait", "add"} => task[u].c \in Tasks
      BY DEF AllInv, ConnsInv, Places, Pc
    <2>2. TaskFit(u) /\ conn'[u].init = conn[u].init
      BY <1>2 DEF AllInv, CacheInv
    <2> QED BY <1>1, <1>5, <2>1, <2>2 DEF TaskFit, Pc
  <1>7. Cached'
    BY <1>1, <1>3, <1>5, ConnsAssumption DEF AllInv, CacheInv, Cached
  <1>8. Known'
    <2> SUFFICES ASSUME NEW u \in Tasks, u \notin Excused'
        PROVE  /\ \A b \in Addrs : cached'[b] = u => Usable(u)'
               /\ task[u].pc = "done" /\ Alive(u)' => cached'[task[u].addr] = u
      BY <1>1 DEF Known, Pc
    <2>1. /\ \A b \in Addrs : cached[b] = u => Usable(u)
          /\ (Pc(u, "done") /\ Alive(u)) => cached[task[u].addr] = u
      BY <1>4 DEF AllInv, CacheInv, Known
    <2>2. ASSUME NEW b \in Addrs, cached'[b] = u PROVE Usable(u)'
      <3>1. b # a /\ cached[b] = u
        BY <1>3, <2>2, ConnsAssumption
      <3>2. task[u].addr = b
        BY <3>1 DEF AllInv, CacheInv, Cached
      <3>3. u # t
        BY <3>1, <3>2 DEF a
      <3> QED BY <1>5, <2>1, <3>1, <3>3
    <2>3. ASSUME task[u].pc = "done", Alive(u)' PROVE cached'[task[u].addr] = u
      <3>1. Alive(u) /\ u # t /\ cached[task[u].addr] = u /\ task[u].addr \in Addrs
        BY <1>1, <1>5, <2>1, <2>3 DEF AllInv, ConnsInv, Places, Pc, Alive
      <3>2. task[u].addr # a
        BY <1>4, <3>1, ConnsAssumption DEF o
      <3> QED BY <1>3, <3>1, <3>2
    <2> QED BY <2>2, <2>3
  <1>9. NoLeak'
    <2> SUFFICES ASSUME NEW u \in Tasks, u \notin Excused', task[u].pc = "done", conn'[u].fc = "open"
        PROVE  Usable(u)' \/ task[u].c \notin {u, None}
      BY <1>1 DEF NoLeak, Pc, Excused, Usable
    <2>1. u # o /\ conn[u].fc = "open"
      BY <1>2
    <2>2. u # t
      BY <1>4, <2>1
    <2>3. (Pc(u, "done") /\ conn[u].fc = "open") => Usable(u) \/ task[u].c \notin {u, None}
      BY <1>4 DEF AllInv, CacheInv, NoLeak, Usable, Excused
    <2> QED BY <1>5, <2>1, <2>2, <2>3 DEF Pc
  <1> QED BY <1>6, <1>7, <1>8, <1>9 DEF CacheInv

\* close(closeq) and the other steps of a connection change neither stage nor
\* factory connection.
LEMMA CloseQCache ==
  ASSUME AllInv, NEW c \in Tasks, NEW left,
         left.stage = conn[c].stage, left.init = conn[c].init, left.fc = conn[c].fc, left \in ConnsOf,
         CloseQ(c, left), UNCHANGED <<task, cached>>
  PROVE  CacheInv'
  <1>1. conn \in [Tasks -> ConnsOf] /\ past \in PastsOf
    BY DEF AllInv, ConnsInv, Types
  <1>2. \A d \in Tasks : conn'[d].stage = conn[d].stage /\ conn'[d].init = conn[d].init /\ conn'[d].fc = conn[d].fc
    BY <1>1 DEF CloseQ, ConnsOf
  <1>3. past'.late = past.late /\ past'.shadowed = past.shadowed
    BY <1>1 DEF CloseQ, PastsOf
  <1> QED BY <1>2, <1>3, SameCache

LEMMA RunningCache ==
  ASSUME AllInv, NEW c \in Tasks, Running(c) \/ Close(c)
  PROVE  CacheInv'
  <1>1. conn \in [Tasks -> ConnsOf] /\ past \in PastsOf /\ conn[c] \in ConnsOf
    BY DEF AllInv, ConnsInv, Types
  <1>2. ASSUME NEW x, x.stage = conn[c].stage, x.init = conn[c].init, x.fc = conn[c].fc, conn' = [conn EXCEPT ![c] = x],
               UNCHANGED <<cached, task>>, past'.late = past.late, past'.shadowed = past.shadowed
        PROVE  CacheInv'
    <2>1. \A d \in Tasks : conn'[d].stage = conn[d].stage /\ conn'[d].init = conn[d].init /\ conn'[d].fc = conn[d].fc
      BY <1>1, <1>2
    <2> QED BY <1>2, <2>1, SameCache
  <1>3. CASE onConnect(c)
    <2> DEFINE x == [conn[c] EXCEPT !.calling = FALSE]
    <2>1. x \in ConnsOf /\ x.stage = conn[c].stage /\ x.init = conn[c].init /\ x.fc = conn[c].fc
      BY <1>1 DEF ConnsOf
    <2>2. CASE conn' = [conn EXCEPT ![c].calling = FALSE] /\ UNCHANGED <<phase, past>>
      <3>1. conn' = [conn EXCEPT ![c] = x]
        BY <2>2
      <3> HIDE DEF x
      <3> QED BY <1>2, <1>3, <2>1, <2>2, <3>1 DEF onConnect
    <2>3. CASE CloseQ(c, x)
      <3> HIDE DEF x
      <3> QED BY <1>3, <2>1, <2>3, CloseQCache DEF onConnect
    <2> QED BY <1>3, <2>2, <2>3 DEF onConnect
  <1>4. CASE receiveFails(c)
    <2> DEFINE x == [conn[c] EXCEPT !.rcv = "off"]
    <2>1. x \in ConnsOf /\ x.stage = conn[c].stage /\ x.init = conn[c].init /\ x.fc = conn[c].fc
      BY <1>1 DEF ConnsOf
    <2>2. CloseQ(c, x)
      BY <1>4 DEF receiveFails
    <2> HIDE DEF x
    <2> QED BY <1>4, <2>1, <2>2, CloseQCache DEF receiveFails
  <1>5. CASE receiveEnds(c) \/ receiveAsks(c) \/ receiveAnswered(c)
    <2>1. PICK r : conn' = [conn EXCEPT ![c].rcv = r]
      BY <1>5 DEF receiveEnds, receiveAsks, receiveAnswered
    <2> DEFINE x == [conn[c] EXCEPT !.rcv = r]
    <2>2. x.stage = conn[c].stage /\ x.init = conn[c].init /\ x.fc = conn[c].fc /\ conn' = [conn EXCEPT ![c] = x]
      BY <1>1, <2>1 DEF ConnsOf
    <2> HIDE DEF x
    <2> QED BY <1>2, <1>5, <2>2 DEF receiveEnds, receiveAsks, receiveAnswered
  <1>6. CASE Close(c)
    <2> DEFINE x == [conn[c] EXCEPT !.closed = TRUE]
    <2>1. x.stage = conn[c].stage /\ x.init = conn[c].init /\ x.fc = conn[c].fc /\ conn' = [conn EXCEPT ![c] = x]
      BY <1>1, <1>6 DEF ConnsOf, Close
    <2>2. past'.late = past.late /\ past'.shadowed = past.shadowed
      BY <1>1, <1>6 DEF Close, PastsOf
    <2> HIDE DEF x
    <2> QED BY <1>2, <1>6, <2>1, <2>2 DEF Close
  <1> QED BY <1>3, <1>4, <1>5, <1>6, EndedCache, CloseConnCache DEF Running

\* Close of the node, the swarm, and all steps.
LEMMA ClosingCache ==
  ASSUME AllInv, NEW to, NodeClose(to) \/ NodeClosing
  PROVE  CacheInv'
  <1>1. conn \in [Tasks -> ConnsOf] /\ closer \in [todo : SUBSET Tasks, at : Tasks \cup {None}]
    BY DEF AllInv, ConnsInv, Types
  <1>2. CASE NodeClose(to) \/ CloseWait \/ CloseDone
    BY <1>2, SameCache DEF NodeClose, CloseWait, CloseDone
  <1>3. CASE CloseNext
    <2>1. PICK c \in closer.todo : CloseQ(c, conn[c])
      BY <1>3 DEF CloseNext
    <2>2. c \in Tasks /\ conn[c] \in ConnsOf
      BY <1>1, <2>1
    <2> QED BY <1>3, <2>1, <2>2, CloseQCache DEF CloseNext
  <1> QED BY <1>2, <1>3 DEF NodeClosing

LEMMA NextCache == AllInv /\ [Next]_vars => AllInv'
  <1> SUFFICES ASSUME AllInv, [Next]_vars PROVE AllInv'
    OBVIOUS
  <1>1. ConnsInv'
    BY NextInv DEF AllInv
  <1>2. ASSUME UNCHANGED <<task, cached, conn, past>> PROVE CacheInv'
    BY <1>2, SameCache
  <1>3. ASSUME Loop \/ List \/ LeaveSwarm \/ CloseNode \/ Closing PROVE CacheInv'
    <2>1. CASE Loop \/ List
      BY <1>2, <2>1
         DEF Loop, List, ResponseEnds, Top, Tick, needPeers, requestPeers, clearOldPeers, needConns, createOutgoingConns, AddPeer, RemovePeer, Age, cvars
    <2>2. CASE LeaveSwarm \/ ShutdownDone
      BY <1>2, <2>2 DEF LeaveSwarm, ShutdownDone
    <2>3. CASE CloseNode \/ (NodeClosing /\ UNCHANGED svars)
      BY <2>3, ClosingCache DEF CloseNode
    <2> QED BY <1>3, <2>1, <2>2, <2>3 DEF Closing
  <1>4. ASSUME phase # "panic", NEW t \in Tasks, Goroutine(t) \/ Response(t) \/ Others(t) \/ Running(t) PROVE CacheInv'
    <2>1. CASE Connect(t)
      BY <1>2, <2>1, DialCache DEF Connect, cvars
    <2>2. CASE Subscribe(t) \/ Response(t) \/ SubscribeRemote(t)
      BY <1>2, <2>2 DEF Subscribe, Response, SubscribeRemote, cvars
    <2>3. CASE Connecting(t)
      BY <1>4, <2>3, UnreachableCache, OnNewConnCache, WaitingCache, OnConnInitCache, OnConnInitErrCache, AddConnCache
         DEF Connecting
    <2>4. CASE Running(t) \/ Close(t)
      BY <2>4, RunningCache
    <2>5. CASE \E d \in Dials[t] : Dial(t, d[1], d[2])
      <3>1. PICK d \in Dials[t] : Dial(t, d[1], d[2])
        BY <2>5
      <3>2. d[1] \in Addrs /\ d[2] \in BOOLEAN
        BY ConnsAssumption
      <3> QED BY <3>1, <3>2, DialCache
    <2> QED BY <1>4, <2>1, <2>2, <2>3, <2>4, <2>5 DEF Goroutine, Others
  <1>5. ASSUME UNCHANGED vars PROVE CacheInv'
    BY <1>2, <1>5 DEF vars, cvars
  <1>6. CacheInv'
    BY <1>3, <1>4, <1>5 DEF Next
  <1> QED BY <1>1, <1>6 DEF AllInv

LEMMA InitCache == Init => AllInv
  <1> SUFFICES ASSUME Init PROVE AllInv
    OBVIOUS
  <1>1. /\ \A t \in Tasks : task[t].pc = "idle" /\ conn[t].stage = "none" /\ conn[t].init = "open" /\ ~Alive(t)
        /\ \A a \in Addrs : cached[a] = None
    BY DEF Init, ConnsInit, NoTask, NoConn, Alive
  <1>2. (\A t \in Tasks : TaskFit(t)) /\ Cached /\ Known /\ NoLeak
    BY <1>1, ConnsAssumption DEF TaskFit, Cached, Known, NoLeak, Pc
  <1> QED BY <1>2, InitInv DEF AllInv, CacheInv

\* The transport returns no connection whose end is complete (a closed one that
\* still ends it may return), and knows those that run, but for a connection
\* that ended before the transport had it or met another of its address
\* (transports.go addConn, closeConn, Connect; conn.go:406).
THEOREM SwarmCacheTrue == Spec => []CacheTrue
  <1>1. Spec => []AllInv
    BY InitCache, NextCache, PTL DEF Spec
  <1>2. ASSUME AllInv PROVE CacheTrue
    <2>1. cached \in [Addrs -> Tasks \cup {None}]
      BY <1>2 DEF AllInv, ConnsInv, Types
    <2>2. \A c \in Kept(cached) : \E a \in Addrs : cached[a] = c
      BY <2>1 DEF Kept, Range
    <2> QED BY <1>2, <2>2 DEF AllInv, CacheInv, Known, CacheTrue, Usable, Excused
  <1> QED BY <1>1, <1>2, PTL

\* No factory connection stays open behind a connection that is gone, but for
\* the same ones and for that of a task whose Connect returned another
\* connection (transports.go Connect, acceptConn, closeConn).
THEOREM SwarmNoLeak == Spec => []NoLeak
  <1>1. Spec => []AllInv
    BY InitCache, NextCache, PTL DEF Spec
  <1>2. AllInv => NoLeak
    BY DEF AllInv, CacheInv
  <1> QED BY <1>1, <1>2, PTL

-----------------------------------------------------------------------------
(* The list of peers                                                       *)

PeersLimit == Cardinality(DOMAIN peers) <= MaxPeers

PeersInv == IsFiniteSet(DOMAIN peers) /\ PeersLimit /\ mu \subseteq Infos

\* A list with no other key keeps the limit.
LEMMA NoKeyMore ==
  ASSUME PeersInv, NEW D, D \subseteq DOMAIN peers
  PROVE  IsFiniteSet(D) /\ Cardinality(D) <= MaxPeers
  <1>1. IsFiniteSet(D) /\ Cardinality(D) <= Cardinality(DOMAIN peers)
    BY FS_Subset DEF PeersInv
  <1>2. MaxPeers \in Nat /\ Cardinality(DOMAIN peers) \in Nat /\ Cardinality(D) \in Nat
    BY <1>1, FS_CardinalityType, SwarmAssumption DEF PeersInv
  <1> QED BY <1>1, <1>2 DEF PeersInv, PeersLimit

\* So does one with as many keys more as there is room for.
LEMMA KeysMore ==
  ASSUME IsFiniteSet(DOMAIN peers), NEW K, IsFiniteSet(K), Cardinality(K) <= MaxPeers - Cardinality(DOMAIN peers)
  PROVE  IsFiniteSet(DOMAIN peers \cup K) /\ Cardinality(DOMAIN peers \cup K) <= MaxPeers
  <1> DEFINE D == DOMAIN peers
  <1>1. IsFiniteSet(D \cup K) /\ Cardinality(D \cup K) = Cardinality(D) + Cardinality(K) - Cardinality(D \cap K)
    BY FS_Union
  <1>2. IsFiniteSet(D \cap K)
    BY FS_Subset
  <1>3. MaxPeers \in Nat /\ Cardinality(D) \in Nat /\ Cardinality(K) \in Nat /\ Cardinality(D \cap K) \in Nat
    BY <1>2, FS_CardinalityType, SwarmAssumption
  <1> HIDE DEF D
  <1>4. Cardinality(K) <= MaxPeers - Cardinality(D)
    BY DEF D
  <1> QED BY <1>1, <1>3, <1>4 DEF D

\* addPeers caps what it takes of a response by the room it found under s.mu.
LEMMA AddPeersKeys ==
  ASSUME PeersInv, NEW list \in SUBSET Infos, addPeers(list)
  PROVE  IsFiniteSet(DOMAIN peers') /\ Cardinality(DOMAIN peers') <= MaxPeers
  <1>1. MaxPeers \in Nat /\ Cardinality(DOMAIN peers) \in Nat
    BY FS_CardinalityType, SwarmAssumption DEF PeersInv
  <1>2. CASE Cardinality(DOMAIN peers) >= MaxPeers
    BY <1>2, NoKeyMore DEF addPeers
  <1>3. CASE Cardinality(DOMAIN peers) < MaxPeers
    <2> DEFINE valid == {i \in list : ~isSelf(i) /\ validatePeer(i)}
               Takes(taken, last) ==
                 /\ Cardinality(taken) = Room(valid)
                 /\ \A k \in DOMAIN last : KeyFor(last[k]) = k
                 /\ DOMAIN peers' = DOMAIN peers \cup DOMAIN last
    <2>1. \E taken \in SUBSET valid : \E last \in [{KeyFor(i) : i \in taken} -> taken] : Takes(taken, last)
      <3>1. ~(Cardinality(DOMAIN peers) >= MaxPeers)
        BY <1>1, <1>3
      <3> QED BY <3>1 DEF addPeers
    <2> HIDE DEF Takes
    <2>2. PICK taken \in SUBSET valid : \E last \in [{KeyFor(i) : i \in taken} -> taken] : Takes(taken, last)
      BY <2>1
    <2>3. PICK last \in [{KeyFor(i) : i \in taken} -> taken] : Takes(taken, last)
      BY <2>2
    <2> DEFINE K == {KeyFor(i) : i \in taken}
    <2>4. IsFiniteSet(taken) /\ IsFiniteSet(valid)
      BY SwarmAssumption, FS_Subset
    <2>5. last \in [K -> taken]
      BY <2>3
    <2>6. \A k \in K : KeyFor(last[k]) = k
      BY <2>3, <2>5 DEF Takes
    <2> HIDE DEF K, valid
    <2>7. last \in Injection(K, taken)
      <3>1. \A a, b \in DOMAIN last : last[a] = last[b] => a = b
        BY <2>5, <2>6
      <3> QED BY <2>5, <3>1 DEF Injection, IsInjective
    <2>8. IsFiniteSet(K) /\ Cardinality(K) <= Cardinality(taken)
      BY <2>4, <2>7, FS_Injection
    <2>9. Cardinality(K) \in Nat /\ Cardinality(taken) \in Nat /\ Cardinality(valid) \in Nat
      BY <2>4, <2>8, FS_CardinalityType
    <2>10. Cardinality(taken) <= MaxPeers - Cardinality(DOMAIN peers)
      BY <1>1, <2>3, <2>9 DEF Takes, Room
    <2>11. DOMAIN peers' = DOMAIN peers \cup K
      BY <2>3, <2>5 DEF Takes
    <2>12. Cardinality(K) <= MaxPeers - Cardinality(DOMAIN peers)
      BY <1>1, <2>8, <2>9, <2>10
    <2> QED BY <2>8, <2>11, <2>12, KeysMore DEF PeersInv
  <1> QED BY <1>1, <1>2, <1>3

LEMMA NextPeers == PeersInv /\ [Next]_vars => PeersInv'
  <1> SUFFICES ASSUME PeersInv, [Next]_vars PROVE PeersInv'
    OBVIOUS
  <1>1. ASSUME DOMAIN peers' \subseteq DOMAIN peers, mu' = mu PROVE PeersInv'
    BY <1>1, NoKeyMore DEF PeersInv, PeersLimit
  <1>2. ASSUME peers' = peers, mu' = mu PROVE PeersInv'
    BY <1>1, <1>2
  <1>3. ASSUME NEW list \in SUBSET Infos, addPeers(list), mu' \subseteq Infos PROVE PeersInv'
    BY <1>3, AddPeersKeys DEF PeersInv, PeersLimit
  <1>4. ASSUME NEW i \in Own, AddPeer(i) PROVE PeersInv'
    <2>1. DOMAIN peers' = DOMAIN peers \cup {i.key} /\ Cardinality(DOMAIN peers) < MaxPeers /\ mu' = mu
      BY <1>4 DEF AddPeer, Store
    <2>2. IsFiniteSet({i.key}) /\ Cardinality({i.key}) = 1
      BY FS_Singleton
    <2>3. Cardinality({i.key}) <= MaxPeers - Cardinality(DOMAIN peers)
      <3>1. MaxPeers \in Nat /\ Cardinality(DOMAIN peers) \in Nat
        BY FS_CardinalityType, SwarmAssumption DEF PeersInv
      <3> QED BY <2>1, <2>2, <3>1
    <2> QED BY <2>1, <2>2, <2>3, KeysMore DEF PeersInv, PeersLimit
  <1>5. ASSUME NEW k, RemovePeer(k) \/ Age(k) PROVE PeersInv'
    BY <1>1, <1>5 DEF RemovePeer, Age, Drop
  <1>6. CASE ResponseEnds
    BY <1>3, <1>6 DEF ResponseEnds, PeersInv
  <1>7. CASE Loop
    <2>1. CASE Top \/ Tick \/ needPeers \/ requestPeers \/ needConns \/ createOutgoingConns
      BY <1>2, <2>1 DEF Top, Tick, needPeers, requestPeers, needConns, createOutgoingConns
    <2>2. CASE clearOldPeers
      BY <1>1, <2>2 DEF clearOldPeers, Drop
    <2> QED BY <1>7, <2>1, <2>2 DEF Loop
  <1>8. ASSUME NEW k, NEW d, Retry(k, d), mu' = mu PROVE PeersInv'
    BY <1>1, <1>8 DEF Retry
  <1>9. CASE LeaveSwarm \/ CloseNode \/ Closing
    BY <1>2, <1>9 DEF LeaveSwarm, CloseNode, Closing, ShutdownDone, svars
  <1>10. ASSUME NEW t \in Tasks, Goroutine(t) \/ Response(t) \/ Others(t) \/ (Running(t) /\ UNCHANGED svars) PROVE PeersInv'
    <2>1. CASE Connect(t)
      BY <1>2, <1>8, <2>1 DEF Connect, incPeerRetryTimes
    <2>2. CASE Subscribe(t)
      BY <1>8, <2>2 DEF Subscribe, incPeerRetryTimes, resetPeerRetryTimes
    <2>3. CASE Response(t)
      <3>1. CASE UNCHANGED <<peers, mu>>
        BY <1>2, <3>1
      <3>2. CASE mu' = mu /\ \E list \in SUBSET Infos : addPeers(list)
        BY <1>3, <3>2 DEF PeersInv
      <3>3. CASE peers' = peers /\ \E list \in SUBSET Infos : list # {} /\ mu' = list
        BY <3>3 DEF PeersInv, PeersLimit
      <3> QED BY <2>3, <3>1, <3>2, <3>3 DEF Response
    <2>4. CASE Others(t)
      BY <1>2, <2>4 DEF Others, SubscribeRemote, svars
    <2> QED BY <1>2, <1>10, <2>1, <2>2, <2>3, <2>4 DEF Goroutine, svars
  <1>11. CASE UNCHANGED vars
    BY <1>2, <1>11 DEF vars, svars
  <1> QED BY <1>4, <1>5, <1>6, <1>7, <1>9, <1>10, <1>11 DEF Next, List

\* The list of peers keeps its limit, however many responses come and however
\* late, with the user's AddPeer between (swarm.go AddPeer, addPeers).
THEOREM SwarmPeersLimit == Spec => []PeersLimit
  <1>1. Init => PeersInv
    <2> SUFFICES ASSUME Init PROVE PeersInv
      OBVIOUS
    <2>1. DOMAIN peers = {} /\ mu = {}
      BY DEF Init, NoFun
    <2>2. MaxPeers \in Nat
      BY SwarmAssumption
    <2> QED BY <2>1, <2>2, FS_EmptySet DEF PeersInv, PeersLimit
  <1>2. PeersInv => PeersLimit
    BY DEF PeersInv
  <1> QED BY <1>1, <1>2, NextPeers, PTL DEF Spec

\* A goroutine that ends brings no peer back that was removed, or has expired,
\* while it connected (swarm.go createOutgoingConns, incPeerRetryTimes,
\* resetPeerRetryTimes).
THEOREM SwarmRemovedStays == Spec => RemovedStays
  <1> DEFINE Stays == \A t \in Tasks : who[t] # None /\ who'[t] = None => DOMAIN peers' \subseteq DOMAIN peers
  <1>1. ASSUME [Next]_vars PROVE Stays
    <2>1. ASSUME who' = who PROVE Stays
      BY <2>1
    <2>2. ASSUME DOMAIN peers' \subseteq DOMAIN peers PROVE Stays
      BY <2>2
    <2>3. ASSUME NEW k, NEW d, Retry(k, d) PROVE Stays
      BY <2>2, <2>3 DEF Retry
    <2> HIDE DEF Stays
    <2>4. CASE List \/ LeaveSwarm \/ CloseNode \/ Closing
      BY <2>1, <2>4 DEF List, ResponseEnds, AddPeer, RemovePeer, Age, LeaveSwarm, CloseNode, Closing, ShutdownDone, svars
    <2>5. CASE Loop
      <3>1. CASE createOutgoingConns
        BY <2>2, <3>1 DEF createOutgoingConns
      <3> QED BY <2>1, <2>5, <3>1 DEF Loop, Top, Tick, needPeers, requestPeers, clearOldPeers, needConns
    <2>6. ASSUME NEW t \in Tasks, Goroutine(t) \/ Response(t) \/ Others(t) \/ (Running(t) /\ UNCHANGED svars) PROVE Stays
      <3>1. CASE Connect(t)
        BY <2>1, <2>3, <3>1 DEF Connect, incPeerRetryTimes
      <3>2. CASE Subscribe(t)
        BY <2>3, <3>2 DEF Subscribe, incPeerRetryTimes, resetPeerRetryTimes
      <3> QED BY <2>1, <2>6, <3>1, <3>2 DEF Goroutine, Response, Others, SubscribeRemote, svars
    <2>7. CASE UNCHANGED vars
      BY <2>1, <2>7 DEF vars, svars
    <2> QED BY <1>1, <2>4, <2>5, <2>6, <2>7 DEF Next
  <1>2. Spec => [][Stays]_vars
    BY <1>1, PTL DEF Spec
  <1> QED BY <1>2 DEF RemovedStays, Stays
=============================================================================
