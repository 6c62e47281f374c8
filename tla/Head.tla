-------------------------------- MODULE Head --------------------------------
(***************************************************************************)
(* A head of a feed (node/head.go) with the goroutine of the feeds         *)
(* (node/feeds.go, node/feed.go) it talks to.  The head fills one Root at  *)
(* a time: it asks connections that have announced the Root for the        *)
(* objects its Filler requests.                                            *)
(*                                                                         *)
(* The goroutines are: the head, which serves one channel of its select at *)
(* a time; the goroutine of the feeds; one goroutine for every request,    *)
(* which waits for the peer and then for the head; the Filler (module      *)
(* Fill), here only what it asks and how it ends.  The channels of the     *)
(* head have no buffer, so a sender stays where it is until the head takes *)
(* the value.  Fail of the Filler has one place for an error and keeps the *)
(* head for the next one until Run comes to its select.                    *)
(***************************************************************************)
EXTENDS Integers, Sequences, FiniteSets, SequencesExt, FiniteSetsExt

CONSTANTS
  Conns,      \* connections
  Gets,       \* calls of Filler.get of a filling, by which keys are told apart here
  KeyOf,      \* call -> object; an object that is twice in a Root has two calls
  Registry,   \* the call of getRegistry
  Seqs,       \* seqs of the Roots of the head
  Needs,      \* seq -> calls for the objects of the Root
  Timers,     \* TRUE: MaxFillingTime is set
  Verdicts,   \* what OnRootReceived may answer: TRUE accepts
  Errors,     \* how a request may fail: "invalid", "closed", "timeout", "other"
  MaxPush,    \* bound of the Roots peers push
  MaxEvents,  \* bound of Unsub, timeouts and failures of fillings, and DelFeed
  Cap         \* places of nodeFeeds.rrq

ASSUME SeqsAssumption == Seqs \subseteq Nat \ {0} /\ \A s \in Seqs : Needs[s] \subseteq Gets
ASSUME BoundsAssumption == {MaxPush, MaxEvents, Cap} \subseteq Nat /\ Verdicts \subseteq BOOLEAN /\ Timers \in BOOLEAN
ASSUME ErrorsAssumption == Errors \subseteq {"invalid", "closed", "timeout", "other"}
ASSUME RegistryAssumption == Registry \in Gets

VARIABLES
  h,        \* fields of the fillHead; 0 is no Root
  filler,   \* the Filler of h.r
  rq,       \* calls whose keys the Filler has sent and the head has not taken
  flights,  \* goroutines of request of this filling
  late,     \* objects of those of earlier fillings that have not come back
  have,     \* objects of the DB
  fulls,    \* full Roots of the DB
  feeds,    \* what the goroutine of the feeds does
  subs,     \* connections of the feed
  rrq,      \* received Roots for the goroutine of the feeds
  phase,    \* "run", "ended" (closeq), "panic", "mixed" (a result of another filling)
  past      \* what has happened, for the bounds and the properties

vars == <<h, filler, rq, flights, late, have, fulls, feeds, subs, rrq, phase, past>>

\* state is where Run is; missing are the objects the DB does not have when the
\* filling begins, awaits is the call Run itself waits in, and full the place of errq
NoFiller == [state |-> "none", asked |-> {}, missing |-> {}, awaits |-> {}, full |-> FALSE, timer |-> FALSE, result |-> "none"]
Free == [pc |-> "free"]

Keys == {KeyOf[o] : o \in Gets}

Init ==
  /\ h = [r |-> 0, p |-> 0, next |-> 0, rqo |-> <<>>, fc |-> <<>>, cs |-> <<>>, requesting |-> 0, failing |-> FALSE]
  /\ filler = NoFiller /\ rq = {} /\ flights = {} /\ late = {}
  /\ have = {} /\ fulls = {}
  /\ feeds = Free /\ subs = Conns /\ rrq = <<>>
  /\ phase = "run"
  /\ past = [pushes |-> 0, events |-> 0, left |-> FALSE]

-----------------------------------------------------------------------------
(* knownRoots: connection -> the Roots it has announced.  The code keeps    *)
(* them sorted.                                                            *)

addKnown(cs, c, s) == [d \in DOMAIN cs \cup {c} |-> (IF d \in DOMAIN cs THEN cs[d] ELSE {}) \cup (IF d = c THEN {s} ELSE {})]

Forget(cs, c) == [d \in DOMAIN cs \ {c} |-> cs[d]]

removeKnown(cs, c, s) == [d \in DOMAIN cs |-> IF d = c THEN cs[d] \ {s} ELSE cs[d]]

\* the first of the known Roots that is not older
moveForward(cs, s) ==
  [d \in DOMAIN cs |-> LET newer == {t \in cs[d] : t >= s} IN IF newer = {} THEN cs[d] ELSE cs[d] \ {Min(newer)}]

buildConnsList(cs, s) == SetToSeqs({c \in DOMAIN cs : s \in cs[c]})

-----------------------------------------------------------------------------
(* Requests                                                                *)

Runs == filler.state \in {"registry", "walk", "select"}

\* Filler.Fail: the place of errq is taken, or the head waits for it
Fail(hd) ==
  /\ h' = [hd EXCEPT !.failing = Runs /\ filler.full]
  /\ filler' = IF Runs THEN [filler EXCEPT !.full = TRUE] ELSE filler

FreeId == CHOOSE i \in 1..(Cardinality(flights) + 1) : \A fl \in flights : fl.id # i

\* mutant: nobody to ask, and nobody is told
triggerRequestQuietly(hd, others) ==
  LET live == {i \in DOMAIN hd.fc : hd.fc[i] \in DOMAIN hd.cs} IN
  \/ hd.rqo = <<>> /\ h' = hd /\ flights' = others /\ UNCHANGED filler
  \/ hd.rqo # <<>> /\ live = {} /\ h' = [hd EXCEPT !.fc = <<>>] /\ flights' = others /\ UNCHANGED filler
  \/ /\ hd.rqo # <<>> /\ live # {}
     /\ h' = [hd EXCEPT !.fc = SubSeq(@, Min(live) + 1, Len(@)), !.rqo = Tail(@), !.requesting = @ + 1]
     /\ flights' = others \cup {[id |-> FreeId, c |-> hd.fc[Min(live)], key |-> Head(hd.rqo), st |-> "sent"]}
     /\ UNCHANGED filler

\* the first key is requested from the first connection that is still known;
\* those before it are dropped
triggerRequest(hd, others) ==
  LET live == {i \in DOMAIN hd.fc : hd.fc[i] \in DOMAIN hd.cs} IN
  \/ hd.rqo = <<>> /\ h' = hd /\ flights' = others /\ UNCHANGED filler
  \/ /\ hd.rqo # <<>> /\ live = {} /\ flights' = others
     /\ \/ hd.requesting = 0 /\ Fail([hd EXCEPT !.fc = <<>>])
        \/ hd.requesting # 0 /\ h' = [hd EXCEPT !.fc = <<>>] /\ UNCHANGED filler
  \/ /\ hd.rqo # <<>> /\ live # {}
     /\ h' = [hd EXCEPT !.fc = SubSeq(@, Min(live) + 1, Len(@)), !.rqo = Tail(@), !.requesting = @ + 1]
     /\ flights' = others \cup {[id |-> FreeId, c |-> hd.fc[Min(live)], key |-> Head(hd.rqo), st |-> "sent"]}
     /\ UNCHANGED filler

handleRequest(k) ==
  /\ k \in rq
  /\ rq' = rq \ {k}
  /\ triggerRequest([h EXCEPT !.rqo = Append(@, k)], flights)
  /\ UNCHANGED <<late, have, fulls, feeds, subs, rrq, phase, past>>

\* a result of an earlier filling: the lists are nil when no Root is filled,
\* and a nil list panics; else it is counted for this filling, which is not
\* followed further
lateResult ==
  /\ late # {}
  /\ phase' = IF h.r = 0 THEN "panic" ELSE "mixed"
  /\ UNCHANGED <<h, filler, rq, flights, late, have, fulls, feeds, subs, rrq, past>>


handleSuccess(fl) ==
  /\ fl.st = "ok"
  /\ triggerRequest([h EXCEPT !.requesting = @ - 1, !.fc = Append(@, fl.c)], flights \ {fl})
  /\ UNCHANGED <<rq, late, have, fulls, feeds, subs, rrq, phase, past>>

Blamed(cs, fl) ==
  CASE fl.st \in {"invalid", "closed"} -> Forget(cs, fl.c)
    [] fl.st = "timeout" -> removeKnown(cs, fl.c, h.r)
    [] OTHER -> cs

\* mutant: the key is not put back
handleRequestFailureLost(fl) ==
  /\ fl.st \notin {"sent", "ok"}
  /\ triggerRequest([h EXCEPT !.requesting = @ - 1, !.cs = Blamed(@, fl)], flights \ {fl})
  /\ UNCHANGED <<rq, late, have, fulls, feeds, subs, rrq, phase, past>>

handleRequestFailure(fl) ==
  /\ fl.st \notin {"sent", "ok"}
  /\ triggerRequest([h EXCEPT !.requesting = @ - 1, !.cs = Blamed(@, fl), !.rqo = <<fl.key>> \o @], flights \ {fl})
  /\ UNCHANGED <<rq, late, have, fulls, feeds, subs, rrq, phase, past>>

\* request: the peer answers and the object is saved, or there is no answer;
\* then the goroutine waits for the head
Answer(fl) ==
  /\ fl.st = "sent"
  /\ have' = have \cup {KeyOf[fl.key]}
  /\ flights' = (flights \ {fl}) \cup {[fl EXCEPT !.st = "ok"]}
  /\ UNCHANGED <<h, filler, rq, late, fulls, feeds, subs, rrq, phase, past>>

lateAnswer(k) ==
  /\ k \in late \ have
  /\ have' = have \cup {k}
  /\ UNCHANGED <<h, filler, rq, flights, late, fulls, feeds, subs, rrq, phase, past>>

NoAnswer(fl) ==
  /\ fl.st = "sent"
  /\ \E e \in Errors : flights' = (flights \ {fl}) \cup {[fl EXCEPT !.st = e]}
  /\ UNCHANGED <<h, filler, rq, late, have, fulls, feeds, subs, rrq, phase, past>>

-----------------------------------------------------------------------------
(* Roots                                                                   *)

FeedsGo == feeds' = Free

\* what handleReceivedRoot does with the Root of seq s announced by c
handleReceivedRoot ==
  LET c == feeds.c  s == feeds.s
      known == [h EXCEPT !.cs = addKnown(@, c, s)]
  IN /\ feeds.pc = "root" /\ FeedsGo
     /\ \/ /\ h.r # 0 /\ s < h.r
           /\ UNCHANGED <<h, filler, flights>>
        \/ /\ h.r # 0 /\ s = h.r
           /\ triggerRequest([known EXCEPT !.fc = Append(@, c)], flights)
        \/ /\ h.r # 0 /\ s > h.r
           /\ \E accept \in Verdicts : h' = IF s > h.p /\ accept THEN [known EXCEPT !.p = s] ELSE known
           /\ UNCHANGED <<filler, flights>>
        \/ /\ h.r = 0
           /\ \E accept \in Verdicts : h' = IF accept THEN [known EXCEPT !.next = s] ELSE known
           /\ UNCHANGED <<filler, flights>>
     /\ UNCHANGED <<rq, late, have, fulls, subs, rrq, phase, past>>

handleDelConn ==
  /\ feeds.pc = "del" /\ FeedsGo
  /\ h' = [h EXCEPT !.cs = Forget(@, feeds.c)]
  /\ UNCHANGED <<filler, rq, flights, late, have, fulls, subs, rrq, phase, past>>

newFiller == [NoFiller EXCEPT !.state = "registry", !.missing = Keys \ have, !.timer = Timers]

\* createFiller, when the goroutine of the feeds has taken the Root to broadcast
createFiller ==
  /\ h.next # 0 /\ feeds.pc = "free"
  /\ \E l \in buildConnsList(h.cs, h.next) :
       h' = [h EXCEPT !.r = h.next, !.next = 0, !.rqo = <<>>, !.fc = l]
  /\ filler' = newFiller
  /\ UNCHANGED <<rq, flights, late, have, fulls, feeds, subs, rrq, phase, past>>

closeFiller(hd) == [hd EXCEPT !.r = 0, !.rqo = <<>>, !.fc = <<>>, !.requesting = 0]

\* mutant: f.p is not reset
TakePendingKept(hd) == [hd EXCEPT !.next = hd.p]
TakePending(hd) == [hd EXCEPT !.next = hd.p, !.p = 0]

handleFillingResult ==
  /\ filler.state = "ended"
  /\ h' = TakePending(closeFiller(IF filler.result = "full" THEN [h EXCEPT !.cs = moveForward(@, h.r + 1)] ELSE h))
  /\ filler' = NoFiller /\ rq' = {}
  /\ flights' = {} /\ late' = late \cup {KeyOf[fl.key] : fl \in flights}
  /\ UNCHANGED <<have, fulls, feeds, subs, rrq, phase, past>>

Timeout ==
  /\ filler.timer /\ Runs
  /\ past.events < MaxEvents /\ past' = [past EXCEPT !.events = @ + 1]
  /\ h' = [h EXCEPT !.failing = filler.full]
  /\ filler' = [filler EXCEPT !.full = TRUE, !.timer = FALSE]
  /\ UNCHANGED <<rq, flights, late, have, fulls, feeds, subs, rrq, phase>>

\* closeq; the goroutines of request are not told
terminate ==
  /\ feeds.pc = "close"
  /\ h' = closeFiller(h) /\ filler' = NoFiller /\ rq' = {}
  /\ phase' = "ended"
  /\ past' = [past EXCEPT !.left = flights # {} \/ late # {}]
  /\ UNCHANGED <<flights, late, have, fulls, feeds, subs, rrq>>

-----------------------------------------------------------------------------
(* The Filler                                                              *)

\* Filler.get, which has not found the object and sends its key: of Run itself in
\* getRegistry, or where Go has no token, or of another goroutine.  The object
\* may have come since.
get(o) ==
  /\ KeyOf[o] \in filler.missing
  /\ o \in (IF filler.state = "registry" THEN {Registry} ELSE Needs[h.r]) \ filler.asked
  /\ \E own \in IF filler.state = "registry" THEN {{o}} ELSE IF filler.state = "walk" /\ filler.awaits = {} THEN {{}, {o}} ELSE {{}} :
       filler' = [filler EXCEPT !.asked = @ \cup {o}, !.awaits = @ \cup own]
  /\ rq' = rq \cup {o}
  /\ UNCHANGED <<h, flights, late, have, fulls, feeds, subs, rrq, phase, past>>

\* Run has the object it waits for and goes on, in the end to its select
goesOn ==
  /\ \A o \in (IF filler.state = "registry" THEN {Registry} ELSE filler.awaits) : KeyOf[o] \in have
  /\ \/ filler.state \in {"registry", "walk"} /\ filler' = [filler EXCEPT !.state = "walk", !.awaits = {}]
     \/ filler.state = "walk" /\ filler' = [filler EXCEPT !.state = "select", !.awaits = {}]
  /\ UNCHANGED <<h, rq, flights, late, have, fulls, feeds, subs, rrq, phase, past>>

\* a goroutine of the Filler fails
goroutineFails ==
  /\ filler.state \in {"walk", "select"} /\ ~filler.full
  /\ past.events < MaxEvents /\ past' = [past EXCEPT !.events = @ + 1]
  /\ filler' = [filler EXCEPT !.full = TRUE]
  /\ UNCHANGED <<h, rq, flights, late, have, fulls, feeds, subs, rrq, phase>>

\* the select of Run, which saves a full Root and has the result for the head
RunEnds ==
  /\ filler.state = "select"
  /\ \/ /\ filler.full
        /\ filler' = [filler EXCEPT !.state = "ended", !.result = "err"]
        /\ UNCHANGED fulls
     \/ /\ {KeyOf[o] : o \in Needs[h.r]} \subseteq have
        /\ filler' = [filler EXCEPT !.state = "ended", !.result = "full"]
        /\ fulls' = fulls \cup {h.r}
  /\ UNCHANGED <<h, rq, flights, late, have, feeds, subs, rrq, phase, past>>

\* Fail of the head returns when Run has taken an error or has closed the Filler
failed ==
  /\ h.failing /\ ~Runs
  /\ h' = [h EXCEPT !.failing = FALSE]
  /\ UNCHANGED <<filler, rq, flights, late, have, fulls, feeds, subs, rrq, phase, past>>

-----------------------------------------------------------------------------
(* Connections and the goroutine of the feeds                              *)

\* handleRoot of a connection: not if the DB has this or a newer full Root
handleRoot(c, s) ==
  /\ past.pushes < MaxPush /\ Len(rrq) < Cap
  /\ \A t \in fulls : t < s
  /\ rrq' = Append(rrq, [c |-> c, s |-> s])
  /\ past' = [past EXCEPT !.pushes = @ + 1]
  /\ UNCHANGED <<h, filler, rq, flights, late, have, fulls, feeds, subs, phase>>

receivedRoot ==
  /\ feeds.pc = "free" /\ rrq # <<>>
  /\ rrq' = Tail(rrq)
  /\ feeds' = IF Head(rrq).c \in subs THEN [pc |-> "root", c |-> Head(rrq).c, s |-> Head(rrq).s] ELSE Free
  /\ UNCHANGED <<h, filler, rq, flights, late, have, fulls, subs, phase, past>>

delConnFeed(c) ==
  /\ feeds.pc = "free" /\ c \in subs /\ past.events < MaxEvents
  /\ subs' = subs \ {c}
  /\ feeds' = [pc |-> "del", c |-> c]
  /\ past' = [past EXCEPT !.events = @ + 1]
  /\ UNCHANGED <<h, filler, rq, flights, late, have, fulls, rrq, phase>>

addConnFeed(c) ==
  /\ feeds.pc = "free" /\ c \notin subs
  /\ subs' = subs \cup {c}
  /\ UNCHANGED <<h, filler, rq, flights, late, have, fulls, feeds, rrq, phase, past>>

\* handleDelFeed: the feeds wait for the head and for its goroutines
delFeed ==
  /\ feeds.pc = "free"
  /\ past.events < MaxEvents /\ past' = [past EXCEPT !.events = @ + 1]
  /\ feeds' = [pc |-> "close"]
  /\ UNCHANGED <<h, filler, rq, flights, late, have, fulls, subs, rrq, phase>>

\* mutant: first the received Roots
feedDeletedDrained ==
  /\ feeds.pc = "close" /\ phase = "ended" /\ flights = {} /\ late = {} /\ rrq = <<>>
  /\ feeds' = [pc |-> "deleted"]
  /\ UNCHANGED <<h, filler, rq, flights, late, have, fulls, subs, rrq, phase, past>>

feedDeleted ==
  /\ feeds.pc = "close" /\ phase = "ended" /\ flights = {} /\ late = {}
  /\ feeds' = [pc |-> "deleted"]
  /\ UNCHANGED <<h, filler, rq, flights, late, have, fulls, subs, rrq, phase, past>>

-----------------------------------------------------------------------------
\* the select of the head, which is not in it while it waits to broadcast or in Fail
Selects == phase = "run" /\ h.next = 0 /\ ~h.failing

Handle ==
  /\ Selects
  /\ \/ \E o \in Gets : handleRequest(o)
     \/ \E fl \in flights : handleSuccess(fl) \/ handleRequestFailure(fl)
     \/ lateResult \/ handleReceivedRoot \/ handleDelConn \/ handleFillingResult \/ terminate

Broadcast == phase = "run" /\ createFiller

Fires == Selects /\ Timeout

Fills == phase = "run" /\ ((Runs /\ \E o \in Gets : get(o)) \/ goesOn \/ RunEnds \/ failed)

Breaks == phase = "run" /\ goroutineFails

Replies ==
  /\ phase = "run"
  /\ (\E fl \in flights : Answer(fl) \/ NoAnswer(fl)) \/ (\E k \in late : lateAnswer(k))

Feeds == (phase = "run" /\ receivedRoot) \/ (phase = "ended" /\ feedDeleted)

Peers ==
  /\ phase = "run"
  /\ \/ \E c \in Conns, s \in Seqs : handleRoot(c, s)
     \/ \E c \in Conns : delConnFeed(c) \/ addConnFeed(c)
     \/ delFeed

Next == Handle \/ Broadcast \/ Fires \/ Fills \/ Breaks \/ Replies \/ Feeds \/ Peers

\* goroutines run and requests have a timeout; the timer of the filling, the
\* errors of its goroutines and the peers are free
Fairness == WF_vars(Handle) /\ WF_vars(Broadcast) /\ WF_vars(Fills) /\ WF_vars(Replies) /\ WF_vars(Feeds)

Spec == Init /\ [][Next]_vars /\ Fairness

-----------------------------------------------------------------------------
(* Properties                                                              *)

\* a filling into which no result of an earlier one has come
Filling == phase = "run" /\ Runs

\* where a key the Filler has asked for may be
Places(o) ==
  Cardinality({x \in {o} : x \in rq}) + Cardinality({i \in DOMAIN h.rqo : h.rqo[i] = o})
    + Cardinality({fl \in flights : fl.key = o /\ fl.st # "ok"})

\* A key a goroutine of the Filler has sent is, until the object is there, in one
\* place: to be taken, in the list, or requested; no failure and no new
\* connection loses or doubles it.  Of an object that is twice in the Root the
\* Filler sends the key twice, and each of the two is in its place.
EachKeyKept == Filling => \A o \in filler.asked : KeyOf[o] \notin have => Places(o) = 1

\* The head does not sit with keys to request while nothing is requested, but
\* has an error for the Filler.
AsksOn == (Filling /\ h.rqo # <<>>) => (h.requesting > 0 \/ filler.full)

\* The next Root waits only for an older one.
PendingNewer == (phase = "run" /\ h.p # 0) => (h.r # 0 /\ h.p > h.r)

\* The head waits for the goroutine of the feeds, which waits for the head.
Cycle == h.next # 0 /\ feeds.pc \in {"root", "del", "close"}

\* Run waits for an object itself, so that it does not read the error that
\* should end the filling.
Jammed == Runs /\ filler.awaits # {} /\ filler.full

\* Every filling ends, without its timer too: an error of the head or of a
\* goroutine ends it as well as the last object.  Two ways are left in which it
\* does not: a result of an earlier filling comes into it, or Run waits for an
\* object nobody is asked for any more, with the error unread.
FillingEnds == (h.r # 0) ~> (h.r = 0 \/ phase = "mixed" \/ []Jammed)

\* A feed can be deleted, unless the head waits for the feeds, or in Fail for
\* such a Run, or has requests in the air, whose goroutines wait for a head that
\* is gone.
DeleteEnds ==
  (feeds.pc = "close") ~>
    (feeds.pc = "deleted" \/ Cycle \/ past.left \/ phase \in {"panic", "mixed"} \/ [](Jammed /\ h.failing))
=============================================================================
