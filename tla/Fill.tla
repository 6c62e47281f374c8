-------------------------------- MODULE Fill --------------------------------
(***************************************************************************)
(* Filling of Root objects (skyobject/fill.go) with the splitting of their *)
(* trees (registry/split.go, split_refs.go): a Filler walks the tree of a  *)
(* Root, takes a reference to every object, requests those the DB does not *)
(* have and declares the Root full when all its goroutines are done.       *)
(*                                                                         *)
(* Two Fillers (of two heads) share the Cache, of which only the promise   *)
(* is here: what is stored, how many references, and how many of them      *)
(* (fc) were taken for wanted objects of fillings that have not ended.     *)
(* The peers are the environment: they deliver wanted objects, refuse them *)
(* or fail, and the head of the node may close the Filler at any moment.   *)
(*                                                                         *)
(* A goroutine is the sequence of operations it has still to do, so that a *)
(* function started by Go is either the whole of a new goroutine or, if    *)
(* there is no token, in front of what its caller does next.               *)
(***************************************************************************)
EXTENDS Integers, Sequences, FiniteSets, SequencesExt, FiniteSetsExt

CONSTANTS
  Fillers,     \* one for every head
  Keys,        \* hashes of objects
  Roots,       \* filler -> hash of the Root it fills
  Reg,         \* the Registry of the Roots
  Worlds,      \* each: kids, hash -> references of the object, in order; large, the
               \* objects above MaxObjectSize; known, the DB has the Registry; and
               \* rounds, a bound of the fillings
  Trees,       \* the hashes that are nodes of a Refs
  limit,       \* maxParall: tokens of a Filler
  MaxG,        \* bound of the goroutines of a Filler
  Closing,     \* TRUE: the head may close a Filler that runs
  LateCounted  \* what a Want that finds the object adds to its counter

ASSUME SizesAssumption == {limit, MaxG} \subseteq Nat \ {0}
ASSUME TreesAssumption == Trees \subseteq Keys /\ Reg \in Keys
ASSUME RootsAssumption == Roots \in [Fillers -> Keys]
\* a Registry has no references
ASSUME WorldsAssumption ==
  \A W \in Worlds :
    /\ W.kids \in [Keys -> Seq(Keys)] /\ W.kids[Reg] = <<>>
    /\ W.large \in SUBSET Keys /\ W.known \in BOOLEAN /\ W.rounds \in Nat
ASSUME LateAssumption == LateCounted \subseteq Int /\ IsFiniteSet(Fillers)

VARIABLES
  stored,   \* the objects of the DB
  refs,     \* object -> references
  fc,       \* object -> references of wanted objects of fillings
  wants,    \* object -> the goroutines that wait for it
  fill,     \* filler -> its fields
  go,       \* filler -> goroutine -> the operations it has to do; 0 is Run
  kids,     \* hash -> references of the object, in order
  large,    \* the objects above MaxObjectSize
  rounds,   \* bound of the fillings
  phase,    \* "run", or "panic" of Finc
  past      \* what has happened, for the properties

world == <<kids, large, rounds>>

vars == <<stored, refs, fc, wants, fill, go, world, phase, past>>

store == <<stored, refs, fc, wants>>

Zero == [k \in Keys |-> 0]

Idle == [state |-> "idle", incs |-> Zero, pre |-> {}, errq |-> FALSE, closed |-> FALSE,
         tokens |-> 0, result |-> "none", rounds |-> 0, raced |-> FALSE, early |-> FALSE]

\* no reference leads out of W
Closed(W) == \A k \in W : \A i \in DOMAIN kids[k] : kids[k][i] \in W

\* the DB has the object and everything under it
Whole(k) == \E W \in SUBSET stored : k \in W /\ Closed(W)

-----------------------------------------------------------------------------
(* Operations of a goroutine.  how: "hash" for splitSchemaHash, "pre" for  *)
(* splitHash of the root of a Refs, "branch" for splitHash of its nodes,   *)
(* "split" for splitNode, "reg" for getRegistry.                           *)

Op(name, k, how) ==
  [op |-> name, key |-> k, how |-> how, rc |-> 0, inc |-> 1, toSplit |-> <<>>]

\* Go of splitSchemaHash or of Refs.Split
Start(k) == Op("go", k, IF k \in Trees THEN "pre" ELSE "hash")

\* splitSchemaData: the references of an object, each by a Go
SplitData(k) == [i \in DOMAIN kids[k] |-> Start(kids[k][i])]

\* splitNode: a node asks for its branches one by one and keeps those it has
\* loaded in toSplit; its leafs are split by a Go each
SplitNode(k) ==
  [i \in DOMAIN kids[k] |-> IF kids[k][i] \in Trees THEN Op("get", kids[k][i], "branch") ELSE Start(kids[k][i])]

\* the function a Go is given
Body(o) == IF o.how = "split" THEN SplitNode(o.key) ELSE <<Op("get", o.key, o.how)>>

\* toSplit goes from branch to branch; after the last one each is split by a Go
NextBranch(toSplit, s) ==
  IF s # <<>> /\ Head(s).op = "get" /\ Head(s).how = "branch"
  THEN <<[Head(s) EXCEPT !.toSplit = @ \o toSplit]>> \o Tail(s)
  ELSE [i \in DOMAIN toSplit |-> Op("go", toSplit[i], "split")] \o s

\* what is left when splitNode returns from its loop, without toSplit
Branches(s) == {i \in 1..Len(s) : \A j \in 1..i : s[j].op = "get" /\ s[j].how = "branch"}
AfterLoop(s) == SubSeq(s, Cardinality(Branches(s)) + 1, Len(s))

\* what an object that is not skipped leaves to do
Deeper(o, rest) ==
  CASE o.how = "hash" -> SplitData(o.key) \o rest
    [] o.how = "pre" -> SplitNode(o.key) \o rest
    [] o.how = "reg" -> rest
    [] OTHER -> NextBranch(Append(o.toSplit, o.key), rest)

\* Get skips the subtree of an object others hold: "hard rc > 1"; the node of
\* a Refs is skipped if anybody holds it
Skips(how, rc) == IF how = "hash" THEN rc > 1 ELSE how # "reg" /\ rc # 0

Rest(f, g) == Tail(go[f][g])
Do(f, g, s) == go' = [go EXCEPT ![f][g] = s]

Running(f) == fill[f].state \notin {"idle", "over"}

\* mutant: a goroutine counts itself when it begins
BusyBegun(f) == {g \in 1..MaxG : go[f][g] # <<>> /\ Head(go[f][g]).op # "release"}

\* the goroutines that run, without Run itself: await is not zero
Busy(f) == {g \in 1..MaxG : go[f][g] # <<>>}

-----------------------------------------------------------------------------
Init ==
  /\ \E W \in Worlds :
       /\ kids = W.kids /\ large = W.large /\ rounds = W.rounds
       /\ stored = IF W.known THEN {Reg} ELSE {}
  /\ refs = [k \in Keys |-> IF k \in stored THEN 1 ELSE 0] /\ fc = Zero
  /\ wants = [k \in Keys |-> {}]
  /\ fill = [f \in Fillers |-> Idle]
  /\ go = [f \in Fillers |-> [g \in 0..MaxG |-> <<>>]]
  /\ phase = "run"
  /\ past = [unfinished |-> FALSE, overlapped |-> FALSE, dropped |-> FALSE, twice |-> FALSE, skipped |-> {}]

\* Run saves the Root and takes the Registry, then starts a Go for every Dynamic
Run(f) ==
  LET k == Roots[f] IN
  /\ fill[f].state = "idle" /\ MapThenSumSet(LAMBDA e : fill[e].rounds, Fillers) < rounds
  /\ fill' = [fill EXCEPT ![f] = [Idle EXCEPT !.state = "loop", !.rounds = fill[f].rounds + 1, !.incs = [Zero EXCEPT ![k] = 1]]]
  /\ stored' = stored \cup {k} /\ refs' = [refs EXCEPT ![k] = @ + 1]
  /\ Do(f, 0, <<Op("get", Reg, "reg")>> \o SplitData(k))
  /\ past' = [past EXCEPT !.overlapped = @ \/ \E e \in Fillers : Running(e)]
  /\ UNCHANGED <<fc, wants, world, phase>>

\* Go: a new goroutine if there is a token; it gives the token back before it
\* begins, so the limit is of goroutines that have not begun
Go(f, g) ==
  LET o == Head(go[f][g]) IN
  /\ o.op = "go"
  /\ \/ /\ fill[f].tokens < limit
        /\ fill' = [fill EXCEPT ![f].tokens = @ + 1]
        /\ \E n \in 1..MaxG :
             /\ go[f][n] = <<>> /\ \A m \in 1..(n - 1) : go[f][m] # <<>>
             /\ go' = [go EXCEPT ![f][g] = Tail(@), ![f][n] = <<Op("release", o.key, o.how)>> \o Body(o)]
     \/ /\ fill[f].tokens = limit
        /\ Do(f, g, Body(o) \o Rest(f, g))
        /\ UNCHANGED fill
  /\ UNCHANGED <<store, world, phase, past>>

Release(f, g) ==
  /\ Head(go[f][g]).op = "release"
  /\ fill' = [fill EXCEPT ![f].tokens = @ - 1]
  /\ Do(f, g, Rest(f, g))
  /\ UNCHANGED <<store, world, phase, past>>

\* Filler.get up to Container.Get; an object that Pre has asked for is not
\* counted again
Get(f, g) ==
  LET o == Head(go[f][g])
      n == IF o.how \in {"hash", "reg"} /\ o.key \in fill[f].pre THEN 0 ELSE 1
  IN /\ o.op = "get"
     /\ \/ /\ o.key \in stored
           /\ refs' = [refs EXCEPT ![o.key] = @ + n]
           /\ Do(f, g, <<[o EXCEPT !.op = "inc", !.inc = n, !.rc = refs'[o.key] - fc[o.key]]>> \o Rest(f, g))
        \/ /\ o.key \notin stored
           /\ Do(f, g, <<[o EXCEPT !.op = "want", !.inc = n]>> \o Rest(f, g))
           /\ UNCHANGED refs
     /\ UNCHANGED <<stored, fc, wants, fill, world, phase, past>>

\* Want, and the request
Want(f, g) ==
  LET o == Head(go[f][g]) IN
  /\ o.op = "want"
  /\ \/ /\ o.key \notin stored
        /\ wants' = [wants EXCEPT ![o.key] = @ \cup {<<f, g>>}]
        /\ Do(f, g, <<[o EXCEPT !.op = "wait"]>> \o Rest(f, g))
        /\ UNCHANGED <<refs, fc>>
     \/ /\ o.key \in stored
        /\ \E n \in LateCounted : refs' = [refs EXCEPT ![o.key] = @ + n * o.inc]
        /\ fc' = [fc EXCEPT ![o.key] = @ + o.inc]
        /\ Do(f, g, <<[o EXCEPT !.op = "got", !.rc = refs'[o.key] - fc'[o.key]]>> \o Rest(f, g))
        /\ UNCHANGED wants
  /\ UNCHANGED <<stored, fill, world, phase, past>>

Unwanted(f, g) == [k \in Keys |-> wants[k] \ {<<f, g>>}]

\* the select of Filler.get
Receive(f, g) ==
  LET o == Head(go[f][g]) IN
  /\ o.op = "got"
  /\ Do(f, g, <<[o EXCEPT !.op = "inc"]>> \o Rest(f, g))
  /\ wants' = Unwanted(f, g)
  /\ UNCHANGED <<stored, refs, fc, fill, world, phase, past>>

\* the object may have been delivered, and counted, all the same
Lose(o) == past' = [past EXCEPT !.dropped = @ \/ (o.op = "got" /\ o.inc = 1)]

\* getRegistry fails and Run returns
NoRegistry(f, g) == Do(f, g, <<>>) /\ fill' = [fill EXCEPT ![f].state = "end", ![f].result = "err"]

\* the select of Filler.get finds the Filler closed, or the object is refused; a
\* node goes on with its next branch
Terminated(f, g) ==
  LET o == Head(go[f][g]) IN
  /\ o.op \in {"wait", "got", "refused"} /\ (fill[f].closed \/ o.op = "refused")
  /\ wants' = Unwanted(f, g) /\ Lose(o)
  /\ IF o.how = "reg" THEN NoRegistry(f, g)
     ELSE /\ Do(f, g, <<Op("fail", o.key, o.how)>> \o NextBranch(o.toSplit, Rest(f, g)))
          /\ UNCHANGED fill
  /\ UNCHANGED <<stored, refs, fc, world, phase>>

\* The Filler is closed before the request is taken: Filler.get returns no value
\* and no error.  Run and a node look into the DB once more; without the value
\* the node returns.  An object without references needs no value.
Unrequested(f, g) ==
  LET o == Head(go[f][g])
      rest == Rest(f, g)
  IN /\ o.op \in {"wait", "got"} /\ fill[f].closed
     /\ wants' = Unwanted(f, g) /\ Lose(o)
     /\ \/ /\ o.how = "reg" /\ o.key \notin stored
           /\ NoRegistry(f, g)
        \/ /\ o.how = "reg" /\ o.key \in stored
           /\ Do(f, g, rest) /\ UNCHANGED fill
        \/ /\ o.how = "hash" /\ UNCHANGED fill
           /\ \/ Do(f, g, <<Op("fail", o.key, o.how)>> \o rest)
              \/ kids[o.key] = <<>> /\ Do(f, g, rest)
        \/ /\ o.how \in {"pre", "branch"}
           /\ fill' = [fill EXCEPT ![f].pre = @ \cup {o.key}]
           /\ Do(f, g, IF o.key \in stored THEN Deeper(o, rest)
                       ELSE <<Op("fail", o.key, o.how)>> \o AfterLoop(rest))
     /\ UNCHANGED <<stored, refs, fc, world, phase>>

\* the goroutines that have the object and have not counted it
InHand(f, k) ==
  {g \in 0..MaxG : go[f][g] # <<>> /\ Head(go[f][g]).key = k /\ Head(go[f][g]).op \in {"got", "inc"}}

\* Filler.inc, then what Split does with the count
Inc(f, g) ==
  LET o == Head(go[f][g])
      k == o.key
      rc == IF o.inc = 1 /\ fill[f].incs[k] > 0 THEN o.rc + 1 ELSE o.rc
      rest == Rest(f, g)
  IN /\ o.op = "inc"
     /\ fill' = [fill EXCEPT ![f].incs[k] = @ + o.inc, ![f].pre = IF o.how \in {"pre", "branch"} THEN @ \cup {k} ELSE @]
     /\ Do(f, g, IF Skips(o.how, rc) THEN NextBranch(o.toSplit, rest) ELSE Deeper(o, rest))
     /\ past' = IF Skips(o.how, rc) /\ fill[f].incs[k] = 0 /\ ~fill[f].closed /\ ~Whole(k)
                THEN [past EXCEPT !.skipped = @ \cup {k}, !.twice = @ \/ InHand(f, k) # {g}] ELSE past
     /\ UNCHANGED <<store, world, phase>>

\* mutant: the select does not look at closeq
FailBlocked(f, g) ==
  /\ Head(go[f][g]).op = "fail" /\ ~fill[f].errq
  /\ fill' = [fill EXCEPT ![f].errq = TRUE]
  /\ Do(f, g, Rest(f, g))
  /\ UNCHANGED <<store, world, phase, past>>

\* Fail waits for the only place of errq, or for Close
Fail(f, g) ==
  /\ Head(go[f][g]).op = "fail"
  /\ \/ ~fill[f].errq /\ fill' = [fill EXCEPT ![f].errq = TRUE]
     \/ fill[f].closed /\ UNCHANGED fill
  /\ Do(f, g, Rest(f, g))
  /\ UNCHANGED <<store, world, phase, past>>

\* the end of Run's select; done is closed when no goroutine is left, and then
\* AddRoot may fail
Select(f) ==
  /\ fill[f].state = "loop" /\ go[f][0] = <<>>
  /\ \/ fill[f].errq /\ fill' = [fill EXCEPT ![f].state = "end", ![f].result = "err", ![f].closed = TRUE, ![f].errq = FALSE]
     \/ /\ Busy(f) = {}
        /\ \E result \in {"full", "err"} :
             fill' = [fill EXCEPT ![f].state = "end", ![f].result = result, ![f].closed = TRUE, ![f].raced = fill[f].errq]
  /\ UNCHANGED <<store, go, world, phase, past>>

\* mutant: objects asked for by Pre are forgotten
FincGot(f) == {k \in Keys \ fill[f].pre : fill[f].incs[k] > 0 /\ fc[k] > 0}

\* Finc does nothing if no wanted reference is left, and panics if there are
\* fewer of them than it is told
Finc(f) == {k \in Keys : fill[f].incs[k] > 0 /\ fc[k] > 0}
Overdrawn(f) == {k \in Finc(f) : fill[f].incs[k] > fc[k]}

\* apply or reject, when Close has waited for the goroutines
End(f) ==
  LET incs == fill[f].incs IN
  /\ fill[f].state = "end" /\ Busy(f) = {}
  /\ \/ Overdrawn(f) # {} /\ phase' = "panic" /\ UNCHANGED <<refs, fc>>
     \/ /\ Overdrawn(f) = {}
        /\ fc' = [k \in Keys |-> IF k \in Finc(f) THEN fc[k] - incs[k] ELSE fc[k]]
        /\ refs' = [k \in Keys |-> IF k \in Finc(f) /\ fill[f].result = "err" THEN refs[k] - incs[k] ELSE refs[k]]
        /\ UNCHANGED phase
  /\ fill' = [fill EXCEPT ![f].state = "over"]
  /\ past' = [past EXCEPT !.unfinished = @ \/ ~Whole(Roots[f])]
  /\ UNCHANGED <<stored, wants, go, world>>

\* the head takes the result and may fill the Root again
Forget(f) ==
  /\ fill[f].state = "over"
  /\ fill' = [fill EXCEPT ![f] = [Idle EXCEPT !.rounds = fill[f].rounds]]
  /\ UNCHANGED <<store, go, world, phase, past>>

\* closeFiller of the head while the Filler runs
Close(f) ==
  /\ Closing /\ fill[f].state = "loop" /\ ~fill[f].closed
  /\ fill' = [fill EXCEPT ![f].closed = TRUE, ![f].early = TRUE]
  /\ UNCHANGED <<store, go, world, phase, past>>

Waits(f) == {k \in Keys : \E g \in 0..MaxG : <<f, g>> \in wants[k]}

\* the head has nobody to ask: ErrNoConnections
NoConnections(f) ==
  /\ fill[f].state = "loop" /\ ~fill[f].errq /\ Waits(f) # {}
  /\ fill' = [fill EXCEPT ![f].errq = TRUE]
  /\ UNCHANGED <<store, go, world, phase, past>>

Woken(k, name, rc) ==
  [f \in Fillers |-> [g \in 0..MaxG |->
     IF <<f, g>> \in wants[k] THEN <<[Head(go[f][g]) EXCEPT !.op = name, !.rc = rc]>> \o Rest(f, g) ELSE go[f][g]]]

\* mutant: the count includes the fillings' own references
DeliverHard(k) ==
  LET n == Cardinality({w \in wants[k] : Head(go[w[1]][w[2]]).inc = 1}) IN
  /\ wants[k] # {} /\ k \notin large
  /\ stored' = stored \cup {k}
  /\ refs' = [refs EXCEPT ![k] = n]
  /\ fc' = [fc EXCEPT ![k] = @ + n]
  /\ go' = Woken(k, "got", n)
  /\ wants' = [wants EXCEPT ![k] = {}]
  /\ UNCHANGED <<fill, world, phase, past>>

\* SetWanted of an object a peer has sent
Deliver(k) ==
  LET n == Cardinality({w \in wants[k] : Head(go[w[1]][w[2]]).inc = 1}) IN
  /\ wants[k] # {} /\ k \notin large
  /\ stored' = stored \cup {k}
  /\ refs' = [refs EXCEPT ![k] = n]
  /\ fc' = [fc EXCEPT ![k] = @ + n]
  /\ go' = Woken(k, "got", n - (n + fc[k]))
  /\ wants' = [wants EXCEPT ![k] = {}]
  /\ UNCHANGED <<fill, world, phase, past>>

Refuse(k) ==
  /\ wants[k] # {} /\ k \in large
  /\ go' = Woken(k, "refused", 0)
  /\ wants' = [wants EXCEPT ![k] = {}]
  /\ UNCHANGED <<stored, refs, fc, fill, world, phase, past>>

Step(f, g) ==
  /\ phase = "run" /\ go[f][g] # <<>>
  /\ \/ Go(f, g) \/ Release(f, g) \/ Get(f, g) \/ Want(f, g) \/ Receive(f, g)
     \/ Terminated(f, g) \/ Unrequested(f, g) \/ Inc(f, g) \/ Fail(f, g)

Finish(f) == phase = "run" /\ (Select(f) \/ End(f))

Answer(k) == phase = "run" /\ (Deliver(k) \/ Refuse(k))

Goroutines == \E f \in Fillers, g \in 0..MaxG : Step(f, g)
Finishes == \E f \in Fillers : Finish(f)
Peers == \E k \in Keys : Answer(k)
GiveUp(f) == phase = "run" /\ NoConnections(f)
Heads == \E f \in Fillers : GiveUp(f) \/ (phase = "run" /\ (Run(f) \/ Forget(f) \/ Close(f)))

Next == Goroutines \/ Finishes \/ Peers \/ Heads

\* Some goroutine goes on: none does anything for ever, so this is enough for
\* all of them.  An object a Filler waits for comes, is refused, or the head
\* fails the Filler, having asked every connection it has (request timeouts end
\* every request).  A Filler whose errq is full is owed nothing: the head waits
\* in Fail itself.
Fairness ==
  /\ WF_vars(Goroutines \/ Finishes)
  /\ \A f \in Fillers : WF_vars(~fill[f].errq /\ (GiveUp(f) \/ \E k \in Waits(f) : Answer(k)))

Spec == Init /\ [][Next]_vars /\ Fairness

-----------------------------------------------------------------------------
(* Properties                                                              *)

Over(f, result) == fill[f].state = "over" /\ fill[f].result = result

\* Run says full only if the DB has the Registry and every object of the Root.
\* What the code lets through is named: the Filler was closed while it ran, an
\* error came together with the end of the last goroutine (the select of Run
\* takes either), or a subtree was skipped that nobody has whole.
FullIsWhole ==
  \A f \in Fillers :
    Over(f, "full") =>
      Reg \in stored /\ (Whole(Roots[f]) \/ fill[f].early \/ fill[f].raced \/ past.skipped # {})

\* A subtree is skipped only because somebody has it whole (getFilling,
\* cache.go:514-518), as long as no filling has ended without all the objects,
\* no two fillings overlap, and no object is in the hands of two goroutines of
\* a Filler: of a node of a Refs that is twice in a Root one takes the
\* reference of the other for that of a full Root, and neither goes deeper.
SkipsWhole == past.skipped # {} => past.unfinished \/ past.overlapped \/ past.twice

\* No filling, no held reference: what the Cache holds for fillings (fc) their
\* goroutines have at hand or their Fillers have counted, and each Filler gives
\* back or applies what it has counted.  Lost are the references of objects
\* that came when the Filler was closed.
HoldsEnd ==
  (phase = "run" /\ \A f \in Fillers : fill[f].state \in {"idle", "over"}) => past.dropped \/ fc = Zero

\* Run cannot come to the select that empties errq: it waits for the Registry,
\* or, because Go had no token, for another object or for the place in errq.
Jammed(f) ==
  /\ fill[f].state = "loop" /\ fill[f].errq /\ ~fill[f].closed
  /\ go[f][0] # <<>> /\ Head(go[f][0]).op \in {"wait", "fail"}

\* Every filling ends, though peers may refuse, or leave the node alone with the
\* error, in any order with the ends of goroutines; but for a panic, and unless
\* Run itself is among those who wait and stays there with the error unread.
FillingEnds == \A f \in Fillers : Running(f) ~> (~Running(f) \/ []Jammed(f) \/ phase = "panic")
=============================================================================
