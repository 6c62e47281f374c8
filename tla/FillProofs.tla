------------------------------ MODULE FillProofs ------------------------------
(***************************************************************************)
(* Proofs about Fill: what a full Root is promised to be, when a subtree   *)
(* may be skipped, and that fillings leave no reference held in the Cache, *)
(* for any graphs, Fillers, tokens and rounds.                             *)
(***************************************************************************)
EXTENDS Fill, FiniteSetTheorems, SequenceTheorems, TLAPS

Ops == [op : {"go", "release", "get", "want", "wait", "got", "refused", "inc", "fail"}, key : Keys,
        how : {"hash", "pre", "branch", "split", "reg"}, rc : Int, inc : {0, 1}, toSplit : Seq(Keys)]

Fields == [state : {"idle", "loop", "end", "over"}, incs : [Keys -> Nat], pre : SUBSET Keys, errq : BOOLEAN,
           closed : BOOLEAN, tokens : Int, result : {"none", "err", "full"}, rounds : Int,
           raced : BOOLEAN, early : BOOLEAN]

Pasts == [unfinished : BOOLEAN, overlapped : BOOLEAN, dropped : BOOLEAN, twice : BOOLEAN, skipped : SUBSET Keys]

Types ==
  /\ stored \in SUBSET Keys
  /\ refs \in [Keys -> Int] /\ fc \in [Keys -> Int]
  /\ wants \in [Keys -> SUBSET (Fillers \X (0..MaxG))]
  /\ fill \in [Fillers -> Fields]
  /\ go \in [Fillers -> [0..MaxG -> Seq(Ops)]]
  /\ kids \in [Keys -> Seq(Keys)] /\ kids[Reg] = <<>>
  /\ past \in Pasts

Kids(k) == {kids[k][i] : i \in 1..Len(kids[k])}

\* the objects a Filler has counted
Done(f) == {k \in Keys : fill[f].incs[k] > 0}

\* the references of the nodes a loop over branches has put aside
Parts(q) == UNION {Kids(q[i]) : i \in 1..Len(q)}
Later(o) == IF o.how = "branch" THEN Parts(o.toSplit) ELSE {}

\* what an operation will still count, or make an error of: Fail owes everything
Owed(o) ==
  CASE o.op = "go" /\ o.how = "split" -> Kids(o.key)
    [] o.op = "fail" -> Keys
    [] o.op = "release" -> {}
    [] o.op = "go" /\ o.how # "split" -> {o.key}
    [] OTHER -> {o.key} \cup Later(o)

Owe(s) == UNION {Owed(s[i]) : i \in 1..Len(s)}

Pending(f) == UNION {Owe(go[f][g]) : g \in 0..MaxG}

\* the operations a goroutine may have to do
Good(f, g) ==
  {o \in Ops :
     /\ o.op \in {"got", "inc"} => o.key \in stored
     /\ o.op \in {"want", "wait", "got", "refused", "inc"} => (o.inc = 0 => o.key \in Done(f) \/ fill[f].closed)
     /\ o.how \in {"pre", "branch"} => o.inc = 1
     /\ o.how = "reg" => g = 0 /\ o.key = Reg
     /\ o.op \in {"go", "release", "fail"} => o.how # "reg"}

\* a goroutine that waits for an object is in the list of its wants
Waiting ==
  \A k \in Keys, f \in Fillers, g \in 0..MaxG :
    <<f, g>> \in wants[k] => go[f][g] # <<>> /\ Head(go[f][g]).op = "wait" /\ Head(go[f][g]).key = k

Quiet(f) ==
  /\ fill[f].state # "loop" => go[f][0] = <<>>
  /\ fill[f].state \in {"idle", "over"} => \A g \in 0..MaxG : go[f][g] = <<>>

Counted(f) ==
  /\ Done(f) \subseteq stored /\ (fill[f].closed \/ fill[f].pre \subseteq Done(f))
  /\ fill[f].state # "idle" => Roots[f] \in Done(f)

\* the references of all objects that are counted are counted or will be
Covered(f) == \A k \in Done(f) : Whole(k) \/ Kids(k) \subseteq Done(f) \cup Pending(f)

Progress(f) ==
  fill[f].state = "loop" =>
    /\ fill[f].closed => fill[f].early
    /\ fill[f].early \/ fill[f].errq \/ past.skipped # {} \/ Covered(f)

Full(f) ==
  (fill[f].state \in {"end", "over"} /\ fill[f].result = "full")
    => Reg \in stored /\ (Whole(Roots[f]) \/ fill[f].early \/ fill[f].raced \/ past.skipped # {})

\* Run has the Registry before it starts anything
AtRegistry(f) == go[f][0] # <<>> /\ Head(go[f][0]).how = "reg"
Named(f) == fill[f].state = "loop" => Reg \in stored \/ AtRegistry(f)

FillerInv(f) ==
  /\ \A g \in 0..MaxG : go[f][g] \in Seq(Good(f, g))
  /\ Quiet(f) /\ Counted(f) /\ Progress(f) /\ Full(f) /\ Named(f)

FillInv == Types /\ Waiting /\ \A f \in Fillers : FillerInv(f)

-----------------------------------------------------------------------------
(* Sequences of operations                                                 *)

\* A Filler gets new fields.
LEMMA FieldsPut ==
  ASSUME Types, NEW f \in Fillers, NEW r \in Fields, fill' = [fill EXCEPT ![f] = r]
  PROVE  fill' \in [Fillers -> Fields] /\ fill'[f] = r /\ \A e \in Fillers \ {f} : fill'[e] = fill[e]
BY DEF Types

\* The fields of a Filler that is not at work.
LEMMA IdleFields ==
  /\ Idle \in Fields /\ Zero \in [Keys -> Nat]
  /\ Idle.pre = {} /\ ~Idle.errq /\ ~Idle.closed /\ ~Idle.early
  /\ Idle.result = "none" /\ Idle.state = "idle" /\ Idle.incs = Zero
<1>1. Idle \in Fields /\ Zero \in [Keys -> Nat]
  BY DEF Idle, Fields, Zero
<1>2. Idle.pre = {} /\ ~Idle.errq /\ ~Idle.closed /\ ~Idle.early /\ Idle.result = "none" /\ Idle.state = "idle" /\ Idle.incs = Zero
  BY DEF Idle
<1> QED
  BY <1>1, <1>2

\* Operations in front of others.
LEMMA OweCat ==
  ASSUME NEW s \in Seq(Ops), NEW t \in Seq(Ops)
  PROVE  Owe(s \o t) = Owe(s) \cup Owe(t)
<1>1. Len(s \o t) = Len(s) + Len(t) /\ Len(s) \in Nat /\ Len(t) \in Nat
  OBVIOUS
<1>2. Owe(s) \cup Owe(t) \subseteq Owe(s \o t)
  <2>1. ASSUME NEW i \in 1..Len(s) PROVE s[i] = (s \o t)[i] /\ i \in 1..Len(s \o t)
    BY <1>1
  <2>2. ASSUME NEW i \in 1..Len(t) PROVE t[i] = (s \o t)[Len(s) + i] /\ Len(s) + i \in 1..Len(s \o t)
    BY <1>1
  <2> QED
    BY <2>1, <2>2 DEF Owe
<1>3. Owe(s \o t) \subseteq Owe(s) \cup Owe(t)
  <2>1. ASSUME NEW i \in 1..Len(s \o t)
        PROVE  (i \in 1..Len(s) /\ (s \o t)[i] = s[i]) \/ (i - Len(s) \in 1..Len(t) /\ (s \o t)[i] = t[i - Len(s)])
    BY <1>1
  <2> QED
    BY <2>1 DEF Owe
<1> QED
  BY <1>2, <1>3

\* A single operation.
LEMMA OweOne == ASSUME NEW o PROVE Owe(<<o>>) = Owed(o)
<1>1. Len(<<o>>) = 1 /\ <<o>>[1] = o
  OBVIOUS
<1>2. 1..Len(<<o>>) = {1}
  BY <1>1
<1> QED
  BY <1>1, <1>2 DEF Owe

\* A sequence is its head and its tail.
LEMMA OweHead ==
  ASSUME NEW s \in Seq(Ops), s # <<>>
  PROVE  Head(s) \in Ops /\ Tail(s) \in Seq(Ops) /\ Owe(s) = Owed(Head(s)) \cup Owe(Tail(s))
<1>1. Head(s) \in Ops /\ Tail(s) \in Seq(Ops) /\ s = <<Head(s)>> \o Tail(s) /\ <<Head(s)>> \in Seq(Ops)
  OBVIOUS
<1> QED
  BY <1>1, OweCat, OweOne

LEMMA OweNone == Owe(<<>>) = {}
BY DEF Owe

LEMMA SeqNone == ASSUME NEW S PROVE <<>> \in Seq(S)
OBVIOUS

LEMMA SeqCat == ASSUME NEW S, NEW s \in Seq(S), NEW t \in Seq(S) PROVE s \o t \in Seq(S)
OBVIOUS

\* An operation put in front of others.
LEMMA PutOwes ==
  ASSUME NEW S \in SUBSET Ops, NEW o \in S, NEW t \in Seq(S)
  PROVE  /\ <<o>> \o t \in Seq(S) /\ <<o>> \o t # <<>> /\ Head(<<o>> \o t) = o
         /\ Owe(<<o>> \o t) = Owed(o) \cup Owe(t)
<1>1. <<o>> \in Seq(S) /\ <<o>> \in Seq(Ops) /\ t \in Seq(Ops)
  OBVIOUS
<1>2. <<o>> \o t \in Seq(S)
  BY <1>1, SeqCat
<1>3. <<o>> \o t # <<>> /\ Head(<<o>> \o t) = o
  OBVIOUS
<1>4. Owe(<<o>> \o t) = Owed(o) \cup Owe(t)
  BY <1>1, OweCat, OweOne
<1> QED
  BY <1>2, <1>3, <1>4

-----------------------------------------------------------------------------
(* What Split starts                                                       *)

\* the operations a goroutine may be given
Begins ==
  {o \in Ops : o.op \in {"go", "release", "get", "fail"} /\ o.how # "reg" /\ o.inc = 1 /\ o.toSplit = <<>>}

LEMMA BeginsGood == ASSUME NEW f, NEW g PROVE Begins \subseteq Good(f, g) /\ Begins \subseteq Ops
BY DEF Begins, Good

LEMMA OpBegins ==
  ASSUME NEW k \in Keys, NEW name \in {"go", "release", "get", "fail"}, NEW how \in {"hash", "pre", "branch", "split"}
  PROVE  /\ Op(name, k, how) \in Begins
         /\ name = "get" => Owed(Op(name, k, how)) = {k}
         /\ (name = "go" /\ how # "split") => Owed(Op(name, k, how)) = {k}
         /\ (name = "go" /\ how = "split") => Owed(Op(name, k, how)) = Kids(k)
         /\ name = "fail" => Owed(Op(name, k, how)) = Keys
<1>1. <<>> \in Seq(Keys) /\ Parts(<<>>) = {}
  BY DEF Parts
<1>2. Later(Op(name, k, how)) = {}
  BY <1>1 DEF Op, Later
<1> QED
  BY <1>1, <1>2 DEF Op, Begins, Ops, Owed

LEMMA StartOwes == ASSUME NEW k \in Keys PROVE Start(k) \in Begins /\ Owed(Start(k)) = {k}
<1>1. Start(k) = Op("go", k, "pre") \/ Start(k) = Op("go", k, "hash")
  BY DEF Start
<1>2. "go" # "split" /\ "pre" # "split" /\ "hash" # "split"
  OBVIOUS
<1> QED
  BY <1>1, <1>2, OpBegins

LEMMA SeqOfFunction ==
  ASSUME NEW S, NEW n \in Nat, NEW e, DOMAIN e = 1..n, e = [i \in 1..n |-> e[i]], \A i \in 1..n : e[i] \in S
  PROVE  e \in Seq(S) /\ Len(e) = n
<1>1. e \in [1..n -> S]
  OBVIOUS
<1> QED
  BY <1>1

\* Every reference of the object is owed.
LEMMA SplitDataOwes ==
  ASSUME Types, NEW k \in Keys
  PROVE  SplitData(k) \in Seq(Begins) /\ Owe(SplitData(k)) = Kids(k)
<1> DEFINE s == SplitData(k)
<1>1. kids[k] \in Seq(Keys) /\ DOMAIN kids[k] = 1..Len(kids[k]) /\ Len(kids[k]) \in Nat
  BY DEF Types
<1>2. \A i \in 1..Len(kids[k]) : kids[k][i] \in Keys /\ s[i] = Start(kids[k][i])
  BY <1>1 DEF SplitData
<1>3. \A i \in 1..Len(kids[k]) : s[i] \in Begins /\ Owed(s[i]) = {kids[k][i]}
  BY <1>2, StartOwes, OpBegins
<1>4. DOMAIN s = 1..Len(kids[k]) /\ s = [i \in 1..Len(kids[k]) |-> s[i]]
  BY <1>1 DEF SplitData
<1>5. s \in Seq(Begins) /\ Len(s) = Len(kids[k])
  BY <1>1, <1>3, <1>4, SeqOfFunction
<1> HIDE DEF s
<1>6. \A x : x \in Owe(s) <=> \E i \in 1..Len(kids[k]) : x \in Owed(s[i])
  BY <1>5 DEF Owe
<1>7. \A x : x \in Owe(s) <=> \E i \in 1..Len(kids[k]) : x = kids[k][i]
  <2>1. ASSUME NEW i \in 1..Len(kids[k]), NEW x PROVE x \in Owed(s[i]) <=> x = kids[k][i]
    BY <1>3
  <2> QED
    BY <2>1, <1>6
<1>8. Owe(s) = Kids(k)
  BY <1>7 DEF Kids
<1> QED
  BY <1>5, <1>8 DEF s

LEMMA SplitNodeOwes ==
  ASSUME Types, NEW k \in Keys
  PROVE  SplitNode(k) \in Seq(Begins) /\ Owe(SplitNode(k)) = Kids(k)
<1> DEFINE s == SplitNode(k)
<1>1. kids[k] \in Seq(Keys) /\ DOMAIN kids[k] = 1..Len(kids[k]) /\ Len(kids[k]) \in Nat
  BY DEF Types
<1>2. \A i \in 1..Len(kids[k]) :
        kids[k][i] \in Keys /\ s[i] = IF kids[k][i] \in Trees THEN Op("get", kids[k][i], "branch") ELSE Start(kids[k][i])
  BY <1>1 DEF SplitNode
<1>3. \A i \in 1..Len(kids[k]) : s[i] \in Begins /\ Owed(s[i]) = {kids[k][i]}
  BY <1>2, StartOwes, OpBegins
<1>4. DOMAIN s = 1..Len(kids[k]) /\ s = [i \in 1..Len(kids[k]) |-> s[i]]
  BY <1>1 DEF SplitNode
<1>5. s \in Seq(Begins) /\ Len(s) = Len(kids[k])
  BY <1>1, <1>3, <1>4, SeqOfFunction
<1> HIDE DEF s
<1>6. \A x : x \in Owe(s) <=> \E i \in 1..Len(kids[k]) : x \in Owed(s[i])
  BY <1>5 DEF Owe
<1>7. \A x : x \in Owe(s) <=> \E i \in 1..Len(kids[k]) : x = kids[k][i]
  <2>1. ASSUME NEW i \in 1..Len(kids[k]), NEW x PROVE x \in Owed(s[i]) <=> x = kids[k][i]
    BY <1>3
  <2> QED
    BY <2>1, <1>6
<1>8. Owe(s) = Kids(k)
  BY <1>7 DEF Kids
<1> QED
  BY <1>5, <1>8 DEF s

\* The function of a Go owes what the Go owed.
LEMMA BodyOwes ==
  ASSUME Types, NEW o \in Ops, o.op = "go", o.how # "reg"
  PROVE  Body(o) \in Seq(Begins) /\ Owe(Body(o)) = Owed(o)
<1>1. o.key \in Keys /\ o.how \in {"hash", "pre", "branch", "split"}
  BY DEF Ops
<1>2. CASE o.how = "split"
  BY <1>1, <1>2, SplitNodeOwes DEF Body, Owed
<1>3. CASE o.how # "split"
  <2>1. Body(o) = <<Op("get", o.key, o.how)>> /\ Owed(o) = {o.key}
    BY <1>3 DEF Body, Owed
  <2>2. Op("get", o.key, o.how) \in Begins /\ Owed(Op("get", o.key, o.how)) = {o.key}
    BY <1>1, OpBegins
  <2> QED
    BY <2>1, <2>2, OweOne
<1> QED
  BY <1>2, <1>3

\* The loop over the branches is a prefix.
LEMMA LoopCut ==
  ASSUME NEW S, NEW s \in Seq(S)
  PROVE  /\ Cardinality(Branches(s)) \in 0..Len(s)
         /\ AfterLoop(s) \in Seq(S)
<1>1. Len(s) \in Nat /\ IsFiniteSet(1..Len(s)) /\ Cardinality(1..Len(s)) = Len(s)
  <2>1. Len(s) \in Nat /\ Len(s) \in Int /\ 1 \in Int
    OBVIOUS
  <2> QED
    BY <2>1, FS_Interval
<1>2. Branches(s) \subseteq 1..Len(s)
  BY DEF Branches
<1>3. Cardinality(Branches(s)) \in Nat /\ Cardinality(Branches(s)) <= Len(s)
  BY <1>1, <1>2, FS_Subset, FS_CardinalityType
<1>4. SubSeq(s, Cardinality(Branches(s)) + 1, Len(s)) \in Seq(S)
  BY <1>1, <1>3
<1> QED
  BY <1>1, <1>3, <1>4 DEF AfterLoop

\* What goes from branch to branch, or is started after the last, stays owed.
LEMMA NextOwes ==
  ASSUME Types, NEW S \in SUBSET Ops, NEW s \in Seq(S), NEW q \in Seq(Keys), Begins \subseteq S,
         \A o \in S, t \in Seq(Keys) : o.op = "get" /\ o.how = "branch" => [o EXCEPT !.toSplit = t] \in S
  PROVE  NextBranch(q, s) \in Seq(S) /\ Owe(NextBranch(q, s)) = Owe(s) \cup Parts(q)
<1>1. CASE s # <<>> /\ Head(s).op = "get" /\ Head(s).how = "branch"
  <2> DEFINE o == Head(s)
             t == o.toSplit \o q
             n == [o EXCEPT !.toSplit = t]
  <2>1. o \in S /\ o \in Ops /\ Tail(s) \in Seq(S) /\ Owe(s) = Owed(o) \cup Owe(Tail(s))
    BY <1>1, OweHead
  <2>2. o.toSplit \in Seq(Keys) /\ t \in Seq(Keys)
    BY <2>1 DEF Ops
  <2>3. Parts(t) = Parts(o.toSplit) \cup Parts(q)
    <3> DEFINE u == o.toSplit
    <3>1. u \in Seq(Keys)
      BY <2>2
    <3> HIDE DEF u
    <3>2. Len(u \o q) = Len(u) + Len(q) /\ Len(u) \in Nat /\ Len(q) \in Nat
      BY <3>1
    <3>3. \A x : x \in Parts(u \o q) <=> \E i \in 1..Len(u \o q) : x \in Kids((u \o q)[i])
      BY DEF Parts
    <3>4. ASSUME NEW i \in 1..Len(u \o q)
          PROVE  (i \in 1..Len(u) /\ (u \o q)[i] = u[i]) \/ (i - Len(u) \in 1..Len(q) /\ (u \o q)[i] = q[i - Len(u)])
      BY <3>1, <3>2
    <3>5. ASSUME NEW i \in 1..Len(u) PROVE i \in 1..Len(u \o q) /\ (u \o q)[i] = u[i]
      BY <3>1, <3>2
    <3>6. ASSUME NEW i \in 1..Len(q) PROVE Len(u) + i \in 1..Len(u \o q) /\ (u \o q)[Len(u) + i] = q[i]
      BY <3>1, <3>2
    <3>7. Parts(u \o q) \subseteq Parts(u) \cup Parts(q)
      BY <3>3, <3>4 DEF Parts
    <3>8. Parts(u) \subseteq Parts(u \o q) /\ Parts(q) \subseteq Parts(u \o q)
      BY <3>3, <3>5, <3>6 DEF Parts
    <3>9. Parts(u \o q) = Parts(u) \cup Parts(q)
      BY <3>7, <3>8
    <3> QED
      BY <3>9 DEF u
  <2>4. NextBranch(q, s) = <<n>> \o Tail(s)
    BY <1>1 DEF NextBranch
  <2>5. n \in S
    BY <1>1, <2>1, <2>2
  <2>6. n.op = "get" /\ n.how = "branch" /\ n.key = o.key /\ n.toSplit = t
    BY <1>1, <2>1 DEF Ops
  <2> HIDE DEF n, t
  <2>7. Owed(n) = Owed(o) \cup Parts(q)
    BY <1>1, <2>3, <2>6 DEF Owed, Later
  <2>8. <<n>> \o Tail(s) \in Seq(S) /\ Owe(<<n>> \o Tail(s)) = Owed(n) \cup Owe(Tail(s))
    BY <2>1, <2>5, PutOwes
  <2> HIDE DEF o
  <2> QED
    BY <2>1, <2>4, <2>7, <2>8
<1>2. CASE ~(s # <<>> /\ Head(s).op = "get" /\ Head(s).how = "branch")
  <2> DEFINE e == [i \in DOMAIN q |-> Op("go", q[i], "split")]
  <2>1. DOMAIN q = 1..Len(q) /\ Len(q) \in Nat /\ \A i \in 1..Len(q) : q[i] \in Keys
    OBVIOUS
  <2>2. \A i \in 1..Len(q) : e[i] = Op("go", q[i], "split")
    BY <2>1
  <2>3. \A i \in 1..Len(q) : e[i] \in Begins /\ Owed(e[i]) = Kids(q[i])
    BY <2>1, <2>2, OpBegins
  <2>4. DOMAIN e = 1..Len(q) /\ e = [i \in 1..Len(q) |-> e[i]]
    BY <2>1
  <2>5. e \in Seq(Begins) /\ Len(e) = Len(q)
    BY <2>1, <2>3, <2>4, SeqOfFunction
  <2>6. NextBranch(q, s) = e \o s
    BY <1>2 DEF NextBranch
  <2> HIDE DEF e
  <2>7. Owe(e) = Parts(q)
    BY <2>3, <2>5 DEF Owe, Parts
  <2>8. e \in Seq(S) /\ e \in Seq(Ops) /\ s \in Seq(Ops)
    BY <2>5
  <2>9. e \o s \in Seq(S) /\ Owe(e \o s) = Owe(e) \cup Owe(s)
    BY <2>8, OweCat, SeqCat
  <2> QED
    BY <2>6, <2>7, <2>9
<1> QED
  BY <1>1, <1>2

-----------------------------------------------------------------------------
(* What a step of one goroutine leaves                                     *)

\* The references never change.
LEMMA OweSame ==
  ASSUME kids' = kids
  PROVE  /\ \A k : Kids(k)' = Kids(k)
         /\ \A o : Owed(o)' = Owed(o)
         /\ \A s : Owe(s)' = Owe(s)
<1>1. \A k : Kids(k)' = Kids(k)
  BY DEF Kids
<1>2. \A o : Owed(o)' = Owed(o)
  BY <1>1 DEF Owed, Later, Parts
<1>3. \A s : Owe(s)' = Owe(s)
  BY <1>2 DEF Owe
<1> QED
  BY <1>1, <1>2, <1>3

\* What is whole stays whole: the DB only grows.
LEMMA WholeStays ==
  ASSUME kids' = kids, stored \subseteq stored', NEW k, Whole(k)
  PROVE  Whole(k)'
<1>1. PICK W \in SUBSET stored : k \in W /\ Closed(W)
  BY DEF Whole
<1>2. W \in SUBSET stored' /\ Closed(W)'
  BY <1>1 DEF Closed
<1> QED
  BY <1>1, <1>2 DEF Whole

\* The operations that were good are, when the DB and the counts only grow.
LEMMA GoodStays ==
  ASSUME NEW f, NEW g, stored \subseteq stored', Done(f) \subseteq Done(f)', fill[f].closed => fill'[f].closed
  PROVE  Good(f, g) \subseteq Good(f, g)' /\ Seq(Good(f, g)) \subseteq Seq(Good(f, g)')
<1>1. Good(f, g) \subseteq Good(f, g)'
  BY DEF Good
<1> QED
  BY <1>1

\* A branch may be given the nodes put aside before it.
LEMMA GoodLoop ==
  ASSUME NEW f, NEW g
  PROVE  /\ \A o \in Good(f, g), t \in Seq(Keys) : o.op = "get" /\ o.how = "branch" => [o EXCEPT !.toSplit = t] \in Good(f, g)
         /\ \A o \in Good(f, g)', t \in Seq(Keys) : o.op = "get" /\ o.how = "branch" => [o EXCEPT !.toSplit = t] \in Good(f, g)'
<1>1. ASSUME NEW o \in Ops, NEW t \in Seq(Keys)
      PROVE  [o EXCEPT !.toSplit = t] \in Ops /\ [o EXCEPT !.toSplit = t].op = o.op /\ [o EXCEPT !.toSplit = t].how = o.how
             /\ [o EXCEPT !.toSplit = t].key = o.key /\ [o EXCEPT !.toSplit = t].inc = o.inc
  BY DEF Ops
<1> QED
  BY <1>1 DEF Good

\* A Filler that does not move keeps its invariant.
LEMMA OtherKeeps ==
  ASSUME Types, NEW e \in Fillers, FillerInv(e), fill'[e] = fill[e], go'[e] = go[e], kids' = kids,
         stored \subseteq stored', past.skipped \subseteq past'.skipped
  PROVE  FillerInv(e)'
<1>1. Done(e)' = Done(e)
  BY DEF Done
<1>2. Pending(e)' = Pending(e)
  BY OweSame DEF Pending
<1>3. \A g \in 0..MaxG : go'[e][g] \in Seq(Good(e, g)')
  <2> TAKE g \in 0..MaxG
  <2>1. Seq(Good(e, g)) \subseteq Seq(Good(e, g)')
    BY <1>1, GoodStays
  <2>2. go[e][g] \in Seq(Good(e, g))
    BY DEF FillerInv
  <2> QED
    BY <2>1, <2>2
<1>4. Quiet(e)' /\ Counted(e)'
  BY <1>1 DEF FillerInv, Quiet, Counted
<1>5. Covered(e) => Covered(e)'
  BY <1>1, <1>2, OweSame, WholeStays DEF Covered
<1>6. Progress(e)'
  BY <1>5 DEF FillerInv, Progress
<1>7. Full(e)'
  BY WholeStays DEF FillerInv, Full
<1>8. Named(e)'
  BY DEF FillerInv, Named, AtRegistry
<1> QED
  BY <1>3, <1>4, <1>6, <1>7, <1>8 DEF FillerInv

\* What the fields of a Filler keep in a step of a goroutine.
Onward(f) ==
  /\ fill'[f].state = fill[f].state /\ fill'[f].result = fill[f].result
  /\ fill'[f].closed = fill[f].closed /\ fill'[f].early = fill[f].early /\ fill'[f].raced = fill[f].raced
  /\ fill[f].errq => fill'[f].errq
  /\ kids' = kids /\ stored \subseteq stored' /\ past.skipped \subseteq past'.skipped
  /\ Done(f) \subseteq Done(f)' /\ Done(f)' \subseteq stored'
  /\ fill'[f].closed \/ fill'[f].pre \subseteq Done(f)'

\* What counts as progress: what was owed is owed or counted, and so are the
\* references of what is newly counted.
Pays(f, old, new) ==
  \/ fill[f].state # "loop" \/ fill'[f].errq \/ fill'[f].early \/ past'.skipped # {}
  \/ /\ old \subseteq new \cup Done(f)'
     /\ \A k \in Done(f)' \ Done(f) : Whole(k)' \/ Kids(k) \subseteq new \cup Done(f)'

\* The same of all the goroutines of a Filler.
PaysAll(f) ==
  \/ fill[f].state # "loop" \/ fill'[f].errq \/ fill'[f].early \/ past'.skipped # {}
  \/ /\ Pending(f) \subseteq Pending(f)' \cup Done(f)'
     /\ \A k \in Done(f)' \ Done(f) : Whole(k)' \/ Kids(k) \subseteq Pending(f)' \cup Done(f)'

LEMMA OnwardKeeps ==
  ASSUME Types, NEW f \in Fillers, FillerInv(f), Onward(f), fill[f].state # "idle",
         \A h \in 0..MaxG : go'[f][h] \in Seq(Good(f, h)'),
         fill[f].state # "loop" => go'[f][0] = <<>>, fill[f].state # "over",
         AtRegistry(f) => Reg \in stored' \/ AtRegistry(f)', PaysAll(f)
  PROVE  FillerInv(f)'
<1>1. Quiet(f)' /\ Counted(f)'
  BY DEF Quiet, Counted, Onward, FillerInv
<1>2. Full(f)'
  BY WholeStays DEF Full, Onward, FillerInv
<1>3. Progress(f)'
  <2>1. SUFFICES ASSUME fill[f].state = "loop", ~fill[f].early, ~fill'[f].errq, past'.skipped = {}
                 PROVE  Covered(f)'
    BY DEF Progress, Onward, FillerInv
  <2>2. Covered(f)
    BY <2>1 DEF Progress, Onward, FillerInv
  <2>3. /\ Pending(f) \subseteq Pending(f)' \cup Done(f)'
        /\ \A k \in Done(f)' \ Done(f) : Whole(k)' \/ Kids(k) \subseteq Pending(f)' \cup Done(f)'
    BY <2>1 DEF PaysAll, Onward
  <2>4. ASSUME NEW k \in Done(f) PROVE Whole(k)' \/ Kids(k) \subseteq Pending(f)' \cup Done(f)'
    BY <2>2, <2>3, WholeStays DEF Covered, Onward
  <2>5. \A k : Kids(k)' = Kids(k)
    BY OweSame DEF Onward
  <2> QED
    BY <2>3, <2>4, <2>5 DEF Covered
<1>4. Named(f)'
  BY DEF Named, Onward, FillerInv
<1> QED
  BY <1>1, <1>2, <1>3, <1>4 DEF FillerInv

\* The goroutine has the Registry, or is still about to get it.
Knows(f, g, s) == Head(go[f][g]).how # "reg" \/ Reg \in stored' \/ (s # <<>> /\ Head(s).how = "reg")

\* One goroutine goes on with s.
LEMMA GoroutineKeeps ==
  ASSUME Types, NEW f \in Fillers, NEW g \in 0..MaxG, FillerInv(f), Onward(f), go[f][g] # <<>>,
         NEW s, s \in Seq(Good(f, g)'), go' = [go EXCEPT ![f][g] = s],
         Pays(f, Owe(go[f][g]), Owe(s)), Knows(f, g, s)
  PROVE  FillerInv(f)'
<1>1. fill[f].state \notin {"idle", "over"} /\ (fill[f].state # "loop" => g # 0)
  BY DEF FillerInv, Quiet
<1>2. go'[f][g] = s /\ \A h \in 0..MaxG : h # g => go'[f][h] = go[f][h]
  BY DEF Types
<1>3. \A h \in 0..MaxG : go'[f][h] \in Seq(Good(f, h)')
  <2> TAKE h \in 0..MaxG
  <2>1. CASE h = g
    BY <2>1, <1>2
  <2>2. CASE h # g
    BY <2>2, <1>2, GoodStays DEF FillerInv, Onward
  <2> QED
    BY <2>1, <2>2
<1>4. 0 \in 0..MaxG
  BY SizesAssumption
<1>5. fill[f].state # "loop" => go'[f][0] = <<>>
  BY <1>1, <1>2, <1>4 DEF FillerInv, Quiet
<1>6. Owe(s) \subseteq Pending(f)' /\ (Pending(f) \subseteq Owe(go[f][g]) \cup Pending(f)')
  <2>1. Pending(f)' = UNION {Owe(go'[f][h]) : h \in 0..MaxG}
    BY OweSame DEF Pending, Onward
  <2> QED
    BY <2>1, <1>2 DEF Pending
<1>7. PaysAll(f)
  BY <1>6 DEF Pays, PaysAll
<1>8. AtRegistry(f) => Reg \in stored' \/ AtRegistry(f)'
  BY <1>2, <1>4 DEF AtRegistry, Knows
<1> QED
  BY <1>1, <1>3, <1>5, <1>7, <1>8, OnwardKeeps

\* What becomes of the list of wants when goroutine g of f goes on with s.
WantsFit(f, g, s) ==
  \/ wants' = wants /\ Head(go[f][g]).op # "wait"
  \/ wants' = Unwanted(f, g)
  \/ /\ Head(go[f][g]).op # "wait" /\ s # <<>> /\ Head(s).op = "wait"
     /\ \E k \in Keys : wants' = [wants EXCEPT ![k] = @ \cup {<<f, g>>}] /\ Head(s).key = k

LEMMA GoroutineWaits ==
  ASSUME Types, Waiting, NEW f \in Fillers, NEW g \in 0..MaxG, NEW s,
         go' = [go EXCEPT ![f][g] = s], WantsFit(f, g, s)
  PROVE  Waiting'
<1> SUFFICES ASSUME NEW k \in Keys, NEW e \in Fillers, NEW h \in 0..MaxG, <<e, h>> \in wants'[k]
             PROVE  go'[e][h] # <<>> /\ Head(go'[e][h]).op = "wait" /\ Head(go'[e][h]).key = k
  BY DEF Waiting
<1>1. go'[f][g] = s /\ (<<e, h>> # <<f, g>> => go'[e][h] = go[e][h])
  BY DEF Types
<1>2. <<e, h>> # <<f, g>> => <<e, h>> \in wants[k]
  BY DEF WantsFit, Unwanted, Types
<1>3. CASE <<e, h>> # <<f, g>>
  BY <1>1, <1>2, <1>3 DEF Waiting
<1>4. CASE <<e, h>> = <<f, g>>
  <2>1. CASE wants' = wants /\ Head(go[f][g]).op # "wait"
    BY <2>1, <1>4 DEF Waiting
  <2>2. CASE wants' = Unwanted(f, g)
    BY <2>2, <1>4 DEF Unwanted
  <2>3. ASSUME Head(go[f][g]).op # "wait", s # <<>>, Head(s).op = "wait", NEW j \in Keys,
               wants' = [wants EXCEPT ![j] = @ \cup {<<f, g>>}], Head(s).key = j
        PROVE  s # <<>> /\ Head(s).op = "wait" /\ Head(s).key = k
    <3>1. <<f, g>> \notin wants[k]
      BY <2>3 DEF Waiting
    <3> QED
      BY <2>3, <3>1, <1>4 DEF Types
  <2> QED
    BY <1>1, <1>4, <2>1, <2>2, <2>3 DEF WantsFit
<1> QED
  BY <1>3, <1>4

\* One goroutine goes on with s, and the invariant is kept.
LEMMA GoroutineStep ==
  ASSUME FillInv, NEW f \in Fillers, NEW g \in 0..MaxG, go[f][g] # <<>>,
         NEW s, s \in Seq(Good(f, g)'), go' = [go EXCEPT ![f][g] = s],
         Onward(f), Pays(f, Owe(go[f][g]), Owe(s)), WantsFit(f, g, s), Knows(f, g, s),
         \A e \in Fillers \ {f} : fill'[e] = fill[e],
         stored' \subseteq Keys, refs' \in [Keys -> Int], fc' \in [Keys -> Int],
         wants' \in [Keys -> SUBSET (Fillers \X (0..MaxG))], fill' \in [Fillers -> Fields], past' \in Pasts
  PROVE  FillInv'
<1> USE DEF FillInv
<1>1. Types'
  <2>1. s \in Seq(Ops)
    BY DEF Good
  <2>2. go' \in [Fillers -> [0..MaxG -> Seq(Ops)]]
    BY <2>1 DEF Types
  <2> QED
    BY <2>2 DEF Types, Onward
<1>2. Waiting'
  BY GoroutineWaits
<1>3. ASSUME NEW e \in Fillers PROVE FillerInv(e)'
  <2>1. CASE e = f
    BY <2>1, GoroutineKeeps
  <2>2. CASE e # f
    BY <2>2, OtherKeeps DEF Types, Onward
  <2> QED
    BY <2>1, <2>2
<1> QED
  BY <1>1, <1>2, <1>3

-----------------------------------------------------------------------------
(* The steps of a goroutine                                                *)

\* The operation at hand and those after it.
LEMMA AtHand ==
  ASSUME FillInv, NEW f \in Fillers, NEW g \in 0..MaxG, go[f][g] # <<>>
  PROVE  /\ Head(go[f][g]) \in Good(f, g) /\ Head(go[f][g]) \in Ops
         /\ Rest(f, g) \in Seq(Good(f, g)) /\ Rest(f, g) \in Seq(Ops)
         /\ Owe(go[f][g]) = Owed(Head(go[f][g])) \cup Owe(Rest(f, g))
<1>1. go[f][g] \in Seq(Good(f, g)) /\ go[f][g] \in Seq(Ops)
  BY DEF FillInv, FillerInv, Types
<1>2. Head(go[f][g]) \in Good(f, g) /\ Tail(go[f][g]) \in Seq(Good(f, g))
  BY <1>1
<1> QED
  BY <1>1, <1>2, OweHead DEF Rest

\* A step that counts nothing goes onward.
LEMMA OnwardSame ==
  ASSUME FillInv, NEW f \in Fillers,
         fill'[f].state = fill[f].state, fill'[f].result = fill[f].result, fill'[f].closed = fill[f].closed,
         fill'[f].early = fill[f].early, fill'[f].raced = fill[f].raced, fill[f].errq => fill'[f].errq,
         fill'[f].incs = fill[f].incs, fill'[f].pre = fill[f].pre,
         kids' = kids, stored \subseteq stored', past.skipped \subseteq past'.skipped
  PROVE  Onward(f) /\ Done(f)' = Done(f) /\ \A g : Seq(Good(f, g)) \subseteq Seq(Good(f, g)')
<1>1. Done(f)' = Done(f)
  BY DEF Done
<1>2. Onward(f)
  BY <1>1 DEF Onward, FillInv, FillerInv, Counted
<1> QED
  BY <1>1, <1>2, GoodStays

LEMMA GoKeeps ==
  ASSUME FillInv, NEW f \in Fillers, NEW g \in 0..MaxG, go[f][g] # <<>>, Go(f, g)
  PROVE  FillInv'
<1> DEFINE o == Head(go[f][g])
<1>1. /\ o \in Good(f, g) /\ o \in Ops /\ Rest(f, g) \in Seq(Good(f, g)) /\ Rest(f, g) \in Seq(Ops)
      /\ Owe(go[f][g]) = Owed(o) \cup Owe(Rest(f, g))
  BY AtHand
<1>2. o.op = "go" /\ UNCHANGED <<stored, refs, fc, wants, kids, large, phase, past>>
  BY DEF Go, store, world
<1>3. o.how # "reg"
  BY <1>1, <1>2 DEF Good
<1>4. Body(o) \in Seq(Begins) /\ Owe(Body(o)) = Owed(o)
  BY <1>1, <1>2, <1>3, BodyOwes DEF FillInv
<1>5. CASE fill[f].tokens = limit /\ Do(f, g, Body(o) \o Rest(f, g)) /\ UNCHANGED fill
  <2>1. Onward(f) /\ Seq(Good(f, g)) \subseteq Seq(Good(f, g)') /\ Done(f)' = Done(f)
    BY <1>2, <1>5, OnwardSame
  <2>2. Begins \subseteq Good(f, g)' /\ Begins \subseteq Ops
    BY DEF Begins, Good
  <2>3. Body(o) \in Seq(Good(f, g)') /\ Body(o) \in Seq(Ops) /\ Rest(f, g) \in Seq(Good(f, g)')
    BY <1>1, <1>4, <2>1, <2>2
  <2>4. Body(o) \o Rest(f, g) \in Seq(Good(f, g)') /\ Owe(Body(o) \o Rest(f, g)) = Owe(go[f][g])
    BY <1>1, <1>4, <2>3, OweCat
  <2>5. Pays(f, Owe(go[f][g]), Owe(Body(o) \o Rest(f, g)))
    BY <2>1, <2>4 DEF Pays
  <2>6. WantsFit(f, g, Body(o) \o Rest(f, g))
    BY <1>2 DEF WantsFit
  <2>7. fill' \in [Fillers -> Fields] /\ past' \in Pasts /\ stored' \subseteq Keys /\ refs' \in [Keys -> Int]
        /\ fc' \in [Keys -> Int] /\ wants' \in [Keys -> SUBSET (Fillers \X (0..MaxG))]
        /\ \A e \in Fillers \ {f} : fill'[e] = fill[e]
    BY <1>2, <1>5 DEF FillInv, Types
  <2>8. go' = [go EXCEPT ![f][g] = Body(o) \o Rest(f, g)]
    BY <1>5 DEF Do
  <2> HIDE DEF o
  <2> QED
    BY <1>3, <2>1, <2>4, <2>5, <2>6, <2>7, <2>8, GoroutineStep DEF Knows, o
<1>6. ASSUME fill' = [fill EXCEPT ![f].tokens = fill[f].tokens + 1],
             NEW n \in 1..MaxG, go[f][n] = <<>>,
             go' = [go EXCEPT ![f][g] = Tail(go[f][g]), ![f][n] = <<Op("release", o.key, o.how)>> \o Body(o)]
      PROVE  FillInv'
  <2> DEFINE t == <<Op("release", o.key, o.how)>> \o Body(o)
  <2>1. n \in 0..MaxG /\ n # g
    BY <1>6
  <2>2. /\ go'[f][g] = Rest(f, g) /\ go'[f][n] = t
        /\ \A h \in (0..MaxG) \ {g, n} : go'[f][h] = go[f][h]
        /\ \A e \in Fillers \ {f} : go'[e] = go[e]
    BY <1>6, <2>1 DEF Rest, FillInv, Types
  <2>3. /\ fill' \in [Fillers -> Fields]
        /\ fill'[f] = [fill[f] EXCEPT !.tokens = fill[f].tokens + 1]
        /\ \A e \in Fillers \ {f} : fill'[e] = fill[e]
    <3> DEFINE r == [fill[f] EXCEPT !.tokens = fill[f].tokens + 1]
    <3>0. fill[f] \in Fields
      BY DEF FillInv, Types
    <3>1. r \in Fields
      BY <3>0 DEF Fields
    <3>2. fill' = [fill EXCEPT ![f] = r]
      BY <1>6
    <3> HIDE DEF r
    <3>3. fill' \in [Fillers -> Fields] /\ fill'[f] = r /\ \A e \in Fillers \ {f} : fill'[e] = fill[e]
      BY <3>1, <3>2, FieldsPut DEF FillInv
    <3> QED
      BY <3>3 DEF r
  <2>4. /\ fill'[f].state = fill[f].state /\ fill'[f].result = fill[f].result /\ fill'[f].closed = fill[f].closed
        /\ fill'[f].early = fill[f].early /\ fill'[f].raced = fill[f].raced /\ (fill[f].errq => fill'[f].errq)
        /\ fill'[f].incs = fill[f].incs /\ fill'[f].pre = fill[f].pre
    BY <2>3 DEF FillInv, Types, Fields
  <2>5. Onward(f) /\ Done(f)' = Done(f) /\ \A h : Seq(Good(f, h)) \subseteq Seq(Good(f, h)')
    BY <1>2, <2>4, OnwardSame
  <2>6. Begins \subseteq Good(f, n)' /\ Begins \subseteq Ops
    BY DEF Begins, Good
  <2>7. Op("release", o.key, o.how) \in Begins /\ Owed(Op("release", o.key, o.how)) = {}
    BY <1>1, <1>3 DEF Ops, Op, Begins, Owed
  <2>8. t \in Seq(Good(f, n)') /\ t \in Seq(Ops) /\ Owe(t) = Owed(o)
    <3>1. <<Op("release", o.key, o.how)>> \in Seq(Begins) /\ t \in Seq(Begins)
      BY <2>7, <1>4
    <3>2. <<Op("release", o.key, o.how)>> \in Seq(Ops) /\ Body(o) \in Seq(Ops)
      BY <3>1, <1>4, <2>6
    <3>3. t \in Seq(Good(f, n)') /\ t \in Seq(Ops)
      BY <3>1, <2>6
    <3>4. Owe(t) = Owe(<<Op("release", o.key, o.how)>>) \cup Owe(Body(o))
      BY <3>2, OweCat
    <3> QED
      BY <3>3, <3>4, <1>4, <2>7, OweOne
  <2> HIDE DEF t, o
  <2>9. go' \in [Fillers -> [0..MaxG -> Seq(Ops)]]
    BY <1>1, <1>6, <2>8 DEF FillInv, Types, Rest, t
  <2>10. \A h \in 0..MaxG : go'[f][h] \in Seq(Good(f, h)')
    BY <1>1, <2>2, <2>5, <2>8 DEF FillInv, FillerInv
  <2>11. Pending(f) \subseteq Pending(f)'
    <3>1. Pending(f)' = UNION {Owe(go'[f][h]) : h \in 0..MaxG}
      BY <1>2, OweSame DEF Pending
    <3>2. Owe(Rest(f, g)) \subseteq Pending(f)' /\ Owed(o) \subseteq Pending(f)'
      BY <3>1, <2>1, <2>2, <2>8
    <3>3. ASSUME NEW h \in 0..MaxG PROVE Owe(go[f][h]) \subseteq Pending(f)'
      <4>1. CASE h = g
        BY <4>1, <3>2, <1>1
      <4>2. CASE h = n
        BY <4>2, <1>6, OweNone
      <4>3. CASE h \notin {g, n}
        BY <4>3, <2>2, <3>1
      <4> QED
        BY <4>1, <4>2, <4>3
    <3> QED
      BY <3>3 DEF Pending
  <2>12. PaysAll(f)
    BY <2>5, <2>11 DEF PaysAll
  <2>13. fill[f].state \notin {"idle", "over"} /\ (fill[f].state # "loop" => g # 0)
    BY DEF FillInv, FillerInv, Quiet
  <2>14. fill[f].state # "loop" => go'[f][0] = <<>>
    BY <2>2, <2>13, SizesAssumption DEF FillInv, FillerInv, Quiet
  <2>15. FillerInv(f)'
    <3>1. AtRegistry(f) => AtRegistry(f)'
      BY <1>3, <2>1, <2>2, SizesAssumption DEF AtRegistry, o
    <3> QED
      BY <2>5, <2>10, <2>12, <2>13, <2>14, <3>1, OnwardKeeps DEF FillInv
  <2>16. \A e \in Fillers \ {f} : FillerInv(e)'
    BY <1>2, <2>2, <2>3, OtherKeeps DEF FillInv
  <2>17. Types'
    BY <1>2, <2>3, <2>9 DEF FillInv, Types
  <2>18. Waiting'
    <3>1. \A k \in Keys : <<f, g>> \notin wants[k] /\ <<f, n>> \notin wants[k]
      BY <1>2, <1>6, <2>1 DEF FillInv, Waiting, o
    <3>2. \A k \in Keys, e \in Fillers, h \in 0..MaxG : <<e, h>> \in wants[k] => go'[e][h] = go[e][h]
      BY <3>1, <2>2
    <3> QED
      BY <3>2, <1>2 DEF FillInv, Waiting
  <2> QED
    BY <2>15, <2>16, <2>17, <2>18 DEF FillInv
<1> QED
  BY <1>2, <1>5, <1>6 DEF Go, Do

\* A step of a goroutine that puts <<o>> in front of the rest and counts nothing.
LEMMA PutsKeeps ==
  ASSUME FillInv, NEW f \in Fillers, NEW g \in 0..MaxG, go[f][g] # <<>>,
         NEW o, o \in Good(f, g)', o \in Ops, Owed(Head(go[f][g])) \subseteq Owed(o), o.how = Head(go[f][g]).how,
         go' = [go EXCEPT ![f][g] = <<o>> \o Rest(f, g)], WantsFit(f, g, <<o>> \o Rest(f, g)),
         UNCHANGED <<stored, fill, kids>>, refs' \in [Keys -> Int], fc' \in [Keys -> Int],
         wants' \in [Keys -> SUBSET (Fillers \X (0..MaxG))], past' \in Pasts, past.skipped \subseteq past'.skipped
  PROVE  FillInv'
<1>1. /\ Rest(f, g) \in Seq(Good(f, g)) /\ Rest(f, g) \in Seq(Ops)
      /\ Owe(go[f][g]) = Owed(Head(go[f][g])) \cup Owe(Rest(f, g))
  BY AtHand
<1>2. Onward(f) /\ Seq(Good(f, g)) \subseteq Seq(Good(f, g)')
  BY OnwardSame
<1>3. Rest(f, g) \in Seq(Good(f, g)') /\ Good(f, g)' \in SUBSET Ops
  <2>1. Good(f, g)' \in SUBSET Ops
    BY DEF Good
  <2> QED
    BY <1>1, <1>2, <2>1
<1>4. <<o>> \o Rest(f, g) \in Seq(Good(f, g)') /\ Owe(<<o>> \o Rest(f, g)) = Owed(o) \cup Owe(Rest(f, g))
  BY <1>3, PutOwes
<1>5. Pays(f, Owe(go[f][g]), Owe(<<o>> \o Rest(f, g)))
  BY <1>1, <1>4 DEF Pays, Done
<1>6. fill' \in [Fillers -> Fields] /\ stored' \subseteq Keys /\ \A e \in Fillers \ {f} : fill'[e] = fill[e]
  BY DEF FillInv, Types
<1>7. Knows(f, g, <<o>> \o Rest(f, g))
  <2>1. <<o>> \o Rest(f, g) # <<>> /\ Head(<<o>> \o Rest(f, g)) = o
    BY <1>3, PutOwes
  <2> QED
    BY <2>1 DEF Knows
<1> QED
  BY <1>2, <1>4, <1>5, <1>6, <1>7, GoroutineStep

LEMMA ReleaseKeeps ==
  ASSUME FillInv, NEW f \in Fillers, NEW g \in 0..MaxG, go[f][g] # <<>>, Release(f, g)
  PROVE  FillInv'
<1>1. Rest(f, g) \in Seq(Good(f, g)) /\ Owe(go[f][g]) = Owed(Head(go[f][g])) \cup Owe(Rest(f, g))
  BY AtHand
<1>2. /\ Head(go[f][g]).op = "release" /\ UNCHANGED <<stored, refs, fc, wants, kids, large, phase, past>>
      /\ go' = [go EXCEPT ![f][g] = Rest(f, g)] /\ fill' = [fill EXCEPT ![f].tokens = fill[f].tokens - 1]
  BY DEF Release, store, world, Do
<1>3. /\ fill' \in [Fillers -> Fields]
      /\ \A e \in Fillers \ {f} : fill'[e] = fill[e]
      /\ fill'[f] = [fill[f] EXCEPT !.tokens = fill[f].tokens - 1]
  <2> DEFINE r == [fill[f] EXCEPT !.tokens = fill[f].tokens - 1]
  <2>0. fill[f] \in Fields
    BY DEF FillInv, Types
  <2>1. r \in Fields
    BY <2>0 DEF Fields
  <2>2. fill' = [fill EXCEPT ![f] = r]
    BY <1>2
  <2> HIDE DEF r
  <2>3. fill' \in [Fillers -> Fields] /\ fill'[f] = r /\ \A e \in Fillers \ {f} : fill'[e] = fill[e]
    BY <2>1, <2>2, FieldsPut DEF FillInv
  <2> QED
    BY <2>3 DEF r
<1>4. /\ fill'[f].state = fill[f].state /\ fill'[f].result = fill[f].result /\ fill'[f].closed = fill[f].closed
      /\ fill'[f].early = fill[f].early /\ fill'[f].raced = fill[f].raced /\ (fill[f].errq => fill'[f].errq)
      /\ fill'[f].incs = fill[f].incs /\ fill'[f].pre = fill[f].pre
  BY <1>3 DEF FillInv, Types, Fields
<1>5. Onward(f) /\ Seq(Good(f, g)) \subseteq Seq(Good(f, g)')
  BY <1>2, <1>4, OnwardSame
<1>6. Owed(Head(go[f][g])) = {}
  BY <1>2 DEF Owed
<1>7. Pays(f, Owe(go[f][g]), Owe(Rest(f, g)))
  BY <1>1, <1>4, <1>6 DEF Pays, Done
<1>8. WantsFit(f, g, Rest(f, g))
  BY <1>2 DEF WantsFit
<1>9. stored' \subseteq Keys /\ refs' \in [Keys -> Int] /\ fc' \in [Keys -> Int] /\ past' \in Pasts
      /\ wants' \in [Keys -> SUBSET (Fillers \X (0..MaxG))]
  BY <1>2 DEF FillInv, Types
<1>10. Knows(f, g, Rest(f, g))
  BY <1>2, AtHand DEF Knows, Good
<1> QED
  BY <1>1, <1>2, <1>3, <1>5, <1>7, <1>8, <1>9, <1>10, GoroutineStep

LEMMA GetKeeps ==
  ASSUME FillInv, NEW f \in Fillers, NEW g \in 0..MaxG, go[f][g] # <<>>, Get(f, g)
  PROVE  FillInv'
<1> DEFINE o == Head(go[f][g])
           n == IF o.how \in {"hash", "reg"} /\ o.key \in fill[f].pre THEN 0 ELSE 1
           q == [o EXCEPT !.op = "inc", !.inc = n, !.rc = refs'[o.key] - fc[o.key]]
           w == [o EXCEPT !.op = "want", !.inc = n]
<1>1. o \in Good(f, g) /\ o \in Ops /\ o.key \in Keys
  <2>1. o \in Good(f, g) /\ o \in Ops
    BY AtHand
  <2> QED
    BY <2>1 DEF Ops
<1>2. o.op = "get" /\ UNCHANGED <<stored, fc, wants, fill, kids, large, phase, past>>
  BY DEF Get, world
<1>3. n \in {0, 1} /\ (n = 0 => o.key \in Done(f) \/ fill[f].closed) /\ (o.how \in {"pre", "branch"} => n = 1)
  BY DEF FillInv, FillerInv, Counted
<1>4. Owed(o) = {o.key} \cup Later(o)
  BY <1>2 DEF Owed
<1> HIDE DEF n
<1>5. WantsFit(f, g, <<q>> \o Rest(f, g)) /\ WantsFit(f, g, <<w>> \o Rest(f, g))
  BY <1>2 DEF WantsFit
<1>6. Done(f)' = Done(f)
  BY <1>2 DEF Done
<1>7. fc' \in [Keys -> Int] /\ wants' \in [Keys -> SUBSET (Fillers \X (0..MaxG))] /\ refs \in [Keys -> Int] /\ fc \in [Keys -> Int]
      /\ past \in Pasts
  BY <1>2 DEF FillInv, Types
<1>8. CASE /\ o.key \in stored
           /\ refs' = [refs EXCEPT ![o.key] = @ + n]
           /\ Do(f, g, <<q>> \o Rest(f, g))
  <2>1. refs' \in [Keys -> Int] /\ refs'[o.key] - fc[o.key] \in Int
    BY <1>1, <1>3, <1>7, <1>8
  <2>2. past' \in Pasts /\ past.skipped \subseteq past'.skipped
    BY <1>2, <1>7
  <2>3. q \in Ops /\ q.op = "inc" /\ q.key = o.key /\ q.how = o.how /\ q.inc = n /\ q.toSplit = o.toSplit
    BY <1>1, <1>3, <2>1 DEF Ops
  <2> HIDE DEF q
  <2>4. q \in Good(f, g)'
    BY <1>1, <1>2, <1>3, <1>6, <1>8, <2>3 DEF Good
  <2>5. Owed(q) = {o.key} \cup Later(o)
    BY <2>3 DEF Owed, Later
  <2>6. go' = [go EXCEPT ![f][g] = <<q>> \o Rest(f, g)]
    BY <1>8 DEF Do
  <2> HIDE DEF o
  <2> QED
    BY <1>2, <1>4, <1>5, <1>7, <2>1, <2>2, <2>3, <2>4, <2>5, <2>6, PutsKeeps DEF o
<1>9. CASE Do(f, g, <<w>> \o Rest(f, g)) /\ UNCHANGED refs
  <2>3. w \in Ops /\ w.op = "want" /\ w.key = o.key /\ w.how = o.how /\ w.inc = n /\ w.toSplit = o.toSplit
    BY <1>1, <1>3 DEF Ops
  <2> HIDE DEF w
  <2>4. w \in Good(f, g)'
    BY <1>1, <1>2, <1>3, <1>6, <2>3 DEF Good
  <2>5. Owed(w) = {o.key} \cup Later(o)
    BY <2>3 DEF Owed, Later
  <2>6. go' = [go EXCEPT ![f][g] = <<w>> \o Rest(f, g)]
    BY <1>9 DEF Do
  <2> HIDE DEF o
  <2> QED
    BY <1>2, <1>4, <1>5, <1>7, <1>9, <2>3, <2>4, <2>5, <2>6, PutsKeeps DEF o
<1>10. \/ /\ o.key \in stored
          /\ refs' = [refs EXCEPT ![o.key] = @ + n]
          /\ Do(f, g, <<q>> \o Rest(f, g))
       \/ Do(f, g, <<w>> \o Rest(f, g)) /\ UNCHANGED refs
  BY DEF Get, n
<1> QED
  BY <1>8, <1>9, <1>10

LEMMA WantKeeps ==
  ASSUME FillInv, NEW f \in Fillers, NEW g \in 0..MaxG, go[f][g] # <<>>, Want(f, g)
  PROVE  FillInv'
<1> DEFINE o == Head(go[f][g])
           w == [o EXCEPT !.op = "wait"]
           q == [o EXCEPT !.op = "got", !.rc = refs'[o.key] - fc'[o.key]]
<1>1. o \in Good(f, g) /\ o \in Ops /\ o.key \in Keys /\ o.inc \in {0, 1}
  <2>1. o \in Good(f, g) /\ o \in Ops
    BY AtHand
  <2> QED
    BY <2>1 DEF Ops
<1>2. o.op = "want" /\ UNCHANGED <<stored, fill, kids, large, phase, past>>
  BY DEF Want, world
<1>3. past' \in Pasts /\ past'.skipped = past.skipped
  BY <1>2 DEF FillInv, Types
<1>4. Owed(o) = {o.key} \cup Later(o)
  BY <1>2 DEF Owed
<1>5. Done(f)' = Done(f)
  BY <1>2 DEF Done
<1>6. refs \in [Keys -> Int] /\ fc \in [Keys -> Int] /\ wants \in [Keys -> SUBSET (Fillers \X (0..MaxG))]
  BY DEF FillInv, Types
<1>7. CASE /\ wants' = [wants EXCEPT ![o.key] = @ \cup {<<f, g>>}]
           /\ Do(f, g, <<w>> \o Rest(f, g))
           /\ UNCHANGED <<refs, fc>>
  <2>1. w \in Ops /\ w.op = "wait" /\ w.key = o.key /\ w.how = o.how /\ w.inc = o.inc /\ w.toSplit = o.toSplit
    BY <1>1 DEF Ops
  <2> HIDE DEF w
  <2>2. w \in Good(f, g)'
    BY <1>1, <1>2, <1>5, <2>1 DEF Good
  <2>3. Owed(w) = {o.key} \cup Later(o)
    BY <2>1 DEF Owed, Later
  <2>4. go' = [go EXCEPT ![f][g] = <<w>> \o Rest(f, g)]
    BY <1>7 DEF Do
  <2>5. wants' \in [Keys -> SUBSET (Fillers \X (0..MaxG))]
    BY <1>1, <1>6, <1>7
  <2>6. Rest(f, g) \in Seq(Ops)
    BY AtHand
  <2>7. WantsFit(f, g, <<w>> \o Rest(f, g))
    <3> DEFINE s == <<w>> \o Rest(f, g)
    <3>1. s # <<>> /\ Head(s) = w
      BY <2>6, <2>1, PutOwes
    <3> HIDE DEF s
    <3>2. WantsFit(f, g, s)
      BY <1>1, <1>2, <1>7, <2>1, <3>1 DEF WantsFit
    <3> QED
      BY <3>2 DEF s
  <2>8. Owed(Head(go[f][g])) \subseteq Owed(w) /\ w.how = Head(go[f][g]).how
    BY <1>4, <2>1, <2>3
  <2> HIDE DEF o
  <2> QED
    BY <1>2, <1>3, <1>6, <1>7, <2>1, <2>2, <2>4, <2>5, <2>7, <2>8, PutsKeeps
<1>8. ASSUME o.key \in stored, NEW n \in LateCounted, refs' = [refs EXCEPT ![o.key] = @ + n * o.inc],
             fc' = [fc EXCEPT ![o.key] = @ + o.inc], Do(f, g, <<q>> \o Rest(f, g)), UNCHANGED wants
      PROVE  FillInv'
  <2>1. n \in Int /\ n * o.inc \in Int
    <3>1. n \in Int
      BY LateAssumption
    <3>2. n * 0 = 0 /\ n * 1 = n
      BY <3>1
    <3> QED
      BY <1>1, <3>1, <3>2
  <2>2. refs' \in [Keys -> Int] /\ fc' \in [Keys -> Int] /\ refs'[o.key] - fc'[o.key] \in Int
    <3> DEFINE m == n * o.inc
    <3>1. m \in Int /\ refs' = [refs EXCEPT ![o.key] = @ + m]
      BY <1>8, <2>1
    <3> HIDE DEF m
    <3>2. refs' \in [Keys -> Int] /\ fc' \in [Keys -> Int]
      BY <3>1, <1>1, <1>6, <1>8
    <3> QED
      BY <3>2, <1>1
  <2>3. q \in Ops /\ q.op = "got" /\ q.key = o.key /\ q.how = o.how /\ q.inc = o.inc /\ q.toSplit = o.toSplit
    BY <1>1, <2>2 DEF Ops
  <2> HIDE DEF q
  <2>4. q \in Good(f, g)'
    BY <1>1, <1>2, <1>5, <1>8, <2>3 DEF Good
  <2>5. Owed(q) = {o.key} \cup Later(o)
    BY <2>3 DEF Owed, Later
  <2>6. go' = [go EXCEPT ![f][g] = <<q>> \o Rest(f, g)]
    BY <1>8 DEF Do
  <2>7. WantsFit(f, g, <<q>> \o Rest(f, g)) /\ wants' \in [Keys -> SUBSET (Fillers \X (0..MaxG))]
    BY <1>2, <1>6, <1>8 DEF WantsFit
  <2>8. Owed(Head(go[f][g])) \subseteq Owed(q) /\ q.how = Head(go[f][g]).how
    BY <1>4, <2>3, <2>5
  <2> HIDE DEF o
  <2> QED
    BY <1>2, <1>3, <2>2, <2>3, <2>4, <2>6, <2>7, <2>8, PutsKeeps
<1> QED
  BY <1>7, <1>8 DEF Want

LEMMA UnwantedTypes ==
  ASSUME Types, NEW f, NEW g
  PROVE  Unwanted(f, g) \in [Keys -> SUBSET (Fillers \X (0..MaxG))]
BY DEF Types, Unwanted

LEMMA ReceiveKeeps ==
  ASSUME FillInv, NEW f \in Fillers, NEW g \in 0..MaxG, go[f][g] # <<>>, Receive(f, g)
  PROVE  FillInv'
<1> DEFINE o == Head(go[f][g])
           q == [o EXCEPT !.op = "inc"]
<1>1. o \in Good(f, g) /\ o \in Ops
  BY AtHand
<1>2. o.op = "got" /\ wants' = Unwanted(f, g) /\ UNCHANGED <<stored, refs, fc, fill, kids, large, phase, past>>
      /\ go' = [go EXCEPT ![f][g] = <<q>> \o Rest(f, g)]
  BY DEF Receive, Do, world
<1>3. Done(f)' = Done(f)
  BY <1>2 DEF Done
<1>4. q \in Ops /\ q.op = "inc" /\ q.key = o.key /\ q.how = o.how /\ q.inc = o.inc /\ q.toSplit = o.toSplit
  BY <1>1 DEF Ops
<1>5. refs' \in [Keys -> Int] /\ fc' \in [Keys -> Int] /\ wants' \in [Keys -> SUBSET (Fillers \X (0..MaxG))]
      /\ past' \in Pasts
  BY <1>2, UnwantedTypes DEF FillInv, Types
<1> HIDE DEF q
<1>6. q \in Good(f, g)'
  BY <1>1, <1>2, <1>3, <1>4 DEF Good
<1>7. Owed(o) \subseteq Owed(q)
  BY <1>2, <1>4 DEF Owed, Later
<1>8. WantsFit(f, g, <<q>> \o Rest(f, g))
  BY <1>2 DEF WantsFit
<1>9. Owed(Head(go[f][g])) \subseteq Owed(q) /\ q.how = Head(go[f][g]).how
  BY <1>4, <1>7
<1> HIDE DEF o
<1> QED
  BY <1>2, <1>4, <1>5, <1>6, <1>8, <1>9, PutsKeeps

\* All the references an operation owes are objects.
LEMMA OwesKeys ==
  ASSUME Types, NEW s \in Seq(Ops)
  PROVE  Owe(s) \subseteq Keys /\ \A k \in Keys : Kids(k) \subseteq Keys
<1>1. \A k \in Keys : Kids(k) \subseteq Keys
  <2>1. \A k \in Keys : kids[k] \in Seq(Keys)
    BY DEF Types
  <2>2. \A k \in Keys : \A i \in 1..Len(kids[k]) : kids[k][i] \in Keys
    BY <2>1
  <2> QED
    BY <2>2 DEF Kids
<1>2. \A q \in Seq(Keys) : Parts(q) \subseteq Keys
  <2>1. \A q \in Seq(Keys) : \A i \in 1..Len(q) : q[i] \in Keys
    OBVIOUS
  <2> QED
    BY <1>1, <2>1 DEF Parts
<1>3. \A o \in Ops : o.key \in Keys /\ o.toSplit \in Seq(Keys)
  BY DEF Ops
<1>4. \A o \in Ops : Later(o) \subseteq Keys
  BY <1>2, <1>3 DEF Later
<1>5. \A o \in Ops : Owed(o) \subseteq Keys
  BY <1>1, <1>3, <1>4 DEF Owed
<1>6. \A i \in 1..Len(s) : s[i] \in Ops
  OBVIOUS
<1> QED
  BY <1>1, <1>5, <1>6 DEF Owe

\* What stays when a goroutine gives an object up.
LEMMA LostTypes ==
  ASSUME FillInv, NEW f, NEW g, NEW o, Lose(o), wants' = Unwanted(f, g), UNCHANGED <<stored, refs, fc>>
  PROVE  /\ past' \in Pasts /\ past'.skipped = past.skipped
         /\ stored' \subseteq Keys /\ refs' \in [Keys -> Int] /\ fc' \in [Keys -> Int]
         /\ wants' \in [Keys -> SUBSET (Fillers \X (0..MaxG))]
         /\ \A s : WantsFit(f, g, s)
<1>1. past' \in Pasts /\ past'.skipped = past.skipped
  BY DEF Lose, Pasts, FillInv, Types
<1>2. wants' \in [Keys -> SUBSET (Fillers \X (0..MaxG))]
  BY UnwantedTypes DEF FillInv
<1>3. stored' \subseteq Keys /\ refs' \in [Keys -> Int] /\ fc' \in [Keys -> Int]
  BY DEF FillInv, Types
<1>4. ASSUME NEW s PROVE WantsFit(f, g, s)
  BY DEF WantsFit
<1> QED
  BY <1>1, <1>2, <1>3, <1>4

\* Run returns from getRegistry with an error.
LEMMA NoRegistryKeeps ==
  ASSUME FillInv, NEW f \in Fillers, NEW g \in 0..MaxG, go[f][g] # <<>>, Head(go[f][g]).how = "reg",
         NoRegistry(f, g), Lose(Head(go[f][g])), wants' = Unwanted(f, g), UNCHANGED <<stored, refs, fc, kids>>
  PROVE  FillInv'
<1>1. Head(go[f][g]) \in Good(f, g)
  BY AtHand
<1>2. /\ past' \in Pasts /\ past'.skipped = past.skipped
      /\ stored' \subseteq Keys /\ refs' \in [Keys -> Int] /\ fc' \in [Keys -> Int]
      /\ wants' \in [Keys -> SUBSET (Fillers \X (0..MaxG))] /\ WantsFit(f, g, <<>>)
  BY LostTypes
<1>3. g = 0
  BY <1>1 DEF Good
<1>4. go' = [go EXCEPT ![f][g] = <<>>] /\ fill' = [fill EXCEPT ![f].state = "end", ![f].result = "err"]
  BY DEF NoRegistry, Do
<1>5. /\ fill' \in [Fillers -> Fields] /\ go' \in [Fillers -> [0..MaxG -> Seq(Ops)]]
      /\ fill'[f] = [fill[f] EXCEPT !.state = "end", !.result = "err"]
      /\ \A e \in Fillers \ {f} : fill'[e] = fill[e] /\ go'[e] = go[e]
      /\ go'[f][g] = <<>> /\ \A h \in 0..MaxG : h # g => go'[f][h] = go[f][h]
  <2> DEFINE r == [fill[f] EXCEPT !.state = "end", !.result = "err"]
  <2>0. fill[f] \in Fields
    BY DEF FillInv, Types
  <2>1. r \in Fields
    BY <2>0 DEF Fields
  <2>2. fill' = [fill EXCEPT ![f] = r]
    BY <1>4 DEF FillInv, Types, Fields
  <2> HIDE DEF r
  <2>3. fill' \in [Fillers -> Fields] /\ fill'[f] = r /\ \A e \in Fillers \ {f} : fill'[e] = fill[e]
    BY <2>1, <2>2, FieldsPut DEF FillInv
  <2>4. <<>> \in Seq(Ops) /\ go \in [Fillers -> [0..MaxG -> Seq(Ops)]]
    BY DEF FillInv, Types
  <2>5. go' \in [Fillers -> [0..MaxG -> Seq(Ops)]]
    BY <1>4, <2>4
  <2>6. /\ \A e \in Fillers \ {f} : go'[e] = go[e]
        /\ go'[f][g] = <<>> /\ \A h \in 0..MaxG : h # g => go'[f][h] = go[f][h]
    BY <1>4, <2>4
  <2> QED
    BY <2>3, <2>5, <2>6 DEF r
<1>6. /\ fill'[f].state = "end" /\ fill'[f].result = "err" /\ fill'[f].incs = fill[f].incs /\ fill'[f].pre = fill[f].pre
      /\ fill'[f].closed = fill[f].closed
  BY <1>5 DEF FillInv, Types, Fields
<1>7. Done(f)' = Done(f)
  BY <1>6 DEF Done
<1>8. \A h \in 0..MaxG : go'[f][h] \in Seq(Good(f, h)')
  <2> TAKE h \in 0..MaxG
  <2>1. Seq(Good(f, h)) \subseteq Seq(Good(f, h)') /\ <<>> \in Seq(Good(f, h)')
    BY <1>6, <1>7, GoodStays
  <2> QED
    BY <2>1, <1>5 DEF FillInv, FillerInv
<1>9. fill[f].state # "idle"
  BY DEF FillInv, FillerInv, Quiet
<1>10. FillerInv(f)'
  BY <1>3, <1>5, <1>6, <1>7, <1>8, <1>9 DEF FillInv, FillerInv, Quiet, Counted, Progress, Full, Named
<1>11. \A e \in Fillers \ {f} : FillerInv(e)'
  BY <1>2, <1>5, OtherKeeps DEF FillInv
<1>12. Waiting'
  BY <1>2, <1>4, GoroutineWaits DEF FillInv
<1>13. Types'
  BY <1>2, <1>5 DEF FillInv, Types
<1> QED
  BY <1>10, <1>11, <1>12, <1>13 DEF FillInv

\* What a goroutine that gives an object up may change in its Filler.
GivenUp(f, k) == fill' = fill \/ (fill[f].closed /\ fill' = [fill EXCEPT ![f].pre = fill[f].pre \cup {k}])

LEMMA GivenUpFields ==
  ASSUME FillInv, NEW f \in Fillers, NEW k \in Keys, GivenUp(f, k), UNCHANGED <<stored, kids>>, past'.skipped = past.skipped
  PROVE  /\ fill' \in [Fillers -> Fields] /\ \A e \in Fillers \ {f} : fill'[e] = fill[e]
         /\ Onward(f) /\ Done(f)' = Done(f)
         /\ \A g : Seq(Good(f, g)) \subseteq Seq(Good(f, g)') /\ Good(f, g)' \in SUBSET Ops /\ Begins \subseteq Good(f, g)'
<1>1. fill[f] \in Fields /\ fill \in [Fillers -> Fields]
  BY DEF FillInv, Types
<1> DEFINE r == [fill[f] EXCEPT !.pre = fill[f].pre \cup {k}]
<1>2. r \in Fields
  BY <1>1 DEF Fields
<1>3. fill' = fill \/ (fill[f].closed /\ fill' = [fill EXCEPT ![f] = r])
  BY <1>1 DEF GivenUp, Fields
<1>4. /\ r.state = fill[f].state /\ r.result = fill[f].result /\ r.closed = fill[f].closed /\ r.early = fill[f].early
      /\ r.raced = fill[f].raced /\ r.errq = fill[f].errq /\ r.incs = fill[f].incs
  BY <1>1 DEF Fields
<1> HIDE DEF r
<1>5. fill' \in [Fillers -> Fields] /\ (\A e \in Fillers \ {f} : fill'[e] = fill[e])
      /\ (fill'[f] = fill[f] \/ (fill[f].closed /\ fill'[f] = r))
  BY <1>1, <1>2, <1>3
<1>6. Done(f)' = Done(f)
  BY <1>4, <1>5 DEF Done
<1>7. Done(f) \subseteq stored /\ (fill[f].closed \/ fill[f].pre \subseteq Done(f))
  BY DEF FillInv, FillerInv, Counted
<1>8. Onward(f)
  BY <1>4, <1>5, <1>6, <1>7 DEF Onward
<1>9. \A g : Good(f, g)' \in SUBSET Ops /\ Begins \subseteq Good(f, g)'
  BY DEF Begins, Good
<1> QED
  BY <1>5, <1>6, <1>8, <1>9, GoodStays DEF Onward

\* A goroutine gives an object up and goes on, owing an error if the Filler is not closed.
LEMMA LostKeeps ==
  ASSUME FillInv, NEW f \in Fillers, NEW g \in 0..MaxG, go[f][g] # <<>>, GivenUp(f, Head(go[f][g]).key),
         Lose(Head(go[f][g])), wants' = Unwanted(f, g), UNCHANGED <<stored, refs, fc, kids>>,
         NEW s, s \in Seq(Good(f, g)'), go' = [go EXCEPT ![f][g] = s], Knows(f, g, s),
         fill[f].closed \/ Keys \subseteq Owe(s)
  PROVE  FillInv'
<1>1. Head(go[f][g]).key \in Keys /\ go[f][g] \in Seq(Ops)
  <2>1. Head(go[f][g]) \in Ops
    BY AtHand
  <2>2. go[f][g] \in Seq(Ops)
    BY DEF FillInv, Types
  <2> QED
    BY <2>1, <2>2 DEF Ops
<1>2. /\ past' \in Pasts /\ past'.skipped = past.skipped
      /\ stored' \subseteq Keys /\ refs' \in [Keys -> Int] /\ fc' \in [Keys -> Int]
      /\ wants' \in [Keys -> SUBSET (Fillers \X (0..MaxG))] /\ WantsFit(f, g, s)
  BY LostTypes
<1>3. /\ fill' \in [Fillers -> Fields] /\ \A e \in Fillers \ {f} : fill'[e] = fill[e]
      /\ Onward(f) /\ Done(f)' = Done(f)
  BY <1>1, <1>2, GivenUpFields
<1>4. Pays(f, Owe(go[f][g]), Owe(s))
  <2>1. CASE fill[f].closed
    BY <2>1, <1>3 DEF Pays, Onward, FillInv, FillerInv, Progress
  <2>2. CASE Keys \subseteq Owe(s)
    <3>1. Owe(go[f][g]) \subseteq Keys
      BY <1>1, OwesKeys DEF FillInv
    <3> QED
      BY <3>1, <2>2, <1>3 DEF Pays
  <2> QED
    BY <2>1, <2>2
<1> QED
  BY <1>2, <1>3, <1>4, GoroutineStep

LEMMA TerminatedKeeps ==
  ASSUME FillInv, NEW f \in Fillers, NEW g \in 0..MaxG, go[f][g] # <<>>, Terminated(f, g)
  PROVE  FillInv'
<1> DEFINE o == Head(go[f][g])
           b == Op("fail", o.key, o.how)
           t == NextBranch(o.toSplit, Rest(f, g))
<1>1. o \in Good(f, g) /\ o \in Ops /\ o.key \in Keys /\ Rest(f, g) \in Seq(Good(f, g)) /\ o.toSplit \in Seq(Keys)
  <2>1. o \in Good(f, g) /\ o \in Ops /\ Rest(f, g) \in Seq(Good(f, g))
    BY AtHand
  <2> QED
    BY <2>1 DEF Ops
<1>2. wants' = Unwanted(f, g) /\ Lose(o) /\ UNCHANGED <<stored, refs, fc, kids>>
  BY DEF Terminated, world
<1>3. CASE o.how = "reg"
  BY <1>2, <1>3, NoRegistryKeeps DEF Terminated
<1>4. CASE o.how # "reg"
  <2>1. go' = [go EXCEPT ![f][g] = <<b>> \o t] /\ fill' = fill
    BY <1>4 DEF Terminated, Do
  <2>2. past'.skipped = past.skipped
    BY <1>2, LostTypes
  <2>3. GivenUp(f, o.key)
    BY <2>1 DEF GivenUp
  <2>4. Seq(Good(f, g)) \subseteq Seq(Good(f, g)') /\ Good(f, g)' \in SUBSET Ops /\ Begins \subseteq Good(f, g)'
    BY <1>1, <1>2, <2>2, <2>3, GivenUpFields
  <2>5. o.how \in {"hash", "pre", "branch", "split"}
    BY <1>1, <1>4 DEF Ops
  <2>6. b \in Begins /\ Owed(b) = Keys
    BY <1>1, <2>5, OpBegins
  <2>7. t \in Seq(Good(f, g)')
    <3>1. Rest(f, g) \in Seq(Good(f, g)')
      BY <1>1, <2>4
    <3> HIDE DEF o
    <3> QED
      BY <1>1, <2>4, <3>1, GoodLoop, NextOwes DEF FillInv
  <2>8. Knows(f, g, <<b>> \o t)
    BY <1>4 DEF Knows
  <2> HIDE DEF b, t, o
  <2>9. <<b>> \o t \in Seq(Good(f, g)') /\ Owe(<<b>> \o t) = Keys \cup Owe(t)
    BY <2>4, <2>6, <2>7, PutOwes
  <2> QED
    BY <1>2, <2>1, <2>3, <2>8, <2>9, LostKeeps DEF o
<1> QED
  BY <1>3, <1>4

\* All the references of an object that is not skipped are owed then, and what
\* the loop over branches has put aside stays owed.
LEMMA DeeperOwes ==
  ASSUME Types, NEW S \in SUBSET Ops, NEW o \in S, Begins \subseteq S, NEW rest \in Seq(S),
         \A p \in S, t \in Seq(Keys) : p.op = "get" /\ p.how = "branch" => [p EXCEPT !.toSplit = t] \in S
  PROVE  /\ Deeper(o, rest) \in Seq(S)
         /\ o.how # "reg" => Kids(o.key) \subseteq Owe(Deeper(o, rest))
         /\ Later(o) \subseteq Owe(Deeper(o, rest)) /\ Owe(rest) \subseteq Owe(Deeper(o, rest))
<1>1. o.key \in Keys /\ o.toSplit \in Seq(Keys)
  BY DEF Ops
<1>2. rest \in Seq(Ops)
  OBVIOUS
<1>3. CASE o.how = "hash"
  <2>1. SplitData(o.key) \in Seq(S) /\ SplitData(o.key) \in Seq(Ops) /\ Owe(SplitData(o.key)) = Kids(o.key)
    BY <1>1, SplitDataOwes
  <2>2. Deeper(o, rest) = SplitData(o.key) \o rest /\ Later(o) = {}
    BY <1>3 DEF Deeper, Later
  <2>3. SplitData(o.key) \o rest \in Seq(S) /\ Owe(SplitData(o.key) \o rest) = Kids(o.key) \cup Owe(rest)
    BY <1>2, <2>1, OweCat, SeqCat
  <2> QED
    BY <2>2, <2>3
<1>4. CASE o.how = "pre"
  <2>1. SplitNode(o.key) \in Seq(S) /\ SplitNode(o.key) \in Seq(Ops) /\ Owe(SplitNode(o.key)) = Kids(o.key)
    BY <1>1, SplitNodeOwes
  <2>2. Deeper(o, rest) = SplitNode(o.key) \o rest /\ Later(o) = {}
    BY <1>4 DEF Deeper, Later
  <2>3. SplitNode(o.key) \o rest \in Seq(S) /\ Owe(SplitNode(o.key) \o rest) = Kids(o.key) \cup Owe(rest)
    BY <1>2, <2>1, OweCat, SeqCat
  <2> QED
    BY <2>2, <2>3
<1>5. CASE o.how = "reg"
  BY <1>5 DEF Deeper, Later
<1>6. CASE o.how \notin {"hash", "pre", "reg"}
  <2> DEFINE q == Append(o.toSplit, o.key)
  <2>1. q \in Seq(Keys) /\ Len(q) = Len(o.toSplit) + 1 /\ Len(o.toSplit) \in Nat /\ q[Len(q)] = o.key
        /\ \A i \in 1..Len(o.toSplit) : q[i] = o.toSplit[i]
    BY <1>1
  <2>2. Deeper(o, rest) = NextBranch(q, rest)
    BY <1>6 DEF Deeper
  <2> HIDE DEF q
  <2>3. NextBranch(q, rest) \in Seq(S) /\ Owe(NextBranch(q, rest)) = Owe(rest) \cup Parts(q)
    BY <2>1, NextOwes
  <2>4. Len(q) \in 1..Len(q) /\ \A i \in 1..Len(o.toSplit) : i \in 1..Len(q)
    BY <2>1
  <2>5. Kids(o.key) \subseteq Parts(q) /\ Parts(o.toSplit) \subseteq Parts(q)
    BY <2>1, <2>4 DEF Parts
  <2>6. Later(o) \subseteq Parts(q)
    BY <2>5 DEF Later
  <2> QED
    BY <2>2, <2>3, <2>5, <2>6
<1> QED
  BY <1>3, <1>4, <1>5, <1>6

LEMMA UnrequestedKeeps ==
  ASSUME FillInv, NEW f \in Fillers, NEW g \in 0..MaxG, go[f][g] # <<>>, Unrequested(f, g)
  PROVE  FillInv'
<1> DEFINE o == Head(go[f][g])
           b == Op("fail", o.key, o.how)
           rest == Rest(f, g)
<1>1. o \in Good(f, g) /\ o \in Ops /\ o.key \in Keys /\ rest \in Seq(Good(f, g)) /\ o.toSplit \in Seq(Keys)
  <2>1. o \in Good(f, g) /\ o \in Ops /\ rest \in Seq(Good(f, g))
    BY AtHand
  <2> QED
    BY <2>1 DEF Ops
<1>2. fill[f].closed /\ wants' = Unwanted(f, g) /\ Lose(o) /\ UNCHANGED <<stored, refs, fc, kids>>
  BY DEF Unrequested, world
<1>3. past'.skipped = past.skipped
  BY <1>2, LostTypes
<1>4. CASE o.how = "reg" /\ NoRegistry(f, g)
  BY <1>2, <1>4, NoRegistryKeeps
<1>5. ASSUME NEW s, go' = [go EXCEPT ![f][g] = s], GivenUp(f, o.key), o.how # "reg" \/ Reg \in stored,
             Good(f, g)' \in SUBSET Ops => s \in Seq(Good(f, g)')
      PROVE  FillInv'
  <2>1. s \in Seq(Good(f, g)')
    BY <1>1, <1>2, <1>3, <1>5, GivenUpFields
  <2>2. Knows(f, g, s)
    BY <1>2, <1>5 DEF Knows
  <2> QED
    BY <1>2, <1>5, <2>1, <2>2, LostKeeps
<1>6. ASSUME GivenUp(f, o.key)
      PROVE  Seq(Good(f, g)) \subseteq Seq(Good(f, g)') /\ Good(f, g)' \in SUBSET Ops /\ Begins \subseteq Good(f, g)'
  BY <1>1, <1>2, <1>3, <1>6, GivenUpFields
<1>7. ASSUME o.how # "reg" PROVE b \in Begins
  <2>1. o.how \in {"hash", "pre", "branch", "split"}
    BY <1>1, <1>7 DEF Ops
  <2> QED
    BY <1>1, <2>1, OpBegins
<1>8. fill' = fill => GivenUp(f, o.key)
  BY DEF GivenUp
<1> HIDE DEF b
<1>9. CASE Do(f, g, rest) /\ fill' = fill /\ (o.how = "reg" => o.key \in stored)
  <2>1. o.how # "reg" \/ Reg \in stored
    BY <1>1, <1>9 DEF Good
  <2>2. rest \in Seq(Good(f, g)')
    BY <1>1, <1>6, <1>8, <1>9
  <2>3. go' = [go EXCEPT ![f][g] = rest]
    BY <1>9 DEF Do
  <2> HIDE DEF rest
  <2> QED
    BY <1>5, <1>8, <1>9, <2>1, <2>2, <2>3
<1>10. CASE o.how = "hash" /\ fill' = fill /\ Do(f, g, <<b>> \o rest)
  <2>1. <<b>> \o rest \in Seq(Good(f, g)')
    <3>1. rest \in Seq(Good(f, g)') /\ b \in Good(f, g)' /\ Good(f, g)' \in SUBSET Ops
      BY <1>1, <1>6, <1>7, <1>8, <1>10
    <3> HIDE DEF rest
    <3> QED
      BY <3>1, PutOwes
  <2>2. go' = [go EXCEPT ![f][g] = <<b>> \o rest]
    BY <1>10 DEF Do
  <2> HIDE DEF rest
  <2> QED
    BY <1>5, <1>8, <1>10, <2>1, <2>2
<1>11. CASE /\ o.how \in {"pre", "branch"}
            /\ fill' = [fill EXCEPT ![f].pre = @ \cup {o.key}]
            /\ Do(f, g, IF o.key \in stored THEN Deeper(o, rest) ELSE <<b>> \o AfterLoop(rest))
  <2>0. GivenUp(f, o.key)
    BY <1>2, <1>11 DEF GivenUp
  <2>1. rest \in Seq(Good(f, g)') /\ b \in Good(f, g)' /\ Good(f, g)' \in SUBSET Ops /\ Begins \subseteq Good(f, g)'
    BY <1>1, <1>6, <1>7, <1>11, <2>0
  <2>2. AfterLoop(rest) \in Seq(Good(f, g)')
    BY <2>1, LoopCut
  <2>3. <<b>> \o AfterLoop(rest) \in Seq(Good(f, g)')
    BY <2>1, <2>2, PutOwes
  <2>4. o \in Good(f, g)'
    <3>1. Good(f, g) \subseteq Good(f, g)'
      BY <1>2, <1>3, <2>0, <1>1, GivenUpFields, GoodStays DEF Onward
    <3> QED
      BY <1>1, <3>1
  <2>5. Deeper(o, rest) \in Seq(Good(f, g)')
    <3> HIDE DEF o, rest
    <3> QED
      BY <2>1, <2>4, GoodLoop, DeeperOwes DEF FillInv
  <2> DEFINE s == IF o.key \in stored THEN Deeper(o, rest) ELSE <<b>> \o AfterLoop(rest)
  <2>6. s \in Seq(Good(f, g)') /\ go' = [go EXCEPT ![f][g] = s]
    BY <1>11, <2>3, <2>5 DEF Do
  <2>7. o.how # "reg"
    BY <1>11
  <2> HIDE DEF s, o, rest
  <2> QED
    BY <1>5, <2>0, <2>6, <2>7
<1>12. \/ o.how = "reg" /\ NoRegistry(f, g)
       \/ Do(f, g, rest) /\ fill' = fill /\ (o.how = "reg" => o.key \in stored)
       \/ o.how = "hash" /\ fill' = fill /\ Do(f, g, <<b>> \o rest)
       \/ /\ o.how \in {"pre", "branch"}
          /\ fill' = [fill EXCEPT ![f].pre = @ \cup {o.key}]
          /\ Do(f, g, IF o.key \in stored THEN Deeper(o, rest) ELSE <<b>> \o AfterLoop(rest))
  BY DEF Unrequested, b
<1> QED
  BY <1>4, <1>9, <1>10, <1>11, <1>12

\* What inc does to the objects counted.
LEMMA CountsMore ==
  ASSUME Types, NEW f \in Fillers, NEW k \in Keys, NEW n \in {0, 1},
         fill'[f].incs = [fill[f].incs EXCEPT ![k] = fill[f].incs[k] + n]
  PROVE  Done(f)' = IF n = 1 THEN Done(f) \cup {k} ELSE Done(f)
<1>1. fill[f].incs \in [Keys -> Nat]
  BY DEF Types, Fields
<1>2. fill'[f].incs[k] = fill[f].incs[k] + n /\ \A j \in Keys \ {k} : fill'[f].incs[j] = fill[f].incs[j]
  BY <1>1
<1>3. fill[f].incs[k] + n > 0 <=> (fill[f].incs[k] > 0 \/ n = 1)
  BY <1>1
<1> QED
  BY <1>2, <1>3 DEF Done

LEMMA IncKeeps ==
  ASSUME FillInv, NEW f \in Fillers, NEW g \in 0..MaxG, go[f][g] # <<>>, Inc(f, g)
  PROVE  FillInv'
<1> DEFINE o == Head(go[f][g])
           k == o.key
           skip == Skips(o.how, IF o.inc = 1 /\ fill[f].incs[k] > 0 THEN o.rc + 1 ELSE o.rc)
           s == IF skip THEN NextBranch(o.toSplit, Rest(f, g)) ELSE Deeper(o, Rest(f, g))
<1>1. /\ o \in Good(f, g) /\ o \in Ops /\ Rest(f, g) \in Seq(Good(f, g)) /\ Rest(f, g) \in Seq(Ops)
      /\ Owe(go[f][g]) = Owed(o) \cup Owe(Rest(f, g))
  BY AtHand
<1>2. k \in Keys /\ o.inc \in {0, 1} /\ o.how \in {"hash", "pre", "branch", "split", "reg"} /\ o.toSplit \in Seq(Keys)
  BY <1>1 DEF Ops
<1>3. /\ o.op = "inc" /\ UNCHANGED <<stored, refs, fc, wants, kids, large, phase>>
      /\ go' = [go EXCEPT ![f][g] = s]
  BY DEF Inc, Do, world, store
<1>4. /\ fill' = [fill EXCEPT ![f].incs[k] = fill[f].incs[k] + o.inc,
                            ![f].pre = IF o.how \in {"pre", "branch"} THEN fill[f].pre \cup {k} ELSE fill[f].pre]
      /\ past' = IF skip /\ fill[f].incs[k] = 0 /\ ~fill[f].closed /\ ~Whole(k)
                 THEN [past EXCEPT !.skipped = past.skipped \cup {k}, !.twice = past.twice \/ InHand(f, k) # {g}] ELSE past
  BY DEF Inc
<1> HIDE DEF skip
<1>5. past' \in Pasts /\ past.skipped \subseteq past'.skipped
      /\ (skip /\ fill[f].incs[k] = 0 /\ ~fill[f].closed /\ ~Whole(k) => past'.skipped # {})
  BY <1>2, <1>4 DEF FillInv, Types, Pasts
<1>6. /\ fill' \in [Fillers -> Fields] /\ \A e \in Fillers \ {f} : fill'[e] = fill[e]
      /\ fill'[f].state = fill[f].state /\ fill'[f].result = fill[f].result
      /\ fill'[f].closed = fill[f].closed /\ fill'[f].early = fill[f].early /\ fill'[f].raced = fill[f].raced
      /\ fill'[f].errq = fill[f].errq
      /\ fill'[f].incs = [fill[f].incs EXCEPT ![k] = fill[f].incs[k] + o.inc]
      /\ fill'[f].pre = IF o.how \in {"pre", "branch"} THEN fill[f].pre \cup {k} ELSE fill[f].pre
  <2> DEFINE c == [fill[f].incs EXCEPT ![k] = fill[f].incs[k] + o.inc]
             p == IF o.how \in {"pre", "branch"} THEN fill[f].pre \cup {k} ELSE fill[f].pre
  <2>1. fill[f] \in Fields
    BY DEF FillInv, Types
  <2>2. c \in [Keys -> Nat] /\ p \in SUBSET Keys
    BY <1>2, <2>1 DEF Fields
  <2>3. fill' = [fill EXCEPT ![f] = [fill[f] EXCEPT !.incs = c, !.pre = p]]
    BY <1>4, <2>1 DEF FillInv, Types, Fields
  <2> HIDE DEF c, p
  <2>4. [fill[f] EXCEPT !.incs = c, !.pre = p] \in Fields
    BY <2>1, <2>2 DEF Fields
  <2>5. fill \in [Fillers -> Fields]
    BY DEF FillInv, Types
  <2>6. fill' \in [Fillers -> Fields] /\ fill'[f] = [fill[f] EXCEPT !.incs = c, !.pre = p]
        /\ \A e \in Fillers \ {f} : fill'[e] = fill[e]
    BY <2>3, <2>4, <2>5
  <2>7. fill'[f].incs = c /\ fill'[f].pre = p
    BY <2>1, <2>6 DEF Fields
  <2> QED
    BY <2>1, <2>6, <2>7 DEF c, p, Fields
<1>7. Done(f)' = IF o.inc = 1 THEN Done(f) \cup {k} ELSE Done(f)
  BY <1>2, <1>6, CountsMore DEF FillInv
<1>8. k \in stored /\ (k \in Done(f)' \/ fill[f].closed)
  BY <1>1, <1>2, <1>3, <1>7 DEF Good
<1>9. Onward(f)
  <2>1. Done(f) \subseteq stored /\ (fill[f].closed \/ fill[f].pre \subseteq Done(f))
    BY DEF FillInv, FillerInv, Counted
  <2>2. Done(f)' \subseteq stored /\ Done(f) \subseteq Done(f)' /\ (fill'[f].closed \/ fill'[f].pre \subseteq Done(f)')
    BY <1>6, <1>7, <1>8, <2>1
  <2> QED
    BY <1>3, <1>5, <1>6, <2>2 DEF Onward
<1>10. Seq(Good(f, g)) \subseteq Seq(Good(f, g)') /\ Good(f, g)' \subseteq Ops /\ Begins \subseteq Good(f, g)'
  <2>1. Good(f, g)' \subseteq Ops /\ Begins \subseteq Good(f, g)'
    BY DEF Begins, Good
  <2> QED
    BY <1>9, <2>1, GoodStays DEF Onward
<1>11. /\ Deeper(o, Rest(f, g)) \in Seq(Good(f, g)')
       /\ o.how # "reg" => Kids(k) \subseteq Owe(Deeper(o, Rest(f, g)))
       /\ Later(o) \cup Owe(Rest(f, g)) \subseteq Owe(Deeper(o, Rest(f, g)))
       /\ NextBranch(o.toSplit, Rest(f, g)) \in Seq(Good(f, g)')
       /\ Owe(NextBranch(o.toSplit, Rest(f, g))) = Owe(Rest(f, g)) \cup Parts(o.toSplit)
  <2> DEFINE rest == Rest(f, g)
  <2>1. rest \in Seq(Good(f, g)') /\ Good(f, g)' \in SUBSET Ops
    BY <1>1, <1>10
  <2>2. o \in Good(f, g)'
    <3>1. Good(f, g) \subseteq Good(f, g)'
      BY <1>9, GoodStays DEF Onward
    <3> QED
      BY <1>1, <3>1
  <2> HIDE DEF rest, o
  <2>3. NextBranch(o.toSplit, rest) \in Seq(Good(f, g)') /\ Owe(NextBranch(o.toSplit, rest)) = Owe(rest) \cup Parts(o.toSplit)
    BY <1>2, <1>10, <2>1, GoodLoop, NextOwes DEF FillInv
  <2>4. /\ Deeper(o, rest) \in Seq(Good(f, g)')
        /\ o.how # "reg" => Kids(o.key) \subseteq Owe(Deeper(o, rest))
        /\ Later(o) \subseteq Owe(Deeper(o, rest)) /\ Owe(rest) \subseteq Owe(Deeper(o, rest))
    BY <1>10, <2>1, <2>2, GoodLoop, DeeperOwes DEF FillInv
  <2> QED
    BY <2>3, <2>4 DEF rest
<1>12. s \in Seq(Good(f, g)') /\ Later(o) \cup Owe(Rest(f, g)) \subseteq Owe(s)
  <2>1. Later(o) \subseteq Parts(o.toSplit)
    BY DEF Later
  <2> QED
    BY <1>11, <2>1
<1>13. Owed(o) = {k} \cup Later(o)
  BY <1>3 DEF Owed
<1>14. ASSUME ~fill[f].closed PROVE Pays(f, Owe(go[f][g]), Owe(s))
  <2>1. Owe(go[f][g]) \subseteq Owe(s) \cup Done(f)'
    BY <1>1, <1>8, <1>12, <1>13, <1>14
  <2>2. PICK j \in Keys : j = k
    BY <1>2
  <2>3. Done(f)' \ Done(f) \subseteq {j} /\ (j \notin Done(f) => fill[f].incs[k] = 0)
    BY <1>2, <1>7, <2>2 DEF Done, FillInv, Types, Fields
  <2>4. j \notin Done(f) => Whole(j)' \/ Kids(j) \subseteq Owe(s) \/ fill'[f].early \/ past'.skipped # {} \/ fill[f].state # "loop"
    <3>1. CASE o.how = "reg"
      <4>1. j = Reg /\ kids[j] = <<>>
        BY <1>1, <2>2, <3>1 DEF Good, FillInv, Types
      <4>2. Kids(j) = {}
        BY <4>1 DEF Kids
      <4> QED
        BY <4>2
    <3>2. CASE o.how # "reg" /\ ~skip
      BY <3>2, <1>11, <2>2
    <3>3. CASE skip
      <4>2. CASE Whole(j)
        BY <4>2, <1>3, WholeStays
      <4>3. CASE ~fill[f].closed /\ ~Whole(j)
        <5>1. ~Whole(k)
          BY <4>3, <2>2
        <5> QED
          BY <4>3, <5>1, <3>3, <2>3, <1>5
      <4> QED
        BY <1>14, <4>2, <4>3
    <3> QED
      BY <3>1, <3>2, <3>3
  <2> HIDE DEF s, k
  <2> QED
    BY <2>1, <2>3, <2>4 DEF Pays
<1>17. Pays(f, Owe(go[f][g]), Owe(s))
  <2>1. fill[f].closed => Pays(f, Owe(go[f][g]), Owe(s))
    BY <1>6 DEF Pays, FillInv, FillerInv, Progress
  <2> HIDE DEF s
  <2> QED
    BY <2>1, <1>14
<1>18. Knows(f, g, s)
  BY <1>1, <1>3, <1>8 DEF Knows, Good
<1>15. WantsFit(f, g, s)
  BY <1>3 DEF WantsFit
<1>16. stored' \subseteq Keys /\ refs' \in [Keys -> Int] /\ fc' \in [Keys -> Int]
       /\ wants' \in [Keys -> SUBSET (Fillers \X (0..MaxG))]
  BY <1>3 DEF FillInv, Types
<1> HIDE DEF s
<1> QED
  BY <1>3, <1>5, <1>6, <1>9, <1>12, <1>15, <1>16, <1>17, <1>18, GoroutineStep

LEMMA FailKeeps ==
  ASSUME FillInv, NEW f \in Fillers, NEW g \in 0..MaxG, go[f][g] # <<>>, Fail(f, g)
  PROVE  FillInv'
<1>1. Rest(f, g) \in Seq(Good(f, g))
  BY AtHand
<1>2. /\ Head(go[f][g]).op = "fail" /\ UNCHANGED <<stored, refs, fc, wants, kids, large, phase, past>>
      /\ go' = [go EXCEPT ![f][g] = Rest(f, g)]
  BY DEF Fail, store, world, Do
<1>3. fill' = [fill EXCEPT ![f].errq = TRUE] \/ (fill[f].closed /\ fill' = fill)
  BY DEF Fail
<1>4. /\ fill' \in [Fillers -> Fields]
      /\ \A e \in Fillers \ {f} : fill'[e] = fill[e]
      /\ fill'[f] = [fill[f] EXCEPT !.errq = TRUE] \/ (fill[f].closed /\ fill'[f] = fill[f])
  <2> DEFINE r == [fill[f] EXCEPT !.errq = TRUE]
  <2>0. fill[f] \in Fields
    BY DEF FillInv, Types
  <2>1. r \in Fields
    BY <2>0 DEF Fields
  <2>2. fill' = [fill EXCEPT ![f] = r] \/ (fill[f].closed /\ fill' = fill)
    BY <1>3
  <2> HIDE DEF r
  <2>3. CASE fill' = [fill EXCEPT ![f] = r]
    BY <2>1, <2>3, FieldsPut DEF FillInv, r
  <2>4. CASE fill[f].closed /\ fill' = fill
    BY <2>4 DEF FillInv, Types
  <2> QED
    BY <2>2, <2>3, <2>4
<1>5. /\ fill'[f].state = fill[f].state /\ fill'[f].result = fill[f].result /\ fill'[f].closed = fill[f].closed
      /\ fill'[f].early = fill[f].early /\ fill'[f].raced = fill[f].raced /\ (fill[f].errq => fill'[f].errq)
      /\ fill'[f].incs = fill[f].incs /\ fill'[f].pre = fill[f].pre /\ (fill'[f].errq \/ fill[f].closed)
  BY <1>4 DEF FillInv, Types, Fields
<1>6. Onward(f) /\ Seq(Good(f, g)) \subseteq Seq(Good(f, g)')
  BY <1>2, <1>5, OnwardSame
<1>7. Pays(f, Owe(go[f][g]), Owe(Rest(f, g)))
  BY <1>5 DEF Pays, FillInv, FillerInv, Progress
<1>8. WantsFit(f, g, Rest(f, g))
  BY <1>2 DEF WantsFit
<1>9. stored' \subseteq Keys /\ refs' \in [Keys -> Int] /\ fc' \in [Keys -> Int] /\ past' \in Pasts
      /\ wants' \in [Keys -> SUBSET (Fillers \X (0..MaxG))]
  BY <1>2 DEF FillInv, Types
<1>10. Knows(f, g, Rest(f, g))
  BY <1>2, AtHand DEF Knows, Good
<1> QED
  BY <1>1, <1>2, <1>4, <1>6, <1>7, <1>8, <1>9, <1>10, GoroutineStep

-----------------------------------------------------------------------------
(* The steps of a Filler, of its head and of the peers                     *)

\* A goroutine of a Filler that is not changed goes on waiting.
LEMMA WaitingStays ==
  ASSUME Waiting, wants' = wants,
         \A k \in Keys, e \in Fillers, h \in 0..MaxG : <<e, h>> \in wants[k] => go'[e][h] = go[e][h]
  PROVE  Waiting'
BY DEF Waiting

\* A step of the fields of one Filler, its goroutines being left alone.
LEMMA FieldsStep ==
  ASSUME FillInv, NEW f \in Fillers, NEW r, r \in Fields, fill' = [fill EXCEPT ![f] = r],
         UNCHANGED <<stored, wants, go, kids>>, refs' \in [Keys -> Int], fc' \in [Keys -> Int],
         past' \in Pasts, past.skipped \subseteq past'.skipped, FillerInv(f)'
  PROVE  FillInv'
<1>1. fill' \in [Fillers -> Fields] /\ \A e \in Fillers \ {f} : fill'[e] = fill[e]
  BY DEF FillInv, Types
<1>2. Types'
  BY <1>1 DEF FillInv, Types
<1>3. Waiting'
  BY WaitingStays DEF FillInv
<1>4. \A e \in Fillers \ {f} : FillerInv(e)'
  BY <1>1, OtherKeeps DEF FillInv
<1> QED
  BY <1>2, <1>3, <1>4 DEF FillInv

LEMMA RunKeeps ==
  ASSUME FillInv, NEW f \in Fillers, Run(f)
  PROVE  FillInv'
<1> DEFINE k == Roots[f]
           q == Op("get", Reg, "reg")
           s == <<q>> \o SplitData(k)
           r == [Idle EXCEPT !.state = "loop", !.rounds = fill[f].rounds + 1, !.incs = [Zero EXCEPT ![k] = 1]]
<1>1. /\ fill[f].state = "idle" /\ fill' = [fill EXCEPT ![f] = r] /\ stored' = stored \cup {k}
      /\ refs' = [refs EXCEPT ![k] = @ + 1] /\ go' = [go EXCEPT ![f][0] = s]
      /\ past' = [past EXCEPT !.overlapped = @ \/ \E e \in Fillers : Running(e)]
      /\ UNCHANGED <<fc, wants, kids, large, phase>>
  BY DEF Run, Do, world
<1>2. k \in Keys /\ Reg \in Keys /\ 0 \in 0..MaxG
  BY RootsAssumption, TreesAssumption, SizesAssumption
<1>3. r \in Fields /\ r.state = "loop" /\ r.incs = [Zero EXCEPT ![k] = 1] /\ r.pre = {} /\ ~r.errq /\ ~r.closed /\ ~r.early
      /\ r.result = "none"
  <2> DEFINE m == fill[f].rounds + 1
             c == [Zero EXCEPT ![k] = 1]
  <2>1. m \in Int
    BY DEF FillInv, Types, Fields
  <2>2. c \in [Keys -> Nat]
    BY DEF Zero
  <2>3. r = [Idle EXCEPT !.state = "loop", !.rounds = m, !.incs = c]
    OBVIOUS
  <2> HIDE DEF m, c, r
  <2>4. r \in Fields /\ r.state = "loop" /\ r.incs = c /\ r.pre = {} /\ ~r.errq /\ ~r.closed /\ ~r.early /\ r.result = "none"
    BY <2>1, <2>2, <2>3, IdleFields DEF Fields
  <2> QED
    BY <2>4 DEF c
<1>4. \A h \in 0..MaxG : go[f][h] = <<>>
  BY <1>1 DEF FillInv, FillerInv, Quiet
<1> HIDE DEF r
<1>5. fill' \in [Fillers -> Fields] /\ fill'[f] = r /\ \A e \in Fillers \ {f} : fill'[e] = fill[e]
  BY <1>1, <1>3 DEF FillInv, Types
<1>6. Done(f)' = {k}
  BY <1>2, <1>3, <1>5 DEF Done, Zero
<1>7. past' \in Pasts /\ past'.skipped = past.skipped
  BY <1>1 DEF FillInv, Types, Pasts
<1>8. q \in Ops /\ q.op = "get" /\ q.how = "reg" /\ q.key = Reg
  BY <1>2 DEF Op, Ops
<1> HIDE DEF q
<1>9. q \in Good(f, 0)'
  BY <1>8 DEF Good
<1>10. SplitData(k) \in Seq(Begins) /\ Owe(SplitData(k)) = Kids(k)
  BY <1>2, SplitDataOwes DEF FillInv
<1>11. Begins \subseteq Good(f, 0)' /\ Begins \subseteq Ops
  BY DEF Begins, Good
<1>12. s \in Seq(Good(f, 0)') /\ s \in Seq(Ops) /\ Owe(s) = Owed(q) \cup Kids(k) /\ s # <<>> /\ Head(s) = q
  <2>1. Good(f, 0)' \in SUBSET Ops
    BY DEF Good
  <2>2. SplitData(k) \in Seq(Good(f, 0)')
    BY <1>10, <1>11
  <2>3. s \in Seq(Good(f, 0)') /\ Owe(s) = Owed(q) \cup Owe(SplitData(k)) /\ s # <<>> /\ Head(s) = q
    BY <2>1, <2>2, <1>9, PutOwes
  <2>4. s \in Seq(Ops)
    BY <2>1, <2>3
  <2> QED
    BY <2>3, <2>4, <1>10
<1> HIDE DEF s
<1>13. /\ go'[f][0] = s /\ \A h \in 0..MaxG : h # 0 => go'[f][h] = <<>>
       /\ \A e \in Fillers \ {f} : go'[e] = go[e]
       /\ go' \in [Fillers -> [0..MaxG -> Seq(Ops)]]
  BY <1>1, <1>2, <1>4, <1>12 DEF FillInv, Types
<1>14. FillerInv(f)'
  <2>1. \A h \in 0..MaxG : go'[f][h] \in Seq(Good(f, h)')
    <3> TAKE h \in 0..MaxG
    <3>1. CASE h = 0
      BY <3>1, <1>12, <1>13
    <3>2. CASE h # 0
      BY <3>2, <1>13, SeqNone
    <3> QED
      BY <3>1, <3>2
  <2>2. Quiet(f)' /\ Counted(f)' /\ Full(f)'
    BY <1>1, <1>3, <1>5, <1>6 DEF Quiet, Counted, Full
  <2>3. Kids(k) \subseteq Pending(f)'
    <3>1. Pending(f)' = UNION {Owe(go'[f][h]) : h \in 0..MaxG}
      BY <1>1, OweSame DEF Pending
    <3>2. Owe(go'[f][0]) \subseteq Pending(f)'
      BY <3>1, <1>2
    <3> QED
      BY <3>2, <1>12, <1>13
  <2>4. Kids(k)' = Kids(k)
    BY <1>1, OweSame
  <2>5. Progress(f)'
    BY <1>3, <1>5, <1>6, <2>3, <2>4 DEF Progress, Covered
  <2>6. Named(f)'
    BY <1>8, <1>12, <1>13 DEF Named, AtRegistry
  <2> QED
    BY <2>1, <2>2, <2>5, <2>6 DEF FillerInv
<1>15. \A e \in Fillers \ {f} : FillerInv(e)'
  BY <1>1, <1>5, <1>7, <1>13, OtherKeeps DEF FillInv
<1>16. Types'
  BY <1>1, <1>2, <1>5, <1>7, <1>13 DEF FillInv, Types
<1>17. Waiting'
  <2>1. \A j \in Keys, h \in 0..MaxG : <<f, h>> \notin wants[j]
    BY <1>4 DEF FillInv, Waiting
  <2> QED
    BY <2>1, <1>1, <1>13, WaitingStays DEF FillInv
<1> QED
  BY <1>14, <1>15, <1>16, <1>17 DEF FillInv

\* When every goroutine is done nothing is pending, so the counted objects
\* and what is whole are closed under references.
LEMMA DoneIsWhole ==
  ASSUME FillInv, NEW f \in Fillers, fill[f].state = "loop", go[f][0] = <<>>, Busy(f) = {}, Covered(f)
  PROVE  Whole(Roots[f])
<1>1. \A g \in 0..MaxG : go[f][g] = <<>>
  <2> TAKE g \in 0..MaxG
  <2>1. g = 0 \/ g \in 1..MaxG
    BY SizesAssumption
  <2> QED
    BY <2>1 DEF Busy
<1>2. Pending(f) = {}
  BY <1>1, OweNone DEF Pending
<1> DEFINE W == Done(f) \cup {k \in stored : Whole(k)}
<1>3. W \subseteq stored /\ Roots[f] \in W
  BY DEF FillInv, FillerInv, Counted
<1>4. ASSUME NEW k \in W, NEW i \in DOMAIN kids[k]
      PROVE  kids[k][i] \in W
  <2>0. k \in Keys
    BY <1>3 DEF FillInv, Types
  <2>1. kids[k] \in Seq(Keys) /\ i \in 1..Len(kids[k])
    <3>1. kids[k] \in Seq(Keys)
      BY <2>0 DEF FillInv, Types
    <3> QED
      BY <3>1
  <2>2. CASE Whole(k)
    <3>1. PICK V \in SUBSET stored : k \in V /\ Closed(V)
      BY <2>2 DEF Whole
    <3>2. kids[k][i] \in V /\ V \in SUBSET stored
      BY <3>1, <1>4 DEF Closed
    <3>3. Whole(kids[k][i])
      BY <3>1, <3>2 DEF Whole
    <3> QED
      BY <3>2, <3>3
  <2>3. CASE ~Whole(k)
    <3>1. k \in Done(f)
      BY <2>3, <1>4
    <3>2. Kids(k) \subseteq Done(f)
      BY <3>1, <2>3, <1>2 DEF Covered
    <3> QED
      BY <3>2, <2>1 DEF Kids
  <2> QED
    BY <2>2, <2>3
<1>5. W \in SUBSET stored /\ Closed(W)
  BY <1>3, <1>4 DEF Closed
<1> HIDE DEF W
<1> QED
  BY <1>3, <1>5 DEF Whole

LEMMA SelectKeeps ==
  ASSUME FillInv, NEW f \in Fillers, Select(f)
  PROVE  FillInv'
<1>1. /\ fill[f].state = "loop" /\ go[f][0] = <<>> /\ UNCHANGED <<stored, refs, fc, wants, go, kids, large, phase, past>>
  BY DEF Select, store, world
<1>2. fill[f] \in Fields /\ past \in Pasts /\ refs \in [Keys -> Int] /\ fc \in [Keys -> Int]
  BY DEF FillInv, Types
<1>3. Roots[f] \in Done(f) /\ Done(f) \subseteq stored /\ Reg \in stored
      /\ \A h \in 0..MaxG : go[f][h] \in Seq(Good(f, h))
  BY <1>1 DEF FillInv, FillerInv, Counted, Named, AtRegistry
<1>4. ASSUME NEW r \in Fields, fill' = [fill EXCEPT ![f] = r], r.state = "end", r.closed, r.incs = fill[f].incs,
             r.result = "full" => Whole(Roots[f]) \/ r.early \/ r.raced \/ past.skipped # {}
      PROVE  FillInv'
  <2>1. fill'[f] = r
    BY <1>4 DEF FillInv, Types
  <2>2. Done(f)' = Done(f)
    BY <1>4, <2>1 DEF Done
  <2>3. \A h \in 0..MaxG : go'[f][h] \in Seq(Good(f, h)')
    BY <1>1, <1>3, <1>4, <2>1, <2>2, GoodStays
  <2>4. Whole(Roots[f]) => Whole(Roots[f])'
    BY <1>1, WholeStays
  <2>5. FillerInv(f)'
    BY <1>1, <1>3, <1>4, <2>1, <2>2, <2>3, <2>4 DEF FillerInv, Quiet, Counted, Progress, Full, Named
  <2> QED
    BY <1>1, <1>2, <1>4, <2>5, FieldsStep
<1>5. CASE fill' = [fill EXCEPT ![f].state = "end", ![f].result = "err", ![f].closed = TRUE, ![f].errq = FALSE]
  <2> DEFINE r == [fill[f] EXCEPT !.state = "end", !.result = "err", !.closed = TRUE, !.errq = FALSE]
  <2>1. r \in Fields /\ r.state = "end" /\ r.closed /\ r.incs = fill[f].incs /\ r.result = "err"
    BY <1>2 DEF Fields
  <2>2. fill' = [fill EXCEPT ![f] = r]
    BY <1>2, <1>5 DEF FillInv, Types, Fields
  <2> HIDE DEF r
  <2> QED
    BY <1>4, <2>1, <2>2
<1>6. ASSUME Busy(f) = {}, NEW result \in {"full", "err"},
             fill' = [fill EXCEPT ![f].state = "end", ![f].result = result, ![f].closed = TRUE, ![f].raced = fill[f].errq]
      PROVE  FillInv'
  <2> DEFINE r == [fill[f] EXCEPT !.state = "end", !.result = result, !.closed = TRUE, !.raced = fill[f].errq]
  <2>1. r \in Fields /\ r.state = "end" /\ r.closed /\ r.incs = fill[f].incs
        /\ r.early = fill[f].early /\ r.raced = fill[f].errq
    BY <1>2 DEF Fields
  <2>2. fill' = [fill EXCEPT ![f] = r]
    BY <1>2, <1>6 DEF FillInv, Types, Fields
  <2>3. Whole(Roots[f]) \/ fill[f].early \/ fill[f].errq \/ past.skipped # {}
    BY <1>1, <1>6, DoneIsWhole DEF FillInv, FillerInv, Progress
  <2> HIDE DEF r
  <2> QED
    BY <1>4, <2>1, <2>2, <2>3
<1> QED
  BY <1>5, <1>6 DEF Select

LEMMA EndKeeps ==
  ASSUME FillInv, NEW f \in Fillers, End(f)
  PROVE  FillInv'
<1> DEFINE r == [fill[f] EXCEPT !.state = "over"]
<1>1. /\ fill[f].state = "end" /\ Busy(f) = {} /\ UNCHANGED <<stored, wants, go, kids, large>>
      /\ fill' = [fill EXCEPT ![f] = r]
      /\ past' = [past EXCEPT !.unfinished = past.unfinished \/ ~Whole(Roots[f])]
  BY DEF End, world, FillInv, Types, Fields
<1>2. refs' \in [Keys -> Int] /\ fc' \in [Keys -> Int]
  BY DEF End, FillInv, Types, Fields
<1>3. past' \in Pasts /\ past'.skipped = past.skipped
  BY <1>1 DEF FillInv, Types, Pasts
<1>4. r \in Fields /\ r.state = "over" /\ r.incs = fill[f].incs /\ r.pre = fill[f].pre /\ r.closed = fill[f].closed
      /\ r.result = fill[f].result /\ r.early = fill[f].early /\ r.raced = fill[f].raced
  BY DEF FillInv, Types, Fields
<1> HIDE DEF r
<1>5. fill'[f] = r
  BY <1>1 DEF FillInv, Types
<1>6. Done(f)' = Done(f)
  BY <1>4, <1>5 DEF Done
<1>7. \A g \in 0..MaxG : go[f][g] = <<>>
  <2> TAKE g \in 0..MaxG
  <2>1. g = 0 \/ g \in 1..MaxG
    BY SizesAssumption
  <2> QED
    BY <1>1, <2>1 DEF Busy, FillInv, FillerInv, Quiet
<1>8. \A h \in 0..MaxG : go'[f][h] \in Seq(Good(f, h)')
  <2> TAKE h \in 0..MaxG
  <2>1. go'[f][h] = <<>>
    BY <1>1, <1>7
  <2> QED
    BY <2>1, SeqNone
<1>9. Full(f)'
  <2>1. Whole(Roots[f]) => Whole(Roots[f])'
    BY <1>1, WholeStays
  <2> QED
    BY <2>1, <1>1, <1>3, <1>4, <1>5 DEF Full, FillInv, FillerInv
<1>10. FillerInv(f)'
  BY <1>1, <1>4, <1>5, <1>6, <1>7, <1>8, <1>9 DEF FillInv, FillerInv, Quiet, Counted, Progress, Named
<1> QED
  BY <1>1, <1>2, <1>3, <1>4, <1>10, FieldsStep

LEMMA ForgetKeeps ==
  ASSUME FillInv, NEW f \in Fillers, Forget(f)
  PROVE  FillInv'
<1> DEFINE r == [Idle EXCEPT !.rounds = fill[f].rounds]
<1>1. /\ fill[f].state = "over" /\ UNCHANGED <<stored, refs, fc, wants, go, kids, large, past>>
      /\ fill' = [fill EXCEPT ![f] = r]
  BY DEF Forget, store, world
<1>2. r \in Fields /\ r.state = "idle" /\ r.incs = Zero /\ r.pre = {}
  <2> DEFINE m == fill[f].rounds
  <2>1. m \in Int /\ Zero \in [Keys -> Nat]
    BY DEF FillInv, Types, Fields, Zero
  <2>2. r = [Idle EXCEPT !.rounds = m]
    OBVIOUS
  <2> HIDE DEF m, r
  <2> QED
    BY <2>1, <2>2, IdleFields DEF Fields
<1> HIDE DEF r
<1>3. fill'[f] = r
  BY <1>1 DEF FillInv, Types
<1>4. Done(f)' = {}
  BY <1>2, <1>3 DEF Done, Zero
<1>5. \A h \in 0..MaxG : go'[f][h] = <<>>
  BY <1>1 DEF FillInv, FillerInv, Quiet
<1>6. FillerInv(f)'
  <2>1. \A h \in 0..MaxG : go'[f][h] \in Seq(Good(f, h)')
    <3> TAKE h \in 0..MaxG
    <3>1. go'[f][h] = <<>>
      BY <1>5
    <3> QED
      BY <3>1, SeqNone
  <2>2. fill'[f].state = "idle" /\ fill'[f].pre = {}
    BY <1>2, <1>3
  <2>3. Quiet(f)' /\ Counted(f)' /\ Progress(f)' /\ Full(f)' /\ Named(f)'
    BY <2>2, <1>4, <1>5, SizesAssumption DEF Quiet, Counted, Progress, Full, Named
  <2> QED
    BY <2>1, <2>3 DEF FillerInv
<1>7. refs' \in [Keys -> Int] /\ fc' \in [Keys -> Int] /\ past' \in Pasts /\ past.skipped \subseteq past'.skipped
  BY <1>1 DEF FillInv, Types
<1> QED
  BY <1>1, <1>2, <1>6, <1>7, FieldsStep

\* Close and an error of the head change what Progress looks at, no more.
LEMMA ExcuseKeeps ==
  ASSUME FillInv, NEW f \in Fillers, NEW r \in Fields, fill' = [fill EXCEPT ![f] = r],
         UNCHANGED <<stored, refs, fc, wants, go, kids, past>>, fill[f].state = "loop", r.state = "loop",
         r.incs = fill[f].incs, r.pre = fill[f].pre, r.early \/ r.errq, r.closed => r.early, fill[f].closed => r.closed
  PROVE  FillInv'
<1>1. fill'[f] = r
  BY DEF FillInv, Types
<1>2. Done(f)' = Done(f)
  BY <1>1 DEF Done
<1>3. \A h \in 0..MaxG : go'[f][h] \in Seq(Good(f, h)')
  BY <1>1, <1>2, GoodStays DEF FillInv, FillerInv
<1>4. FillerInv(f)'
  BY <1>1, <1>2, <1>3 DEF FillInv, FillerInv, Quiet, Counted, Progress, Full, Named, AtRegistry
<1>5. refs' \in [Keys -> Int] /\ fc' \in [Keys -> Int] /\ past' \in Pasts /\ past.skipped \subseteq past'.skipped
  BY DEF FillInv, Types
<1> QED
  BY <1>4, <1>5, FieldsStep

LEMMA CloseKeeps ==
  ASSUME FillInv, NEW f \in Fillers, Close(f)
  PROVE  FillInv'
<1> DEFINE r == [fill[f] EXCEPT !.closed = TRUE, !.early = TRUE]
<1>1. fill[f].state = "loop" /\ UNCHANGED <<stored, refs, fc, wants, go, kids, past>> /\ fill' = [fill EXCEPT ![f] = r]
  BY DEF Close, store, world, FillInv, Types, Fields
<1>2. r \in Fields /\ r.state = fill[f].state /\ r.early /\ r.closed /\ r.incs = fill[f].incs /\ r.pre = fill[f].pre
  BY DEF FillInv, Types, Fields
<1> HIDE DEF r
<1> QED
  BY <1>1, <1>2, ExcuseKeeps

LEMMA NoConnectionsKeeps ==
  ASSUME FillInv, NEW f \in Fillers, NoConnections(f)
  PROVE  FillInv'
<1> DEFINE r == [fill[f] EXCEPT !.errq = TRUE]
<1>1. fill[f].state = "loop" /\ UNCHANGED <<stored, refs, fc, wants, go, kids, past>> /\ fill' = [fill EXCEPT ![f] = r]
  BY DEF NoConnections, store, world
<1>2. r \in Fields /\ r.state = fill[f].state /\ r.errq /\ r.incs = fill[f].incs /\ r.pre = fill[f].pre
      /\ r.closed = fill[f].closed /\ r.early = fill[f].early
  BY DEF FillInv, Types, Fields
<1> HIDE DEF r
<1>3. r.closed => r.early
  BY <1>1, <1>2 DEF FillInv, FillerInv, Progress
<1> QED
  BY <1>1, <1>2, <1>3, ExcuseKeeps

\* The goroutines that wait for k are woken, each with the object at hand; the
\* others do not notice.
LEMMA WokenKeeps ==
  ASSUME FillInv, NEW k \in Keys, NEW name \in {"got", "refused"}, NEW rc \in Int,
         go' = Woken(k, name, rc), wants' = [wants EXCEPT ![k] = {}],
         stored' \subseteq Keys, stored \subseteq stored', name = "got" => k \in stored',
         refs' \in [Keys -> Int], fc' \in [Keys -> Int], UNCHANGED <<fill, kids, past>>
  PROVE  FillInv'
<1>1. ASSUME NEW f \in Fillers, NEW g \in 0..MaxG, <<f, g>> \in wants[k]
      PROVE  /\ go[f][g] # <<>> /\ Head(go[f][g]).op = "wait" /\ Head(go[f][g]).key = k
             /\ go'[f][g] \in Seq(Good(f, g)') /\ go'[f][g] \in Seq(Ops) /\ Owe(go'[f][g]) = Owe(go[f][g])
             /\ go'[f][g] # <<>> /\ Head(go'[f][g]).how = Head(go[f][g]).how
  <2> DEFINE o == Head(go[f][g])
             q == [o EXCEPT !.op = name, !.rc = rc]
  <2>1. go[f][g] # <<>> /\ o.op = "wait" /\ o.key = k
    BY <1>1 DEF FillInv, Waiting
  <2>2. /\ o \in Good(f, g) /\ o \in Ops /\ Rest(f, g) \in Seq(Good(f, g)) /\ Rest(f, g) \in Seq(Ops)
        /\ Owe(go[f][g]) = Owed(o) \cup Owe(Rest(f, g))
    BY <2>1, AtHand
  <2>3. q \in Ops /\ q.op = name /\ q.key = k /\ q.how = o.how /\ q.inc = o.inc /\ q.toSplit = o.toSplit
    BY <2>1, <2>2 DEF Ops
  <2>4. Done(f)' = Done(f)
    BY DEF Done
  <2>5. go'[f][g] = <<q>> \o Rest(f, g)
    BY <1>1 DEF Woken
  <2> HIDE DEF q
  <2>6. q \in Good(f, g)'
    BY <2>1, <2>2, <2>3, <2>4 DEF Good
  <2>7. Owed(q) = {k} \cup Later(o) /\ Owed(o) = {k} \cup Later(o)
    BY <2>1, <2>3 DEF Owed, Later
  <2>8. Seq(Good(f, g)) \subseteq Seq(Good(f, g)')
    BY <2>4, GoodStays
  <2>9. Good(f, g)' \in SUBSET Ops /\ Rest(f, g) \in Seq(Good(f, g)')
    <3>1. Good(f, g)' \in SUBSET Ops
      BY DEF Good
    <3> QED
      BY <3>1, <2>2, <2>8
  <2>10. <<q>> \o Rest(f, g) \in Seq(Good(f, g)') /\ Owe(<<q>> \o Rest(f, g)) = Owed(q) \cup Owe(Rest(f, g))
         /\ <<q>> \o Rest(f, g) # <<>> /\ Head(<<q>> \o Rest(f, g)) = q
    BY <2>6, <2>9, PutOwes
  <2>11. <<q>> \o Rest(f, g) \in Seq(Ops)
    BY <2>9, <2>10
  <2> QED
    BY <2>1, <2>2, <2>3, <2>5, <2>7, <2>10, <2>11
<1>2. ASSUME NEW f \in Fillers, NEW g \in 0..MaxG, <<f, g>> \notin wants[k]
      PROVE  go'[f][g] = go[f][g]
  BY <1>2 DEF Woken
<1>3. ASSUME NEW f \in Fillers PROVE FillerInv(f)'
  <2>1. Done(f)' = Done(f)
    BY DEF Done
  <2>2. \A g \in 0..MaxG : go'[f][g] \in Seq(Good(f, g)') /\ Owe(go'[f][g]) = Owe(go[f][g])
    <3> TAKE g \in 0..MaxG
    <3>1. CASE <<f, g>> \in wants[k]
      BY <3>1, <1>1
    <3>2. CASE <<f, g>> \notin wants[k]
      BY <3>2, <1>2, <2>1, GoodStays DEF FillInv, FillerInv
    <3> QED
      BY <3>1, <3>2
  <2>3. \A g \in 0..MaxG : go[f][g] = <<>> => go'[f][g] = <<>>
    BY <1>1, <1>2
  <2>4. 0 \in 0..MaxG
    BY SizesAssumption
  <2>5. Quiet(f)' /\ Counted(f)'
    BY <2>1, <2>3, <2>4 DEF Quiet, Counted, FillInv, FillerInv
  <2>6. Pending(f)' = Pending(f)
    <3>1. Pending(f)' = UNION {Owe(go'[f][g]) : g \in 0..MaxG}
      BY OweSame DEF Pending
    <3> QED
      BY <3>1, <2>2 DEF Pending
  <2>7. Covered(f) => Covered(f)'
    BY <2>1, <2>6, OweSame, WholeStays DEF Covered
  <2>8. Progress(f)'
    BY <2>7 DEF FillInv, FillerInv, Progress
  <2>9. Full(f)'
    BY WholeStays DEF FillInv, FillerInv, Full
  <2>10. Named(f)'
    <3>1. AtRegistry(f) => AtRegistry(f)'
      BY <1>1, <1>2, <2>4 DEF AtRegistry
    <3> QED
      BY <3>1 DEF FillInv, FillerInv, Named
  <2> QED
    BY <2>2, <2>5, <2>8, <2>9, <2>10 DEF FillerInv
<1>4. go' \in [Fillers -> [0..MaxG -> Seq(Ops)]]
  <2>1. \A f \in Fillers, g \in 0..MaxG : go'[f][g] \in Seq(Ops)
    BY <1>1, <1>2 DEF FillInv, Types
  <2>2. go' = [f \in Fillers |-> [g \in 0..MaxG |-> go'[f][g]]]
    BY DEF Woken
  <2> QED
    BY <2>1, <2>2
<1>5. wants' \in [Keys -> SUBSET (Fillers \X (0..MaxG))]
  BY DEF FillInv, Types
<1>6. Types'
  BY <1>4, <1>5 DEF FillInv, Types
<1>7. Waiting'
  <2> SUFFICES ASSUME NEW j \in Keys, NEW f \in Fillers, NEW g \in 0..MaxG, <<f, g>> \in wants'[j]
               PROVE  go'[f][g] # <<>> /\ Head(go'[f][g]).op = "wait" /\ Head(go'[f][g]).key = j
    BY DEF Waiting
  <2>1. j # k /\ <<f, g>> \in wants[j]
    BY DEF FillInv, Types
  <2>2. Head(go[f][g]).key = j /\ go[f][g] # <<>> /\ Head(go[f][g]).op = "wait"
    BY <2>1 DEF FillInv, Waiting
  <2>3. <<f, g>> \notin wants[k]
    BY <2>1, <2>2 DEF FillInv, Waiting
  <2> QED
    BY <2>2, <2>3, <1>2
<1> QED
  BY <1>3, <1>6, <1>7 DEF FillInv

LEMMA DeliverKeeps ==
  ASSUME FillInv, NEW k \in Keys, Deliver(k)
  PROVE  FillInv'
<1> DEFINE A == {w \in wants[k] : Head(go[w[1]][w[2]]).inc = 1}
           n == Cardinality(A)
<1>1. n \in Int
  <2>1. wants[k] \subseteq Fillers \X (0..MaxG)
    BY DEF FillInv, Types
  <2>2. IsFiniteSet(0..MaxG)
    BY SizesAssumption, FS_Interval
  <2>3. IsFiniteSet(Fillers \X (0..MaxG))
    BY <2>2, LateAssumption, FS_Product
  <2>4. IsFiniteSet(A)
    BY <2>1, <2>3, FS_Subset
  <2> QED
    BY <2>4, FS_CardinalityType
<1>2. /\ stored' = stored \cup {k} /\ refs' = [refs EXCEPT ![k] = n] /\ fc' = [fc EXCEPT ![k] = @ + n]
      /\ go' = Woken(k, "got", n - (n + fc[k])) /\ wants' = [wants EXCEPT ![k] = {}]
      /\ UNCHANGED <<fill, kids, past>>
  BY DEF Deliver, world
<1> HIDE DEF n
<1>3. refs' \in [Keys -> Int] /\ fc' \in [Keys -> Int] /\ n - (n + fc[k]) \in Int
  BY <1>1, <1>2 DEF FillInv, Types
<1>4. stored' \subseteq Keys /\ stored \subseteq stored' /\ k \in stored'
  BY <1>2 DEF FillInv, Types
<1> QED
  BY <1>2, <1>3, <1>4, WokenKeeps

LEMMA RefuseKeeps ==
  ASSUME FillInv, NEW k \in Keys, Refuse(k)
  PROVE  FillInv'
<1>1. go' = Woken(k, "refused", 0) /\ wants' = [wants EXCEPT ![k] = {}] /\ UNCHANGED <<stored, refs, fc, fill, kids, past>>
  BY DEF Refuse, world
<1>2. refs' \in [Keys -> Int] /\ fc' \in [Keys -> Int] /\ stored' \subseteq Keys
  BY <1>1 DEF FillInv, Types
<1>3. "refused" \in {"got", "refused"} /\ 0 \in Int /\ stored \subseteq stored' /\ ("refused" = "got" => k \in stored')
  BY <1>1
<1> QED
  BY <1>1, <1>2, <1>3, WokenKeeps

-----------------------------------------------------------------------------
(* The invariant and what it says of a full Root                           *)

LEMMA FillInit == Init => FillInv
<1> SUFFICES ASSUME Init PROVE FillInv
  OBVIOUS
<1>1. Idle \in Fields /\ Zero \in [Keys -> Int]
  BY DEF Idle, Fields, Zero
<1>2. past \in Pasts
  BY DEF Init, Pasts
<1>3. kids \in [Keys -> Seq(Keys)] /\ kids[Reg] = <<>>
  BY WorldsAssumption DEF Init
<1>4. Types
  BY <1>1, <1>2, <1>3, TreesAssumption DEF Init, Types, Zero
<1>5. Waiting
  BY DEF Init, Waiting
<1>6. ASSUME NEW f \in Fillers PROVE FillerInv(f)
  <2>1. fill[f] = Idle /\ \A g \in 0..MaxG : go[f][g] = <<>>
    BY DEF Init
  <2>2. Idle.state = "idle" /\ Idle.incs = Zero /\ Idle.pre = {}
    BY DEF Idle
  <2>3. 0 \in 0..MaxG
    BY SizesAssumption
  <2>4. \A g \in 0..MaxG : go[f][g] \in Seq(Good(f, g))
    <3> TAKE g \in 0..MaxG
    <3>1. go[f][g] = <<>>
      BY <2>1
    <3> QED
      BY <3>1, SeqNone
  <2>5. Done(f) = {}
    BY <2>1, <2>2 DEF Done, Zero
  <2>6. Quiet(f) /\ Counted(f) /\ Progress(f) /\ Full(f) /\ Named(f)
    BY <2>1, <2>2, <2>3, <2>5 DEF Quiet, Counted, Progress, Full, Named
  <2> QED
    BY <2>4, <2>6 DEF FillerInv
<1> QED
  BY <1>4, <1>5, <1>6 DEF FillInv

LEMMA FillSame ==
  ASSUME FillInv, UNCHANGED vars
  PROVE  FillInv'
<1>1. UNCHANGED <<stored, refs, fc, wants, fill, go, kids, past>>
  BY DEF vars, world
<1>2. \A f \in Fillers : FillerInv(f)'
  BY <1>1, OtherKeeps DEF FillInv
<1> QED
  BY <1>1, <1>2 DEF FillInv, Types, Waiting

LEMMA FillNext ==
  ASSUME FillInv, [Next]_vars
  PROVE  FillInv'
<1>1. ASSUME NEW f \in Fillers, NEW g \in 0..MaxG, Step(f, g) PROVE FillInv'
  BY <1>1, GoKeeps, ReleaseKeeps, GetKeeps, WantKeeps, ReceiveKeeps, TerminatedKeeps, UnrequestedKeeps, IncKeeps,
     FailKeeps DEF Step
<1>2. ASSUME NEW f \in Fillers, Finish(f) PROVE FillInv'
  BY <1>2, SelectKeeps, EndKeeps DEF Finish
<1>3. ASSUME NEW k \in Keys, Answer(k) PROVE FillInv'
  BY <1>3, DeliverKeeps, RefuseKeeps DEF Answer
<1>4. ASSUME NEW f \in Fillers, Run(f) \/ Forget(f) \/ Close(f) \/ NoConnections(f) PROVE FillInv'
  BY <1>4, RunKeeps, ForgetKeeps, CloseKeeps, NoConnectionsKeeps
<1> QED
  BY <1>1, <1>2, <1>3, <1>4, FillSame DEF Next, Goroutines, Finishes, Peers, Heads, GiveUp

\* The Filler keeps its books in every step: whatever is counted is in the DB,
\* and what a counted object refers to is whole, counted, or still to be done
\* by a goroutine, unless the Filler was closed, has an error, or skipped a
\* subtree nobody has whole.
THEOREM FillKeepsInv == Spec => []FillInv
<1>1. Init => FillInv
  BY FillInit
<1>2. FillInv /\ [Next]_vars => FillInv'
  BY FillNext
<1> QED
  BY <1>1, <1>2, PTL DEF Spec

\* Run says full (fill.go, handleSuccess) only if the DB has the Registry and every
\* object of the Root, but for the three cases FullIsWhole names: for any graph of
\* objects, any number of Fillers that share the Cache, and any limit.
THEOREM FillFullIsWhole == Spec => []FullIsWhole
<1>1. FillInv => FullIsWhole
  BY DEF FillInv, FillerInv, Full, FullIsWhole, Over
<1> QED
  BY <1>1, FillKeepsInv, PTL

-----------------------------------------------------------------------------
(* Skipped subtrees                                                        *)

\* the object is in the tree of the Root of f
InTree(f, k) == \A W \in SUBSET Keys : (Roots[f] \in W /\ Closed(W)) => k \in W

\* the operations on objects of the tree
Tree(f) == {k \in Keys : InTree(f, k) \/ k = Reg}
Belongs(f) == {o \in Ops : o.key \in Tree(f) /\ o.toSplit \in Seq(Tree(f))}

TreeInv == \A f \in Fillers, g \in 0..MaxG : go[f][g] \in Seq(Belongs(f))

\* a goroutine has the object, and the count says that nobody else holds it
New(f, g, k) ==
  /\ go[f][g] # <<>> /\ Head(go[f][g]).op \in {"got", "inc"} /\ Head(go[f][g]).key = k
  /\ Head(go[f][g]).rc = 0 /\ Head(go[f][g]).inc = 1

\* an object that need not be whole: the filling that brought it goes on
Fresh(f, k) ==
  /\ InTree(f, k)
  /\ fill[f].closed \/ k \in Done(f) \/ \E g \in 0..MaxG : New(f, g, k)

Clean == ~past.unfinished /\ ~past.overlapped /\ ~past.twice

\* in a clean run one Filler works at a time, and every object is whole or of
\* the filling that goes on
SkipInv ==
  Clean =>
    /\ past.skipped = {}
    /\ \A e, f \in Fillers : Running(e) /\ Running(f) => e = f
    /\ \A k \in stored : Whole(k) \/ \E f \in Fillers : Running(f) /\ Fresh(f, k)
    /\ \A k \in Keys : wants[k] # {} => k \notin stored
    /\ \A k \in Keys : fc[k] # 0 => k \in stored

LEMMA TreeSame == ASSUME kids' = kids PROVE \A f : Belongs(f)' = Belongs(f) /\ \A k : InTree(f, k)' = InTree(f, k)
<1>1. \A W : Closed(W)' = Closed(W)
  BY DEF Closed
<1>2. \A f, k : InTree(f, k)' = InTree(f, k)
  BY <1>1 DEF InTree
<1>3. \A f : Tree(f)' = Tree(f)
  BY <1>2 DEF Tree
<1> QED
  BY <1>2, <1>3 DEF Belongs

\* What an object of the tree refers to is in the tree.
LEMMA KidsBelong ==
  ASSUME Types, NEW f, NEW k \in Keys, InTree(f, k) \/ k = Reg, NEW i \in DOMAIN kids[k]
  PROVE  kids[k][i] \in Keys /\ InTree(f, kids[k][i])
<1>1. kids[k] \in Seq(Keys) /\ kids[Reg] = <<>>
  BY DEF Types
<1>2. k # Reg
  BY <1>1
<1>3. ASSUME NEW W \in SUBSET Keys, Roots[f] \in W, Closed(W) PROVE kids[k][i] \in W
  <2>1. k \in W
    BY <1>2, <1>3 DEF InTree
  <2> QED
    BY <2>1, <1>3 DEF Closed
<1>4. kids[k][i] \in Keys
  BY <1>1
<1> QED
  BY <1>3, <1>4 DEF InTree

LEMMA StartBelongs ==
  ASSUME NEW f, NEW k \in Keys, InTree(f, k) \/ k = Reg, NEW how \in {"hash", "pre", "branch", "split", "reg"},
         NEW name \in {"go", "release", "get", "fail"}
  PROVE  Op(name, k, how) \in Belongs(f) /\ Start(k) \in Belongs(f)
<1>1. <<>> \in Seq(Tree(f)) /\ <<>> \in Seq(Keys) /\ k \in Tree(f)
  BY DEF Tree
<1>2. ASSUME NEW n \in {"go", "release", "get", "fail"}, NEW h \in {"hash", "pre", "branch", "split", "reg"}
      PROVE  Op(n, k, h) \in Belongs(f)
  <2> DEFINE r == Op(n, k, h)
  <2>1. r.key = k /\ r.toSplit = <<>>
    BY DEF Op
  <2>2. r \in Ops
    BY <1>1 DEF Op, Ops
  <2> HIDE DEF r
  <2>3. r \in Belongs(f)
    BY <1>1, <2>1, <2>2 DEF Belongs
  <2> QED
    BY <2>3 DEF r
<1> QED
  BY <1>2 DEF Start

LEMMA SplitBelongs ==
  ASSUME Types, NEW f, NEW k \in Keys, InTree(f, k) \/ k = Reg
  PROVE  SplitData(k) \in Seq(Belongs(f)) /\ SplitNode(k) \in Seq(Belongs(f))
<1>1. kids[k] \in Seq(Keys) /\ DOMAIN kids[k] = 1..Len(kids[k]) /\ Len(kids[k]) \in Nat
  BY DEF Types
<1>2. \A i \in 1..Len(kids[k]) : kids[k][i] \in Keys /\ InTree(f, kids[k][i])
  BY <1>1, KidsBelong
<1>3. \A i \in 1..Len(kids[k]) : SplitData(k)[i] \in Belongs(f) /\ SplitNode(k)[i] \in Belongs(f)
  BY <1>1, <1>2, StartBelongs DEF SplitData, SplitNode
<1>4. /\ DOMAIN SplitData(k) = 1..Len(kids[k]) /\ SplitData(k) = [i \in 1..Len(kids[k]) |-> SplitData(k)[i]]
      /\ DOMAIN SplitNode(k) = 1..Len(kids[k]) /\ SplitNode(k) = [i \in 1..Len(kids[k]) |-> SplitNode(k)[i]]
  BY <1>1 DEF SplitData, SplitNode
<1> QED
  BY <1>1, <1>3, <1>4, SeqOfFunction

LEMMA BodyBelongs ==
  ASSUME Types, NEW f, NEW o \in Belongs(f)
  PROVE  Body(o) \in Seq(Belongs(f))
<1>1. o.key \in Keys /\ (InTree(f, o.key) \/ o.key = Reg) /\ o.how \in {"hash", "pre", "branch", "split", "reg"}
  BY DEF Belongs, Ops, Tree
<1>2. SplitNode(o.key) \in Seq(Belongs(f)) /\ Op("get", o.key, o.how) \in Belongs(f)
  BY <1>1, SplitBelongs, StartBelongs
<1>3. <<Op("get", o.key, o.how)>> \in Seq(Belongs(f))
  BY <1>2
<1> QED
  BY <1>2, <1>3 DEF Body

LEMMA NextBelongs ==
  ASSUME Types, NEW f, NEW q \in Seq(Tree(f)), NEW s \in Seq(Belongs(f))
  PROVE  NextBranch(q, s) \in Seq(Belongs(f))
<1>1. CASE s # <<>> /\ Head(s).op = "get" /\ Head(s).how = "branch"
  <2> DEFINE t == Head(s).toSplit \o q
             n == [Head(s) EXCEPT !.toSplit = t]
  <2>1. Head(s) \in Belongs(f) /\ Tail(s) \in Seq(Belongs(f)) /\ NextBranch(q, s) = <<n>> \o Tail(s)
    BY <1>1 DEF NextBranch
  <2>2. Tree(f) \in SUBSET Keys
    BY DEF Tree
  <2>3. t \in Seq(Tree(f)) /\ t \in Seq(Keys)
    BY <2>1, <2>2 DEF Belongs
  <2> HIDE DEF t
  <2>4. n \in Belongs(f)
    BY <2>1, <2>3 DEF Belongs, Ops
  <2> HIDE DEF n
  <2> QED
    BY <2>1, <2>4
<1>2. CASE ~(s # <<>> /\ Head(s).op = "get" /\ Head(s).how = "branch")
  <2> DEFINE e == [i \in DOMAIN q |-> Op("go", q[i], "split")]
  <2>1. DOMAIN q = 1..Len(q) /\ Len(q) \in Nat /\ \A i \in 1..Len(q) : q[i] \in Tree(f)
    OBVIOUS
  <2>2. \A i \in 1..Len(q) : q[i] \in Keys /\ (InTree(f, q[i]) \/ q[i] = Reg)
    BY <2>1 DEF Tree
  <2>3. \A i \in 1..Len(q) : e[i] = Op("go", q[i], "split")
    BY <2>1
  <2>4. \A i \in 1..Len(q) : e[i] \in Belongs(f)
    BY <2>2, <2>3, StartBelongs
  <2>5. DOMAIN e = 1..Len(q) /\ e = [i \in 1..Len(q) |-> e[i]]
    BY <2>1
  <2>6. NextBranch(q, s) = e \o s
    BY <1>2 DEF NextBranch
  <2> HIDE DEF e
  <2>7. e \in Seq(Belongs(f))
    BY <2>1, <2>4, <2>5, SeqOfFunction
  <2> QED
    BY <2>6, <2>7, SeqCat
<1> QED
  BY <1>1, <1>2

LEMMA DeeperBelongs ==
  ASSUME Types, NEW f, NEW o \in Belongs(f), NEW rest \in Seq(Belongs(f))
  PROVE  Deeper(o, rest) \in Seq(Belongs(f)) /\ NextBranch(o.toSplit, rest) \in Seq(Belongs(f))
<1>1. o.key \in Keys /\ (InTree(f, o.key) \/ o.key = Reg) /\ o.key \in Tree(f) /\ o.toSplit \in Seq(Tree(f))
  BY DEF Belongs, Ops, Tree
<1>2. SplitNode(o.key) \in Seq(Belongs(f)) /\ SplitData(o.key) \in Seq(Belongs(f))
  BY <1>1, SplitBelongs
<1>3. SplitNode(o.key) \o rest \in Seq(Belongs(f)) /\ SplitData(o.key) \o rest \in Seq(Belongs(f))
  BY <1>2
<1>4. Append(o.toSplit, o.key) \in Seq(Tree(f))
  BY <1>1
<1>5. NextBranch(Append(o.toSplit, o.key), rest) \in Seq(Belongs(f)) /\ NextBranch(o.toSplit, rest) \in Seq(Belongs(f))
  BY <1>1, <1>4, NextBelongs
<1> QED
  BY <1>3, <1>5 DEF Deeper

\* The operation at hand and the rest, of the tree.
LEMMA HandBelongs ==
  ASSUME TreeInv, NEW f \in Fillers, NEW g \in 0..MaxG, go[f][g] # <<>>
  PROVE  Head(go[f][g]) \in Belongs(f) /\ Rest(f, g) \in Seq(Belongs(f))
BY DEF TreeInv, Rest

\* An operation on the same object in front of the rest.
LEMMA PutBelongs ==
  ASSUME TreeInv, NEW f \in Fillers, NEW g \in 0..MaxG, go[f][g] # <<>>, NEW q \in Ops, q.key = Head(go[f][g]).key,
         q.toSplit = Head(go[f][g]).toSplit, NEW rest \in Seq(Belongs(f))
  PROVE  <<q>> \o rest \in Seq(Belongs(f))
<1>1. Head(go[f][g]) \in Belongs(f)
  BY HandBelongs
<1>2. q \in Belongs(f)
  BY <1>1 DEF Belongs
<1> QED
  BY <1>2

\* One goroutine goes on with operations of the tree.
LEMMA TreeStep ==
  ASSUME Types, TreeInv, NEW f \in Fillers, NEW g \in 0..MaxG, NEW s \in Seq(Belongs(f)),
         kids' = kids, go' = [go EXCEPT ![f][g] = s]
  PROVE  TreeInv'
<1> SUFFICES ASSUME NEW e \in Fillers, NEW h \in 0..MaxG PROVE go'[e][h] \in Seq(Belongs(e)')
  BY DEF TreeInv
<1>1. Belongs(e)' = Belongs(e)
  BY TreeSame
<1>2. go'[e][h] = IF e = f /\ h = g THEN s ELSE go[e][h]
  BY DEF Types
<1> QED
  BY <1>1, <1>2 DEF TreeInv

LEMMA TreeGoroutine ==
  ASSUME FillInv, FillInv', TreeInv, NEW f \in Fillers, NEW g \in 0..MaxG, Step(f, g)
  PROVE  TreeInv'
<1> DEFINE o == Head(go[f][g])
<1>1. go[f][g] # <<>> /\ o \in Belongs(f) /\ Rest(f, g) \in Seq(Belongs(f))
  BY HandBelongs DEF Step
<1>2. o \in Ops /\ o.key \in Keys /\ (InTree(f, o.key) \/ o.key = Reg) /\ o.how \in {"hash", "pre", "branch", "split", "reg"}
      /\ o.inc \in {0, 1} /\ o.toSplit \in Seq(Tree(f)) /\ Types
  BY <1>1 DEF Belongs, Ops, FillInv, Tree
<1>3. kids' = kids
  BY DEF Step, Go, Release, Get, Want, Receive, Terminated, Unrequested, Inc, Fail, world
<1>4. Types' /\ Types
  BY DEF FillInv
<1>5. ASSUME NEW s \in Seq(Belongs(f)), go' = [go EXCEPT ![f][g] = s] PROVE TreeInv'
  BY <1>3, <1>4, <1>5, TreeStep
<1>6. CASE Go(f, g)
  <2>1. Body(o) \in Seq(Belongs(f)) /\ Op("release", o.key, o.how) \in Belongs(f)
    BY <1>1, <1>2, BodyBelongs, StartBelongs
  <2>2. Body(o) \o Rest(f, g) \in Seq(Belongs(f))
    BY <1>1, <2>1
  <2>3. CASE Do(f, g, Body(o) \o Rest(f, g))
    BY <2>2, <2>3, <1>5 DEF Do
  <2>4. ASSUME NEW n \in 1..MaxG, go[f][n] = <<>>,
               go' = [go EXCEPT ![f][g] = Tail(go[f][g]), ![f][n] = <<Op("release", o.key, o.how)>> \o Body(o)]
        PROVE  TreeInv'
    <3> DEFINE t == <<Op("release", o.key, o.how)>> \o Body(o)
    <3>1. t \in Seq(Belongs(f))
      BY <2>1
    <3> HIDE DEF t
    <3> SUFFICES ASSUME NEW e \in Fillers, NEW h \in 0..MaxG PROVE go'[e][h] \in Seq(Belongs(e)')
      BY DEF TreeInv
    <3>2. go'[e][h] = IF e = f /\ h = n THEN t ELSE IF e = f /\ h = g THEN Rest(f, g) ELSE go[e][h]
      BY <2>4, <1>4 DEF t, Types, Rest
    <3>3. Belongs(e)' = Belongs(e)
      BY <1>3, TreeSame
    <3> QED
      BY <1>1, <3>1, <3>2, <3>3 DEF TreeInv
  <2> QED
    BY <1>6, <2>3, <2>4 DEF Go
<1>7. CASE Release(f, g) \/ Fail(f, g)
  BY <1>1, <1>5, <1>7 DEF Release, Fail, Do
<1>8. ASSUME NEW q, q.key = o.key, q.toSplit = o.toSplit, go' = [go EXCEPT ![f][g] = <<q>> \o Rest(f, g)] PROVE TreeInv'
  <2>1. go'[f][g] = <<q>> \o Rest(f, g) /\ go'[f][g] \in Seq(Ops) /\ Rest(f, g) \in Seq(Ops)
    BY <1>1, <1>4, <1>8 DEF Types, Belongs
  <2>2. q \in Ops
    BY <2>1
  <2> QED
    BY <1>1, <1>5, <1>8, <2>2, PutBelongs
<1>9. CASE Get(f, g) \/ Want(f, g) \/ Receive(f, g)
  <2>1. PICK q : q.key = o.key /\ q.toSplit = o.toSplit /\ go' = [go EXCEPT ![f][g] = <<q>> \o Rest(f, g)]
    <3>1. \A x, y : /\ [o EXCEPT !.op = x].key = o.key /\ [o EXCEPT !.op = x].toSplit = o.toSplit
                    /\ [o EXCEPT !.op = x, !.rc = y].key = o.key /\ [o EXCEPT !.op = x, !.rc = y].toSplit = o.toSplit
      BY <1>2 DEF Ops
    <3>2. CASE Get(f, g)
      <4>1. PICK n : \/ go' = [go EXCEPT ![f][g] = <<[o EXCEPT !.op = "inc", !.inc = n, !.rc = refs'[o.key] - fc[o.key]]>> \o Rest(f, g)]
                     \/ go' = [go EXCEPT ![f][g] = <<[o EXCEPT !.op = "want", !.inc = n]>> \o Rest(f, g)]
        BY <3>2 DEF Get, Do
      <4> DEFINE q1 == [o EXCEPT !.op = "inc", !.inc = n, !.rc = refs'[o.key] - fc[o.key]]
                 q2 == [o EXCEPT !.op = "want", !.inc = n]
      <4>2. q1.key = o.key /\ q2.key = o.key /\ q1.toSplit = o.toSplit /\ q2.toSplit = o.toSplit
        BY <1>2 DEF Ops
      <4>3. go' = [go EXCEPT ![f][g] = <<q1>> \o Rest(f, g)] \/ go' = [go EXCEPT ![f][g] = <<q2>> \o Rest(f, g)]
        BY <4>1
      <4> HIDE DEF q1, q2, o
      <4> QED
        BY <4>2, <4>3
    <3>3. CASE Want(f, g)
      <4>1. \/ go' = [go EXCEPT ![f][g] = <<[o EXCEPT !.op = "wait"]>> \o Rest(f, g)]
            \/ go' = [go EXCEPT ![f][g] = <<[o EXCEPT !.op = "got", !.rc = refs'[o.key] - fc'[o.key]]>> \o Rest(f, g)]
        BY <3>3 DEF Want, Do
      <4> HIDE DEF o
      <4> QED
        BY <3>1, <4>1
    <3>4. CASE Receive(f, g)
      BY <3>1, <3>4 DEF Receive, Do
    <3> QED
      BY <1>9, <3>2, <3>3, <3>4
  <2> QED
    BY <2>1, <1>8
<1>10. CASE Terminated(f, g)
  <2> DEFINE t == NextBranch(o.toSplit, Rest(f, g))
  <2>1. t \in Seq(Belongs(f)) /\ Op("fail", o.key, o.how) \in Belongs(f)
    BY <1>1, <1>2, NextBelongs, StartBelongs
  <2>2. <<Op("fail", o.key, o.how)>> \o t \in Seq(Belongs(f)) /\ <<>> \in Seq(Belongs(f))
    BY <2>1
  <2> QED
    BY <2>2, <1>5, <1>10 DEF Terminated, NoRegistry, Do
<1>11. CASE Inc(f, g)
  <2>1. Deeper(o, Rest(f, g)) \in Seq(Belongs(f)) /\ NextBranch(o.toSplit, Rest(f, g)) \in Seq(Belongs(f))
    BY <1>1, <1>2, DeeperBelongs
  <2>2. go' = [go EXCEPT ![f][g] = NextBranch(o.toSplit, Rest(f, g))] \/ go' = [go EXCEPT ![f][g] = Deeper(o, Rest(f, g))]
    BY <1>11 DEF Inc, Do
  <2> QED
    BY <2>1, <2>2, <1>5
<1>12. CASE Unrequested(f, g)
  <2>1. AfterLoop(Rest(f, g)) \in Seq(Belongs(f)) /\ Op("fail", o.key, o.how) \in Belongs(f)
    BY <1>1, <1>2, LoopCut, StartBelongs
  <2>2. /\ <<Op("fail", o.key, o.how)>> \o AfterLoop(Rest(f, g)) \in Seq(Belongs(f))
        /\ <<Op("fail", o.key, o.how)>> \o Rest(f, g) \in Seq(Belongs(f)) /\ <<>> \in Seq(Belongs(f))
    BY <1>1, <2>1
  <2>3. Deeper(o, Rest(f, g)) \in Seq(Belongs(f))
    BY <1>1, <1>2, DeeperBelongs
  <2>4. \/ go' = [go EXCEPT ![f][g] = <<>>]
        \/ go' = [go EXCEPT ![f][g] = Rest(f, g)]
        \/ go' = [go EXCEPT ![f][g] = <<Op("fail", o.key, o.how)>> \o Rest(f, g)]
        \/ go' = [go EXCEPT ![f][g] = Deeper(o, Rest(f, g))]
        \/ go' = [go EXCEPT ![f][g] = <<Op("fail", o.key, o.how)>> \o AfterLoop(Rest(f, g))]
    BY <1>12 DEF Unrequested, NoRegistry, Do
  <2> HIDE DEF o
  <2> QED
    BY <1>1, <1>5, <2>2, <2>3, <2>4
<1> QED
  BY <1>6, <1>7, <1>9, <1>10, <1>11, <1>12 DEF Step

LEMMA TreeWoken ==
  ASSUME FillInv, FillInv', TreeInv, NEW k \in Keys, NEW name, NEW rc, go' = Woken(k, name, rc), kids' = kids
  PROVE  TreeInv'
<1> SUFFICES ASSUME NEW e \in Fillers, NEW h \in 0..MaxG PROVE go'[e][h] \in Seq(Belongs(e)')
  BY DEF TreeInv
<1>1. Belongs(e)' = Belongs(e)
  BY TreeSame
<1>2. CASE <<e, h>> \in wants[k]
  <2> DEFINE q == [Head(go[e][h]) EXCEPT !.op = name, !.rc = rc]
  <2>1. go[e][h] # <<>>
    BY <1>2 DEF FillInv, Waiting
  <2>2. go'[e][h] = <<q>> \o Rest(e, h) /\ go'[e][h] \in Seq(Ops)
    <3>1. go'[e][h] = <<q>> \o Rest(e, h)
      BY <1>2 DEF Woken
    <3>2. go' \in [Fillers -> [0..MaxG -> Seq(Ops)]]
      BY DEF FillInv, Types
    <3>3. go'[e][h] \in Seq(Ops)
      BY <3>2
    <3> QED
      BY <3>1, <3>3
  <2>3. Rest(e, h) \in Seq(Belongs(e)) /\ Rest(e, h) \in Seq(Ops) /\ Head(go[e][h]) \in Ops
    <3>1. Belongs(e) \subseteq Ops
      BY DEF Belongs
    <3>2. Head(go[e][h]) \in Belongs(e) /\ Rest(e, h) \in Seq(Belongs(e))
      BY <2>1, HandBelongs
    <3> QED
      BY <3>1, <3>2
  <2>4. q.key = Head(go[e][h]).key /\ q.toSplit = Head(go[e][h]).toSplit
    BY <2>3 DEF Ops
  <2> HIDE DEF q
  <2>5. q \in Ops
    BY <2>2, <2>3
  <2> QED
    BY <2>1, <2>2, <2>3, <2>4, <2>5, <1>1, PutBelongs
<1>3. CASE <<e, h>> \notin wants[k]
  BY <1>1, <1>3 DEF Woken, TreeInv
<1> QED
  BY <1>2, <1>3

LEMMA TreeRun ==
  ASSUME FillInv, TreeInv, NEW f \in Fillers, Run(f)
  PROVE  TreeInv'
<1>1. Roots[f] \in Keys /\ InTree(f, Roots[f]) /\ Reg \in Keys /\ 0 \in 0..MaxG /\ Types
  BY RootsAssumption, TreesAssumption, SizesAssumption DEF InTree, FillInv
<1>2. SplitData(Roots[f]) \in Seq(Belongs(f))
  BY <1>1, SplitBelongs
<1>3. Op("get", Reg, "reg") \in Belongs(f)
  BY <1>1, StartBelongs
<1>4. <<Op("get", Reg, "reg")>> \o SplitData(Roots[f]) \in Seq(Belongs(f))
  BY <1>2, <1>3
<1> QED
  BY <1>1, <1>4, TreeStep DEF Run, Do, world

LEMMA TreeKeeps ==
  ASSUME TreeInv, go' = go, kids' = kids
  PROVE  TreeInv'
BY TreeSame DEF TreeInv

LEMMA TreeNext ==
  ASSUME FillInv, FillInv', TreeInv, [Next]_vars
  PROVE  TreeInv'
<1>1. ASSUME NEW f \in Fillers, Finish(f) PROVE TreeInv'
  BY <1>1, TreeKeeps DEF Finish, Select, End, world
<1>2. ASSUME NEW k \in Keys, Answer(k) PROVE TreeInv'
  BY <1>2, TreeWoken DEF Answer, Deliver, Refuse, world
<1>3. ASSUME NEW f \in Fillers, Run(f) \/ Forget(f) \/ Close(f) \/ NoConnections(f) PROVE TreeInv'
  BY <1>3, TreeRun, TreeKeeps DEF Forget, Close, NoConnections, world
<1>4. CASE UNCHANGED vars
  BY <1>4, TreeKeeps DEF vars, world
<1> QED
  BY <1>1, <1>2, <1>3, <1>4, TreeGoroutine DEF Next, Goroutines, Finishes, Peers, Heads, GiveUp

\* What holds for objects that need not be whole is kept by a step that
\* loses no count.
LEMMA FreshStays ==
  ASSUME kids' = kids, NEW e, NEW k, Fresh(e, k),
         fill[e].closed => fill'[e].closed, Done(e) \subseteq Done(e)',
         \A g \in 0..MaxG : New(e, g, k) => New(e, g, k)' \/ fill'[e].closed \/ k \in Done(e)'
  PROVE  Fresh(e, k)'
BY TreeSame DEF Fresh

\* The shape of the proof for every step that stores nothing.
LEMMA SkipStays ==
  ASSUME SkipInv, kids' = kids, stored' = stored, Clean' => Clean /\ past'.skipped = {},
         \A e \in Fillers : Running(e)' = Running(e),
         \A e \in Fillers, k \in Keys : Fresh(e, k) => Fresh(e, k)', stored \subseteq Keys,
         \A k \in Keys : wants'[k] \subseteq wants[k] \/ k \notin stored,
         \A k \in Keys : fc'[k] # 0 => fc[k] # 0 \/ k \in stored
  PROVE  SkipInv'
<1> SUFFICES ASSUME Clean' PROVE SkipInv'
  BY DEF SkipInv
<1>1. Clean /\ past'.skipped = {}
  OBVIOUS
<1>2. ASSUME NEW k \in stored' PROVE Whole(k)' \/ \E f \in Fillers : Running(f)' /\ Fresh(f, k)'
  <2>1. CASE Whole(k)
    BY <2>1, WholeStays
  <2>2. CASE \E f \in Fillers : Running(f) /\ Fresh(f, k)
    BY <2>2
  <2> QED
    BY <1>1, <2>1, <2>2 DEF SkipInv
<1>3. \A k \in Keys : wants'[k] # {} => k \notin stored'
  <2> SUFFICES ASSUME NEW k \in Keys, wants'[k] # {}, k \in stored PROVE FALSE
    OBVIOUS
  <2>1. wants[k] # {}
    OBVIOUS
  <2> QED
    BY <1>1, <2>1 DEF SkipInv
<1>4. \A k \in Keys : fc'[k] # 0 => k \in stored'
  BY <1>1 DEF SkipInv
<1>5. \A e, f \in Fillers : Running(e)' /\ Running(f)' => e = f
  BY <1>1 DEF SkipInv
<1> QED
  BY <1>1, <1>2, <1>3, <1>4, <1>5 DEF SkipInv

\* A step of one goroutine: what it has at hand it keeps, counts, or drops
\* because the Filler is closed.
LEMMA FreshGoes ==
  ASSUME NEW f \in Fillers, NEW g \in 0..MaxG, kids' = kids,
         \A e \in Fillers \ {f} : fill'[e] = fill[e] /\ go'[e] = go[e],
         \A h \in (0..MaxG) \ {g} : go[f][h] # <<>> => go'[f][h] = go[f][h],
         fill[f].closed => fill'[f].closed, Done(f) \subseteq Done(f)',
         Head(go[f][g]).op \in {"got", "inc"} =>
           \/ fill'[f].closed
           \/ Head(go[f][g]).inc = 1 => Head(go[f][g]).key \in Done(f)'
           \/ /\ go'[f][g] # <<>> /\ Head(go'[f][g]).op = "inc" /\ Head(go'[f][g]).key = Head(go[f][g]).key
              /\ Head(go'[f][g]).rc = Head(go[f][g]).rc /\ Head(go'[f][g]).inc = Head(go[f][g]).inc
  PROVE  \A e \in Fillers, k \in Keys : Fresh(e, k) => Fresh(e, k)'
<1> SUFFICES ASSUME NEW e \in Fillers, NEW k \in Keys, Fresh(e, k) PROVE Fresh(e, k)'
  OBVIOUS
<1>1. CASE e # f
  <2>1. Done(e)' = Done(e)
    BY <1>1 DEF Done
  <2>2. \A h : New(e, h, k)' = New(e, h, k)
    BY <1>1 DEF New
  <2> QED
    BY <1>1, <2>1, <2>2, FreshStays
<1>2. CASE e = f
  <2>1. \A h \in 0..MaxG : New(f, h, k) => New(f, h, k)' \/ fill'[f].closed \/ k \in Done(f)'
    BY DEF New
  <2> QED
    BY <1>2, <2>1, FreshStays
<1> QED
  BY <1>1, <1>2

LEMMA SkipGo ==
  ASSUME FillInv, SkipInv, NEW f \in Fillers, NEW g \in 0..MaxG, go[f][g] # <<>>, Go(f, g)
  PROVE  SkipInv'
<1>1. Head(go[f][g]).op = "go" /\ UNCHANGED <<stored, refs, fc, wants, kids, large, phase, past>>
  BY DEF Go, store, world
<1>2. \/ fill' = fill \/ fill' = [fill EXCEPT ![f].tokens = fill[f].tokens + 1]
  BY DEF Go
<1>3. /\ \A e \in Fillers \ {f} : fill'[e] = fill[e]
      /\ fill'[f].state = fill[f].state /\ fill'[f].closed = fill[f].closed /\ fill'[f].incs = fill[f].incs
  BY <1>2 DEF FillInv, Types, Fields
<1>4. /\ \A e \in Fillers \ {f} : go'[e] = go[e]
      /\ \A h \in (0..MaxG) \ {g} : go[f][h] # <<>> => go'[f][h] = go[f][h]
  <2> DEFINE u == Body(Head(go[f][g])) \o Rest(f, g)
             s == Tail(go[f][g])
             t == <<Op("release", Head(go[f][g]).key, Head(go[f][g]).how)>> \o Body(Head(go[f][g]))
  <2>1. \/ go' = [go EXCEPT ![f][g] = u]
        \/ \E n \in 1..MaxG : go[f][n] = <<>> /\ go' = [go EXCEPT ![f][g] = s, ![f][n] = t]
    BY DEF Go, Do
  <2> HIDE DEF u, s, t
  <2>2. CASE go' = [go EXCEPT ![f][g] = u]
    BY <2>2 DEF FillInv, Types
  <2>3. ASSUME NEW n \in 1..MaxG, go[f][n] = <<>>, go' = [go EXCEPT ![f][g] = s, ![f][n] = t]
        PROVE  /\ \A e \in Fillers \ {f} : go'[e] = go[e]
               /\ \A h \in (0..MaxG) \ {g} : go[f][h] # <<>> => go'[f][h] = go[f][h]
    BY <2>3 DEF FillInv, Types
  <2> QED
    BY <2>1, <2>2, <2>3
<1>5. Done(f)' = Done(f)
  BY <1>3 DEF Done
<1>6. \A e \in Fillers, k \in Keys : Fresh(e, k) => Fresh(e, k)'
  BY <1>1, <1>3, <1>4, <1>5, FreshGoes
<1>7. \A e \in Fillers : Running(e)' = Running(e)
  BY <1>3 DEF Running
<1>8. Clean' => Clean /\ past'.skipped = {}
  BY <1>1 DEF Clean, SkipInv
<1>9. stored \subseteq Keys
  BY DEF FillInv, Types
<1> QED
  BY <1>1, <1>6, <1>7, <1>8, <1>9, SkipStays

\* The other steps that count nothing.
LEMMA SkipPlain ==
  ASSUME FillInv, SkipInv, NEW f \in Fillers, NEW g \in 0..MaxG, go[f][g] # <<>>,
         Release(f, g) \/ Fail(f, g) \/ Get(f, g) \/ Want(f, g) \/ Receive(f, g)
  PROVE  SkipInv'
<1> DEFINE o == Head(go[f][g])
<1>1. kids' = kids /\ stored' = stored
  BY DEF Release, Fail, Get, Want, Receive, store, world
<1>2. PICK s : go' = [go EXCEPT ![f][g] = s]
  BY DEF Release, Fail, Get, Want, Receive, Do
<1>3. /\ go'[f][g] = s /\ \A e \in Fillers \ {f} : go'[e] = go[e]
      /\ \A h \in (0..MaxG) \ {g} : go'[f][h] = go[f][h]
  BY <1>2 DEF FillInv, Types
<1>4. o.op \in {"got", "inc"} => go' = [go EXCEPT ![f][g] = <<[o EXCEPT !.op = "inc"]>> \o Rest(f, g)]
  BY DEF Release, Fail, Get, Want, Receive, Do
<1>5. o \in Ops /\ Rest(f, g) \in Seq(Ops) /\ o.key \in Keys /\ o.inc \in {0, 1}
  <2>1. o \in Ops /\ Rest(f, g) \in Seq(Ops)
    BY AtHand
  <2> QED
    BY <2>1 DEF Ops
<1>6. o.op \in {"got", "inc"} =>
        /\ go'[f][g] # <<>> /\ Head(go'[f][g]).op = "inc" /\ Head(go'[f][g]).key = o.key
        /\ Head(go'[f][g]).rc = o.rc /\ Head(go'[f][g]).inc = o.inc
  <2> DEFINE q == [o EXCEPT !.op = "inc"]
  <2>1. q.op = "inc" /\ q.key = o.key /\ q.rc = o.rc /\ q.inc = o.inc
    BY <1>5 DEF Ops
  <2> HIDE DEF q
  <2>2. <<q>> \o Rest(f, g) # <<>> /\ Head(<<q>> \o Rest(f, g)) = q
    BY <1>5
  <2>3. o.op \in {"got", "inc"} => go'[f][g] = <<q>> \o Rest(f, g)
    BY <1>4 DEF q, FillInv, Types
  <2> QED
    BY <2>1, <2>2, <2>3
<1>7. \/ fill' = fill \/ fill' = [fill EXCEPT ![f].tokens = fill[f].tokens - 1] \/ fill' = [fill EXCEPT ![f].errq = TRUE]
  BY DEF Release, Fail, Get, Want, Receive
<1>8. /\ \A e \in Fillers \ {f} : fill'[e] = fill[e]
      /\ fill'[f].state = fill[f].state /\ fill'[f].closed = fill[f].closed /\ fill'[f].incs = fill[f].incs
  BY <1>7 DEF FillInv, Types, Fields
<1>9. Done(f)' = Done(f)
  BY <1>8 DEF Done
<1>10. \A e \in Fillers, k \in Keys : Fresh(e, k) => Fresh(e, k)'
  <2> HIDE DEF o
  <2> QED
    BY <1>1, <1>3, <1>6, <1>8, <1>9, FreshGoes DEF o
<1>11. \A e \in Fillers : Running(e)' = Running(e)
  BY <1>8 DEF Running
<1>12. Clean' => Clean /\ past'.skipped = {}
  <2>1. past' = past
    BY DEF Release, Fail, Get, Want, Receive
  <2> QED
    BY <2>1 DEF Clean, SkipInv
<1>13. stored \subseteq Keys
  BY DEF FillInv, Types
<1>14. \A k \in Keys : wants'[k] \subseteq wants[k] \/ k \notin stored
  <2>1. wants' = wants \/ wants' = Unwanted(f, g) \/ (o.key \notin stored /\ wants' = [wants EXCEPT ![o.key] = wants[o.key] \cup {<<f, g>>}])
    BY DEF Release, Fail, Get, Want, Receive, store
  <2> QED
    BY <2>1, <1>5 DEF Unwanted, FillInv, Types
<1>15. \A k \in Keys : fc'[k] # 0 => fc[k] # 0 \/ k \in stored
  <2>1. fc' = fc \/ (o.key \in stored /\ fc' = [fc EXCEPT ![o.key] = fc[o.key] + o.inc])
    BY DEF Release, Fail, Get, Want, Receive, store
  <2> QED
    BY <2>1, <1>5 DEF FillInv, Types
<1> QED
  BY <1>1, <1>10, <1>11, <1>12, <1>13, <1>14, <1>15, SkipStays

LEMMA SkipTerminated ==
  ASSUME FillInv, SkipInv, NEW f \in Fillers, NEW g \in 0..MaxG, go[f][g] # <<>>,
         Terminated(f, g) \/ Unrequested(f, g)
  PROVE  SkipInv'
<1> DEFINE o == Head(go[f][g])
<1>1. /\ UNCHANGED <<stored, refs, fc, kids, large, phase>> /\ wants' = Unwanted(f, g)
      /\ o.op \in {"wait", "got", "refused"} /\ (fill[f].closed \/ o.op = "refused")
      /\ past' = [past EXCEPT !.dropped = past.dropped \/ (o.op = "got" /\ o.inc = 1)]
  BY DEF Terminated, Unrequested, Lose, world
<1>2. PICK s : go' = [go EXCEPT ![f][g] = s]
  BY DEF Terminated, Unrequested, NoRegistry, Do
<1>3. /\ \A e \in Fillers \ {f} : go'[e] = go[e]
      /\ \A h \in (0..MaxG) \ {g} : go'[f][h] = go[f][h]
  BY <1>2 DEF FillInv, Types
<1>4. \/ fill' = fill \/ fill' = [fill EXCEPT ![f].state = "end", ![f].result = "err"]
      \/ fill' = [fill EXCEPT ![f].pre = fill[f].pre \cup {o.key}]
  BY DEF Terminated, Unrequested, NoRegistry
<1>5. Running(f)
  BY DEF Running, FillInv, FillerInv, Quiet
<1>6. /\ \A e \in Fillers \ {f} : fill'[e] = fill[e]
      /\ fill'[f].state \in {fill[f].state, "end"} /\ fill'[f].closed = fill[f].closed /\ fill'[f].incs = fill[f].incs
  BY <1>4 DEF FillInv, Types, Fields
<1>7. Done(f)' = Done(f)
  BY <1>6 DEF Done
<1>8. \A e \in Fillers, k \in Keys : Fresh(e, k) => Fresh(e, k)'
  BY <1>1, <1>3, <1>6, <1>7, FreshGoes
<1>9. \A e \in Fillers : Running(e)' = Running(e)
  BY <1>5, <1>6 DEF Running
<1>10. Clean' => Clean /\ past'.skipped = {}
  <2>1. past'.skipped = past.skipped /\ past'.unfinished = past.unfinished /\ past'.overlapped = past.overlapped
        /\ past'.twice = past.twice
    BY <1>1 DEF FillInv, Types, Pasts
  <2> QED
    BY <2>1 DEF Clean, SkipInv
<1>11. \A k \in Keys : wants'[k] \subseteq wants[k]
  BY <1>1 DEF Unwanted
<1>12. stored \subseteq Keys
  BY DEF FillInv, Types
<1> QED
  BY <1>1, <1>8, <1>9, <1>10, <1>11, <1>12, SkipStays

\* The only step that skips: the object is whole, or it is the filling that
\* brought it that looks at it, and then the count is zero.
LEMMA SkipInc ==
  ASSUME FillInv, SkipInv, NEW f \in Fillers, NEW g \in 0..MaxG, go[f][g] # <<>>, Inc(f, g)
  PROVE  SkipInv'
<1> DEFINE o == Head(go[f][g])
           k == o.key
           rc == IF o.inc = 1 /\ fill[f].incs[k] > 0 THEN o.rc + 1 ELSE o.rc
           skips == Skips(o.how, rc) /\ fill[f].incs[k] = 0 /\ ~fill[f].closed /\ ~Whole(k)
<1>1. /\ o.op = "inc" /\ UNCHANGED <<stored, refs, fc, wants, kids, large, phase>>
      /\ fill' = [fill EXCEPT ![f].incs[k] = fill[f].incs[k] + o.inc,
                              ![f].pre = IF o.how \in {"pre", "branch"} THEN fill[f].pre \cup {k} ELSE fill[f].pre]
      /\ past' = IF skips
                 THEN [past EXCEPT !.skipped = past.skipped \cup {k}, !.twice = past.twice \/ InHand(f, k) # {g}] ELSE past
  BY DEF Inc, store, world
<1>2. PICK s : go' = [go EXCEPT ![f][g] = s]
  BY DEF Inc, Do
<1>3. /\ \A e \in Fillers \ {f} : go'[e] = go[e]
      /\ \A h \in (0..MaxG) \ {g} : go'[f][h] = go[f][h]
  BY <1>2 DEF FillInv, Types
<1>4. o \in Good(f, g) /\ o \in Ops /\ k \in Keys /\ o.inc \in {0, 1} /\ k \in stored /\ o.rc \in Int
  <2>1. o \in Good(f, g) /\ o \in Ops
    BY AtHand
  <2> QED
    BY <2>1, <1>1 DEF Ops, Good
<1>5. /\ \A e \in Fillers \ {f} : fill'[e] = fill[e]
      /\ fill'[f].state = fill[f].state /\ fill'[f].closed = fill[f].closed
      /\ fill'[f].incs = [fill[f].incs EXCEPT ![k] = fill[f].incs[k] + o.inc]
  <2>1. fill[f] \in Fields /\ fill \in [Fillers -> Fields]
    BY DEF FillInv, Types
  <2> DEFINE c == [fill[f].incs EXCEPT ![k] = fill[f].incs[k] + o.inc]
             p == IF o.how \in {"pre", "branch"} THEN fill[f].pre \cup {k} ELSE fill[f].pre
  <2>2. fill' = [fill EXCEPT ![f] = [fill[f] EXCEPT !.incs = c, !.pre = p]]
    BY <1>1, <2>1 DEF Fields
  <2> HIDE DEF c, p
  <2>3. fill'[f] = [fill[f] EXCEPT !.incs = c, !.pre = p] /\ \A e \in Fillers \ {f} : fill'[e] = fill[e]
    BY <2>1, <2>2
  <2>4. fill'[f].state = fill[f].state /\ fill'[f].closed = fill[f].closed /\ fill'[f].incs = c
    BY <2>1, <2>3 DEF Fields
  <2> QED
    BY <2>3, <2>4 DEF c
<1>6. Done(f) \subseteq Done(f)' /\ (o.inc = 1 => k \in Done(f)')
  <2>1. Done(f)' = IF o.inc = 1 THEN Done(f) \cup {k} ELSE Done(f)
    BY <1>4, <1>5, CountsMore DEF FillInv
  <2> QED
    BY <2>1
<1>7. \A e \in Fillers, j \in Keys : Fresh(e, j) => Fresh(e, j)'
  <2>1. o.inc = 1 => k \in Done(f)'
    BY <1>6
  <2> HIDE DEF o, skips, rc
  <2> QED
    BY <1>1, <1>3, <1>5, <1>6, <2>1, FreshGoes DEF o
<1>8. \A e \in Fillers : Running(e)' = Running(e)
  BY <1>5 DEF Running
<1>9. Running(f)
  BY DEF Running, FillInv, FillerInv, Quiet
<1>10. ASSUME Clean, skips PROVE InHand(f, k) # {g}
  <2>1. \E e \in Fillers : Running(e) /\ Fresh(e, k)
    BY <1>4, <1>10 DEF SkipInv
  <2>2. Fresh(f, k)
    BY <2>1, <1>9, <1>10 DEF SkipInv
  <2>3. k \notin Done(f)
    BY <1>10, <1>4 DEF Done, FillInv, Types, Fields
  <2>4. PICK h \in 0..MaxG : New(f, h, k)
    BY <2>2, <2>3, <1>10 DEF Fresh
  <2>5. h \in InHand(f, k)
    BY <2>4 DEF New, InHand
  <2>6. ASSUME h = g PROVE FALSE
    <3>1. o.rc = 0
      BY <2>4, <2>6 DEF New
    <3>2. rc = 0
      BY <3>1, <1>10
    <3> QED
      BY <3>2, <1>10 DEF Skips
  <2> QED
    BY <2>5, <2>6
<1>11. Clean' => Clean /\ past'.skipped = {}
  <2> SUFFICES ASSUME Clean' PROVE Clean /\ past'.skipped = {}
    OBVIOUS
  <2> HIDE DEF skips
  <2>1. Clean /\ past \in Pasts
    <3>1. past \in Pasts
      BY DEF FillInv, Types
    <3> QED
      BY <3>1, <1>1 DEF Clean, Pasts
  <2>2. ~skips
    BY <2>1, <1>1, <1>10 DEF Clean, Pasts
  <2> QED
    BY <2>1, <2>2, <1>1 DEF SkipInv
<1>12. stored \subseteq Keys
  BY DEF FillInv, Types
<1> QED
  BY <1>1, <1>7, <1>8, <1>11, <1>12, SkipStays

\* The fields of a Filler change, and it goes on.
LEMMA SkipFields ==
  ASSUME FillInv, SkipInv, NEW f \in Fillers, UNCHANGED <<stored, wants, fc, go, kids, past>>,
         \A e \in Fillers \ {f} : fill'[e] = fill[e], Running(f)' = Running(f),
         fill[f].closed => fill'[f].closed, Running(f) => Done(f) \subseteq Done(f)'
  PROVE  SkipInv'
<1>1. ASSUME NEW e \in Fillers, NEW k \in Keys, Running(e), Fresh(e, k) PROVE Fresh(e, k)'
  <2>1. \A g \in 0..MaxG : New(e, g, k)' = New(e, g, k)
    BY DEF New
  <2>2. Done(e) \subseteq Done(e)' /\ (fill[e].closed => fill'[e].closed)
    BY <1>1 DEF Done
  <2> QED
    BY <1>1, <2>1, <2>2, FreshStays
<1>2. \A e \in Fillers : Running(e)' = Running(e)
  BY DEF Running
<1>3. stored \subseteq Keys
  BY DEF FillInv, Types
<1>4. \A k : Whole(k) => Whole(k)'
  BY WholeStays
<1> QED
  BY <1>1, <1>2, <1>3, <1>4 DEF SkipInv, Clean

LEMMA SkipHead ==
  ASSUME FillInv, SkipInv, NEW f \in Fillers, Select(f) \/ Forget(f) \/ Close(f) \/ NoConnections(f)
  PROVE  SkipInv'
<1>1. UNCHANGED <<stored, wants, fc, go, kids, past>>
  BY DEF Select, Forget, Close, NoConnections, store, world
<1>2. fill[f] \in Fields /\ fill \in [Fillers -> Fields]
  BY DEF FillInv, Types
<1>3. CASE Forget(f)
  <2>1. /\ \A e \in Fillers \ {f} : fill'[e] = fill[e]
        /\ fill'[f] = [Idle EXCEPT !.rounds = fill[f].rounds] /\ fill[f].state = "over"
    BY <1>2, <1>3 DEF Forget
  <2>2. ~Running(f) /\ ~Running(f)'
    BY <2>1 DEF Running, Idle
  <2>4. ASSUME NEW e \in Fillers, NEW k \in Keys, Running(e), Fresh(e, k) PROVE Fresh(e, k)' /\ Running(e)'
    <3>1. e # f /\ fill'[e] = fill[e]
      BY <2>1, <2>2, <2>4
    <3>2. Done(e)' = Done(e) /\ \A g \in 0..MaxG : New(e, g, k)' = New(e, g, k)
      BY <3>1, <1>1 DEF Done, New
    <3>3. Fresh(e, k)'
      BY <2>4, <3>1, <3>2, <1>1, FreshStays
    <3> QED
      BY <3>1, <3>3, <2>4 DEF Running
  <2>5. \A e \in Fillers : Running(e)' => Running(e)
    BY <2>1, <2>2 DEF Running
  <2>6. \A k : Whole(k) => Whole(k)'
    BY <1>1, WholeStays
  <2>7. stored \subseteq Keys
    BY DEF FillInv, Types
  <2> QED
    BY <1>1, <2>4, <2>5, <2>6, <2>7 DEF SkipInv, Clean
<1>4. CASE Select(f) \/ Close(f) \/ NoConnections(f)
  <2>1. fill[f].state = "loop"
    BY <1>4 DEF Select, Close, NoConnections
  <2>2. /\ \A e \in Fillers \ {f} : fill'[e] = fill[e]
        /\ fill'[f].state \in {"loop", "end"} /\ (fill[f].closed => fill'[f].closed) /\ fill'[f].incs = fill[f].incs
    <3>1. CASE Select(f)
      BY <3>1, <1>2 DEF Select, Fields
    <3>2. CASE Close(f)
      BY <3>2, <1>2 DEF Close, Fields
    <3>3. CASE NoConnections(f)
      BY <3>3, <1>2 DEF NoConnections, Fields
    <3> QED
      BY <1>4, <3>1, <3>2, <3>3
  <2>3. Running(f)' = Running(f) /\ Done(f)' = Done(f)
    BY <2>1, <2>2 DEF Running, Done
  <2> QED
    BY <1>1, <2>2, <2>3, SkipFields
<1> QED
  BY <1>3, <1>4

\* A filling that begins when no other goes on finds everything whole.
LEMMA SkipRun ==
  ASSUME FillInv, SkipInv, NEW f \in Fillers, Run(f)
  PROVE  SkipInv'
<1> DEFINE k == Roots[f]
<1>1. /\ stored' = stored \cup {k} /\ UNCHANGED <<fc, wants, kids>>
      /\ past' = [past EXCEPT !.overlapped = past.overlapped \/ \E e \in Fillers : Running(e)]
      /\ fill' = [fill EXCEPT ![f] = [Idle EXCEPT !.state = "loop", !.rounds = fill[f].rounds + 1, !.incs = [Zero EXCEPT ![k] = 1]]]
  BY DEF Run, world
<1>2. k \in Keys /\ stored \subseteq Keys
  BY RootsAssumption DEF FillInv, Types
<1>3. /\ \A e \in Fillers \ {f} : fill'[e] = fill[e]
      /\ fill'[f].state = "loop" /\ fill'[f].incs = [Zero EXCEPT ![k] = 1]
  BY <1>1 DEF FillInv, Types, Idle
<1> SUFFICES ASSUME Clean' PROVE SkipInv'
  BY DEF SkipInv
<1>4. Clean /\ past'.skipped = past.skipped /\ \A e \in Fillers : ~Running(e)
  BY <1>1 DEF Clean, FillInv, Types, Pasts
<1>5. past'.skipped = {} /\ \A j \in stored : Whole(j)
  BY <1>4 DEF SkipInv
<1>6. \A e \in Fillers : Running(e)' => e = f
  BY <1>3, <1>4 DEF Running
<1>7. Running(f)' /\ Fresh(f, k)'
  <2>1. InTree(f, k)'
    BY DEF InTree
  <2>2. k \in Done(f)'
    BY <1>2, <1>3 DEF Done, Zero
  <2> QED
    BY <1>3, <2>1, <2>2 DEF Running, Fresh
<1>8. \A j \in stored : Whole(j)'
  BY <1>1, <1>5, WholeStays
<1>9. \A j \in Keys : wants'[j] = {}
  <2>1. \A e \in Fillers, g \in 0..MaxG : go[e][g] = <<>>
    BY <1>4 DEF Running, FillInv, FillerInv, Quiet
  <2>2. \A j \in Keys, e \in Fillers, g \in 0..MaxG : <<e, g>> \notin wants[j]
    BY <2>1 DEF FillInv, Waiting
  <2>3. \A j \in Keys : wants[j] \subseteq Fillers \X (0..MaxG)
    BY DEF FillInv, Types
  <2> QED
    BY <1>1, <2>2, <2>3
<1>10. \A j \in Keys : fc'[j] # 0 => j \in stored'
  BY <1>1, <1>4 DEF SkipInv
<1> QED
  BY <1>1, <1>5, <1>6, <1>7, <1>8, <1>9, <1>10 DEF SkipInv

\* A filling that ends with a whole Root leaves everything whole.
LEMMA SkipEnd ==
  ASSUME FillInv, SkipInv, NEW f \in Fillers, End(f)
  PROVE  SkipInv'
<1>1. /\ fill[f].state = "end" /\ UNCHANGED <<stored, wants, go, kids>>
      /\ fill' = [fill EXCEPT ![f].state = "over"]
      /\ past' = [past EXCEPT !.unfinished = past.unfinished \/ ~Whole(Roots[f])]
  BY DEF End, world
<1>2. /\ \A e \in Fillers \ {f} : fill'[e] = fill[e]
      /\ fill'[f].state = "over"
  BY <1>1 DEF FillInv, Types, Fields
<1>3. Running(f) /\ \A e \in Fillers : Running(e)' => Running(e) /\ e # f
  BY <1>1, <1>2 DEF Running
<1> SUFFICES ASSUME Clean' PROVE SkipInv'
  BY DEF SkipInv
<1>4. Clean /\ past'.skipped = past.skipped /\ Whole(Roots[f])
  BY <1>1 DEF Clean, FillInv, Types, Pasts
<1>5. \A j \in stored : Whole(j)
  <2> SUFFICES ASSUME NEW j \in stored, InTree(f, j) PROVE Whole(j)
    BY <1>3, <1>4 DEF SkipInv, Fresh
  <2>1. PICK W \in SUBSET stored : Roots[f] \in W /\ Closed(W)
    BY <1>4 DEF Whole
  <2>2. W \in SUBSET Keys
    BY DEF FillInv, Types
  <2>3. j \in W
    BY <2>1, <2>2 DEF InTree
  <2> QED
    BY <2>1, <2>3 DEF Whole
<1>6. \A j \in stored' : Whole(j)'
  BY <1>1, <1>5, WholeStays
<1>7. \A j \in Keys : fc'[j] # 0 => j \in stored'
  <2>1. \A j \in Keys : fc'[j] # 0 => fc[j] # 0
    BY DEF End, Finc
  <2> QED
    BY <1>1, <1>4, <2>1 DEF SkipInv
<1> QED
  BY <1>1, <1>3, <1>4, <1>6, <1>7 DEF SkipInv

\* The Registry has no references.
LEMMA RegWhole == ASSUME kids[Reg] = <<>>, Reg \in stored PROVE Whole(Reg)
<1>1. Closed({Reg})
  BY DEF Closed
<1> QED
  BY <1>1 DEF Whole

\* An object that is delivered was not there, so nobody else holds it: all
\* that wait for it get the count zero.
LEMMA SkipDeliver ==
  ASSUME FillInv, TreeInv, SkipInv, NEW k \in Keys, Deliver(k)
  PROVE  SkipInv'
<1> DEFINE n == Cardinality({w \in wants[k] : Head(go[w[1]][w[2]]).inc = 1})
<1>1. /\ wants[k] # {} /\ stored' = stored \cup {k} /\ fc' = [fc EXCEPT ![k] = @ + n]
      /\ go' = Woken(k, "got", n - (n + fc[k])) /\ wants' = [wants EXCEPT ![k] = {}] /\ UNCHANGED <<fill, kids, past>>
  BY DEF Deliver, world
<1>2. n \in Int
  <2>1. wants[k] \subseteq Fillers \X (0..MaxG)
    BY DEF FillInv, Types
  <2>2. IsFiniteSet(0..MaxG)
    BY SizesAssumption, FS_Interval
  <2>3. IsFiniteSet(Fillers \X (0..MaxG))
    BY <2>2, LateAssumption, FS_Product
  <2>4. IsFiniteSet({w \in wants[k] : Head(go[w[1]][w[2]]).inc = 1})
    BY <2>1, <2>3, FS_Subset
  <2> QED
    BY <2>4, FS_CardinalityType
<1> HIDE DEF n
<1> SUFFICES ASSUME Clean' PROVE SkipInv'
  BY DEF SkipInv
<1>3. Clean /\ past' = past
  BY <1>1 DEF Clean
<1>4. k \notin stored /\ fc[k] = 0 /\ n - (n + fc[k]) = 0
  BY <1>1, <1>2, <1>3 DEF SkipInv
<1>5. PICK f \in Fillers, g \in 0..MaxG : <<f, g>> \in wants[k]
  <2>1. wants[k] \subseteq Fillers \X (0..MaxG)
    BY DEF FillInv, Types
  <2> QED
    BY <1>1, <2>1
<1> DEFINE o == Head(go[f][g])
           q == [o EXCEPT !.op = "got", !.rc = 0]
<1>6. go[f][g] # <<>> /\ o.op = "wait" /\ o.key = k
  BY <1>5 DEF FillInv, Waiting
<1>7. o \in Good(f, g) /\ o \in Ops /\ o \in Belongs(f) /\ Rest(f, g) \in Seq(Ops) /\ o.inc \in {0, 1}
  <2>1. o \in Good(f, g) /\ o \in Ops /\ o \in Belongs(f) /\ Rest(f, g) \in Seq(Ops)
    BY <1>6, AtHand, HandBelongs
  <2> QED
    BY <2>1 DEF Ops
<1>8. Running(f)
  BY <1>6 DEF Running, FillInv, FillerInv, Quiet
<1>9. fill[f].closed \/ o.inc = 1
  <2>1. o.inc = 0 => k \in Done(f) \/ fill[f].closed
    BY <1>6, <1>7 DEF Good
  <2>2. Done(f) \subseteq stored
    BY DEF FillInv, FillerInv, Counted
  <2> QED
    BY <1>4, <1>7, <2>1, <2>2
<1>10. k # Reg => InTree(f, k)
  BY <1>6, <1>7 DEF Belongs, Tree
<1>11. fill[f].closed \/ New(f, g, k)'
  <2>1. go'[f][g] = <<q>> \o Rest(f, g)
    BY <1>1, <1>4, <1>5 DEF Woken
  <2>2. q.op = "got" /\ q.key = k /\ q.rc = 0 /\ q.inc = o.inc
    BY <1>6, <1>7 DEF Ops
  <2> HIDE DEF q
  <2>3. go'[f][g] # <<>> /\ Head(go'[f][g]) = q
    BY <2>1, <1>7
  <2> QED
    BY <1>9, <2>2, <2>3 DEF New
<1>12. ASSUME k # Reg PROVE Running(f)' /\ Fresh(f, k)'
  <2>1. InTree(f, k)'
    BY <1>1, <1>10, <1>12, TreeSame
  <2> QED
    BY <1>1, <1>8, <1>11, <2>1 DEF Running, Fresh
<1>13. ASSUME NEW j \in stored, NEW e \in Fillers, Running(e), Fresh(e, j) PROVE Running(e)' /\ Fresh(e, j)'
  <2>1. ASSUME NEW h \in 0..MaxG, New(e, h, j) PROVE New(e, h, j)'
    <3>1. <<e, h>> \notin wants[k]
      BY <2>1 DEF New, FillInv, Waiting
    <3>2. go'[e][h] = go[e][h]
      BY <3>1, <1>1 DEF Woken
    <3> QED
      BY <2>1, <3>2 DEF New
  <2>2. Done(e)' = Done(e) /\ fill'[e] = fill[e]
    BY <1>1 DEF Done
  <2>3. Fresh(e, j)'
    BY <1>1, <1>13, <2>1, <2>2, FreshStays
  <2> QED
    BY <1>13, <2>2, <2>3 DEF Running
<1>14. \A j \in stored : Whole(j) => Whole(j)'
  BY <1>1, WholeStays
<1>15. \A j \in stored' : Whole(j)' \/ \E e \in Fillers : Running(e)' /\ Fresh(e, j)'
  <2> TAKE j \in stored'
  <2>1. CASE j = k /\ j # Reg
    BY <2>1, <1>12
  <2>3. CASE j = Reg
    <3>1. kids'[Reg] = <<>>
      BY <1>1 DEF FillInv, Types
    <3>2. Closed({Reg})'
      BY <3>1 DEF Closed
    <3> QED
      BY <2>3, <3>2 DEF Whole
  <2>2. CASE j \in stored
    <3>1. CASE Whole(j)
      BY <3>1, <2>2, <1>14
    <3>2. CASE \E e \in Fillers : Running(e) /\ Fresh(e, j)
      BY <3>2, <2>2, <1>13
    <3> QED
      BY <2>2, <3>1, <3>2, <1>3 DEF SkipInv
  <2> QED
    BY <1>1, <2>1, <2>2, <2>3
<1>16. \A j \in Keys : wants'[j] # {} => j \notin stored'
  <2> SUFFICES ASSUME NEW j \in Keys, wants'[j] # {} PROVE j \notin stored'
    OBVIOUS
  <2>1. j # k /\ wants[j] # {}
    BY <1>1 DEF FillInv, Types
  <2> QED
    BY <1>1, <1>3, <2>1 DEF SkipInv
<1>17. \A j \in Keys : fc'[j] # 0 => j \in stored'
  BY <1>1, <1>3 DEF SkipInv, FillInv, Types
<1>18. past'.skipped = {} /\ \A d, e \in Fillers : Running(d)' /\ Running(e)' => d = e
  BY <1>1, <1>3 DEF SkipInv, Running
<1> QED
  BY <1>15, <1>16, <1>17, <1>18 DEF SkipInv

LEMMA SkipRefuse ==
  ASSUME FillInv, SkipInv, NEW k \in Keys, Refuse(k)
  PROVE  SkipInv'
<1>1. go' = Woken(k, "refused", 0) /\ wants' = [wants EXCEPT ![k] = {}] /\ UNCHANGED <<stored, refs, fc, fill, kids, past>>
  BY DEF Refuse, world
<1>2. ASSUME NEW e \in Fillers, NEW j \in Keys, Fresh(e, j) PROVE Fresh(e, j)'
  <2>1. ASSUME NEW h \in 0..MaxG, New(e, h, j) PROVE New(e, h, j)'
    <3>1. <<e, h>> \notin wants[k]
      BY <2>1 DEF New, FillInv, Waiting
    <3>2. go'[e][h] = go[e][h]
      BY <3>1, <1>1 DEF Woken
    <3> QED
      BY <2>1, <3>2 DEF New
  <2>2. Done(e)' = Done(e)
    BY <1>1 DEF Done
  <2> QED
    BY <1>1, <1>2, <2>1, <2>2, FreshStays
<1>3. \A e \in Fillers : Running(e)' = Running(e)
  BY <1>1 DEF Running
<1>4. Clean' => Clean /\ past'.skipped = {}
  BY <1>1 DEF Clean, SkipInv
<1>5. stored \subseteq Keys /\ \A j \in Keys : wants'[j] \subseteq wants[j]
  BY <1>1 DEF FillInv, Types
<1> QED
  BY <1>1, <1>2, <1>3, <1>4, <1>5, SkipStays

LEMMA SkipNext ==
  ASSUME FillInv, TreeInv, SkipInv, [Next]_vars
  PROVE  SkipInv'
<1>1. ASSUME NEW f \in Fillers, NEW g \in 0..MaxG, Step(f, g) PROVE SkipInv'
  BY <1>1, SkipGo, SkipPlain, SkipTerminated, SkipInc DEF Step
<1>2. ASSUME NEW f \in Fillers, Finish(f) PROVE SkipInv'
  BY <1>2, SkipHead, SkipEnd DEF Finish
<1>3. ASSUME NEW k \in Keys, Answer(k) PROVE SkipInv'
  BY <1>3, SkipDeliver, SkipRefuse DEF Answer
<1>4. ASSUME NEW f \in Fillers, Run(f) \/ Forget(f) \/ Close(f) \/ NoConnections(f) PROVE SkipInv'
  BY <1>4, SkipRun, SkipHead
<1>5. CASE UNCHANGED vars
  <2>1. UNCHANGED <<stored, wants, fc, go, kids, past, fill>>
    BY <1>5 DEF vars, world
  <2>2. \A f \in Fillers, k \in Keys : Fresh(f, k) => Fresh(f, k)'
    BY <2>1, TreeSame DEF Fresh, New, Done
  <2>3. \A f \in Fillers : Running(f)' = Running(f)
    BY <2>1 DEF Running
  <2>4. Clean' => Clean /\ past'.skipped = {}
    BY <2>1 DEF Clean, SkipInv
  <2>5. stored \subseteq Keys
    BY DEF FillInv, Types
  <2> QED
    BY <2>1, <2>2, <2>3, <2>4, <2>5, SkipStays
<1> QED
  BY <1>1, <1>2, <1>3, <1>4, <1>5 DEF Next, Goroutines, Finishes, Peers, Heads, GiveUp

\* A subtree is skipped (hard rc in splitSchemaHash, rc != 0 in splitHash)
\* only because it is whole, as long as no filling ended without its objects,
\* no two overlapped and no object was at hand twice.
THEOREM FillSkipsWhole == Spec => []SkipsWhole
<1> DEFINE I == FillInv /\ TreeInv /\ SkipInv
<1>1. Init => I
  <2> SUFFICES ASSUME Init PROVE I
    OBVIOUS
  <2>1. FillInv
    BY FillInit
  <2>2. TreeInv
    BY DEF Init, TreeInv
  <2>3. Reg \in stored => Whole(Reg)
    <3>1. kids[Reg] = <<>>
      BY WorldsAssumption DEF Init
    <3> QED
      BY <3>1, RegWhole
  <2>5. stored \subseteq {Reg}
    BY DEF Init
  <2>4. SkipInv
    BY <2>3, <2>5 DEF Init, SkipInv, Running, Idle, Zero
  <2> QED
    BY <2>1, <2>2, <2>4
<1>2. I /\ [Next]_vars => I'
  BY FillNext, TreeNext, SkipNext
<1>3. I => SkipsWhole
  BY DEF SkipInv, SkipsWhole, Clean
<1> QED
  BY <1>1, <1>2, <1>3, PTL DEF Spec
-----------------------------------------------------------------------------
(* References held for fillings                                            *)

\* An object of which the goroutine g of f has a reference that f has not counted.
Holds(f, g, k) ==
  /\ go[f][g] # <<>> /\ Head(go[f][g]).op \in {"got", "inc"}
  /\ Head(go[f][g]).key = k /\ Head(go[f][g]).inc = 1

\* The references at hand, by goroutine, and those counted, by number.
Hands(k) == {w \in Fillers \X (0..MaxG) : Holds(w[1], w[2], k)}
Kept(k) == {w \in Fillers \X (Nat \ {0}) : Running(w[1]) /\ w[2] <= fill[w[1]].incs[k]}

Backed(k) == fc[k] <= Cardinality(Hands(k)) + Cardinality(Kept(k))

HoldInv ==
  /\ fc \in [Keys -> Nat] /\ \A k \in Keys : IsFiniteSet(Kept(k))
  /\ phase = "run" => past.dropped \/ \A k \in Keys : Backed(k)

\* There are finitely many goroutines.
LEMMA PairsFinite ==
  \A S \in SUBSET (Fillers \X (0..MaxG)) : IsFiniteSet(S) /\ Cardinality(S) \in Nat
<1>1. IsFiniteSet(0..MaxG)
  BY SizesAssumption, FS_Interval
<1>2. IsFiniteSet(Fillers \X (0..MaxG))
  BY <1>1, LateAssumption, FS_Product
<1>3. \A S \in SUBSET (Fillers \X (0..MaxG)) : IsFiniteSet(S)
  BY <1>2, FS_Subset
<1> QED
  BY <1>3, FS_CardinalityType

\* A step that takes no reference and loses none.
LEMMA BackedStays ==
  ASSUME HoldInv, NEW k \in Keys, Backed(k), fc'[k] <= fc[k], fc'[k] \in Nat, Hands(k) \subseteq Hands(k)',
         Kept(k) \subseteq Kept(k)', IsFiniteSet(Kept(k)')
  PROVE  Backed(k)'
<1>1. Hands(k) \in SUBSET (Fillers \X (0..MaxG)) /\ Hands(k)' \in SUBSET (Fillers \X (0..MaxG))
  BY DEF Hands
<1>2. IsFiniteSet(Hands(k)') /\ Cardinality(Hands(k)) \in Nat /\ Cardinality(Hands(k)') \in Nat
  BY <1>1, PairsFinite
<1>3. Cardinality(Hands(k)) <= Cardinality(Hands(k)')
  BY <1>2, FS_Subset
<1>4. Cardinality(Kept(k)) <= Cardinality(Kept(k)')
  BY FS_Subset
<1>5. Cardinality(Kept(k)) \in Nat /\ Cardinality(Kept(k)') \in Nat
  BY FS_CardinalityType DEF HoldInv
<1> QED
  BY <1>2, <1>3, <1>4, <1>5 DEF Backed, HoldInv

\* The Fillers count the same.
LEMMA KeptSame ==
  ASSUME \A e \in Fillers : Running(e)' = Running(e) /\ fill'[e].incs = fill[e].incs
  PROVE  \A k : Kept(k)' = Kept(k)
BY DEF Kept

\* A step of one goroutine that counts nothing.
LEMMA HandsStay ==
  ASSUME NEW f \in Fillers, NEW g \in 0..MaxG,
         \A e \in Fillers \ {f} : go'[e] = go[e],
         \A h \in (0..MaxG) \ {g} : go[f][h] # <<>> => go'[f][h] = go[f][h]
  PROVE  \A k : Hands(k) \ {<<f, g>>} \subseteq Hands(k)'
<1> SUFFICES ASSUME NEW k, NEW w \in Hands(k), w # <<f, g>> PROVE w \in Hands(k)'
  BY DEF Hands
<1>1. w \in Fillers \X (0..MaxG) /\ Holds(w[1], w[2], k)
  BY DEF Hands
<1>2. go[w[1]][w[2]] # <<>> /\ (w[1] # f \/ w[2] # g)
  BY <1>1 DEF Holds
<1>3. go'[w[1]][w[2]] = go[w[1]][w[2]]
  BY <1>1, <1>2
<1> QED
  BY <1>1, <1>3 DEF Hands, Holds

\* A step that changes nothing but what is at hand.
LEMMA HoldKeeps ==
  ASSUME HoldInv, UNCHANGED <<fc, phase>>, past.dropped => past'.dropped,
         \A k \in Keys : Hands(k) \subseteq Hands(k)', \A k \in Keys : Kept(k)' = Kept(k)
  PROVE  HoldInv'
<1>1. \A k \in Keys : IsFiniteSet(Kept(k)')
  BY DEF HoldInv
<1>2. \A k \in Keys : Backed(k) => Backed(k)'
  <2> SUFFICES ASSUME NEW k \in Keys, Backed(k) PROVE Backed(k)'
    OBVIOUS
  <2>1. fc'[k] <= fc[k] /\ fc'[k] \in Nat
    BY DEF HoldInv
  <2> QED
    BY <1>1, <2>1, BackedStays
<1> QED
  BY <1>1, <1>2 DEF HoldInv

LEMMA HoldGo ==
  ASSUME FillInv, HoldInv, NEW f \in Fillers, NEW g \in 0..MaxG, go[f][g] # <<>>, Go(f, g)
  PROVE  HoldInv'
<1>1. Head(go[f][g]).op = "go" /\ UNCHANGED <<stored, refs, fc, wants, kids, large, phase, past>>
  BY DEF Go, store, world
<1>2. \/ fill' = fill \/ fill' = [fill EXCEPT ![f].tokens = fill[f].tokens + 1]
  BY DEF Go
<1>3. /\ \A e \in Fillers \ {f} : fill'[e] = fill[e]
      /\ fill'[f].state = fill[f].state /\ fill'[f].incs = fill[f].incs
  BY <1>2 DEF FillInv, Types, Fields
<1>4. /\ \A e \in Fillers \ {f} : go'[e] = go[e]
      /\ \A h \in (0..MaxG) \ {g} : go[f][h] # <<>> => go'[f][h] = go[f][h]
  <2> DEFINE u == Body(Head(go[f][g])) \o Rest(f, g)
             s == Tail(go[f][g])
             t == <<Op("release", Head(go[f][g]).key, Head(go[f][g]).how)>> \o Body(Head(go[f][g]))
  <2>1. \/ go' = [go EXCEPT ![f][g] = u]
        \/ \E n \in 1..MaxG : go[f][n] = <<>> /\ go' = [go EXCEPT ![f][g] = s, ![f][n] = t]
    BY DEF Go, Do
  <2> HIDE DEF u, s, t
  <2>2. CASE go' = [go EXCEPT ![f][g] = u]
    BY <2>2 DEF FillInv, Types
  <2>3. ASSUME NEW n \in 1..MaxG, go[f][n] = <<>>, go' = [go EXCEPT ![f][g] = s, ![f][n] = t]
        PROVE  /\ \A e \in Fillers \ {f} : go'[e] = go[e]
               /\ \A h \in (0..MaxG) \ {g} : go[f][h] # <<>> => go'[f][h] = go[f][h]
    BY <2>3 DEF FillInv, Types
  <2> QED
    BY <2>1, <2>2, <2>3
<1>5. \A k : Hands(k) \subseteq Hands(k)'
  <2>1. \A k : <<f, g>> \notin Hands(k)
    BY <1>1 DEF Hands, Holds
  <2> QED
    BY <1>4, <2>1, HandsStay
<1>6. \A k : Kept(k)' = Kept(k)
  BY <1>3, KeptSame DEF Running
<1> QED
  BY <1>1, <1>5, <1>6, HoldKeeps

\* The steps that leave a reference in hand where it is.
LEMMA HoldPlain ==
  ASSUME FillInv, HoldInv, NEW f \in Fillers, NEW g \in 0..MaxG, go[f][g] # <<>>,
         Release(f, g) \/ Fail(f, g) \/ Get(f, g) \/ Receive(f, g)
         \/ Terminated(f, g) \/ Unrequested(f, g)
  PROVE  HoldInv'
<1> DEFINE o == Head(go[f][g])
<1>1. UNCHANGED <<fc, phase>>
  BY DEF Release, Fail, Get, Receive, Terminated, Unrequested, store
<1>2. PICK s : go' = [go EXCEPT ![f][g] = s]
  BY DEF Release, Fail, Get, Receive, Terminated, Unrequested, NoRegistry, Do
<1>3. /\ go'[f][g] = s /\ \A e \in Fillers \ {f} : go'[e] = go[e]
      /\ \A h \in (0..MaxG) \ {g} : go'[f][h] = go[f][h]
  BY <1>2 DEF FillInv, Types
<1>4. o \in Ops /\ Rest(f, g) \in Seq(Ops)
  BY AtHand
<1>5. past.dropped => past'.dropped
  <2>1. past' = past \/ past' = [past EXCEPT !.dropped = past.dropped \/ (o.op = "got" /\ o.inc = 1)]
    BY DEF Release, Fail, Get, Receive, Terminated, Unrequested, Lose
  <2> QED
    BY <2>1 DEF FillInv, Types, Pasts
<1>6. \A e \in Fillers : Running(e)' = Running(e) /\ fill'[e].incs = fill[e].incs
  <2>1. \/ fill' = fill \/ fill' = [fill EXCEPT ![f].tokens = fill[f].tokens - 1] \/ fill' = [fill EXCEPT ![f].errq = TRUE]
        \/ fill' = [fill EXCEPT ![f].state = "end", ![f].result = "err"]
        \/ fill' = [fill EXCEPT ![f].pre = fill[f].pre \cup {o.key}]
    BY DEF Release, Fail, Get, Receive, Terminated, Unrequested, NoRegistry
  <2>2. fill[f].state \notin {"idle", "over"}
    BY DEF FillInv, FillerInv, Quiet
  <2>3. /\ \A e \in Fillers \ {f} : fill'[e] = fill[e]
        /\ fill'[f].state \in {fill[f].state, "end"} /\ fill'[f].incs = fill[f].incs
    BY <2>1 DEF FillInv, Types, Fields
  <2> QED
    BY <2>2, <2>3 DEF Running
<1>7. \A k : Kept(k)' = Kept(k)
  BY <1>6, KeptSame
<1>8. CASE o.op \in {"got", "inc"} /\ o.inc = 1 /\ (Terminated(f, g) \/ Unrequested(f, g))
  <2>1. past'.dropped
    BY <1>8 DEF Terminated, Unrequested, Lose, FillInv, Types, Pasts
  <2> QED
    BY <1>1, <1>7, <2>1 DEF HoldInv
<1>9. CASE ~(o.op \in {"got", "inc"} /\ o.inc = 1 /\ (Terminated(f, g) \/ Unrequested(f, g)))
  <2>1. \A k : Holds(f, g, k) => Holds(f, g, k)'
    <3> SUFFICES ASSUME NEW k, Holds(f, g, k) PROVE Holds(f, g, k)'
      OBVIOUS
    <3> DEFINE q == [o EXCEPT !.op = "inc"]
    <3>1. o.op \in {"got", "inc"} /\ o.key = k /\ o.inc = 1
      BY DEF Holds
    <3>2. go' = [go EXCEPT ![f][g] = <<q>> \o Rest(f, g)]
      BY <1>9, <3>1 DEF Release, Fail, Get, Receive, Do
    <3>3. q.op = "inc" /\ q.key = k /\ q.inc = 1
      BY <1>4, <3>1 DEF Ops
    <3> HIDE DEF q
    <3>4. <<q>> \o Rest(f, g) # <<>> /\ Head(<<q>> \o Rest(f, g)) = q
      BY <1>4
    <3>5. go'[f][g] = <<q>> \o Rest(f, g)
      BY <3>2 DEF FillInv, Types
    <3> QED
      BY <3>3, <3>4, <3>5 DEF Holds
  <2>2. \A k : Hands(k) \subseteq Hands(k)'
    <3>1. \A k : Hands(k) \ {<<f, g>>} \subseteq Hands(k)'
      BY <1>3, HandsStay
    <3>2. \A k : <<f, g>> \in Hands(k) => <<f, g>> \in Hands(k)'
      BY <2>1 DEF Hands
    <3> QED
      BY <3>1, <3>2
  <2> QED
    BY <1>1, <1>5, <1>7, <2>2, HoldKeeps
<1> QED
  BY <1>8, <1>9

\* An object that is found by Want goes into the hand of its goroutine.
LEMMA HoldWant ==
  ASSUME FillInv, HoldInv, NEW f \in Fillers, NEW g \in 0..MaxG, go[f][g] # <<>>, Want(f, g)
  PROVE  HoldInv'
<1> DEFINE o == Head(go[f][g])
           q == [o EXCEPT !.op = "got", !.rc = refs'[o.key] - fc'[o.key]]
<1>1. o.op = "want" /\ UNCHANGED <<fill, phase, past>>
  BY DEF Want
<1>2. PICK s : go' = [go EXCEPT ![f][g] = s]
  BY DEF Want, Do
<1>3. /\ go'[f][g] = s /\ \A e \in Fillers \ {f} : go'[e] = go[e]
      /\ \A h \in (0..MaxG) \ {g} : go'[f][h] = go[f][h]
  BY <1>2 DEF FillInv, Types
<1>4. o \in Ops /\ Rest(f, g) \in Seq(Ops) /\ o.key \in Keys /\ o.inc \in {0, 1}
  <2>1. o \in Ops /\ Rest(f, g) \in Seq(Ops)
    BY AtHand
  <2> QED
    BY <2>1 DEF Ops
<1>5. \A k : Kept(k)' = Kept(k)
  BY <1>1, KeptSame DEF Running
<1>6. \A k : <<f, g>> \notin Hands(k)
  BY <1>1 DEF Hands, Holds
<1>7. \A k : Hands(k) \subseteq Hands(k)'
  BY <1>3, <1>6, HandsStay
<1>8. CASE fc' = fc
  BY <1>1, <1>5, <1>7, <1>8, HoldKeeps
<1>9. CASE fc' = [fc EXCEPT ![o.key] = fc[o.key] + o.inc] /\ go' = [go EXCEPT ![f][g] = <<q>> \o Rest(f, g)]
  <2>1. fc' \in [Keys -> Nat] /\ fc'[o.key] = fc[o.key] + o.inc /\ \A j \in Keys \ {o.key} : fc'[j] = fc[j]
    BY <1>4, <1>9 DEF HoldInv
  <2>2. ASSUME NEW j \in Keys, Backed(j), fc'[j] = fc[j] PROVE Backed(j)'
    <3>1. fc'[j] <= fc[j] /\ fc'[j] \in Nat /\ IsFiniteSet(Kept(j)')
      BY <1>5, <2>1, <2>2 DEF HoldInv
    <3> QED
      BY <1>5, <1>7, <2>2, <3>1, BackedStays
  <2>3. ASSUME o.inc = 1, NEW k \in Keys, k = o.key, Backed(k) PROVE Backed(k)'
    <3>1. Holds(f, g, k)'
      <4>1. q.op = "got" /\ q.key = k /\ q.inc = 1
        BY <1>4, <2>3 DEF Ops
      <4> HIDE DEF q
      <4>2. <<q>> \o Rest(f, g) # <<>> /\ Head(<<q>> \o Rest(f, g)) = q
        BY <1>4
      <4>3. go'[f][g] = <<q>> \o Rest(f, g)
        BY <1>9 DEF FillInv, Types
      <4> QED
        BY <4>1, <4>2, <4>3 DEF Holds
    <3>2. Hands(k) \cup {<<f, g>>} \subseteq Hands(k)'
      BY <1>7, <3>1 DEF Hands
    <3>3. Hands(k) \in SUBSET (Fillers \X (0..MaxG)) /\ Hands(k)' \in SUBSET (Fillers \X (0..MaxG))
      BY DEF Hands
    <3>4. IsFiniteSet(Hands(k)) /\ IsFiniteSet(Hands(k)') /\ Cardinality(Hands(k)) \in Nat /\ Cardinality(Hands(k)') \in Nat
      BY <3>3, PairsFinite
    <3>5. Cardinality(Hands(k) \cup {<<f, g>>}) = Cardinality(Hands(k)) + 1
      BY <1>6, <3>4, FS_AddElement
    <3>6. Cardinality(Hands(k)) + 1 <= Cardinality(Hands(k)')
      BY <3>2, <3>4, <3>5, FS_Subset
    <3>7. k \in Keys /\ fc[k] \in Nat /\ fc'[k] = fc[k] + 1 /\ Cardinality(Kept(k)) \in Nat /\ Kept(k)' = Kept(k)
      BY <1>4, <1>5, <2>1, <2>3, FS_CardinalityType DEF HoldInv
    <3>8. fc[k] <= Cardinality(Hands(k)) + Cardinality(Kept(k))
      BY <2>3 DEF Backed
    <3>9. fc'[k] <= Cardinality(Hands(k)') + Cardinality(Kept(k)')
      BY <3>4, <3>6, <3>7, <3>8
    <3> QED
      BY <3>9 DEF Backed
  <2>4. \A j \in Keys : Backed(j) => Backed(j)'
    <3> SUFFICES ASSUME NEW j \in Keys, Backed(j) PROVE Backed(j)'
      OBVIOUS
    <3>1. CASE j = o.key /\ o.inc = 1
      BY <2>3, <3>1
    <3>2. CASE ~(j = o.key /\ o.inc = 1)
      <4>1. fc'[j] = fc[j]
        BY <1>4, <2>1, <3>2 DEF HoldInv
      <4> QED
        BY <2>2, <4>1
    <3> QED
      BY <3>1, <3>2
  <2> QED
    BY <1>1, <1>5, <2>1, <2>4 DEF HoldInv
<1>10. fc' = fc \/ (fc' = [fc EXCEPT ![o.key] = fc[o.key] + o.inc] /\ go' = [go EXCEPT ![f][g] = <<q>> \o Rest(f, g)])
  BY DEF Want, Do
<1> QED
  BY <1>8, <1>9, <1>10

\* Inc moves the reference from the hand of its goroutine into the count.
LEMMA HoldInc ==
  ASSUME FillInv, HoldInv, NEW f \in Fillers, NEW g \in 0..MaxG, go[f][g] # <<>>, Inc(f, g)
  PROVE  HoldInv'
<1> DEFINE o == Head(go[f][g])
<1>1. o.op = "inc" /\ UNCHANGED <<fc, phase>>
  BY DEF Inc, store
<1>2. PICK s : go' = [go EXCEPT ![f][g] = s]
  BY DEF Inc, Do
<1>3. /\ go'[f][g] = s /\ \A e \in Fillers \ {f} : go'[e] = go[e]
      /\ \A h \in (0..MaxG) \ {g} : go'[f][h] = go[f][h]
  BY <1>2 DEF FillInv, Types
<1>4. o.key \in Keys /\ o.inc \in {0, 1}
  <2>1. o \in Ops
    BY AtHand
  <2> QED
    BY <2>1 DEF Ops
<1> PICK k \in Keys : k = o.key
  BY <1>4
<1>5. past.dropped => past'.dropped
  <2>1. \/ past' = past
        \/ past' = [past EXCEPT !.skipped = past.skipped \cup {k}, !.twice = past.twice \/ InHand(f, k) # {g}]
    BY DEF Inc
  <2> QED
    BY <2>1 DEF FillInv, Types, Pasts
<1>6. PICK p : fill' = [fill EXCEPT ![f].incs[k] = fill[f].incs[k] + o.inc, ![f].pre = p]
  BY DEF Inc
<1>7. /\ \A e \in Fillers \ {f} : fill'[e] = fill[e]
      /\ fill'[f].state = fill[f].state
      /\ fill'[f].incs = [fill[f].incs EXCEPT ![k] = fill[f].incs[k] + o.inc]
      /\ fill[f].incs \in [Keys -> Nat]
  BY <1>6 DEF FillInv, Types, Fields
<1>8. \A j : Hands(j) \ {<<f, g>>} \subseteq Hands(j)'
  BY <1>3, HandsStay
<1>9. fill[f].state \notin {"idle", "over"}
  BY DEF FillInv, FillerInv, Quiet
<1> HIDE DEF o
<1>10. /\ \A j \in Keys : Running(f) /\ fill'[f].incs[j] = IF j = k THEN fill[f].incs[k] + o.inc ELSE fill[f].incs[j]
       /\ \A e \in Fillers : Running(e)' = Running(e)
  BY <1>4, <1>7, <1>9 DEF Running
<1>11. CASE o.inc = 0
  <2>1. \A j \in Keys : fill'[f].incs[j] = fill[f].incs[j]
    BY <1>4, <1>7, <1>10, <1>11
  <2>2. \A j \in Keys : Kept(j)' = Kept(j)
    BY <1>7, <1>10, <2>1 DEF Kept
  <2>3. \A j \in Keys : <<f, g>> \notin Hands(j)
    BY <1>11 DEF Hands, Holds, o
  <2> QED
    BY <1>1, <1>5, <1>8, <2>2, <2>3, HoldKeeps
<1>12. CASE o.inc = 1
  <2> DEFINE n == fill[f].incs[k] + 1
             x == <<f, n>>
  <2>1. n \in Nat \ {0} /\ fill'[f].incs[k] = n /\ fill[f].incs[k] \in Nat /\ fill[f].incs[k] = n - 1
    BY <1>4, <1>7, <1>12
  <2> HIDE DEF n
  <2>2. Kept(k)' = Kept(k) \cup {x} /\ x \notin Kept(k)
    <3>1. ASSUME NEW w \in Fillers \X (Nat \ {0}) PROVE w \in Kept(k)' <=> w \in Kept(k) \/ w = x
      <4>1. w = <<w[1], w[2]>> /\ w[1] \in Fillers /\ w[2] \in Nat \ {0}
        BY <3>1
      <4>2. CASE w[1] # f
        BY <1>7, <1>10, <4>1, <4>2 DEF Kept
      <4>3. CASE w[1] = f
        <5>1. w[2] <= n <=> w[2] <= n - 1 \/ w[2] = n
          BY <2>1, <4>1
        <5> QED
          BY <1>10, <2>1, <4>1, <4>3, <5>1 DEF Kept
      <4> QED
        BY <4>2, <4>3
    <3>2. x \in Fillers \X (Nat \ {0})
      BY <2>1
    <3>3. ~(n <= n - 1)
      BY <2>1
    <3>4. x \notin Kept(k)
      BY <2>1, <3>3 DEF Kept
    <3> QED
      BY <3>1, <3>2, <3>4 DEF Kept
  <2>3. \A j \in Keys \ {k} : Kept(j)' = Kept(j) /\ Hands(j) \subseteq Hands(j)'
    <3> TAKE j \in Keys \ {k}
    <3>1. fill'[f].incs[j] = fill[f].incs[j]
      BY <1>10
    <3>2. Kept(j)' = Kept(j)
      BY <1>7, <1>10, <3>1 DEF Kept
    <3>3. <<f, g>> \notin Hands(j)
      BY DEF Hands, Holds, o
    <3> QED
      BY <1>8, <3>2, <3>3
  <2>4. IsFiniteSet(Kept(k)) /\ IsFiniteSet(Kept(k)') /\ Cardinality(Kept(k)') = Cardinality(Kept(k)) + 1 /\ Cardinality(Kept(k)) \in Nat
    <3>1. IsFiniteSet(Kept(k))
      BY <1>4 DEF HoldInv
    <3> QED
      BY <2>2, <3>1, FS_AddElement, FS_CardinalityType
  <2>5. ASSUME Backed(k) PROVE Backed(k)'
    <3>1. Hands(k) \in SUBSET (Fillers \X (0..MaxG)) /\ Hands(k)' \in SUBSET (Fillers \X (0..MaxG))
      BY DEF Hands
    <3>2. IsFiniteSet(Hands(k)) /\ IsFiniteSet(Hands(k)') /\ Cardinality(Hands(k)) \in Nat /\ Cardinality(Hands(k)') \in Nat
      BY <3>1, PairsFinite
    <3>3. Cardinality(Hands(k) \ {<<f, g>>}) \in {Cardinality(Hands(k)), Cardinality(Hands(k)) - 1}
      BY <3>2, FS_RemoveElement
    <3>4. Cardinality(Hands(k) \ {<<f, g>>}) <= Cardinality(Hands(k)')
      BY <1>8, <3>2, FS_Subset
    <3>5. fc'[k] = fc[k] /\ fc[k] \in Nat /\ fc[k] <= Cardinality(Hands(k)) + Cardinality(Kept(k))
      BY <1>1, <1>4, <2>5 DEF HoldInv, Backed
    <3>6. fc'[k] <= Cardinality(Hands(k)') + Cardinality(Kept(k)')
      BY <2>4, <3>2, <3>3, <3>4, <3>5
    <3> QED
      BY <3>6 DEF Backed
  <2>6. ASSUME NEW j \in Keys \ {k}, Backed(j) PROVE Backed(j)'
    <3>1. fc'[j] <= fc[j] /\ fc'[j] \in Nat /\ IsFiniteSet(Kept(j)')
      BY <1>1, <2>3 DEF HoldInv
    <3> QED
      BY <2>3, <2>6, <3>1, BackedStays
  <2>7. \A j \in Keys : IsFiniteSet(Kept(j)')
    BY <2>3, <2>4 DEF HoldInv
  <2> QED
    BY <1>1, <1>5, <2>5, <2>6, <2>7 DEF HoldInv
<1> QED
  BY <1>4, <1>11, <1>12

LEMMA HoldHead ==
  ASSUME FillInv, HoldInv, NEW f \in Fillers, Select(f) \/ Forget(f) \/ Close(f) \/ NoConnections(f)
  PROVE  HoldInv'
<1>1. UNCHANGED <<fc, go, phase, past>>
  BY DEF Select, Forget, Close, NoConnections, store
<1>2. fill[f] \in Fields /\ fill \in [Fillers -> Fields]
  BY DEF FillInv, Types
<1>3. \A k : Hands(k)' = Hands(k)
  BY <1>1 DEF Hands, Holds
<1>4. CASE Forget(f)
  <2>1. /\ \A e \in Fillers \ {f} : fill'[e] = fill[e]
        /\ fill'[f] = [Idle EXCEPT !.rounds = fill[f].rounds] /\ fill[f].state = "over"
    BY <1>2, <1>4 DEF Forget
  <2>2. ~Running(f) /\ ~Running(f)'
    BY <2>1 DEF Running, Idle
  <2>3. \A k : Kept(k)' = Kept(k)
    <3> SUFFICES ASSUME NEW k, NEW w \in Fillers \X (Nat \ {0})
                 PROVE  (Running(w[1])' /\ w[2] <= fill'[w[1]].incs[k]) <=> (Running(w[1]) /\ w[2] <= fill[w[1]].incs[k])
      BY DEF Kept
    <3>1. CASE w[1] = f
      BY <2>2, <3>1
    <3>2. CASE w[1] # f
      BY <2>1, <3>2 DEF Running
    <3> QED
      BY <3>1, <3>2
  <2> QED
    BY <1>1, <1>3, <2>3, HoldKeeps
<1>5. CASE Select(f) \/ Close(f) \/ NoConnections(f)
  <2>1. fill[f].state = "loop"
    BY <1>5 DEF Select, Close, NoConnections
  <2>2. /\ \A e \in Fillers \ {f} : fill'[e] = fill[e]
        /\ fill'[f].state \in {"loop", "end"} /\ fill'[f].incs = fill[f].incs
    <3>1. CASE Select(f)
      BY <3>1, <1>2 DEF Select, Fields
    <3>2. CASE Close(f)
      BY <3>2, <1>2 DEF Close, Fields
    <3>3. CASE NoConnections(f)
      BY <3>3, <1>2 DEF NoConnections, Fields
    <3> QED
      BY <1>5, <3>1, <3>2, <3>3
  <2>3. \A e \in Fillers : Running(e)' = Running(e) /\ fill'[e].incs = fill[e].incs
    BY <2>1, <2>2 DEF Running
  <2>4. \A k : Kept(k)' = Kept(k)
    BY <2>3, KeptSame
  <2> QED
    BY <1>1, <1>3, <2>4, HoldKeeps
<1> QED
  BY <1>4, <1>5

\* Run counts the Root, of which the Cache holds no reference.
LEMMA HoldRun ==
  ASSUME FillInv, HoldInv, NEW f \in Fillers, Run(f)
  PROVE  HoldInv'
<1>1. /\ UNCHANGED <<fc, phase>> /\ fill[f].state = "idle" /\ Roots[f] \in Keys
      /\ fill' = [fill EXCEPT ![f] = [Idle EXCEPT !.state = "loop", !.rounds = fill[f].rounds + 1, !.incs = [Zero EXCEPT ![Roots[f]] = 1]]]
      /\ past' = [past EXCEPT !.overlapped = past.overlapped \/ \E e \in Fillers : Running(e)]
  BY RootsAssumption DEF Run
<1>2. PICK s : go' = [go EXCEPT ![f][0] = s]
  BY DEF Run, Do
<1>3. /\ \A e \in Fillers \ {f} : fill'[e] = fill[e]
      /\ fill'[f].state = "loop" /\ fill'[f].incs = [Zero EXCEPT ![Roots[f]] = 1]
  BY <1>1 DEF FillInv, Types, Idle
<1>4. past.dropped => past'.dropped
  BY <1>1 DEF FillInv, Types, Pasts
<1>5. \A k : Hands(k) \subseteq Hands(k)'
  <2>1. \A g \in 0..MaxG : go[f][g] = <<>>
    BY <1>1 DEF FillInv, FillerInv, Quiet
  <2>2. \A e \in Fillers \ {f} : go'[e] = go[e]
    BY <1>2 DEF FillInv, Types
  <2> QED
    BY <2>1, <2>2 DEF Hands, Holds
<1>6. ASSUME NEW k \in Keys PROVE Kept(k)' = Kept(k) \/ Kept(k)' = Kept(k) \cup {<<f, 1>>}
  <2> DEFINE n == IF k = Roots[f] THEN 1 ELSE 0
  <2>1. fill'[f].incs[k] = n /\ n \in {0, 1}
    BY <1>1, <1>3 DEF Zero
  <2> HIDE DEF n
  <2>2. ASSUME NEW w \in Fillers \X (Nat \ {0}) PROVE w \in Kept(k)' <=> w \in Kept(k) \/ (n = 1 /\ w = <<f, 1>>)
    <3>1. w = <<w[1], w[2]>> /\ w[1] \in Fillers /\ w[2] \in Nat \ {0}
      BY <2>2
    <3>2. CASE w[1] # f
      BY <1>3, <3>1, <3>2 DEF Kept, Running
    <3>3. CASE w[1] = f
      <4>1. w \notin Kept(k)
        BY <1>1, <3>3 DEF Kept, Running
      <4>2. w[2] <= n <=> n = 1 /\ w[2] = 1
        BY <2>1, <3>1
      <4>3. w \in Kept(k)' <=> w[2] <= n
        BY <1>3, <2>1, <2>2, <3>3 DEF Kept, Running
      <4> QED
        BY <3>1, <3>3, <4>1, <4>2, <4>3
    <3> QED
      BY <3>2, <3>3
  <2>3. Kept(k) \subseteq Fillers \X (Nat \ {0}) /\ Kept(k)' \subseteq Fillers \X (Nat \ {0}) /\ <<f, 1>> \in Fillers \X (Nat \ {0})
    BY DEF Kept
  <2> QED
    BY <2>1, <2>2, <2>3
<1>7. \A k \in Keys : Kept(k) \subseteq Kept(k)' /\ IsFiniteSet(Kept(k)')
  <2> TAKE k \in Keys
  <2>1. IsFiniteSet(Kept(k)) /\ IsFiniteSet(Kept(k) \cup {<<f, 1>>})
    BY FS_AddElement DEF HoldInv
  <2> QED
    BY <1>6, <2>1
<1>8. ASSUME NEW k \in Keys, Backed(k) PROVE Backed(k)'
  <2>1. fc'[k] <= fc[k] /\ fc'[k] \in Nat
    BY <1>1 DEF HoldInv
  <2> QED
    BY <1>5, <1>7, <1>8, <2>1, BackedStays
<1> QED
  BY <1>1, <1>4, <1>7, <1>8 DEF HoldInv

\* The numbers of the references a Filler has counted.
LEMMA PairsCount ==
  ASSUME NEW f, NEW n \in Nat
  PROVE  IsFiniteSet({f} \X (1..n)) /\ Cardinality({f} \X (1..n)) = n
<1>1. IsFiniteSet({f}) /\ Cardinality({f}) = 1
  BY FS_Singleton
<1>2. IsFiniteSet(1..n) /\ Cardinality(1..n) = n
  BY FS_Interval
<1> DEFINE S == {f}
           T == 1..n
<1> HIDE DEF S, T
<1>3. IsFiniteSet(S) /\ IsFiniteSet(T) /\ Cardinality(S) = 1 /\ Cardinality(T) = n
  BY <1>1, <1>2 DEF S, T
<1>4. IsFiniteSet(S \X T) /\ Cardinality(S \X T) = Cardinality(S) * Cardinality(T)
  BY <1>3, FS_Product
<1>5. 1 * n = n
  OBVIOUS
<1>6. IsFiniteSet(S \X T) /\ Cardinality(S \X T) = n
  BY <1>3, <1>4, <1>5
<1> QED
  BY <1>6 DEF S, T

\* A Filler that ends gives back what it has counted, and no more.
LEMMA HoldFinish ==
  ASSUME FillInv, HoldInv, NEW f \in Fillers, End(f)
  PROVE  HoldInv'
<1>1. /\ UNCHANGED go /\ fill' = [fill EXCEPT ![f].state = "over"] /\ fill[f].state = "end"
      /\ past' = [past EXCEPT !.unfinished = past.unfinished \/ ~Whole(Roots[f])]
      /\ \/ phase' = "panic" /\ UNCHANGED fc
         \/ /\ Overdrawn(f) = {} /\ UNCHANGED phase
            /\ fc' = [k \in Keys |-> IF k \in Finc(f) THEN fc[k] - fill[f].incs[k] ELSE fc[k]]
  BY DEF End
<1>2. /\ \A e \in Fillers \ {f} : fill'[e] = fill[e]
      /\ fill'[f].state = "over" /\ fill[f].incs \in [Keys -> Nat]
  BY <1>1 DEF FillInv, Types, Fields
<1>3. past'.dropped = past.dropped
  BY <1>1 DEF FillInv, Types, Pasts
<1>4. \A k : Hands(k)' = Hands(k)
  BY <1>1 DEF Hands, Holds
<1>5. ASSUME NEW k \in Keys
      PROVE  /\ Kept(k)' = Kept(k) \ ({f} \X (1..fill[f].incs[k])) /\ {f} \X (1..fill[f].incs[k]) \subseteq Kept(k)
             /\ IsFiniteSet(Kept(k)') /\ Cardinality(Kept(k)') = Cardinality(Kept(k)) - fill[f].incs[k]
  <2> DEFINE n == fill[f].incs[k]
  <2>1. n \in Nat
    BY <1>2
  <2> HIDE DEF n
  <2>2. ASSUME NEW w \in Fillers \X (Nat \ {0}) PROVE w \in Kept(k)' <=> w \in Kept(k) /\ w \notin {f} \X (1..n)
    <3>1. w = <<w[1], w[2]>> /\ w[1] \in Fillers /\ w[2] \in Nat \ {0}
      BY <2>2
    <3>2. CASE w[1] # f
      BY <1>2, <3>1, <3>2 DEF Kept, Running
    <3>3. CASE w[1] = f
      <4>1. w \notin Kept(k)'
        BY <1>2, <3>3 DEF Kept, Running
      <4>2. w \in Kept(k) => w[2] \in 1..n
        BY <2>1, <3>1, <3>3 DEF Kept, n
      <4> QED
        BY <3>1, <3>3, <4>1, <4>2
    <3> QED
      BY <3>2, <3>3
  <2>3. {f} \X (1..n) \subseteq Kept(k)
    <3> SUFFICES ASSUME NEW i \in 1..n PROVE <<f, i>> \in Kept(k)
      OBVIOUS
    <3>1. i \in Nat \ {0} /\ i <= n
      BY <2>1
    <3> QED
      BY <1>1, <3>1 DEF Kept, Running, n
  <2>4. Kept(k)' = Kept(k) \ ({f} \X (1..n))
    <3>1. Kept(k) \subseteq Fillers \X (Nat \ {0}) /\ Kept(k)' \subseteq Fillers \X (Nat \ {0})
      BY DEF Kept
    <3> QED
      BY <2>2, <3>1
  <2>5. IsFiniteSet(Kept(k)) /\ Kept(k) \cap ({f} \X (1..n)) = {f} \X (1..n)
    BY <2>3 DEF HoldInv
  <2>6. IsFiniteSet(Kept(k)') /\ Cardinality(Kept(k)') = Cardinality(Kept(k)) - Cardinality({f} \X (1..n))
    <3> DEFINE T == {f} \X (1..n)
               S == Kept(k)
    <3>1. IsFiniteSet(S) /\ S \cap T = T
      BY <2>5
    <3> HIDE DEF T, S
    <3>2. IsFiniteSet(S \ T) /\ Cardinality(S \ T) = Cardinality(S) - Cardinality(T)
      BY <3>1, FS_Difference
    <3> QED
      BY <2>4, <3>2 DEF S, T
  <2> QED
    BY <2>1, <2>3, <2>4, <2>6, PairsCount DEF n
<1>6. fc' \in [Keys -> Nat]
  <2>1. CASE UNCHANGED fc
    BY <2>1 DEF HoldInv
  <2>2. CASE /\ Overdrawn(f) = {}
             /\ fc' = [k \in Keys |-> IF k \in Finc(f) THEN fc[k] - fill[f].incs[k] ELSE fc[k]]
    <3>1. \A k \in Finc(f) : fc[k] \in Nat /\ fill[f].incs[k] \in Nat /\ ~(fill[f].incs[k] > fc[k])
      BY <1>2, <2>2 DEF Overdrawn, Finc, HoldInv
    <3>2. \A k \in Finc(f) : fc[k] - fill[f].incs[k] \in Nat
      BY <3>1
    <3> QED
      BY <2>2, <3>2 DEF HoldInv
  <2> QED
    BY <1>1, <2>1, <2>2
<1>7. ASSUME phase' = "run", phase = "run", NEW k \in Keys, Backed(k) PROVE Backed(k)'
  <2> DEFINE n == fill[f].incs[k]
             H == Cardinality(Hands(k))
             K == Cardinality(Kept(k))
  <2>1. n \in Nat /\ fc[k] \in Nat /\ fc'[k] \in Nat /\ H \in Nat
    <3>1. Hands(k) \in SUBSET (Fillers \X (0..MaxG))
      BY DEF Hands
    <3> QED
      BY <1>2, <1>6, <3>1, PairsFinite DEF HoldInv
  <2>2. Cardinality(Kept(k)') = K - n /\ Cardinality(Hands(k)') = H /\ Cardinality(Kept(k)') \in Nat /\ K \in Nat
    BY <1>4, <1>5, FS_CardinalityType DEF HoldInv
  <2>3. fc'[k] = IF n > 0 /\ fc[k] > 0 THEN fc[k] - n ELSE fc[k]
    BY <1>1, <1>7 DEF Finc
  <2>4. fc[k] <= H + K
    BY <1>7 DEF Backed
  <2> HIDE DEF n, H, K
  <2>5. fc'[k] <= H + (K - n)
    <3>1. CASE n > 0 /\ fc[k] > 0
      BY <2>1, <2>2, <2>3, <2>4, <3>1
    <3>2. CASE n = 0
      BY <2>1, <2>2, <2>3, <2>4, <3>2
    <3>3. CASE fc[k] = 0
      BY <2>1, <2>2, <2>3, <3>3
    <3> QED
      BY <2>1, <3>1, <3>2, <3>3
  <2>6. fc'[k] <= Cardinality(Hands(k)') + Cardinality(Kept(k)')
    BY <2>2, <2>5
  <2> QED
    BY <2>6 DEF Backed
<1>8. phase' = "run" => phase = "run"
  BY <1>1
<1> QED
  BY <1>3, <1>5, <1>6, <1>7, <1>8 DEF HoldInv

\* What becomes of the goroutines that wait for an object.
LEMMA WokenSame ==
  ASSUME FillInv, NEW k \in Keys, NEW name, NEW rc, go' = Woken(k, name, rc)
  PROVE  \A j : Hands(j) \subseteq Hands(j)'
<1> SUFFICES ASSUME NEW j, NEW w \in Hands(j) PROVE w \in Hands(j)'
  OBVIOUS
<1>1. w = <<w[1], w[2]>> /\ w[1] \in Fillers /\ w[2] \in 0..MaxG /\ Holds(w[1], w[2], j)
  BY DEF Hands
<1>2. <<w[1], w[2]>> \notin wants[k]
  BY <1>1 DEF Holds, FillInv, Waiting
<1>3. go'[w[1]][w[2]] = go[w[1]][w[2]]
  BY <1>1, <1>2 DEF Woken
<1> QED
  BY <1>1, <1>3 DEF Hands, Holds

\* A delivered object goes into the hands of those who wait for it, and each of
\* them that counts it is a reference.
LEMMA HoldDeliver ==
  ASSUME FillInv, HoldInv, NEW k \in Keys, Deliver(k)
  PROVE  HoldInv'
<1> DEFINE W == {w \in wants[k] : Head(go[w[1]][w[2]]).inc = 1}
           n == Cardinality(W)
           c == n - (n + fc[k])
<1>1. /\ fc' = [fc EXCEPT ![k] = fc[k] + n] /\ go' = Woken(k, "got", c) /\ UNCHANGED <<fill, phase, past>>
  BY DEF Deliver
<1>2. wants[k] \subseteq Fillers \X (0..MaxG)
  BY DEF FillInv, Types
<1>3. IsFiniteSet(W) /\ n \in Nat
  <2>1. W \in SUBSET (Fillers \X (0..MaxG))
    BY <1>2
  <2> QED
    BY <2>1, PairsFinite
<1>4. \A j : Kept(j)' = Kept(j)
  BY <1>1, KeptSame DEF Running
<1>5. \A j : Hands(j) \subseteq Hands(j)'
  BY <1>1, WokenSame
<1>6. ASSUME NEW w \in W PROVE w \notin Hands(k) /\ w \in Hands(k)'
  <2>1. w = <<w[1], w[2]>> /\ w[1] \in Fillers /\ w[2] \in 0..MaxG /\ w \in wants[k]
    BY <1>2
  <2> DEFINE o == Head(go[w[1]][w[2]])
             q == [o EXCEPT !.op = "got", !.rc = c]
  <2>2. go[w[1]][w[2]] # <<>> /\ o.op = "wait" /\ o.key = k /\ o.inc = 1
    BY <2>1, <1>6 DEF FillInv, Waiting
  <2>3. o \in Ops /\ Rest(w[1], w[2]) \in Seq(Ops)
    BY <2>1, <2>2, AtHand
  <2>4. go'[w[1]][w[2]] = <<q>> \o Rest(w[1], w[2])
    BY <1>1, <2>1 DEF Woken
  <2>5. w \notin Hands(k)
    BY <2>2 DEF Hands, Holds
  <2> HIDE DEF c
  <2>6. q.op = "got" /\ q.key = k /\ q.inc = 1
    BY <2>2, <2>3 DEF Ops
  <2> HIDE DEF o, q
  <2>7. <<q>> \o Rest(w[1], w[2]) # <<>> /\ Head(<<q>> \o Rest(w[1], w[2])) = q
    BY <2>3
  <2>8. Holds(w[1], w[2], k)'
    BY <2>4, <2>6, <2>7 DEF Holds
  <2>9. w \in Hands(k)'
    BY <2>1, <2>8 DEF Hands
  <2> QED
    BY <2>5, <2>9
<1> HIDE DEF c, n, W
<1>7. fc' \in [Keys -> Nat] /\ fc'[k] = fc[k] + n /\ \A j \in Keys \ {k} : fc'[j] = fc[j]
  BY <1>1, <1>3 DEF HoldInv
<1>8. ASSUME Backed(k) PROVE Backed(k)'
  <2> DEFINE X == W
             S == Hands(k)
             H == Cardinality(Hands(k))
             K == Cardinality(Kept(k))
             T == Hands(k)'
  <2>1. Hands(k) \in SUBSET (Fillers \X (0..MaxG)) /\ Hands(k)' \in SUBSET (Fillers \X (0..MaxG))
    BY DEF Hands
  <2>2. /\ IsFiniteSet(S) /\ IsFiniteSet(T) /\ IsFiniteSet(X) /\ H \in Nat /\ Cardinality(T) \in Nat
        /\ S \cap X = {} /\ S \cup X \subseteq T /\ H = Cardinality(S) /\ n = Cardinality(X)
    BY <1>3, <1>5, <1>6, <2>1, PairsFinite DEF n
  <2>3. K \in Nat /\ Cardinality(Kept(k)') = K
    BY <1>4, FS_CardinalityType DEF HoldInv
  <2>4. fc[k] \in Nat /\ fc[k] <= H + K
    BY <1>8 DEF HoldInv, Backed
  <2> HIDE DEF X, S, H, K, T
  <2>5. Cardinality(S \cap X) = 0 /\ Cardinality(S \cup X) = Cardinality(S) + Cardinality(X) - Cardinality(S \cap X)
    <3>1. Cardinality(S \cap X) = 0
      BY <2>2, FS_EmptySet
    <3>2. Cardinality(S \cup X) = Cardinality(S) + Cardinality(X) - Cardinality(S \cap X)
      BY <2>2, FS_Union
    <3> QED
      BY <3>1, <3>2
  <2>6. Cardinality(S \cup X) = H + n
    BY <2>2, <2>5, <1>3
  <2>7. H + n <= Cardinality(T)
    BY <2>2, <2>6, FS_Subset
  <2>8. fc'[k] <= Cardinality(T) + Cardinality(Kept(k)')
    BY <1>3, <1>7, <2>2, <2>3, <2>4, <2>7
  <2> QED
    BY <2>8 DEF Backed, T
<1>9. ASSUME NEW j \in Keys, j # k, Backed(j) PROVE Backed(j)'
  <2>1. fc'[j] <= fc[j] /\ fc'[j] \in Nat /\ IsFiniteSet(Kept(j)')
    BY <1>4, <1>7, <1>9 DEF HoldInv
  <2> QED
    BY <1>4, <1>5, <1>9, <2>1, BackedStays
<1>10. \A j \in Keys : IsFiniteSet(Kept(j)')
  BY <1>4 DEF HoldInv
<1> QED
  BY <1>1, <1>7, <1>8, <1>9, <1>10 DEF HoldInv

LEMMA HoldRefuse ==
  ASSUME FillInv, HoldInv, NEW k \in Keys, Refuse(k)
  PROVE  HoldInv'
<1>1. go' = Woken(k, "refused", 0) /\ UNCHANGED <<fill, fc, phase, past>>
  BY DEF Refuse
<1>2. \A j : Kept(j)' = Kept(j)
  BY <1>1, KeptSame DEF Running
<1>3. \A j : Hands(j) \subseteq Hands(j)'
  BY <1>1, WokenSame
<1> QED
  BY <1>1, <1>2, <1>3, HoldKeeps

LEMMA HoldNext ==
  ASSUME FillInv, HoldInv, [Next]_vars
  PROVE  HoldInv'
<1>1. ASSUME NEW f \in Fillers, NEW g \in 0..MaxG, Step(f, g) PROVE HoldInv'
  BY <1>1, HoldGo, HoldPlain, HoldWant, HoldInc DEF Step
<1>2. ASSUME NEW f \in Fillers, Finish(f) PROVE HoldInv'
  BY <1>2, HoldHead, HoldFinish DEF Finish
<1>3. ASSUME NEW k \in Keys, Answer(k) PROVE HoldInv'
  BY <1>3, HoldDeliver, HoldRefuse DEF Answer
<1>4. ASSUME NEW f \in Fillers, Run(f) \/ Forget(f) \/ Close(f) \/ NoConnections(f) PROVE HoldInv'
  BY <1>4, HoldRun, HoldHead
<1>5. CASE UNCHANGED vars
  <2>1. UNCHANGED <<fc, go, fill, phase, past>>
    BY <1>5 DEF vars
  <2>2. \A k : Hands(k)' = Hands(k) /\ Kept(k)' = Kept(k)
    BY <2>1 DEF Hands, Holds, Kept, Running
  <2> QED
    BY <2>1, <2>2, HoldKeeps
<1> QED
  BY <1>1, <1>2, <1>3, <1>4, <1>5 DEF Next, Goroutines, Finishes, Peers, Heads, GiveUp

\* When no filling goes on the Cache holds no reference for one (apply and
\* reject end in Finc, fill.go), unless an object came to a closed Filler.
THEOREM FillHoldsEnd == Spec => []HoldsEnd
<1> DEFINE I == FillInv /\ HoldInv
<1>1. Init => I
  <2> SUFFICES ASSUME Init PROVE I
    OBVIOUS
  <2>1. \A k : Kept(k) = {}
    BY DEF Init, Kept, Running, Idle
  <2>2. \A k \in Keys : fc[k] = 0 /\ IsFiniteSet(Kept(k)) /\ Cardinality(Kept(k)) = 0
    BY <2>1, FS_EmptySet DEF Init, Zero
  <2>3. \A k \in Keys : Backed(k)
    <3> TAKE k \in Keys
    <3>1. Hands(k) \in SUBSET (Fillers \X (0..MaxG))
      BY DEF Hands
    <3>2. Cardinality(Hands(k)) \in Nat
      BY <3>1, PairsFinite
    <3> QED
      BY <2>2, <3>2 DEF Backed
  <2>4. fc \in [Keys -> Nat]
    BY DEF Init, Zero
  <2> QED
    BY <2>2, <2>3, <2>4, FillInit DEF HoldInv
<1>2. I /\ [Next]_vars => I'
  BY FillNext, HoldNext
<1>3. I => HoldsEnd
  <2> SUFFICES ASSUME FillInv, HoldInv, phase = "run", ~past.dropped,
                      \A f \in Fillers : fill[f].state \in {"idle", "over"}
               PROVE  fc = Zero
    BY DEF HoldsEnd
  <2>1. \A k : Hands(k) = {}
    BY DEF Hands, Holds, FillInv, FillerInv, Quiet
  <2>2. \A k : Kept(k) = {}
    BY DEF Kept, Running
  <2>3. \A k \in Keys : fc[k] \in Nat /\ fc[k] <= 0 + 0
    BY <2>1, <2>2, FS_EmptySet DEF HoldInv, Backed
  <2>4. \A k \in Keys : fc[k] = 0
    BY <2>3
  <2> QED
    BY <2>4 DEF HoldInv, Zero
<1> QED
  BY <1>1, <1>2, <1>3, PTL DEF Spec

=============================================================================
