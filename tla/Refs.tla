-------------------------------- MODULE Refs --------------------------------
(***************************************************************************)
(* A Refs (skyobject/registry/refs.go, refs_node.go): a list of hashes     *)
(* kept as a Merkle tree of some degree, loaded from the DB by need and    *)
(* saved node by node.                                                     *)
(*                                                                         *)
(* A hash is the record it is the hash of, so equal contents have equal    *)
(* hashes and what a hash stands for is everything below it.  A node gets  *)
(* a hash only when its record is saved (pack.Set), so whatever a hash     *)
(* holds is in the DB.  A node has kids: elements if its depth is 0,       *)
(* nodes otherwise.  Depths count from the leafs, as in the code.          *)
(*                                                                         *)
(* list is what the Refs should hold.  lost and dirty record the calls     *)
(* after which the saved tree may not be the tree in memory: dirty is what *)
(* LazyUpdating allows, lost is what no flag allows.                       *)
(***************************************************************************)
EXTENDS Integers, Sequences, SequencesExt

CONSTANTS
  Elements,    \* hashes of objects
  Blank,       \* the blank hash
  Degrees,     \* degrees of a Pack and of SetDegree
  Batches,     \* arguments of AppendHashes
  Ranges,      \* the pairs <<i, j>> of Slice
  Flags,       \* flags of a Pack: subsets of {"table", "entire", "lazy"}
  MaxLen,      \* bound of the length
  MaxCalls     \* bound of the number of calls that change the Refs

ASSUME SizesAssumption == Degrees \subseteq Nat \ {0, 1} /\ {MaxLen, MaxCalls} \subseteq Nat
ASSUME FlagsAssumption == Flags \subseteq SUBSET {"table", "entire", "lazy"}
ASSUME BatchesAssumption == \A s \in Batches : Len(s) > 0 /\ Blank \notin Elements

VARIABLES
  r,      \* the Refs
  list,   \* the hashes it should hold
  dirty,  \* changed under LazyUpdating and not rebuilt
  lost,   \* the calls that left a changed node unsaved, see Append
  reply,  \* what the last reading call has answered
  calls   \* number of calls that changed the Refs

vars == <<r, list, dirty, lost, reply, calls>>

Total(s) == FoldSeq(+, 0, s)
Count(s, h) == Len(SelectSeq(s, LAMBDA e : e = h))

Pow(a, b) == a^b

\* the depth of the smallest tree of a degree that holds fit elements
depthToFit(degree, fit) ==
  IF fit <= degree THEN 0 ELSE (CHOOSE n \in 1..fit : degree^n >= fit /\ (n = 1 \/ degree^(n - 1) < fit)) - 1

-----------------------------------------------------------------------------
(* Nodes: hashing and loading                                              *)

refsNode(h, ld, ct, kids) == [hash |-> h, length |-> 0, loaded |-> ld, content |-> ct, kids |-> kids]

NoKids == refsNode(Blank, TRUE, FALSE, <<>>)

HashesOf(n, d) == IF d = 0 THEN n.kids ELSE [k \in DOMAIN n.kids |-> n.kids[k].hash]

Encode(n, d) == [len |-> n.length, els |-> HashesOf(n, d)]

\* refsNode.updateHash: the root of the tree has no hash of its own
updateHash(n, d, top) ==
  IF Encode(n, d) = n.hash THEN n
  ELSE [n EXCEPT !.hash = IF top THEN Blank ELSE Encode(n, d), !.content = FALSE]

\* mutant of updateHashIfNeed: the change is marked and never saved
updateHashNever(n, d, need) == [n EXCEPT !.content = TRUE]

updateHashIfNeed(n, d, need) == IF need THEN updateHash(n, d, FALSE) ELSE [n EXCEPT !.content = TRUE]

RECURSIVE loadSubtree(_, _, _, _)

\* a branch is loaded at once only with the flags that load everything
loadBranch(h, d, all) ==
  LET br == refsNode(h, FALSE, FALSE, <<>>) IN IF all THEN loadSubtree(br, h, d, all) ELSE br

loadSubtree(n, er, d, all) ==
  [n EXCEPT !.length = er.len, !.loaded = TRUE,
            !.kids = IF d = 0 THEN er.els ELSE [k \in DOMAIN er.els |-> loadBranch(er.els[k], d - 1, all)]]

loadNodeIfNeed(n, d) == IF n.loaded THEN n ELSE loadSubtree(n, n.hash, d, FALSE)

RECURSIVE Below(_, _), Loaded(_, _)
\* the elements a record stands for, and the elements below a node
Below(er, d) ==
  IF d = 0 THEN er.els ELSE FlattenSeq([k \in DOMAIN er.els |-> IF er.els[k] = Blank THEN <<>> ELSE Below(er.els[k], d - 1)])

RECURSIVE ElementsOf(_, _)
ElementsOf(n, d) ==
  IF ~n.loaded THEN Below(n.hash, d)
  ELSE IF d = 0 THEN n.kids ELSE FlattenSeq([k \in DOMAIN n.kids |-> ElementsOf(n.kids[k], d - 1)])

Loaded(n, d) ==
  LET m == loadNodeIfNeed(n, d) IN
  IF d = 0 THEN m ELSE [m EXCEPT !.kids = [k \in DOMAIN @ |-> Loaded(@[k], d - 1)]]

RECURSIVE Nodes(_, _)
\* the loaded nodes below and including n, with their depths
Nodes(n, d) ==
  IF ~n.loaded THEN {} ELSE {<<n, d>>} \cup (IF d = 0 THEN {} ELSE UNION {Nodes(n.kids[k], d - 1) : k \in DOMAIN n.kids})

-----------------------------------------------------------------------------
(* The Refs                                                                *)

NoRefs == [hash |-> Blank, depth |-> 0, degree |-> 0, flags |-> {}, index |-> <<>>, root |-> NoKids, ready |-> FALSE]

Has(f) == f \in r.flags
Lazy == Has("lazy")

\* Refs.index is the hash-table index: the elements it lists, in any order
Indexed(t) == IF "table" \in t.flags THEN [t EXCEPT !.index = ElementsOf(t.root, t.depth)] ELSE t
Add(t, s) == IF "table" \in t.flags THEN [t EXCEPT !.index = @ \o s] ELSE t
\* mutant of Del: all elements with the hash leave the table
DelAll(t, h) ==
  IF "table" \in t.flags THEN [t EXCEPT !.index = SelectSeq(@, LAMBDA e : e # h)] ELSE t

Del(t, h) ==
  IF "table" \in t.flags /\ \E k \in DOMAIN t.index : t.index[k] = h
  THEN [t EXCEPT !.index = RemoveAt(@, CHOOSE k \in DOMAIN @ : @[k] = h)] ELSE t

encodeRefs(t) ==
  [depth |-> t.depth, degree |-> t.degree, len |-> t.root.length, els |-> HashesOf(t.root, t.depth)]

\* Refs.updateHash
updateRefs(t) ==
  IF t.root.length = 0 THEN [t EXCEPT !.hash = Blank, !.root.content = FALSE, !.root.kids = <<>>]
  ELSE [t EXCEPT !.hash = encodeRefs(t), !.root.content = FALSE]

updateRefsIfNeed(t, need) == IF need THEN updateRefs(t) ELSE [t EXCEPT !.root.content = TRUE]

\* what a Refs that was read again from the DB would hold
Saved(t) == IF t.hash = Blank THEN <<>> ELSE Below(t.hash, t.hash.depth)

newRefs(degree, flags, fit) ==
  [NoRefs EXCEPT !.degree = degree, !.flags = flags, !.ready = TRUE,
                 !.depth = IF fit > degree THEN depthToFit(degree, fit) ELSE 0]

-----------------------------------------------------------------------------
(* Reading: elementByIndex, Ascend, Descend                                *)

\* the branch that has the i-th element; the last one if there is none
Branch(n, d, i) ==
  LET L(k) == loadNodeIfNeed(n.kids[k], d - 1).length
      Upto(k) == Total([j \in 1..k |-> L(j)])
      fit == {k \in DOMAIN n.kids : i < Upto(k)}
  IN IF fit = {} THEN Len(n.kids) ELSE CHOOSE k \in fit : \A j \in fit : k <= j

Skipped(n, d, k) == Total([j \in 1..(k - 1) |-> loadNodeIfNeed(n.kids[j], d - 1).length])

RECURSIVE Seek(_, _, _), elementByIndex(_, _, _)
\* the walk to an element loads every branch it passes
Seek(n, d, i) ==
  IF d = 0 THEN n
  ELSE LET k == Branch(n, d, i) IN
       [n EXCEPT !.kids = [j \in DOMAIN @ |-> IF j < k THEN loadNodeIfNeed(@[j], d - 1)
                                              ELSE IF j = k THEN Seek(loadNodeIfNeed(@[j], d - 1), d - 1, i - Skipped(n, d, k))
                                              ELSE @[j]]]

elementByIndex(n, d, i) ==
  IF d = 0 THEN n.kids[i + 1]
  ELSE LET k == Branch(n, d, i) IN elementByIndex(n.kids[k], d - 1, i - Skipped(n, d, k))

RECURSIVE ascendNode(_, _, _, _), ascendBranches(_, _, _, _, _)
\* the pairs <<index, hash>> the function is called with; shift is the index
\* of the first element of the node, i the next index to pass
ascendNode(n, d, shift, i) ==
  IF d > 0 THEN ascendBranches(n, d, 1, shift, i)
  ELSE LET from == {j \in DOMAIN n.kids : shift + j - 1 >= i}
           first == IF from = {} THEN Len(n.kids) + 1 ELSE CHOOSE j \in from : \A k \in from : j <= k
       IN [j \in 1..(Len(n.kids) - first + 1) |-> <<i + j - 1, n.kids[first + j - 1]>>]

\* mutant of ascendBranches: shift stays at the first branch
ascendUnshifted(n, d, k, shift, i) ==
  IF k > Len(n.kids) THEN <<>>
  ELSE LET br == n.kids[k]
           pass == IF shift + br.length < i THEN <<>> ELSE ascendNode(br, d - 1, shift, i)
       IN pass \o ascendBranches(n, d, k + 1, shift, i + Len(pass))

ascendBranches(n, d, k, shift, i) ==
  IF k > Len(n.kids) THEN <<>>
  ELSE LET br == n.kids[k]
           pass == IF shift + br.length < i THEN <<>> ELSE ascendNode(br, d - 1, shift, i)
       IN pass \o ascendBranches(n, d, k + 1, shift + br.length, i + Len(pass))

RECURSIVE descendNode(_, _, _, _), descendBranches(_, _, _, _, _)
\* the same from the end: shift is the index of the last element of the node
descendNode(n, d, shift, i) ==
  IF d > 0 THEN descendBranches(n, d, Len(n.kids), shift, i)
  ELSE LET skip == IF shift > i THEN shift - i ELSE 0
       IN [j \in 1..(IF skip < Len(n.kids) THEN Len(n.kids) - skip ELSE 0) |-> <<i - j + 1, n.kids[Len(n.kids) - skip - j + 1]>>]

descendBranches(n, d, k, shift, i) ==
  IF k = 0 THEN <<>>
  ELSE LET br == n.kids[k]
           pass == IF shift - br.length > i THEN <<>> ELSE descendNode(br, d - 1, shift, i)
       IN pass \o descendBranches(n, d, k - 1, shift - br.length, i - Len(pass))

RECURSIVE indicesInRefs(_, _, _)
\* indexInRefs of every element with the hash, by the lengths of the branches
\* before it
indicesInRefs(n, d, h) ==
  IF d = 0 THEN {j - 1 : j \in {k \in DOMAIN n.kids : n.kids[k] = h}}
  ELSE UNION {{i + Total([j \in 1..(k - 1) |-> n.kids[j].length]) : i \in indicesInRefs(n.kids[k], d - 1, h)} : k \in DOMAIN n.kids}

-----------------------------------------------------------------------------
(* Changing: SetHashByIndex, DeleteByIndex, DeleteByHash                    *)

RECURSIVE setElementHash(_, _, _, _, _), deleteElementByIndex(_, _, _, _)
\* setElementHash and bubbleContentChanges, up to the root
setElementHash(n, d, i, h, top) ==
  LET k == IF d = 0 THEN i + 1 ELSE Branch(n, d, i)
      m == [n EXCEPT !.kids[k] = IF d = 0 THEN h ELSE setElementHash(@, d - 1, i - Skipped(n, d, k), h, FALSE)]
  IN IF top THEN m ELSE updateHashIfNeed(m, d, ~Lazy)

\* an emptied branch is removed; the hash of a node that became empty stays
deleteElementByIndex(n, d, i, top) ==
  LET k == IF d = 0 THEN i + 1 ELSE Branch(n, d, i)
      br == deleteElementByIndex(n.kids[k], d - 1, i - Skipped(n, d, k), FALSE)
      kids == IF d = 0 \/ br.length = 0 THEN RemoveAt(n.kids, k) ELSE [n.kids EXCEPT ![k] = br]
      m == [n EXCEPT !.kids = kids, !.length = @ - 1]
  IN IF m.length = 0 \/ top THEN m ELSE updateHashIfNeed(m, d, ~Lazy)

DeleteAt(t, i) ==
  LET n == Seek(t.root, t.depth, i)
      u == Del([t EXCEPT !.root = deleteElementByIndex(n, t.depth, i, TRUE)], elementByIndex(n, t.depth, i))
  IN updateRefsIfNeed(u, ~Lazy)

\* DeleteByHash without the table: a Descend that deletes what it passes and
\* starts again from the root, one index further
RECURSIVE DescendDeleting(_, _, _)
DescendDeleting(t, i, h) ==
  LET pass == descendNode(t.root, t.depth, t.root.length - 1, i)
      hit == {p \in DOMAIN pass : pass[p][2] = h}
      first == CHOOSE p \in hit : \A q \in hit : p <= q
  IN IF hit = {} THEN t ELSE DescendDeleting(DeleteAt(t, pass[first][1]), i - first, h)

RECURSIVE deleteElement(_, _, _, _, _)
\* deleteElement of every element of the table with the hash: lengths change,
\* emptied nodes stay; only a single element updates the hashes above it
deleteElement(n, d, h, update, top) ==
  LET kids == IF d = 0 THEN SelectSeq(n.kids, LAMBDA e : e # h)
              ELSE [k \in DOMAIN n.kids |-> deleteElement(n.kids[k], d - 1, h, update, FALSE)]
      gone == Count(ElementsOf(n, d), h)
      m == [n EXCEPT !.kids = kids, !.length = @ - gone, !.content = TRUE]
  IN IF gone = 0 THEN n ELSE IF update THEN updateHash(m, d, top) ELSE m

\* mutant of walkUpdatingNode: only the node itself is saved
walkUpdatingTop(n, d, top) ==
  IF ~(n.loaded /\ n.content) \/ n.length = 0 THEN n ELSE updateHash(n, d, top)

RECURSIVE walkUpdatingNode(_, _, _)
\* saves what is marked as changed and drops the branches that became empty
walkUpdatingNode(n, d, top) ==
  LET kids == IF d = 0 THEN n.kids
              ELSE SelectSeq([k \in DOMAIN n.kids |-> walkUpdatingNode(n.kids[k], d - 1, FALSE)],
                             LAMBDA br : ~(br.loaded /\ br.length = 0))
      m == [n EXCEPT !.kids = kids]
  IN IF ~(n.loaded /\ n.content) THEN n ELSE IF n.length > 0 THEN updateHash(m, d, top) ELSE m

walkUpdating(t) == updateRefs([t EXCEPT !.root = walkUpdatingNode(@, t.depth, TRUE)])

DeleteIndexed(t, h) ==
  LET one == Count(t.index, h) = 1
      u == [t EXCEPT !.index = SelectSeq(@, LAMBDA e : e # h),
                     !.root = deleteElement(@, t.depth, h, one, TRUE)]
  IN IF Lazy THEN u ELSE IF one THEN updateRefs(u) ELSE walkUpdating(u)

-----------------------------------------------------------------------------
(* Building a new tree: Slice, and Append when the tree is too small       *)

RECURSIVE SliceNode(_, _, _, _)
\* mutant of SliceNode: the last branch is made only if it is full
SliceWhole(s, degree, d, top) ==
  LET w == Pow(degree, d)
      kids == IF d = 0 THEN s
              ELSE [k \in 1..(Len(s) \div w) |-> SliceNode(SubSeq(s, (k - 1) * w + 1, k * w), degree, d - 1, FALSE)]
  IN updateHash([NoKids EXCEPT !.kids = kids, !.length = Len(s)], d, top)

\* appendCreatingSliceNode fills the nodes from the left; walkUpdatingSlice
\* sets their lengths and saves them
SliceNode(s, degree, d, top) ==
  LET w == Pow(degree, d)
      kids == IF d = 0 THEN s
              ELSE [k \in 1..((Len(s) + w - 1) \div w) |->
                      SliceNode(SubSeq(s, (k - 1) * w + 1, IF k * w < Len(s) THEN k * w ELSE Len(s)), degree, d - 1, FALSE)]
  IN updateHash([NoKids EXCEPT !.kids = kids, !.length = Len(s)], d, top)

SliceOf(s, degree, flags) ==
  LET t == newRefs(degree, flags, Len(s)) IN
  IF Len(s) = 0 THEN t ELSE Indexed(updateRefs([t EXCEPT !.root = SliceNode(s, degree, t.depth, TRUE)]))

-----------------------------------------------------------------------------
(* Appending to a tree with enough room                                    *)

RECURSIVE freeSpaceOnTailNode(_, _, _, _)
freeSpaceOnTailNode(n, d, degree, fit) ==
  LET space == Pow(degree, d) * (degree - Len(n.kids)) IN
  IF d = 0 \/ space >= fit \/ n.kids = <<>> THEN space
  ELSE space + freeSpaceOnTailNode(loadNodeIfNeed(Last(n.kids), d - 1), d - 1, degree, fit - space)

\* the last node at depth e of a tree n of depth d, and the tree with that
\* node replaced
RECURSIVE TailAt(_, _, _), WithTail(_, _, _, _), Longer(_, _, _, _)
TailAt(n, d, e) == IF d = e THEN n ELSE TailAt(Last(n.kids), d - 1, e)
WithTail(n, d, e, m) ==
  IF d = e THEN m ELSE [n EXCEPT !.kids[Len(n.kids)] = WithTail(@, d - 1, e, m)]
\* mutant of Longer: the lengths above the point are left to the end
LongerLater(n, d, e, inc) == n
\* the lengths of the last nodes above depth e grow
Longer(n, d, e, inc) ==
  IF d <= e THEN n ELSE [n EXCEPT !.length = @ + inc, !.kids[Len(n.kids)] = Longer(@, d - 1, e, inc)]

\* a is the appendPoint with its tree: node a.root of depth a.top, the point
\* at depth a.depth, a.increase elements added below it and not yet counted
\* above; a.missed: a full node was passed though what is below it changed
RECURSIVE appendNode(_, _, _), appendNodeGoUp(_, _, _)
appendNode(a, degree, h) ==
  LET n == TailAt(a.root, a.top, a.depth)
      Put(m) == [a EXCEPT !.root = WithTail(@, a.top, a.depth, m)]
      last == loadNodeIfNeed(Last(n.kids), a.depth - 1)
  IN IF a.depth = 0 /\ Len(n.kids) = degree
     THEN appendNodeGoUp(Put(updateHash(n, 0, a.top = 0)), degree, h)
     ELSE IF a.depth = 0
     THEN [Put([n EXCEPT !.kids = Append(@, h), !.length = @ + 1]) EXCEPT !.increase = @ + 1]
     ELSE IF n.kids = <<>>
     THEN appendNode([Put([n EXCEPT !.kids = <<NoKids>>]) EXCEPT !.depth = @ - 1], degree, h)
     ELSE appendNode([Put([n EXCEPT !.kids[Len(n.kids)] = last]) EXCEPT !.depth = @ - 1], degree, h)

appendNodeGoUp(a, degree, h) ==
  LET e == a.depth + 1
      root == IF a.increase > 0 THEN Longer(a.root, a.top, a.depth, a.increase) ELSE a.root
      n == TailAt(root, a.top, e)
      full == Len(n.kids) = degree
      up == [a EXCEPT !.depth = e, !.increase = 0]
  IN IF full /\ a.increase = 0
     THEN appendNodeGoUp([up EXCEPT !.root = root, !.missed = @ \/ Encode(n, e) # n.hash], degree, h)
     ELSE IF full
     THEN appendNodeGoUp([up EXCEPT !.root = WithTail(root, a.top, e, updateHash(n, e, e = a.top))], degree, h)
     ELSE appendNode([up EXCEPT !.depth = a.depth,
                                !.root = WithTail(root, a.top, e,
                                           [n EXCEPT !.kids = Append(@, refsNode(Blank, TRUE, TRUE, <<>>)), !.content = TRUE])],
                     degree, h)

RECURSIVE Finalize(_, _, _, _)
\* fini of appnedFunc: the nodes from the point to the root
Finalize(n, d, inc, top) ==
  LET m == IF d = 0 THEN n
           ELSE [n EXCEPT !.length = @ + inc, !.kids[Len(n.kids)] = Finalize(@, d - 1, inc, FALSE)]
  IN updateHash(m, d, top)

\* t with s appended by appnedFunc
Appended(t, s) ==
  LET a == FoldLeft(LAMBDA b, h : appendNode(b, t.degree, h),
                    [root |-> t.root, top |-> t.depth, depth |-> t.depth, increase |-> 0, missed |-> FALSE], s)
  IN [refs |-> Add(updateRefs([t EXCEPT !.root = Finalize(a.root, t.depth, a.increase, TRUE)]), s), missed |-> a.missed]

Fits(t, s) == freeSpaceOnTailNode(t.root, t.depth, t.degree, Len(s)) >= Len(s)

-----------------------------------------------------------------------------
Init ==
  /\ r = NoRefs /\ list = <<>> /\ dirty = FALSE /\ lost = {}
  /\ reply = <<>> /\ calls = 0

\* one reading call between two changes is enough: it only loads nodes
Ask == r.ready /\ reply = <<>>

Change == r.ready /\ calls < MaxCalls /\ calls' = calls + 1 /\ reply' = <<>>

\* Init, which every other call does first: the flags and the default degree
\* come from the Pack, the degree of a saved Refs from the DB
initialize ==
  /\ ~r.ready
  /\ \E f \in Flags, g \in Degrees :
       LET t == [NoRefs EXCEPT !.hash = r.hash, !.degree = g, !.flags = f, !.ready = TRUE]
           u == [t EXCEPT !.depth = r.hash.depth, !.degree = r.hash.degree,
                          !.root = loadSubtree(NoKids, r.hash, r.hash.depth, f \cap {"table", "entire"} # {})]
       IN r' = IF r.hash = Blank THEN t ELSE Indexed(u)
  /\ UNCHANGED <<list, dirty, lost, reply, calls>>

\* forgets everything that is not saved; what a Refs reads again after a call
\* that lost a node is not followed
Reset ==
  /\ r.ready /\ lost = {}
  /\ r' = [NoRefs EXCEPT !.hash = r.hash]
  /\ list' = IF dirty THEN Saved(r) ELSE list
  /\ dirty' = FALSE /\ reply' = <<>>
  /\ UNCHANGED <<lost, calls>>

HashByIndex ==
  /\ Ask /\ list # <<>>
  /\ \E i \in {0, r.root.length \div 2, r.root.length - 1} :
       LET n == Seek(r.root, r.depth, i) IN
       r' = [r EXCEPT !.root = n] /\ reply' = <<"hash", i, elementByIndex(n, r.depth, i)>>
  /\ UNCHANGED <<list, dirty, lost, calls>>

AscendFrom ==
  /\ Ask /\ list # <<>>
  /\ \E i \in {0, r.root.length \div 2} :
       LET n == Loaded(r.root, r.depth) IN
       r' = [r EXCEPT !.root = n] /\ reply' = <<"up", i, ascendNode(n, r.depth, 0, i)>>
  /\ UNCHANGED <<list, dirty, lost, calls>>

DescendFrom ==
  /\ Ask /\ list # <<>>
  /\ \E i \in {r.root.length - 1, r.root.length \div 2} :
       LET n == Loaded(r.root, r.depth) IN
       r' = [r EXCEPT !.root = n] /\ reply' = <<"down", i, descendNode(n, r.depth, r.root.length - 1, i)>>
  /\ UNCHANGED <<list, dirty, lost, calls>>

\* HasHash and IndicesByHash ask the table, if there is one, or pass the list
HasHash ==
  /\ Ask
  /\ \E h \in Elements :
       IF Has("table") THEN reply' = <<"has", h, h \in ToSet(r.index)>> /\ UNCHANGED r
       ELSE LET n == Loaded(r.root, r.depth) IN
            /\ r' = [r EXCEPT !.root = n]
            /\ reply' = <<"has", h, \E p \in ToSet(ascendNode(n, r.depth, 0, 0)) : p[2] = h>>
  /\ UNCHANGED <<list, dirty, lost, calls>>

IndicesByHash ==
  /\ Ask
  /\ \E h \in Elements :
       IF Has("table") THEN reply' = <<"indices", h, indicesInRefs(r.root, r.depth, h)>> /\ UNCHANGED r
       ELSE LET n == Loaded(r.root, r.depth) IN
            /\ r' = [r EXCEPT !.root = n]
            /\ reply' = <<"indices", h, {p[1] : p \in {q \in ToSet(ascendNode(n, r.depth, 0, 0)) : q[2] = h}}>>
  /\ UNCHANGED <<list, dirty, lost, calls>>

SetHashByIndex ==
  /\ Change
  /\ \E i \in 0..(r.root.length - 1), h \in Elements :
       LET n == Seek(r.root, r.depth, i)
           old == elementByIndex(n, r.depth, i)
           t == [r EXCEPT !.root = setElementHash(n, r.depth, i, h, TRUE)]
       IN /\ r' = IF old = h THEN [r EXCEPT !.root = n] ELSE updateRefsIfNeed(Add(Del(t, old), <<h>>), ~Lazy)
          /\ list' = [list EXCEPT ![i + 1] = h]
          /\ dirty' = (dirty \/ (Lazy /\ old # h))
  /\ UNCHANGED lost

DeleteByIndex ==
  /\ Change
  /\ \E i \in 0..(r.root.length - 1) : r' = DeleteAt(r, i) /\ list' = RemoveAt(list, i + 1)
  /\ dirty' = (dirty \/ Lazy)
  /\ UNCHANGED lost

DeleteByHash ==
  /\ Change
  /\ \E h \in Elements :
       /\ h \in ToSet(list)
       /\ r' = IF Has("table") THEN DeleteIndexed(r, h)
               ELSE DescendDeleting([r EXCEPT !.root = Loaded(@, r.depth)], r.root.length - 1, h)
       /\ list' = SelectSeq(list, LAMBDA e : e # h)
       /\ lost' = lost \cup IF Has("table") /\ dirty /\ Count(list, h) = 1 THEN {"one"} ELSE {}
  /\ dirty' = (dirty \/ Lazy)

\* the tail is filled if there is room, and only the nodes on the way to it are
\* saved; else a new tree is built and saved
Extend(s) ==
  /\ Len(list) + Len(s) <= MaxLen
  /\ list' = list \o s
  /\ \/ /\ Fits(r, s)
        /\ r' = Appended(r, s).refs
        /\ lost' = lost \cup (IF Appended(r, s).missed THEN {"full"} ELSE {})
                        \cup (IF dirty THEN {"lazy"} ELSE {})
        /\ UNCHANGED dirty
     \/ /\ ~Fits(r, s)
        /\ r' = SliceOf(ElementsOf(r.root, r.depth) \o s, r.degree, r.flags)
        /\ dirty' = FALSE /\ lost' = {}

AppendHashes == Change /\ \E s \in Batches : Extend(s)

\* appends another Refs, here a part of this one that Slice has returned
AppendRefs ==
  /\ Change
  /\ \E p \in Ranges :
       p[1] < p[2] /\ p[2] <= r.root.length /\ Extend(SubSeq(ElementsOf(r.root, r.depth), p[1] + 1, p[2]))

\* a tree of the new degree is made and the elements are appended to it
SetDegree ==
  /\ Change
  /\ \E g \in Degrees :
       /\ g # r.degree
       /\ \/ r.hash = Blank /\ r' = [r EXCEPT !.degree = g] /\ UNCHANGED <<dirty, lost>>
          \/ /\ r.hash # Blank
             /\ LET a == Appended(newRefs(g, r.flags, r.root.length), ElementsOf(r.root, r.depth))
                IN IF r.root.length = 0 THEN r' = newRefs(g, r.flags, 0) /\ lost' = {}
                   ELSE r' = a.refs /\ lost' = IF a.missed THEN {"full"} ELSE {}
             /\ dirty' = FALSE
  /\ UNCHANGED list

\* Slice makes another Refs; the program goes on with that one
Slice ==
  /\ Change
  /\ \E p \in Ranges :
       /\ p[2] <= r.root.length
       /\ LET s == SubSeq(ElementsOf(r.root, r.depth), p[1] + 1, p[2])
          IN r' = SliceOf(s, r.degree, r.flags)
       /\ list' = SubSeq(list, p[1] + 1, p[2])
  /\ dirty' = FALSE /\ lost' = {}

Rebuilt == reply = <<"rebuilt">>

Rebuild ==
  /\ r.ready
  /\ \/ /\ depthToFit(r.degree, r.root.length) # r.depth
        /\ r' = SliceOf(ElementsOf(r.root, r.depth), r.degree, r.flags)
        /\ lost' = {}
     \/ /\ depthToFit(r.degree, r.root.length) = r.depth
        /\ r' = walkUpdating(r)
        /\ UNCHANGED lost
  /\ dirty' = FALSE /\ reply' = <<"rebuilt">>
  /\ UNCHANGED <<list, calls>>

\* Walk goes through the saved tree; a Refs that was not loaded is reset again
Walk ==
  /\ r.hash # Blank /\ reply = <<>>
  /\ \/ r.ready /\ r' = [r EXCEPT !.root = Loaded(@, r.depth)]
     \/ ~r.ready /\ UNCHANGED r
  /\ reply' = <<"walk", IF r.ready THEN ElementsOf(r.root, r.depth) ELSE Saved(r)>>
  /\ UNCHANGED <<list, dirty, lost, calls>>

Next ==
  \/ initialize \/ Reset
  \/ HashByIndex \/ HasHash \/ IndicesByHash \/ AscendFrom \/ DescendFrom \/ Walk
  \/ SetHashByIndex \/ DeleteByIndex \/ DeleteByHash
  \/ AppendHashes \/ AppendRefs \/ SetDegree \/ Slice \/ Rebuild

Spec == Init /\ [][Next]_vars

-----------------------------------------------------------------------------
(* Properties                                                              *)

\* Whatever was loaded, changed, saved and rebuilt, the tree in memory holds
\* the list, in its order (elementByIndex, appendNode, deleteElement, Slice).
HoldsList == r.ready => ElementsOf(r.root, r.depth) = list /\ r.root.length = Len(list)

\* Every node knows its length, has no more kids than the degree, and a node
\* that is not loaded has a hash to load it from.
WellFormed ==
  r.ready => \A p \in Nodes(r.root, r.depth) :
    LET n == p[1] d == p[2] IN
    /\ n.length = Len(ElementsOf(n, d))
    /\ Len(n.kids) <= r.degree
    /\ d > 0 => \A k \in DOMAIN n.kids : n.kids[k].loaded \/ n.kids[k].hash # Blank

\* Without LazyUpdating, and after a Rebuild with it, the hash of the Refs
\* stands for the list: nothing is lost when it is read again.  Three calls
\* break it, see lost: Append that passes a full node ("full"), Append after
\* lazy changes ("lazy") and DeleteByHash of a single element of the table
\* after lazy changes ("one"); they clear the mark of changes not saved yet.
HashActual == ~dirty /\ lost = {} => Saved(r) = list

\* The hash-table index lists the elements of the tree, each as many times as
\* the tree has it (loadLeaf, delElementFromIndex, DeleteByHash).
IndexAgrees ==
  r.ready /\ Has("table") => \A h \in Elements : Count(r.index, h) = Count(list, h)

\* HashByIndex, HasHash and IndicesByHash answer what the list has, with and
\* without the table; AscendFrom and DescendFrom pass every
\* element from the index on, once and in order, and Walk those of the hash.
ReadsList ==
  /\ reply # <<>> /\ reply[1] = "has" => (reply[3] <=> reply[2] \in ToSet(list))
  /\ reply # <<>> /\ reply[1] = "indices" => reply[3] = {i \in 0..(Len(list) - 1) : list[i + 1] = reply[2]}
  /\ reply # <<>> /\ reply[1] = "walk" => (dirty \/ lost # {} \/ reply[2] = list)
  /\ reply # <<>> /\ reply[1] = "hash" => reply[3] = list[reply[2] + 1]
  /\ reply # <<>> /\ reply[1] = "up" =>
       reply[3] = [j \in 1..(Len(list) - reply[2]) |-> <<reply[2] + j - 1, list[reply[2] + j]>>]
  /\ reply # <<>> /\ reply[1] = "down" =>
       reply[3] = [j \in 1..(reply[2] + 1) |-> <<reply[2] - j + 1, list[reply[2] - j + 2]>>]

\* Rebuild leaves a tree of the least depth whose nodes are all saved.
RebuildSaves ==
  Rebuilt =>
    /\ r.depth = depthToFit(r.degree, r.root.length)
    /\ lost = {} => \A p \in Nodes(r.root, r.depth) : p[1] # r.root => p[1].hash = Encode(p[1], p[2])
=============================================================================
