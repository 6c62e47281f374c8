----------------------------- MODULE IndexProofs -----------------------------
(***************************************************************************)
(* The Index and the IdxDB agree (HeadsAgree), no listed Root loses its    *)
(* value (Kept), the list of feeds is never stale (FeedsList), a restart   *)
(* finds the last Roots (LoadAgrees) and the active head of a feed has its *)
(* newest Root (ActiveNewest), for every number of feeds, heads, Roots and *)
(* goroutines.                                                             *)
(***************************************************************************)
EXTENDS Index, FiniteSetTheorems, WellFoundedInduction, TLAPS

\* A set of numbers has a least one.
LEMMA Least ==
  ASSUME NEW T \in SUBSET Nat, T # {}
  PROVE  \E x \in T : \A y \in T : x <= y
  <1>1. PICK x \in T : \A y \in T : ~(<<y, x>> \in OpToRel(<, Nat))
    BY NatLessThanWellFounded, WFMin
  <1>2. ASSUME NEW y \in T, ~(x <= y) PROVE FALSE
    <2>1. x \in Nat /\ y \in Nat /\ y < x
      BY <1>2
    <2>2. <<y, x>> \in OpToRel(<, Nat)
      BY <2>1 DEF OpToRel
    <2> QED BY <1>1, <2>2
  <1> QED BY <1>2

\* A bounded one has a greatest.
LEMMA Greatest ==
  ASSUME NEW m \in Nat, NEW T \in SUBSET (0..m), T # {}
  PROVE  \E x \in T : \A y \in T : y <= x
  <1> DEFINE D == {m - t : t \in T}
  <1>1. D \in SUBSET Nat /\ D # {}
    <2>1. \A t \in T : m - t \in Nat
      OBVIOUS
    <2>2. PICK t \in T : TRUE
      OBVIOUS
    <2>3. m - t \in D
      BY <2>2
    <2> QED BY <2>1, <2>3
  <1>2. PICK d \in D : \A e \in D : d <= e
    <2> HIDE DEF D
    <2> QED BY <1>1, Least
  <1>3. PICK x \in T : d = m - x
    BY DEF D
  <1>4. ASSUME NEW y \in T PROVE y <= x
    <2>1. m - y \in D /\ x \in Int /\ y \in Int
      OBVIOUS
    <2> HIDE DEF D
    <2> QED BY <1>2, <1>3, <2>1
  <1> QED BY <1>4

\* Descend of a bucket that is not empty finds a Root, and finds none in an
\* empty one.
LEMMA LastOfSome ==
  ASSUME NEW R \in SUBSET Roots
  PROVE  /\ LastOf(R) \subseteq R
         /\ LastOf(R) = {} <=> R = {}
  <1>1. LastOf(R) \subseteq R
    BY DEF LastOf
  <1>2. ASSUME R # {} PROVE LastOf(R) # {}
    <2> DEFINE T == {r.seq : r \in R}
    <2>1. T \in SUBSET (0..MaxSeq) /\ T # {}
      BY <1>2 DEF Roots
    <2>2. PICK x \in T : \A y \in T : y <= x
      <3> HIDE DEF T
      <3> QED BY <2>1, BoundsAssumption, Greatest
    <2>3. PICK r \in R : x = r.seq
      BY DEF T
    <2> QED BY <2>2, <2>3 DEF LastOf
  <1> QED BY <1>1, <1>2

\* setActive and load always find a nonce to make active.
LEMMA ActiveSome ==
  ASSUME NEW pk \in Feeds, NEW l \in [Heads -> SUBSET Roots]
  PROVE  LET t == Newest(Times(pk, l))
         IN  /\ t \in Nat
             /\ At(pk, l, t) \subseteq Nat /\ At(pk, l, t) # {}
             /\ (CHOOSE n \in At(pk, l, t) : \A x \in At(pk, l, t) : n <= x) \in Nat
  <1> DEFINE T == Times(pk, l)
             t == Newest(T)
             A == At(pk, l, t)
  <1>1. T \in SUBSET (1..MaxTime)
    BY DEF Times, Roots
  <1>2. T # {} => t \in T
    <2> HIDE DEF T
    <2>1. SUFFICES ASSUME T # {} PROVE t \in T
      OBVIOUS
    <2>2. T \in SUBSET (0..MaxTime)
      BY <1>1, BoundsAssumption
    <2>3. \E x \in T : \A y \in T : y <= x
      BY <2>1, <2>2, BoundsAssumption, Greatest
    <2> QED BY <2>1, <2>3 DEF Newest
  <1>3. T = {} => t = 0
    <2> HIDE DEF T
    <2>1. SUFFICES ASSUME T = {} PROVE Newest(T) = 0
      OBVIOUS
    <2> QED BY <2>1 DEF Newest
  <1>4. t \in Nat
    <2> HIDE DEF T, t
    <2>1. CASE T = {}
      BY <1>3, <2>1
    <2>2. CASE T # {}
      <3>1. t \in 1..MaxTime
        BY <1>1, <1>2, <2>2
      <3> QED BY <3>1, BoundsAssumption
    <2> QED BY <2>1, <2>2
  <1>5. A \in SUBSET Nat /\ A # {}
    <2>1. CASE t = 0
      <3> HIDE DEF t
      <3> QED BY <2>1 DEF At
    <2>2. CASE t # 0
      <3>1. t \in T
        BY <1>2, <1>3, <2>2
      <3>2. PICK h \in Heads : h[1] = pk /\ \E r \in l[h] : r.time = t
        <4> HIDE DEF t
        <4> QED BY <3>1 DEF Times
      <3>3. h[2] \in Nonces /\ h = <<pk, h[2]>>
        BY <3>2 DEF Heads
      <3> HIDE DEF t
      <3> QED BY <2>2, <3>2, <3>3, NoncesAssumption DEF At
    <2> QED BY <2>1, <2>2
  <1>6. \E n \in A : \A x \in A : n <= x
    <2> HIDE DEF A
    <2> QED BY <1>5, Least
  <1>7. (CHOOSE n \in A : \A x \in A : n <= x) \in Nat
    <2> HIDE DEF A
    <2> QED BY <1>5, <1>6
  <1> QED BY <1>4, <1>5, <1>7

Job == [op : {"idle", "save", "del"}, rs : SUBSET Roots]

LEMMA HeadOfRoot == ASSUME NEW r \in Roots PROVE HeadOf(r) \in Heads
  BY DEF Roots, Heads, HeadOf

LEMMA IdleJob == Idle \in Job
  BY DEF Idle, Job

\* What newIndexHeads leaves of the other feeds is of the right type.
LEMMA BlankType ==
  ASSUME TypeOK, NEW pk \in Feeds, Blank(pk)
  PROVE  /\ heads' \subseteq Heads
         /\ last' \in [Heads -> SUBSET Roots]
         /\ activen' \in [Feeds -> Nat] /\ activet' \in [Feeds -> Nat]
  BY DEF TypeOK, Blank

\* The same of a Root that becomes the last.
LEMMA ReplaceType ==
  ASSUME TypeOK, NEW r \in Roots, Replace(r)
  PROVE  /\ feeds' \subseteq Feeds /\ feedsl' \subseteq Feeds
         /\ heads' \subseteq Heads
         /\ last' \in [Heads -> SUBSET Roots]
         /\ activen' \in [Feeds -> Nat] /\ activet' \in [Feeds -> Nat]
  <1>1. HeadOf(r) \in Heads
    BY HeadOfRoot
  <1>2. r.feed \in Feeds /\ r.nonce \in Nat /\ r.time \in Nat
    <2>1. r.feed \in Feeds /\ r.nonce \in Nonces /\ r.time \in 1..MaxTime
      BY DEF Roots
    <2>2. r.nonce \in Nat
      BY <2>1, NoncesAssumption
    <2>3. r.time \in Nat
      BY <2>1, BoundsAssumption
    <2> QED BY <2>1, <2>2, <2>3
  <1> QED BY <1>1, <1>2 DEF TypeOK, Replace

\* The same of what a deletion leaves to do.
LEMMA ToDeleteType ==
  ASSUME TypeOK, NEW u \in Users, NEW R \in SUBSET Roots, ToDelete(u, R)
  PROVE  job' \in [Users -> Job]
  <1>1. (IF R = {} THEN Idle ELSE [op |-> "del", rs |-> R]) \in Job
    BY IdleJob DEF Job
  <1> QED BY <1>1 DEF TypeOK, ToDelete, Job

\* Every action keeps the types.
LEMMA StepTypeOK == TypeOK /\ [Next]_vars => TypeOK'
  <1> SUFFICES ASSUME TypeOK, [Next]_vars PROVE TypeOK'
    OBVIOUS
  <1>1. ASSUME NEW pk \in Feeds, AddFeed(pk) PROVE TypeOK'
    BY <1>1, BlankType DEF AddFeed, TypeOK
  <1>2. ASSUME NEW r \in Offers, AddRoot(r) PROVE TypeOK'
    <2>1. r \in Roots
      BY OffersAssumption
    <2>2. rc' \in [Roots -> Nat]
      BY <1>2, <2>1 DEF AddRoot, TypeOK
    <2>3. CASE UNCHANGED <<index, idxdb>>
      BY <1>2, <2>2, <2>3 DEF AddRoot, TypeOK, index, idxdb
    <2>4. CASE ~UNCHANGED <<index, idxdb>>
      <3>1. Replace(r) /\ dbheads' = dbheads \cup {HeadOf(r)} /\ roots' \in {roots, roots \cup {r}}
            /\ dbfeeds' = dbfeeds
        BY <1>2, <2>4 DEF AddRoot
      <3> QED BY <1>2, <2>1, <2>2, <3>1, ReplaceType, HeadOfRoot DEF AddRoot, TypeOK
    <2> QED BY <2>3, <2>4
  <1>3. ASSUME NEW u \in Users, NEW h \in Heads, SaveRoot(u, h) PROVE TypeOK'
    <2>1. now' \in 1..MaxTime
      BY <1>3, BoundsAssumption DEF SaveRoot, TypeOK
    <2>2. PICK seq \in 0..MaxSeq :
            LET r == [feed |-> h[1], nonce |-> h[2], seq |-> seq, time |-> now']
            IN /\ dbheads' = dbheads \cup {h}
               /\ roots' = roots \cup {r}
               /\ Replace(r)
               /\ job' = [job EXCEPT ![u] = [op |-> "save", rs |-> {r}]]
      BY <1>3 DEF SaveRoot
    <2> DEFINE r == [feed |-> h[1], nonce |-> h[2], seq |-> seq, time |-> now']
    <2>3. r \in Roots
      BY <2>1 DEF Heads, Roots
    <2>4. [op |-> "save", rs |-> {r}] \in Job
      BY <2>3 DEF Job
    <2>5. /\ dbheads' = dbheads \cup {h}
          /\ roots' = roots \cup {r}
          /\ Replace(r)
          /\ job' = [job EXCEPT ![u] = [op |-> "save", rs |-> {r}]]
      BY <2>2
    <2> HIDE DEF r
    <2>6. job' \in [Users -> Job]
      BY <2>4, <2>5 DEF TypeOK, Job
    <2> QED BY <1>3, <2>1, <2>3, <2>5, <2>6, ReplaceType, BoundsAssumption DEF SaveRoot, TypeOK, Job
  <1>4. ASSUME NEW u \in Users, SaveValue(u) PROVE TypeOK'
    <2>1. job' \in [Users -> Job]
      BY <1>4, IdleJob DEF SaveValue, TypeOK, Job
    <2>2. rc' \in [Roots -> Nat]
      BY <1>4 DEF SaveValue, TypeOK
    <2> QED BY <1>4, <2>1, <2>2 DEF SaveValue, TypeOK, index, idxdb, Job
  <1>5. ASSUME NEW u \in Users, DelValue(u) PROVE TypeOK'
    <2>1. PICK r \in job[u].rs :
            IF rc[r] = 0
            THEN job' = [job EXCEPT ![u] = Idle] /\ UNCHANGED rc
            ELSE /\ rc' = [rc EXCEPT ![r] = @ - 1]
                 /\ job' = [job EXCEPT ![u] = IF @.rs = {r} THEN Idle
                                              ELSE [op |-> "del", rs |-> @.rs \ {r}]]
      BY <1>5 DEF DelValue
    <2>2. r \in Roots /\ job[u].rs \subseteq Roots
      BY <2>1 DEF TypeOK
    <2>3. [op |-> "del", rs |-> job[u].rs \ {r}] \in Job
      BY <2>2 DEF Job
    <2>4. job' \in [Users -> Job]
      BY <2>1, <2>3, IdleJob DEF TypeOK, Job
    <2>5. rc' \in [Roots -> Nat]
      <3>1. rc[r] \in Nat /\ (rc[r] # 0 => rc[r] - 1 \in Nat)
        BY <2>2 DEF TypeOK
      <3> QED BY <2>1, <2>2, <3>1 DEF TypeOK
    <2> QED BY <1>5, <2>4, <2>5 DEF DelValue, TypeOK, index, idxdb, Job
  <1>6. ASSUME NEW u \in Users, NEW pk \in Feeds, DelFeed(u, pk) PROVE TypeOK'
    <2>1. job' \in [Users -> Job]
      <3>1. {r \in roots : r.feed = pk /\ HeadOf(r) \in heads} \in SUBSET Roots
        BY DEF TypeOK
      <3> QED BY <1>6, <3>1, ToDeleteType DEF DelFeed
    <2> QED BY <1>6, <2>1, BlankType DEF DelFeed, TypeOK, Job
  <1>7. ASSUME NEW u \in Users, NEW h \in Heads, DelHead(u, h) PROVE TypeOK'
    <2>1. job' \in [Users -> Job]
      <3>1. Of(h) \in SUBSET Roots
        BY DEF TypeOK, Of
      <3> QED BY <1>7, <3>1, ToDeleteType DEF DelHead
    <2> QED BY <1>7, <2>1 DEF DelHead, TypeOK, Job
  <1>8. ASSUME NEW u \in Users, NEW h \in Heads, NEW r \in Of(h), DelRoot(u, h, r) PROVE TypeOK'
    <2>1. r \in Roots /\ Of(h) \in SUBSET Roots
      BY DEF TypeOK, Of
    <2>2. job' \in [Users -> Job]
      <3>1. {r} \in SUBSET Roots
        BY <2>1
      <3> QED BY <1>8, <3>1, ToDeleteType DEF DelRoot
    <2> DEFINE l == last'
    <2>3. l \in [Heads -> SUBSET Roots]
      <3>1. LastOf(Of(h) \ {r}) \in SUBSET Roots
        BY <2>1 DEF LastOf
      <3> QED BY <1>8, <3>1 DEF DelRoot, TypeOK
    <2>4. h[1] \in Feeds
      BY DEF Heads
    <2>5. activen' \in [Feeds -> Nat] /\ activet' \in [Feeds -> Nat]
      <3>1. CASE UNCHANGED <<activen, activet>>
        BY <3>1 DEF TypeOK
      <3>2. CASE ~UNCHANGED <<activen, activet>>
        <4>1. \E n \in At(h[1], last', Newest(Times(h[1], last'))) :
                /\ activet' = [activet EXCEPT ![h[1]] = Newest(Times(h[1], last'))]
                /\ activen' = [activen EXCEPT ![h[1]] = n]
          BY <1>8, <3>2 DEF DelRoot
        <4>2. PICK n \in At(h[1], l, Newest(Times(h[1], l))) :
                /\ activet' = [activet EXCEPT ![h[1]] = Newest(Times(h[1], l))]
                /\ activen' = [activen EXCEPT ![h[1]] = n]
          BY <4>1
        <4> HIDE DEF l
        <4>3. Newest(Times(h[1], l)) \in Nat /\ n \in Nat
          BY <2>3, <2>4, <4>2, ActiveSome
        <4> QED BY <2>4, <4>2, <4>3 DEF TypeOK
      <3> QED BY <3>1, <3>2
    <2>6. phase' \in {"open", "panic"}
      BY <1>8 DEF DelRoot, TypeOK
    <2> QED BY <1>8, <2>2, <2>3, <2>5, <2>6 DEF DelRoot, TypeOK, Job
  <1>9. ASSUME NEW h \in Heads, AddHead(h) PROVE TypeOK'
    <2>1. h[1] \in Feeds
      BY DEF Heads
    <2> QED BY <1>9, <2>1, BlankType DEF AddHead, TypeOK
  <1>10. ASSUME NEW h \in Heads, LastRoot(h) PROVE TypeOK'
    BY <1>10 DEF LastRoot, TypeOK, index, idxdb
  <1>11. ASSUME ListFeeds PROVE TypeOK'
    BY <1>11 DEF ListFeeds, TypeOK, idxdb
  <1>12. ASSUME Load PROVE TypeOK'
    <2> DEFINE l == last'
    <2>1. l \in [Heads -> SUBSET Roots]
      BY <1>12 DEF Load, TypeOK, LastOf, Of
    <2>2. \A pk \in Feeds :
            /\ activet'[pk] = Newest(Times(pk, l))
            /\ activen'[pk] = CHOOSE n \in At(pk, l, Newest(Times(pk, l))) :
                                \A x \in At(pk, l, Newest(Times(pk, l))) : n <= x
      BY <1>12 DEF Load
    <2>3. \A pk \in Feeds : activet'[pk] \in Nat /\ activen'[pk] \in Nat
      <3> HIDE DEF l
      <3> QED BY <2>1, <2>2, ActiveSome
    <2>4. activen' \in [Feeds -> Nat] /\ activet' \in [Feeds -> Nat]
      <3>1. activen' = [pk \in Feeds |-> activen'[pk]] /\ activet' = [pk \in Feeds |-> activet'[pk]]
        BY <1>12 DEF Load
      <3> QED BY <2>3, <3>1
    <2>5. job' \in [Users -> Job]
      BY <1>12, IdleJob DEF Load
    <2> QED BY <1>12, <2>1, <2>4, <2>5 DEF Load, TypeOK, idxdb, Job
  <1>13. CASE UNCHANGED vars
    BY <1>13 DEF TypeOK, vars, index, idxdb
  <1> QED BY <1>1, <1>2, <1>3, <1>4, <1>5, <1>6, <1>7, <1>8, <1>9, <1>10, <1>11, <1>12, <1>13 DEF Next

\* index.go and data/idxdb: the Index, the IdxDB and the work left always have
\* their types.
THEOREM IndexTypeOK == Spec => []TypeOK
  <1>1. Init => TypeOK
    <2>1. Idle \in Job
      BY IdleJob
    <2> QED BY <2>1, BoundsAssumption DEF Init, TypeOK, Job
  <1> QED BY <1>1, StepTypeOK, PTL DEF Spec

-----------------------------------------------------------------------------
\* A step that leaves the bucket and the last Root of a head alone, and its
\* presence in the Index, leaves them in agreement.
LEMMA SameHead ==
  ASSUME NEW h \in Heads, Agrees(h),
         Of(h)' = Of(h), last'[h] = last[h], h \in heads' <=> h \in heads
  PROVE  Agrees(h)'
  BY DEF Agrees

\* A head newIndexHeads has removed agrees with any bucket.
LEMMA GoneHead ==
  ASSUME NEW h \in Heads, last'[h] = {}, h \notin heads'
  PROVE  Agrees(h)'
  BY DEF Agrees

\* The head of a Root that has become the last agrees with a bucket that lists
\* its seq.
LEMMA ReplacedHead ==
  ASSUME TypeOK, NEW r \in Roots, Replace(r),
         \E y \in Of(HeadOf(r))' : y.seq = r.seq
  PROVE  Agrees(HeadOf(r))'
  <1>1. HeadOf(r) \in Heads
    BY HeadOfRoot
  <1>2. last'[HeadOf(r)] = {r} /\ HeadOf(r) \in heads'
    BY <1>1 DEF Replace, TypeOK
  <1> QED BY <1>2 DEF Agrees

\* The other heads are not touched.
LEMMA OtherHeads ==
  ASSUME TypeOK, NEW r \in Roots, Replace(r), roots' \in {roots, roots \cup {r}},
         NEW h \in Heads, h # HeadOf(r), Agrees(h)
  PROVE  Agrees(h)'
  <1>1. Of(h)' = Of(h)
    BY DEF Of
  <1>2. last'[h] = last[h] /\ (h \in heads' <=> h \in heads)
    BY DEF Replace, TypeOK
  <1> QED BY <1>1, <1>2, SameHead

\* Every action leaves the Index and the IdxDB in agreement.
LEMMA StepHeadsAgree == TypeOK /\ HeadsAgree /\ [Next]_vars => HeadsAgree'
  <1> SUFFICES ASSUME TypeOK, HeadsAgree, [Next]_vars PROVE HeadsAgree'
    OBVIOUS
  <1>0. CASE UNCHANGED vars
    BY <1>0 DEF HeadsAgree, Agrees, Of, vars, index, idxdb
  <1> SUFFICES ASSUME Next, phase' = "open" PROVE HeadsAgree'
    BY <1>0 DEF HeadsAgree
  <1>a. /\ feeds = dbfeeds
        /\ heads \subseteq dbheads
        /\ \A r \in roots : HeadOf(r) \in dbheads
        /\ \A h \in Heads : Agrees(h)
    BY DEF HeadsAgree, Next
  <1>1. ASSUME NEW pk \in Feeds, AddFeed(pk) PROVE HeadsAgree'
    <2>1. ASSUME NEW h \in Heads PROVE Agrees(h)'
      <3>1. CASE h[1] = pk
        BY <1>1, <3>1, GoneHead DEF AddFeed, Blank
      <3>2. CASE h[1] # pk
        <4>1. Of(h)' = Of(h) /\ last'[h] = last[h] /\ (h \in heads' <=> h \in heads)
          BY <1>1, <3>2 DEF AddFeed, Blank, Of
        <4> QED BY <1>a, <4>1, SameHead
      <3> QED BY <3>1, <3>2
    <2> QED BY <1>1, <1>a, <2>1 DEF AddFeed, Blank, HeadsAgree
  <1>2. ASSUME NEW r \in Offers, AddRoot(r) PROVE HeadsAgree'
    <2>1. CASE UNCHANGED <<index, idxdb>>
      BY <1>a, <2>1 DEF HeadsAgree, Agrees, Of, index, idxdb
    <2>2. CASE ~UNCHANGED <<index, idxdb>>
      <3>1. r \in Roots
        BY OffersAssumption
      <3>2. /\ Replace(r) /\ dbheads' = dbheads \cup {HeadOf(r)} /\ dbfeeds' = dbfeeds
            /\ roots' = IF \E x \in Of(HeadOf(r)) : x.seq = r.seq THEN roots ELSE roots \cup {r}
        BY <1>2, <2>2 DEF AddRoot
      <3>3. \E y \in Of(HeadOf(r))' : y.seq = r.seq
        BY <3>2 DEF Of
      <3>4. ASSUME NEW h \in Heads PROVE Agrees(h)'
        BY <1>a, <3>1, <3>2, <3>3, ReplacedHead, OtherHeads
      <3> QED BY <1>a, <3>2, <3>4 DEF Replace, HeadsAgree
    <2> QED BY <2>1, <2>2
  <1>3. ASSUME NEW u \in Users, NEW h \in Heads, SaveRoot(u, h) PROVE HeadsAgree'
    <2>1. now' \in 1..MaxTime
      BY <1>3, BoundsAssumption DEF SaveRoot, TypeOK
    <2>2. PICK t \in 1..MaxTime : t = now'
      BY <2>1
    <2>3. PICK seq \in 0..MaxSeq :
            LET r == [feed |-> h[1], nonce |-> h[2], seq |-> seq, time |-> t]
            IN /\ dbheads' = dbheads \cup {h}
               /\ roots' = roots \cup {r}
               /\ Replace(r)
      BY <1>3, <2>2 DEF SaveRoot
    <2> DEFINE r == [feed |-> h[1], nonce |-> h[2], seq |-> seq, time |-> t]
    <2>a. r \in Roots /\ HeadOf(r) = h
      BY DEF Heads, Roots, HeadOf
    <2>4. /\ dbheads' = dbheads \cup {h}
          /\ roots' = roots \cup {r}
          /\ Replace(r)
      BY <2>3
    <2> HIDE DEF r
    <2>5. \E y \in Of(HeadOf(r))' : y.seq = r.seq
      BY <2>4 DEF Of
    <2>6. ASSUME NEW g \in Heads PROVE Agrees(g)'
      BY <1>a, <2>a, <2>4, <2>5, ReplacedHead, OtherHeads
    <2> QED BY <1>3, <1>a, <2>a, <2>4, <2>6 DEF SaveRoot, Replace, HeadsAgree
  <1>4. ASSUME NEW u \in Users, SaveValue(u) \/ DelValue(u) PROVE HeadsAgree'
    BY <1>4, <1>a DEF SaveValue, DelValue, HeadsAgree, Agrees, Of, index, idxdb
  <1>5. ASSUME NEW u \in Users, NEW pk \in Feeds, DelFeed(u, pk) PROVE HeadsAgree'
    <2>1. ASSUME NEW h \in Heads PROVE Agrees(h)'
      <3>1. CASE h[1] = pk
        BY <1>5, <3>1, GoneHead DEF DelFeed, Blank
      <3>2. CASE h[1] # pk
        <4>1. Of(h)' = Of(h)
          BY <1>5, <3>2 DEF DelFeed, Of, HeadOf
        <4>2. last'[h] = last[h] /\ (h \in heads' <=> h \in heads)
          BY <1>5, <3>2 DEF DelFeed, Blank
        <4> QED BY <1>a, <4>1, <4>2, SameHead
      <3> QED BY <3>1, <3>2
    <2>2. \A r \in roots' : HeadOf(r) \in dbheads'
      BY <1>5, <1>a DEF DelFeed, HeadOf
    <2> QED BY <1>5, <1>a, <2>1, <2>2 DEF DelFeed, Blank, HeadsAgree
  <1>6. ASSUME NEW u \in Users, NEW h \in Heads, DelHead(u, h) PROVE HeadsAgree'
    <2>1. ASSUME NEW g \in Heads PROVE Agrees(g)'
      <3>1. CASE g = h
        BY <1>6, <3>1, GoneHead DEF DelHead, TypeOK
      <3>2. CASE g # h
        <4>1. Of(g)' = Of(g)
          BY <1>6, <3>2 DEF DelHead, Of
        <4>2. last'[g] = last[g] /\ (g \in heads' <=> g \in heads)
          BY <1>6, <3>2 DEF DelHead, TypeOK
        <4> QED BY <1>a, <4>1, <4>2, SameHead
      <3> QED BY <3>1, <3>2
    <2>2. \A r \in roots' : HeadOf(r) \in dbheads'
      BY <1>6, <1>a DEF DelHead, Of
    <2> QED BY <1>6, <1>a, <2>1, <2>2 DEF DelHead, HeadsAgree
  <1>7. ASSUME NEW u \in Users, NEW h \in Heads, NEW r \in Of(h), DelRoot(u, h, r) PROVE HeadsAgree'
    <2> DEFINE isLast == \E x \in last[h] : x.seq = r.seq
               rest == LastOf(Of(h) \ {r})
    <2>1. r \in Roots /\ HeadOf(r) = h /\ Of(h) \in SUBSET Roots
      BY DEF TypeOK, Of
    <2>2. /\ roots' = roots \ {r} /\ heads' = heads /\ dbheads' = dbheads
          /\ feeds' = feeds /\ dbfeeds' = dbfeeds
          /\ last' = IF isLast THEN [last EXCEPT ![h] = rest] ELSE last
          /\ h \in heads
      BY <1>7 DEF DelRoot
    <2>3. last[h] # {}
      BY <1>7 DEF DelRoot
    <2>4. Of(h)' = Of(h) \ {r}
      BY <2>2 DEF Of
    <2>5. Agrees(h)'
      <3>1. CASE isLast
        <4>1. last'[h] = rest
          BY <2>2, <3>1 DEF TypeOK
        <4>2. rest \subseteq Of(h) \ {r} /\ (rest = {} <=> Of(h) \ {r} = {})
          BY <2>1, LastOfSome
        <4> HIDE DEF rest
        <4> QED BY <2>2, <2>4, <4>1, <4>2 DEF Agrees
      <3>2. CASE ~isLast
        <4>1. last'[h] = last[h]
          BY <2>2, <3>2
        <4>2. ASSUME NEW x \in last[h] PROVE \E y \in Of(h) \ {r} : y.seq = x.seq
          <5>1. PICK y \in Of(h) : y.seq = x.seq
            BY <1>a DEF Agrees
          <5> QED BY <3>2, <5>1
        <4> QED BY <2>2, <2>3, <2>4, <4>1, <4>2 DEF Agrees
      <3> QED BY <3>1, <3>2
    <2>6. ASSUME NEW g \in Heads, g # h PROVE Agrees(g)'
      <3>1. Of(g)' = Of(g)
        BY <2>1, <2>2, <2>6 DEF Of
      <3>2. last'[g] = last[g] /\ (g \in heads' <=> g \in heads)
        BY <2>2, <2>6 DEF TypeOK
      <3> QED BY <1>a, <3>1, <3>2, SameHead
    <2> QED BY <1>a, <2>2, <2>5, <2>6 DEF HeadsAgree
  <1>8. ASSUME NEW h \in Heads, AddHead(h) PROVE HeadsAgree'
    <2>1. ASSUME NEW g \in Heads PROVE Agrees(g)'
      <3>1. CASE g[1] = h[1]
        BY <1>8, <3>1, GoneHead DEF AddHead, Blank
      <3>2. CASE g[1] # h[1]
        <4>1. Of(g)' = Of(g) /\ last'[g] = last[g] /\ (g \in heads' <=> g \in heads)
          BY <1>8, <3>2 DEF AddHead, Blank, Of
        <4> QED BY <1>a, <4>1, SameHead
      <3> QED BY <3>1, <3>2
    <2> QED BY <1>8, <1>a, <2>1 DEF AddHead, Blank, HeadsAgree
  <1>9. ASSUME NEW h \in Heads, LastRoot(h) PROVE HeadsAgree'
    BY <1>9 DEF LastRoot
  <1>10. ASSUME ListFeeds PROVE HeadsAgree'
    BY <1>10, <1>a DEF ListFeeds, HeadsAgree, Agrees, Of, idxdb
  <1>11. ASSUME Load PROVE HeadsAgree'
    <2>1. ASSUME NEW h \in Heads PROVE Agrees(h)'
      <3>1. Of(h) \in SUBSET Roots
        BY DEF TypeOK, Of
      <3>2. Of(h)' = Of(h) /\ last'[h] = LastOf(Of(h)) /\ heads' = dbheads
        BY <1>11 DEF Load, Of, idxdb
      <3>3. h \notin dbheads => Of(h) = {}
        BY <1>a DEF Of
      <3>4. LastOf(Of(h)) \subseteq Of(h) /\ (LastOf(Of(h)) = {} <=> Of(h) = {})
        BY <3>1, LastOfSome
      <3> QED BY <3>2, <3>3, <3>4 DEF Agrees
    <2> QED BY <1>11, <1>a, <2>1 DEF Load, HeadsAgree, idxdb
  <1> QED BY <1>1, <1>2, <1>3, <1>4, <1>5, <1>6, <1>7, <1>8, <1>9, <1>10, <1>11 DEF Next

\* index.go:806: memory and drive have the same feeds, every head of the Index
\* is one of the IdxDB (not the other way round: AddHead makes the Index forget
\* the heads of the feed), it is blank exactly when its bucket is, and its last
\* seq is listed there, through every call, a crash and the following load.  It
\* says nothing of what a panic leaves behind.
THEOREM IndexHeadsAgree == Spec => []HeadsAgree
  <1>1. Init => HeadsAgree
    BY DEF Init, HeadsAgree, Agrees, Of
  <1> QED BY <1>1, StepHeadsAgree, IndexTypeOK, PTL DEF Spec

\* index.go:958: the list Feeds returns is empty or complete, whatever was added
\* or removed since it was built.
THEOREM IndexFeedsList == Spec => []FeedsList
  <1>1. Init => FeedsList
    BY DEF Init, FeedsList
  <1>2. FeedsList /\ [Next]_vars => FeedsList'
    <2> SUFFICES ASSUME FeedsList, [Next]_vars PROVE FeedsList'
      OBVIOUS
    <2>1. CASE ListFeeds
      BY <2>1 DEF ListFeeds, FeedsList
    <2>2. CASE UNCHANGED <<feeds, feedsl>>
      BY <2>2 DEF FeedsList
    <2>3. CASE feedsl' = {}
      BY <2>3 DEF FeedsList
    <2>4. ASSUME NEW r \in Offers, AddRoot(r) PROVE FeedsList'
      BY <2>2, <2>4 DEF AddRoot, Replace, index
    <2>5. ASSUME NEW u \in Users, NEW h \in Heads, SaveRoot(u, h) PROVE FeedsList'
      BY <2>2, <2>5 DEF SaveRoot, Replace
    <2>6. ASSUME NEW u \in Users, NEW h \in Heads, NEW r \in Of(h), DelRoot(u, h, r) PROVE FeedsList'
      BY <2>2, <2>6 DEF DelRoot
    <2>7. ASSUME NEW u \in Users, NEW h \in Heads, DelHead(u, h) PROVE FeedsList'
      BY <2>2, <2>7 DEF DelHead
    <2>8. ASSUME NEW pk \in Feeds, AddFeed(pk) \/ \E u \in Users : DelFeed(u, pk) PROVE FeedsList'
      BY <2>3, <2>8 DEF AddFeed, DelFeed
    <2>9. ASSUME NEW u \in Users, SaveValue(u) \/ DelValue(u) PROVE FeedsList'
      BY <2>2, <2>9 DEF SaveValue, DelValue, index
    <2>10. ASSUME NEW h \in Heads, AddHead(h) \/ LastRoot(h) PROVE FeedsList'
      BY <2>2, <2>10 DEF AddHead, LastRoot, index
    <2>11. ASSUME Load PROVE FeedsList'
      BY <2>3, <2>11 DEF Load
    <2>12. CASE UNCHANGED vars
      BY <2>2, <2>12 DEF vars, index
    <2> QED BY <2>1, <2>4, <2>5, <2>6, <2>7, <2>8, <2>9, <2>10, <2>11, <2>12 DEF Next
  <1> QED BY <1>1, <1>2, PTL DEF Spec

-----------------------------------------------------------------------------
\* whether the job j does op to r
Does(j, op, r) == IF j.op = op /\ r \in j.rs THEN 1 ELSE 0

LEMMA DoingFinite == ASSUME NEW op, NEW r
                     PROVE  IsFiniteSet(Doing(op, r)) /\ Cardinality(Doing(op, r)) \in Nat
  <1>1. Doing(op, r) \subseteq Users
    BY DEF Doing
  <1> QED BY <1>1, FiniteAssumption, FS_Subset, FS_CardinalityType

\* A goroutine that changes its job changes the counts by what it did and does.
LEMMA DoingStep ==
  ASSUME TypeOK, NEW u \in Users, NEW j, job' = [job EXCEPT ![u] = j], NEW op, NEW r
  PROVE  Cardinality(Doing(op, r)') = Cardinality(Doing(op, r)) - Does(job[u], op, r) + Does(j, op, r)
  <1> DEFINE D == Doing(op, r)
             E == Doing(op, r)'
             W == D \ {u}
  <1>1. E \ {u} = W /\ (u \in E <=> j.op = op /\ r \in j.rs) /\ (u \in D <=> job[u].op = op /\ r \in job[u].rs)
    BY DEF Doing, TypeOK
  <1>2. IsFiniteSet(D)
    BY DoingFinite
  <1> HIDE DEF D, E
  <1>3. IsFiniteSet(W) /\ Cardinality(W) = IF u \in D THEN Cardinality(D) - 1 ELSE Cardinality(D)
    BY <1>2, FS_RemoveElement
  <1>4. u \in E => E = W \cup {u}
    BY <1>1
  <1>5. u \notin E => E = W
    BY <1>1
  <1>6. Cardinality(W \cup {u}) = Cardinality(W) + 1
    <2>1. u \notin W
      OBVIOUS
    <2> HIDE DEF W
    <2> QED BY <1>3, <2>1, FS_AddElement
  <1>7. Cardinality(D) \in Nat /\ Cardinality(W) \in Nat
    BY <1>2, <1>3, FS_CardinalityType
  <1>8. Does(j, op, r) = (IF u \in E THEN 1 ELSE 0) /\ Does(job[u], op, r) = IF u \in D THEN 1 ELSE 0
    BY <1>1 DEF Does
  <1> HIDE DEF W
  <1>9. Cardinality(E) = Cardinality(D) - Does(job[u], op, r) + Does(j, op, r)
    <2>1. CASE u \in E
      <3>1. Cardinality(E) = Cardinality(W) + 1
        BY <1>4, <1>6, <2>1
      <3> QED BY <1>3, <1>7, <1>8, <2>1, <3>1
    <2>2. CASE u \notin E
      <3>1. Cardinality(E) = Cardinality(W)
        BY <1>5, <2>2
      <3> QED BY <1>3, <1>7, <1>8, <2>2, <3>1
    <2> QED BY <2>1, <2>2
  <1> QED BY <1>9 DEF D, E

LEMMA DoingSteps ==
  ASSUME TypeOK, NEW u \in Users, NEW j, job' = [job EXCEPT ![u] = j], NEW r
  PROVE  /\ Cardinality(Doing("save", r)') =
              Cardinality(Doing("save", r)) - Does(job[u], "save", r) + Does(j, "save", r)
         /\ Cardinality(Doing("del", r)') =
              Cardinality(Doing("del", r)) - Does(job[u], "del", r) + Does(j, "del", r)
  <1>1. Cardinality(Doing("save", r)') =
          Cardinality(Doing("save", r)) - Does(job[u], "save", r) + Does(j, "save", r)
    BY DoingStep, ZenonT(60)
  <1>2. Cardinality(Doing("del", r)') =
          Cardinality(Doing("del", r)) - Does(job[u], "del", r) + Does(j, "del", r)
    BY DoingStep, ZenonT(60)
  <1> QED BY <1>1, <1>2

\* The counts stay if the jobs do.
LEMMA DoingSame ==
  ASSUME job' = job, NEW op, NEW r
  PROVE  Cardinality(Doing(op, r)') = Cardinality(Doing(op, r))
  BY DEF Doing

\* What a deletion adds to the counts.
LEMMA DoingDelete ==
  ASSUME TypeOK, NEW u \in Users, NEW R, ToDelete(u, R), NEW r
  PROVE  /\ Cardinality(Doing("save", r)') = Cardinality(Doing("save", r))
         /\ Cardinality(Doing("del", r)') = Cardinality(Doing("del", r)) + IF r \in R THEN 1 ELSE 0
  <1> DEFINE j == IF R = {} THEN Idle ELSE [op |-> "del", rs |-> R]
  <1>1. job[u] = Idle /\ job' = [job EXCEPT ![u] = j]
    BY DEF ToDelete
  <1>2. Does(Idle, "save", r) = 0 /\ Does(Idle, "del", r) = 0
    BY DEF Does, Idle
  <1>3. Does(j, "save", r) = 0 /\ Does(j, "del", r) = IF r \in R THEN 1 ELSE 0
    BY DEF Does, Idle
  <1> HIDE DEF j
  <1>4. /\ Cardinality(Doing("save", r)') = Cardinality(Doing("save", r)) - 0 + 0
        /\ Cardinality(Doing("del", r)') = Cardinality(Doing("del", r)) - 0 + IF r \in R THEN 1 ELSE 0
    <2>1. /\ Cardinality(Doing("save", r)') =
               Cardinality(Doing("save", r)) - Does(job[u], "save", r) + Does(j, "save", r)
          /\ Cardinality(Doing("del", r)') =
               Cardinality(Doing("del", r)) - Does(job[u], "del", r) + Does(j, "del", r)
      BY <1>1, DoingSteps
    <2> QED BY <1>1, <1>2, <1>3, <2>1
  <1>5. Cardinality(Doing("save", r)) \in Nat /\ Cardinality(Doing("del", r)) \in Nat
    BY DoingFinite
  <1> QED BY <1>4, <1>5

\* Save saves one Root.
SaveOne == \A u \in Users : job[u].op = "save" => \E x : job[u].rs = {x}

LEMMA StepSaveOne == TypeOK /\ SaveOne /\ [Next]_vars => SaveOne'
  <1> SUFFICES ASSUME TypeOK, SaveOne, [Next]_vars PROVE SaveOne'
    OBVIOUS
  <1>1. ASSUME NEW u \in Users, NEW j, job' = [job EXCEPT ![u] = j], j.op = "save" => \E x : j.rs = {x}
        PROVE  SaveOne'
    BY <1>1 DEF SaveOne, TypeOK
  <1>2. ASSUME job' = job PROVE SaveOne'
    BY <1>2 DEF SaveOne
  <1>3. ASSUME NEW u \in Users, NEW R, ToDelete(u, R) PROVE SaveOne'
    <2> DEFINE j == IF R = {} THEN Idle ELSE [op |-> "del", rs |-> R]
    <2>1. job' = [job EXCEPT ![u] = j] /\ j.op # "save"
      BY <1>3 DEF ToDelete, Idle
    <2> HIDE DEF j
    <2> QED BY <1>1, <2>1
  <1>4. ASSUME NEW u \in Users, NEW h \in Heads, SaveRoot(u, h) PROVE SaveOne'
    <2>1. PICK x : job' = [job EXCEPT ![u] = [op |-> "save", rs |-> {x}]]
      BY <1>4 DEF SaveRoot
    <2> DEFINE j == [op |-> "save", rs |-> {x}]
    <2>2. j.rs = {x} /\ job' = [job EXCEPT ![u] = j]
      BY <2>1
    <2> HIDE DEF j
    <2> QED BY <1>1, <2>2
  <1>5. ASSUME NEW u \in Users, SaveValue(u) \/ DelValue(u) PROVE SaveOne'
    <2>1. PICK j : job' = [job EXCEPT ![u] = j] /\ j.op # "save"
      BY <1>5 DEF SaveValue, DelValue, Idle
    <2> QED BY <1>1, <2>1
  <1>6. ASSUME Load PROVE SaveOne'
    BY <1>6 DEF Load, SaveOne, Idle
  <1>7. CASE UNCHANGED vars
    BY <1>2, <1>7 DEF vars
  <1>8. CASE \/ \E pk \in Feeds : AddFeed(pk)
             \/ \E r \in Offers : AddRoot(r)
             \/ \E h \in Heads : AddHead(h) \/ LastRoot(h)
             \/ ListFeeds
    <2>1. job' = job
      BY <1>8 DEF AddFeed, AddRoot, AddHead, LastRoot, ListFeeds
    <2> QED BY <1>2, <2>1
  <1>9. CASE \/ \E u \in Users, pk \in Feeds : DelFeed(u, pk)
             \/ \E u \in Users, h \in Heads : DelHead(u, h)
             \/ \E u \in Users, h \in Heads : \E r \in Of(h) : DelRoot(u, h, r)
    <2>1. ASSUME NEW u \in Users, NEW pk \in Feeds, DelFeed(u, pk) PROVE SaveOne'
      BY <1>3, <2>1 DEF DelFeed
    <2>2. ASSUME NEW u \in Users, NEW h \in Heads, DelHead(u, h) PROVE SaveOne'
      BY <1>3, <2>2 DEF DelHead
    <2>3. ASSUME NEW u \in Users, NEW h \in Heads, NEW r \in Of(h), DelRoot(u, h, r) PROVE SaveOne'
      BY <1>3, <2>3 DEF DelRoot
    <2> QED BY <1>9, <2>1, <2>2, <2>3
  <1>10. CASE \E u \in Users, h \in Heads : SaveRoot(u, h)
    BY <1>4, <1>10
  <1>11. CASE \E u \in Users : SaveValue(u) \/ DelValue(u)
    BY <1>5, <1>11
  <1>12. CASE Next
    <2> HIDE DEF SaveOne
    <2> QED BY <1>6, <1>8, <1>9, <1>10, <1>11, <1>12 DEF Next
  <1> QED BY <1>7, <1>12

\* one Root of Kept
KeptRoot(r) == rc[r] + Cardinality(Doing("save", r)) >= Cardinality(Doing("del", r)) + Listed(r)

\* Every action but a crash keeps the values of the listed Roots.
LEMMA StepKept ==
  ASSUME "crash" \notin Calls
  PROVE  TypeOK /\ SaveOne /\ Kept /\ [Next]_vars => Kept'
  <1> SUFFICES ASSUME TypeOK, SaveOne, Kept, [Next]_vars, NEW r \in Roots PROVE KeptRoot(r)'
    BY DEF Kept, KeptRoot
  <1> DEFINE s == Cardinality(Doing("save", r))
             d == Cardinality(Doing("del", r))
  <1>a. KeptRoot(r)
    BY DEF Kept, KeptRoot
  <1>b. rc[r] \in Nat /\ s \in Nat /\ d \in Nat /\ Listed(r) \in {0, 1} /\ Listed(r)' \in {0, 1}
    BY DoingFinite DEF TypeOK, Listed
  <1>c. rc[r] + s >= d + Listed(r)
    BY <1>a DEF KeptRoot
  <1>z. ASSUME UNCHANGED <<rc, job, roots>> PROVE KeptRoot(r)'
    <2>1. s' = s /\ d' = d
      BY <1>z, DoingSame
    <2>2. rc'[r] = rc[r] /\ Listed(r)' = Listed(r)
      BY <1>z DEF Listed
    <2> HIDE DEF s, d
    <2>3. rc'[r] + s' >= d' + Listed(r)'
      BY <1>c, <2>1, <2>2
    <2> QED BY <2>3 DEF KeptRoot, s, d
  <1>2. ASSUME NEW o \in Offers, AddRoot(o) PROVE KeptRoot(r)'
    <2>1. s' = s /\ d' = d
      BY <1>2, DoingSame DEF AddRoot
    <2>2. o \in Roots
      BY OffersAssumption
    <2>3. rc'[r] = IF r = o THEN rc[r] + 1 ELSE rc[r]
      BY <1>2, <2>2 DEF AddRoot, TypeOK
    <2>4. r # o => Listed(r)' = Listed(r)
      BY <1>2 DEF AddRoot, Listed, idxdb
    <2> HIDE DEF s, d
    <2>5. rc'[r] + s' >= d' + Listed(r)'
      BY <1>b, <1>c, <2>1, <2>3, <2>4
    <2> QED BY <2>5 DEF KeptRoot, s, d
  <1>3. ASSUME NEW u \in Users, NEW h \in Heads, SaveRoot(u, h) PROVE KeptRoot(r)'
    <2>1. PICK x : /\ roots' = roots \cup {x}
                   /\ job' = [job EXCEPT ![u] = [op |-> "save", rs |-> {x}]]
      BY <1>3 DEF SaveRoot
    <2>2. job[u] = Idle /\ rc' = rc
      BY <1>3 DEF SaveRoot
    <2> DEFINE j == [op |-> "save", rs |-> {x}]
    <2>3. Does(Idle, "save", r) = 0 /\ Does(Idle, "del", r) = 0
      BY DEF Does, Idle
    <2>4. Does(j, "save", r) = (IF r = x THEN 1 ELSE 0) /\ Does(j, "del", r) = 0
      BY DEF Does
    <2>5. job' = [job EXCEPT ![u] = j]
      BY <2>1
    <2> HIDE DEF j
    <2>6. s' = s - 0 + (IF r = x THEN 1 ELSE 0) /\ d' = d - 0 + 0
      <3>1. s' = s - Does(job[u], "save", r) + Does(j, "save", r) /\ d' = d - Does(job[u], "del", r) + Does(j, "del", r)
        BY <2>5, DoingSteps
      <3> QED BY <2>2, <2>3, <2>4, <3>1
    <2>7. r # x => Listed(r)' = Listed(r)
      BY <2>1 DEF Listed
    <2> HIDE DEF s, d
    <2>8. rc'[r] + s' >= d' + Listed(r)'
      BY <1>b, <1>c, <2>2, <2>6, <2>7
    <2> QED BY <2>8 DEF KeptRoot, s, d
  <1>4. ASSUME NEW u \in Users, SaveValue(u) PROVE KeptRoot(r)'
    <2>1. PICK x \in job[u].rs : rc' = [rc EXCEPT ![x] = @ + 1]
      BY <1>4 DEF SaveValue
    <2>2. job' = [job EXCEPT ![u] = Idle] /\ job[u].op = "save" /\ roots' = roots
      BY <1>4 DEF SaveValue, idxdb
    <2>3. Does(Idle, "save", r) = 0 /\ Does(Idle, "del", r) = 0
      BY DEF Does, Idle
    <2>4. Does(job[u], "save", r) = (IF r \in job[u].rs THEN 1 ELSE 0) /\ Does(job[u], "del", r) = 0
      BY <2>2 DEF Does
    <2>5. s' = s - (IF r \in job[u].rs THEN 1 ELSE 0) + 0 /\ d' = d - 0 + 0
      <3>1. s' = s - Does(job[u], "save", r) + Does(Idle, "save", r) /\ d' = d - Does(job[u], "del", r) + Does(Idle, "del", r)
        BY <2>2, DoingSteps
      <3> QED BY <2>3, <2>4, <3>1
    <2>6. rc'[r] = IF r = x THEN rc[r] + 1 ELSE rc[r]
      BY <2>1 DEF TypeOK
    <2>7. r \in job[u].rs => r = x
      BY <2>1, <2>2 DEF SaveOne
    <2>8. Listed(r)' = Listed(r)
      BY <2>2 DEF Listed
    <2> HIDE DEF s, d
    <2>9. rc'[r] + s' >= d' + Listed(r)'
      BY <1>b, <1>c, <2>5, <2>6, <2>7, <2>8
    <2> QED BY <2>9 DEF KeptRoot, s, d
  <1>5. ASSUME NEW u \in Users, DelValue(u) PROVE KeptRoot(r)'
    <2>1. PICK x \in job[u].rs :
            IF rc[x] = 0
            THEN job' = [job EXCEPT ![u] = Idle] /\ UNCHANGED rc
            ELSE /\ rc' = [rc EXCEPT ![x] = @ - 1]
                 /\ job' = [job EXCEPT ![u] = IF @.rs = {x} THEN Idle
                                              ELSE [op |-> "del", rs |-> @.rs \ {x}]]
      BY <1>5 DEF DelValue
    <2>2. job[u].op = "del" /\ Listed(r)' = Listed(r)
      BY <1>5 DEF DelValue, idxdb, Listed
    <2>3. Does(Idle, "save", r) = 0 /\ Does(Idle, "del", r) = 0
      BY DEF Does, Idle
    <2>4. Does(job[u], "del", r) = (IF r \in job[u].rs THEN 1 ELSE 0) /\ Does(job[u], "save", r) = 0
      BY <2>2 DEF Does
    <2>5. CASE rc[x] = 0
      <3>1. job' = [job EXCEPT ![u] = Idle] /\ rc' = rc
        BY <2>1, <2>5
      <3>2. s' = s - 0 + 0 /\ d' = d - (IF r \in job[u].rs THEN 1 ELSE 0) + 0
        <4>1. s' = s - Does(job[u], "save", r) + Does(Idle, "save", r) /\ d' = d - Does(job[u], "del", r) + Does(Idle, "del", r)
          BY <3>1, DoingSteps
        <4> QED BY <2>3, <2>4, <4>1
      <3> HIDE DEF s, d
      <3>3. rc'[r] + s' >= d' + Listed(r)'
        BY <1>b, <1>c, <2>2, <3>1, <3>2
      <3> QED BY <3>3 DEF KeptRoot, s, d
    <2>6. CASE rc[x] # 0
      <3> DEFINE j == IF job[u].rs = {x} THEN Idle ELSE [op |-> "del", rs |-> job[u].rs \ {x}]
      <3>1. job' = [job EXCEPT ![u] = j] /\ rc' = [rc EXCEPT ![x] = @ - 1]
        BY <2>1, <2>6
      <3>2. Does(j, "save", r) = 0 /\ Does(j, "del", r) = IF r \in job[u].rs \ {x} THEN 1 ELSE 0
        BY DEF Does, Idle
      <3> HIDE DEF j
      <3>3. /\ s' = s - 0 + 0
            /\ d' = d - (IF r \in job[u].rs THEN 1 ELSE 0) + (IF r \in job[u].rs \ {x} THEN 1 ELSE 0)
        <4>1. s' = s - Does(job[u], "save", r) + Does(j, "save", r) /\ d' = d - Does(job[u], "del", r) + Does(j, "del", r)
          BY <3>1, DoingSteps
        <4> QED BY <2>4, <3>2, <4>1
      <3>4. rc'[r] = IF r = x THEN rc[r] - 1 ELSE rc[r]
        BY <3>1 DEF TypeOK
      <3> HIDE DEF s, d
      <3>5. rc'[r] + s' >= d' + Listed(r)'
        BY <1>b, <1>c, <2>1, <2>2, <3>3, <3>4
      <3> QED BY <3>5 DEF KeptRoot, s, d
    <2> QED BY <2>5, <2>6
  <1>6. ASSUME NEW u \in Users, NEW R \in SUBSET roots, ToDelete(u, R), rc' = rc,
               roots' \subseteq roots \ R
        PROVE  KeptRoot(r)'
    <2>1. s' = s /\ d' = d + IF r \in R THEN 1 ELSE 0
      BY <1>6, DoingDelete
    <2>2. r \in R => Listed(r) = 1 /\ Listed(r)' = 0
      BY <1>6 DEF Listed
    <2>3. Listed(r)' <= Listed(r)
      BY <1>6 DEF Listed
    <2> HIDE DEF s, d
    <2>4. rc'[r] + s' >= d' + Listed(r)'
      BY <1>6, <1>b, <1>c, <2>1, <2>2, <2>3
    <2> QED BY <2>4 DEF KeptRoot, s, d
  <1>7. ASSUME NEW u \in Users, NEW pk \in Feeds, DelFeed(u, pk) PROVE KeptRoot(r)'
    <2> DEFINE R == {x \in roots : x.feed = pk /\ HeadOf(x) \in heads}
    <2>1. ToDelete(u, R) /\ rc' = rc /\ roots' \subseteq roots \ R /\ R \in SUBSET roots
      BY <1>7 DEF DelFeed
    <2> HIDE DEF R
    <2> QED BY <1>6, <2>1
  <1>8. ASSUME NEW u \in Users, NEW h \in Heads, DelHead(u, h) PROVE KeptRoot(r)'
    <2>1. ToDelete(u, Of(h)) /\ rc' = rc /\ roots' \subseteq roots \ Of(h) /\ Of(h) \in SUBSET roots
      BY <1>8 DEF DelHead, Of
    <2> QED BY <1>6, <2>1
  <1>9. ASSUME NEW u \in Users, NEW h \in Heads, NEW x \in Of(h), DelRoot(u, h, x) PROVE KeptRoot(r)'
    <2>1. ToDelete(u, {x}) /\ rc' = rc /\ roots' \subseteq roots \ {x} /\ {x} \in SUBSET roots
      BY <1>9 DEF DelRoot, Of
    <2> QED BY <1>6, <2>1
  <1>10. ASSUME Load PROVE KeptRoot(r)'
    <2>1. \A u \in Users : job[u] = Idle
      BY <1>10 DEF Load
    <2>2. job' = job
      BY <1>10, <2>1 DEF Load, TypeOK
    <2> QED BY <1>10, <1>z, <2>2 DEF Load, idxdb
  <1>11. CASE UNCHANGED vars
    BY <1>11, <1>z DEF vars, idxdb
  <1>12. ASSUME NEW pk \in Feeds, AddFeed(pk) PROVE KeptRoot(r)'
    BY <1>12, <1>z DEF AddFeed
  <1>13. ASSUME NEW h \in Heads, AddHead(h) \/ LastRoot(h) PROVE KeptRoot(r)'
    BY <1>13, <1>z DEF AddHead, LastRoot, idxdb
  <1>14. ASSUME ListFeeds PROVE KeptRoot(r)'
    BY <1>14, <1>z DEF ListFeeds, idxdb
  <1> QED BY <1>2, <1>3, <1>4, <1>5, <1>7, <1>8, <1>9, <1>10, <1>11, <1>12, <1>13, <1>14 DEF Next

\* unpack.go:244, index.go:898: unless the process dies between the IdxDB and
\* the CXDS, a Root the IdxDB lists has a value in the CXDS, or Save is about to
\* store it, whatever is saved, filled and deleted concurrently.
THEOREM IndexKept ==
  ASSUME "crash" \notin Calls
  PROVE  Spec => []Kept
  <1>1. Init => SaveOne /\ Kept
    <2>1. ASSUME Init, NEW op, op # "idle", NEW r PROVE Cardinality(Doing(op, r)) = 0
      <3>1. Doing(op, r) = {}
        BY <2>1 DEF Init, Doing, Idle
      <3> QED BY <3>1, FS_EmptySet
    <2>2. ASSUME Init PROVE Kept
      BY <2>1, <2>2 DEF Init, Kept, Listed
    <2> QED BY <2>2 DEF Init, SaveOne, Idle
  <1>2. Spec => []SaveOne
    BY <1>1, StepSaveOne, IndexTypeOK, PTL DEF Spec
  <1>3. TypeOK /\ SaveOne /\ Kept /\ [Next]_vars => Kept'
    BY StepKept
  <1> QED BY <1>1, <1>2, <1>3, IndexTypeOK, PTL DEF Spec
-----------------------------------------------------------------------------
(* The Index against load.                                                 *)

Loaded(h) == last[h] = LastOf(Of(h))

\* AddFeed finds no head of the feed, on drive either
Housed == \A h \in dbheads : h[1] \in dbfeeds

LoadInv == Housed /\ LoadAgrees

LEMMA SameLoaded ==
  ASSUME NEW h \in Heads, Loaded(h), Of(h)' = Of(h), last'[h] = last[h]
  PROVE  Loaded(h)'
  BY DEF Loaded

\* An empty bucket has no last Root.
LEMMA LastOfNone == LastOf({}) = {}
  BY DEF LastOf

\* A Root with a seq greater than all others is the last.
LEMMA LastOfNext ==
  ASSUME NEW R \in SUBSET Roots, NEW r \in Roots, \A x \in R : x.seq < r.seq
  PROVE  LastOf(R \cup {r}) = {r}
  <1>1. \A x \in R \cup {r} : x.seq \in Nat
    BY BoundsAssumption DEF Roots
  <1>2. \A x \in R : ~(r.seq <= x.seq) /\ x.seq <= r.seq
    BY <1>1
  <1> QED
    BY <1>1, <1>2 DEF LastOf

\* What is less than some last Root is less than all Roots.
LEMMA LastOfBounds ==
  ASSUME NEW R \in SUBSET Roots, NEW n \in Nat, \A x \in LastOf(R) : x.seq < n
  PROVE  \A x \in R : x.seq < n
  <1> SUFFICES ASSUME NEW x \in R PROVE x.seq < n
    OBVIOUS
  <1>1. PICK y \in LastOf(R) : TRUE
    BY LastOfSome
  <1>2. y.seq < n /\ x.seq <= y.seq
    BY DEF LastOf
  <1>3. x.seq \in Nat /\ y.seq \in Nat
    BY LastOfSome, BoundsAssumption DEF Roots
  <1> QED
    BY <1>2, <1>3

\* A Root that is not the last does not matter to Descend.
LEMMA LastOfWithout ==
  ASSUME NEW R \in SUBSET Roots, NEW r \in R, \A x \in LastOf(R) : x.seq # r.seq
  PROVE  LastOf(R \ {r}) = LastOf(R)
  <1>1. r \notin LastOf(R)
    OBVIOUS
  <1>2. ASSUME NEW x \in LastOf(R \ {r}) PROVE x \in LastOf(R)
    <2>1. PICK y \in LastOf(R) : TRUE
      BY LastOfSome
    <2>2. y \in R \ {r} /\ r.seq <= y.seq
      BY <1>1 DEF LastOf
    <2>3. x \in R /\ y.seq <= x.seq
      BY <2>2 DEF LastOf
    <2>4. x.seq \in Nat /\ y.seq \in Nat /\ r.seq \in Nat
      BY <2>2, <2>3, BoundsAssumption DEF Roots
    <2>5. r.seq <= x.seq
      BY <2>2, <2>3, <2>4
    <2> QED
      BY <2>3, <2>5 DEF LastOf
  <1>3. ASSUME NEW x \in LastOf(R) PROVE x \in LastOf(R \ {r})
    BY <1>1 DEF LastOf
  <1> QED
    BY <1>2, <1>3

\* addRoot and addSavedRoot of a Root newer than the last.
LEMMA LoadedReplace ==
  ASSUME TypeOK, NEW r \in Roots, Replace(r), roots' = roots \cup {r},
         \A x \in Of(HeadOf(r)) : x.seq < r.seq, NEW h \in Heads, Loaded(h)
  PROVE  Loaded(h)'
  <1>1. CASE h = HeadOf(r)
    <2>1. Of(h)' = Of(h) \cup {r}
      BY <1>1 DEF Of
    <2>2. Of(h) \in SUBSET Roots
      BY DEF Of, TypeOK
    <2>3. LastOf(Of(h) \cup {r}) = {r}
      BY <1>1, <2>2, LastOfNext
    <2>4. last'[h] = {r}
      BY <1>1 DEF Replace, TypeOK
    <2> QED
      BY <2>1, <2>3, <2>4 DEF Loaded
  <1>2. CASE h # HeadOf(r)
    <2>1. Of(h)' = Of(h) /\ last'[h] = last[h]
      BY <1>2 DEF Of, Replace, TypeOK
    <2> QED
      BY <2>1, SameLoaded
  <1> QED
    BY <1>1, <1>2

\* The Root AddRoot adds, if it adds one.
LEMMA AddRootNew ==
  ASSUME TypeOK, "old" \notin Calls, NEW r \in Offers, AddRoot(r), ~UNCHANGED <<index, idxdb>>,
         Loaded(HeadOf(r))
  PROVE  /\ r \in Roots /\ HeadOf(r) \in Heads /\ Replace(r)
         /\ dbheads' = dbheads \cup {HeadOf(r)} /\ dbfeeds' = dbfeeds /\ r.feed \in dbfeeds
         /\ roots' = roots \cup {r}
         /\ \A x \in Of(HeadOf(r)) : x.seq < r.seq
  <1>1. r \in Roots /\ HeadOf(r) \in Heads
    BY OffersAssumption, HeadOfRoot
  <1>2. /\ Replace(r) /\ dbheads' = dbheads \cup {HeadOf(r)} /\ dbfeeds' = dbfeeds /\ r.feed \in dbfeeds
        /\ roots' = IF \E x \in Of(HeadOf(r)) : x.seq = r.seq THEN roots ELSE roots \cup {r}
        /\ \A x \in last[HeadOf(r)] : x.seq < r.seq
    BY DEF AddRoot
  <1>3. Of(HeadOf(r)) \in SUBSET Roots /\ r.seq \in Nat
    BY <1>1, BoundsAssumption DEF Of, TypeOK, Roots
  <1>4. \A x \in Of(HeadOf(r)) : x.seq < r.seq
    BY <1>2, <1>3, LastOfBounds DEF Loaded
  <1>5. \A x \in Of(HeadOf(r)) : x.seq # r.seq
    <2>1. \A x \in Of(HeadOf(r)) : x.seq \in Nat
      BY <1>3, BoundsAssumption DEF Roots
    <2> QED
      BY <1>3, <1>4, <2>1
  <1> QED
    BY <1>1, <1>2, <1>4, <1>5

\* The Root Save makes.
LEMMA SaveRootNew ==
  ASSUME TypeOK, NEW u \in Users, NEW h \in Heads, SaveRoot(u, h)
  PROVE  \E r \in Roots :
           /\ HeadOf(r) = h /\ Replace(r) /\ r.time = now' /\ r.nonce \in Own
           /\ dbheads' = dbheads \cup {h} /\ dbfeeds' = dbfeeds /\ h[1] \in dbfeeds
           /\ roots' = roots \cup {r}
           /\ \A x \in Of(h) : x.seq < r.seq
  <1>1. now' \in 1..MaxTime
    BY BoundsAssumption DEF SaveRoot, TypeOK
  <1>2. PICK t \in 1..MaxTime : t = now'
    BY <1>1
  <1>3. PICK seq \in 0..MaxSeq :
          LET r == [feed |-> h[1], nonce |-> h[2], seq |-> seq, time |-> t]
          IN /\ Of(h) = {} \/ \E x \in LastOf(Of(h)) : seq = x.seq + 1
             /\ dbheads' = dbheads \cup {h}
             /\ roots' = roots \cup {r}
             /\ Replace(r)
    BY <1>2 DEF SaveRoot
  <1> DEFINE r == [feed |-> h[1], nonce |-> h[2], seq |-> seq, time |-> t]
  <1>4. r \in Roots /\ HeadOf(r) = h /\ r.seq = seq /\ r.time = now' /\ r.nonce = h[2]
    BY <1>2 DEF Heads, Roots, HeadOf
  <1>5. /\ dbheads' = dbheads \cup {h} /\ roots' = roots \cup {r} /\ Replace(r)
    BY <1>3
  <1>6. \A x \in Of(h) : x.seq < seq
    <2>1. Of(h) \in SUBSET Roots
      BY DEF Of, TypeOK
    <2>2. \A x \in Of(h) : x.seq \in Nat
      BY <2>1, BoundsAssumption DEF Roots
    <2>3. ASSUME NEW x \in LastOf(Of(h)), seq = x.seq + 1, NEW y \in Of(h) PROVE y.seq < seq
      <3>1. x \in Of(h) /\ y.seq <= x.seq
        BY DEF LastOf
      <3> QED
        BY <2>2, <2>3, <3>1
    <2> QED
      BY <1>3, <2>3
  <1>7. dbfeeds' = dbfeeds /\ h[1] \in dbfeeds /\ h[2] \in Own
    BY DEF SaveRoot
  <1> HIDE DEF r
  <1> QED
    BY <1>4, <1>5, <1>6, <1>7

LEMMA StepLoadInv ==
  ASSUME "AddHead" \notin Calls, "old" \notin Calls, TypeOK, HeadsAgree, LoadInv, [Next]_vars
  PROVE  LoadInv'
  <1>0. CASE UNCHANGED vars
    BY <1>0 DEF LoadInv, Housed, LoadAgrees, Of, vars, index, idxdb
  <1> SUFFICES ASSUME Next PROVE LoadInv'
    BY <1>0
  <1>a. /\ heads = dbheads /\ Housed /\ feeds = dbfeeds
        /\ \A h \in Heads : Loaded(h)
        /\ \A r \in roots : HeadOf(r) \in dbheads
    BY DEF LoadInv, LoadAgrees, HeadsAgree, Next, Loaded
  <1>b. ASSUME Housed', heads' = dbheads', \A h \in Heads : Loaded(h)' PROVE LoadInv'
    BY <1>b DEF LoadInv, LoadAgrees, Loaded
  <1>1. ASSUME NEW pk \in Feeds, AddFeed(pk) PROVE LoadInv'
    <2>1. \A h \in dbheads : h[1] # pk
      BY <1>1, <1>a DEF AddFeed, Housed
    <2>2. ASSUME NEW h \in Heads PROVE Loaded(h)'
      <3>1. Of(h)' = Of(h)
        BY <1>1 DEF AddFeed, Of
      <3>2. CASE h[1] = pk
        <4>1. last'[h] = {} /\ Of(h) = {}
          BY <1>1, <1>a, <2>1, <3>2 DEF AddFeed, Blank, Of
        <4> QED
          BY <3>1, <4>1, LastOfNone DEF Loaded
      <3>3. CASE h[1] # pk
        <4>1. last'[h] = last[h]
          BY <1>1, <3>3 DEF AddFeed, Blank
        <4> QED
          BY <1>a, <3>1, <4>1, SameLoaded
      <3> QED
        BY <3>2, <3>3
    <2>3. heads' = dbheads' /\ Housed'
      BY <1>1, <1>a, <2>1 DEF AddFeed, Blank, Housed
    <2> QED
      BY <1>b, <2>2, <2>3
  <1>2. ASSUME NEW r \in Offers, AddRoot(r) PROVE LoadInv'
    <2>1. CASE UNCHANGED <<index, idxdb>>
      BY <1>a, <1>b, <2>1 DEF Housed, Loaded, Of, index, idxdb
    <2>2. CASE ~UNCHANGED <<index, idxdb>>
      <3>1. Loaded(HeadOf(r))
        BY <1>a, HeadOfRoot, OffersAssumption
      <3>2. /\ r \in Roots /\ HeadOf(r) \in Heads /\ Replace(r)
            /\ dbheads' = dbheads \cup {HeadOf(r)} /\ dbfeeds' = dbfeeds /\ r.feed \in dbfeeds
            /\ roots' = roots \cup {r}
            /\ \A x \in Of(HeadOf(r)) : x.seq < r.seq
        BY <1>2, <2>2, <3>1, AddRootNew
      <3>3. ASSUME NEW h \in Heads PROVE Loaded(h)'
        BY <1>a, <3>2, LoadedReplace
      <3>4. heads' = dbheads' /\ Housed'
        BY <1>a, <3>2 DEF Replace, Housed, HeadOf
      <3> QED
        BY <1>b, <3>3, <3>4
    <2> QED
      BY <2>1, <2>2
  <1>3. ASSUME NEW u \in Users, NEW h \in Heads, SaveRoot(u, h) PROVE LoadInv'
    <2>1. PICK r \in Roots :
            /\ HeadOf(r) = h /\ Replace(r)
            /\ dbheads' = dbheads \cup {h} /\ dbfeeds' = dbfeeds /\ h[1] \in dbfeeds
            /\ roots' = roots \cup {r}
            /\ \A x \in Of(h) : x.seq < r.seq
      BY <1>3, SaveRootNew
    <2>2. ASSUME NEW g \in Heads PROVE Loaded(g)'
      BY <1>a, <2>1, LoadedReplace
    <2>3. heads' = dbheads' /\ Housed'
      BY <1>a, <2>1 DEF Replace, Housed
    <2> QED
      BY <1>b, <2>2, <2>3
  <1>4. ASSUME NEW u \in Users, SaveValue(u) \/ DelValue(u) PROVE LoadInv'
    BY <1>4, <1>a, <1>b DEF SaveValue, DelValue, Housed, Loaded, Of, index, idxdb
  <1>5. ASSUME NEW u \in Users, NEW pk \in Feeds, DelFeed(u, pk) PROVE LoadInv'
    <2>1. ASSUME NEW h \in Heads PROVE Loaded(h)'
      <3>1. CASE h[1] = pk
        <4>1. last'[h] = {} /\ Of(h)' = {}
          BY <1>5, <3>1 DEF DelFeed, Blank, Of, HeadOf
        <4> QED
          BY <4>1, LastOfNone DEF Loaded
      <3>2. CASE h[1] # pk
        <4>1. Of(h)' = Of(h) /\ last'[h] = last[h]
          BY <1>5, <3>2 DEF DelFeed, Blank, Of, HeadOf
        <4> QED
          BY <1>a, <4>1, SameLoaded
      <3> QED
        BY <3>1, <3>2
    <2>2. heads' = dbheads' /\ Housed'
      BY <1>5, <1>a DEF DelFeed, Blank, Housed
    <2> QED
      BY <1>b, <2>1, <2>2
  <1>6. ASSUME NEW u \in Users, NEW h \in Heads, DelHead(u, h) PROVE LoadInv'
    <2>1. ASSUME NEW g \in Heads PROVE Loaded(g)'
      <3>1. CASE g = h
        <4>1. last'[g] = {} /\ Of(g)' = {}
          BY <1>6, <3>1 DEF DelHead, Of, TypeOK
        <4> QED
          BY <4>1, LastOfNone DEF Loaded
      <3>2. CASE g # h
        <4>1. Of(g)' = Of(g) /\ last'[g] = last[g]
          BY <1>6, <3>2 DEF DelHead, Of, TypeOK
        <4> QED
          BY <1>a, <4>1, SameLoaded
      <3> QED
        BY <3>1, <3>2
    <2>2. heads' = dbheads' /\ Housed'
      BY <1>6, <1>a DEF DelHead, Housed
    <2> QED
      BY <1>b, <2>1, <2>2
  <1>7. ASSUME NEW u \in Users, NEW h \in Heads, NEW r \in Of(h), DelRoot(u, h, r) PROVE LoadInv'
    <2> DEFINE isLast == \E x \in last[h] : x.seq = r.seq
               rest == LastOf(Of(h) \ {r})
    <2>1. HeadOf(r) = h /\ Of(h) \in SUBSET Roots
      BY DEF TypeOK, Of
    <2>2. /\ roots' = roots \ {r} /\ heads' = heads /\ dbheads' = dbheads /\ dbfeeds' = dbfeeds
          /\ last' = IF isLast THEN [last EXCEPT ![h] = rest] ELSE last
      BY <1>7 DEF DelRoot
    <2>3. Of(h)' = Of(h) \ {r}
      BY <2>2 DEF Of
    <2>4. Loaded(h)'
      <3>1. CASE isLast
        BY <2>2, <2>3, <3>1 DEF Loaded, TypeOK
      <3>2. CASE ~isLast
        <4>1. \A x \in LastOf(Of(h)) : x.seq # r.seq
          BY <1>a, <3>2 DEF Loaded
        <4>2. rest = LastOf(Of(h))
          BY <2>1, <4>1, LastOfWithout
        <4>3. last'[h] = last[h]
          BY <2>2, <3>2
        <4> HIDE DEF rest
        <4> QED
          BY <1>a, <2>3, <4>2, <4>3 DEF Loaded, rest
      <3> QED
        BY <3>1, <3>2
    <2>5. ASSUME NEW g \in Heads, g # h PROVE Loaded(g)'
      <3>1. Of(g)' = Of(g)
        BY <2>1, <2>2, <2>5 DEF Of
      <3>2. last'[g] = last[g]
        BY <2>2, <2>5 DEF TypeOK
      <3> QED
        BY <1>a, <3>1, <3>2, SameLoaded
    <2>6. heads' = dbheads' /\ Housed'
      BY <1>a, <2>2 DEF Housed
    <2> QED
      BY <1>b, <2>4, <2>5, <2>6
  <1>8. ASSUME NEW h \in Heads, AddHead(h) PROVE FALSE
    BY <1>8 DEF AddHead
  <1>9. ASSUME NEW h \in Heads, LastRoot(h) PROVE LoadInv'
    BY <1>9, <1>a, <1>b DEF LastRoot, Housed, Loaded, Of, index, idxdb
  <1>10. ASSUME ListFeeds PROVE LoadInv'
    BY <1>10, <1>a, <1>b DEF ListFeeds, Housed, Loaded, Of, idxdb
  <1>11. ASSUME Load PROVE LoadInv'
    <2>1. ASSUME NEW h \in Heads PROVE Loaded(h)'
      BY <1>11 DEF Load, Loaded, Of, idxdb
    <2>2. heads' = dbheads' /\ Housed'
      BY <1>11, <1>a DEF Load, Housed, idxdb
    <2> QED
      BY <1>b, <2>1, <2>2
  <1> QED
    BY <1>1, <1>2, <1>3, <1>4, <1>5, <1>6, <1>7, <1>8, <1>9, <1>10, <1>11 DEF Next

\* index.go:511: the Index is what load would make of the IdxDB, so a restart
\* changes no head and no last Root, whatever was saved, received and deleted
\* before it, Roots and heads included.  AddHead, which empties the feed in
\* memory only, and a Root that comes after one with a greater seq, which
\* becomes the last in memory, are the two ways to break it.
THEOREM IndexLoadAgrees ==
  ASSUME "AddHead" \notin Calls, "old" \notin Calls
  PROVE  Spec => []LoadAgrees
  <1>1. Init => LoadInv
    BY LastOfNone DEF Init, LoadInv, Housed, LoadAgrees, Of
  <1>2. TypeOK /\ HeadsAgree /\ LoadInv /\ [Next]_vars => LoadInv'
    BY StepLoadInv
  <1>3. LoadInv => LoadAgrees
    BY DEF LoadInv
  <1> QED
    BY <1>1, <1>2, <1>3, IndexTypeOK, IndexHeadsAgree, PTL DEF Spec

-----------------------------------------------------------------------------
(* The active head.                                                        *)

ActiveAt(pk) ==
  /\ activet[pk] = Newest(Times(pk, last))
  /\ activen[pk] \in At(pk, last, activet[pk])

\* Roots of other nodes come with the times growing along a head, and no other
\* node makes Roots for the heads this one saves.
OffersInOrder ==
  \A r \in Offers :
    /\ r.nonce \notin Own
    /\ \A x \in Offers : HeadOf(x) = HeadOf(r) /\ x.seq < r.seq => x.time <= r.time

\* where the Roots of the IdxDB come from
Dated == \A r \in roots : IF r.nonce \in Own THEN r.time <= now ELSE r \in Offers

LEMMA TimesOf ==
  ASSUME NEW pk \in Feeds, NEW l, NEW t
  PROVE  t \in Times(pk, l) <=> \E n \in Nonces : \E r \in l[<<pk, n>>] : r.time = t
  <1>1. ASSUME t \in Times(pk, l) PROVE \E n \in Nonces : \E r \in l[<<pk, n>>] : r.time = t
    <2>1. PICK h \in Heads : h[1] = pk /\ \E r \in l[h] : r.time = t
      BY <1>1 DEF Times
    <2>2. h[2] \in Nonces /\ h = <<pk, h[2]>>
      BY <2>1 DEF Heads
    <2> QED
      BY <2>1, <2>2
  <1>2. ASSUME NEW n \in Nonces, NEW r \in l[<<pk, n>>], r.time = t PROVE t \in Times(pk, l)
    <2>1. <<pk, n>> \in Heads /\ <<pk, n>>[1] = pk
      BY DEF Heads
    <2> QED
      BY <1>2, <2>1 DEF Times
  <1> QED
    BY <1>1, <1>2

LEMMA TimesType ==
  ASSUME NEW pk, NEW l \in [Heads -> SUBSET Roots] PROVE Times(pk, l) \in SUBSET (1..MaxTime)
  BY DEF Times, Roots

\* The newest time is the greatest, 0 if there is none.
LEMMA NewestIs ==
  ASSUME NEW T \in SUBSET (1..MaxTime)
  PROVE  /\ T = {} => Newest(T) = 0
         /\ T # {} => Newest(T) \in T /\ \A x \in T : x <= Newest(T)
         /\ \A t \in T : (\A x \in T : x <= t) => Newest(T) = t
  <1>1. T = {} => Newest(T) = 0
    BY DEF Newest
  <1>2. T # {} => Newest(T) \in T /\ \A x \in T : x <= Newest(T)
    <2> SUFFICES ASSUME T # {} PROVE Newest(T) \in T /\ \A x \in T : x <= Newest(T)
      OBVIOUS
    <2>1. T \in SUBSET (0..MaxTime)
      BY BoundsAssumption
    <2>2. \E t \in T : \A x \in T : x <= t
      BY <2>1, BoundsAssumption, Greatest
    <2> QED
      BY <2>2 DEF Newest
  <1>3. ASSUME NEW t \in T, \A x \in T : x <= t PROVE Newest(T) = t
    <2>1. Newest(T) \in T /\ t <= Newest(T) /\ Newest(T) <= t
      BY <1>2, <1>3
    <2>2. \A x \in T : x \in Nat
      BY BoundsAssumption
    <2>3. \A m, n \in Nat : m <= n /\ n <= m => m = n
      OBVIOUS
    <2>4. Newest(T) \in Nat /\ t \in Nat
      BY <2>1, <2>2
    <2> QED
      BY <2>1, <2>3, <2>4
  <1> QED
    BY <1>1, <1>2, <1>3

\* Feeds whose last Roots are the same keep their active head.
LEMMA SameActive ==
  ASSUME NEW pk \in Feeds, ActiveAt(pk), \A n \in Nonces : last'[<<pk, n>>] = last[<<pk, n>>],
         activet'[pk] = activet[pk], activen'[pk] = activen[pk]
  PROVE  ActiveAt(pk)'
  <1>1. PICK l : l = last'
    OBVIOUS
  <1>2. Times(pk, l) = Times(pk, last)
    <2>1. \A t : t \in Times(pk, l) <=> t \in Times(pk, last)
      BY <1>1, TimesOf
    <2> QED
      BY <2>1
  <1>3. \A t : At(pk, l, t) = At(pk, last, t)
    BY <1>1 DEF At
  <1> QED
    BY <1>1, <1>2, <1>3 DEF ActiveAt

\* A feed without heads has no active one.
LEMMA BlankActive ==
  ASSUME TypeOK, NEW pk \in Feeds, Blank(pk), NEW p \in Feeds, ActiveAt(p)
  PROVE  ActiveAt(p)'
  <1>1. CASE p = pk
    <2>1. PICK l : l = last'
      OBVIOUS
    <2>2. \A n \in Nonces : l[<<pk, n>>] = {}
      BY <2>1 DEF Blank, Heads
    <2>3. Times(pk, l) = {}
      BY <2>2, TimesOf
    <2>4. activet'[pk] = 0 /\ activen'[pk] = 0
      BY DEF Blank, TypeOK
    <2>5. Newest(Times(pk, l)) = 0 /\ 0 \in At(pk, l, 0)
      BY <2>3 DEF Newest, At
    <2> QED
      BY <1>1, <2>1, <2>4, <2>5 DEF ActiveAt
  <1>2. CASE p # pk
    <2>1. \A n \in Nonces : last'[<<p, n>>] = last[<<p, n>>]
      BY <1>2 DEF Blank, Heads
    <2>2. activet'[p] = activet[p] /\ activen'[p] = activen[p]
      BY <1>2 DEF Blank, TypeOK
    <2> QED
      BY <2>1, <2>2, SameActive
  <1> QED
    BY <1>1, <1>2

\* A Root that is not older than the one it replaces.
LEMMA ReplaceActives ==
  ASSUME TypeOK, NEW r \in Roots, Replace(r), \A x \in last[HeadOf(r)] : x.time <= r.time,
         NEW pk \in Feeds, ActiveAt(pk)
  PROVE  ActiveAt(pk)'
  <1>1. CASE pk # r.feed
    <2>1. \A n \in Nonces : last'[<<pk, n>>] = last[<<pk, n>>]
      BY <1>1 DEF Replace, HeadOf, TypeOK, Heads
    <2>2. activet'[pk] = activet[pk] /\ activen'[pk] = activen[pk]
      BY <1>1 DEF Replace, TypeOK
    <2> QED
      BY <2>1, <2>2, SameActive
  <1>2. CASE pk = r.feed
    <2>1. PICK l : l = last'
      OBVIOUS
    <2> DEFINE T == Times(pk, last)
               U == Times(pk, l)
               t == activet[pk]
               n == activen[pk]
    <2>2. HeadOf(r) = <<pk, r.nonce>> /\ HeadOf(r) \in Heads /\ r.nonce \in Nonces /\ r.time \in 1..MaxTime
      BY <1>2, HeadOfRoot DEF HeadOf, Roots
    <2>3. l[<<pk, r.nonce>>] = {r} /\ \A m \in Nonces : m # r.nonce => l[<<pk, m>>] = last[<<pk, m>>]
      BY <2>1, <2>2 DEF Replace, TypeOK, Heads
    <2>4. l \in [Heads -> SUBSET Roots] /\ last \in [Heads -> SUBSET Roots]
      BY <2>1, ReplaceType DEF TypeOK
    <2>5. T \in SUBSET (1..MaxTime) /\ U \in SUBSET (1..MaxTime)
      BY <2>4, TimesType
    <2>6. r.time \in U /\ \A y \in U : y = r.time \/ y \in T
      BY <2>2, <2>3, TimesOf
    <2>7. t = Newest(T) /\ n \in At(pk, last, t)
      BY DEF ActiveAt
    <2>8. t \in Nat /\ n \in Nat /\ \A y \in T : y <= t
      BY <2>5, <2>7, NewestIs DEF TypeOK
    <2>9. CASE t < r.time
      <3>1. activet'[pk] = r.time /\ activen'[pk] = r.nonce
        BY <1>2, <2>9 DEF Replace, TypeOK
      <3>2. \A y \in U : y <= r.time
        <4> HIDE DEF T, U, t
        <4>1. r.time \in Nat /\ \A y \in U : y \in Nat
          BY <2>2, <2>5, BoundsAssumption
        <4> QED
          BY <2>6, <2>8, <2>9, <4>1
      <3>3. Newest(U) = r.time
        <4> HIDE DEF U
        <4> QED
          BY <2>5, <2>6, <3>2, NewestIs
      <3>4. r.nonce \in At(pk, l, r.time)
        BY <2>2, <2>3 DEF At
      <3> QED
        BY <2>1, <3>1, <3>3, <3>4 DEF ActiveAt
    <2>10. CASE ~(t < r.time)
      <3>1. activet'[pk] = t /\ activen'[pk] = n
        BY <1>2, <2>10 DEF Replace, TypeOK
      <3>2. r.time <= t /\ t # 0
        <4> HIDE DEF t
        <4> QED
          BY <2>2, <2>8, <2>10
      <3>3. PICK x \in last[<<pk, n>>] : n \in Nonces /\ x.time = t
        BY <2>7, <3>2 DEF At
      <3>4. \E y \in l[<<pk, n>>] : y.time = t
        <4>1. CASE n = r.nonce
          <5>1. x.time <= r.time
            BY <2>2, <3>3, <4>1
          <5>2. r.time = t
            <6> HIDE DEF t
            <6> QED
              BY <2>2, <2>8, <3>2, <3>3, <5>1
          <5> QED
            BY <2>3, <4>1, <5>2
        <4>2. CASE n # r.nonce
          BY <2>3, <3>3, <4>2
        <4> QED
          BY <4>1, <4>2
      <3>5. t \in U
        BY <3>3, <3>4, TimesOf
      <3>6. \A y \in U : y <= t
        <4> HIDE DEF T, U, t
        <4> QED
          BY <2>6, <2>8, <3>2
      <3>7. Newest(U) = t
        <4> HIDE DEF U, t
        <4> QED
          BY <2>5, <3>5, <3>6, NewestIs
      <3>8. n \in At(pk, l, t)
        BY <3>2, <3>3, <3>4 DEF At
      <3> QED
        BY <2>1, <3>1, <3>7, <3>8 DEF ActiveAt
    <2> QED
      BY <2>9, <2>10
  <1> QED
    BY <1>1, <1>2

\* load computes the active heads anew.
LEMMA LoadActive ==
  ASSUME TypeOK, Load, NEW pk \in Feeds
  PROVE  ActiveAt(pk)'
  <1>1. PICK l : l = last'
    OBVIOUS
  <1>2. l \in [Heads -> SUBSET Roots]
    <2>1. l = [h \in Heads |-> LastOf(Of(h))]
      BY <1>1 DEF Load
    <2>2. \A h \in Heads : LastOf(Of(h)) \in SUBSET Roots
      BY DEF LastOf, Of, TypeOK
    <2> QED
      BY <2>1, <2>2
  <1> DEFINE t == Newest(Times(pk, l))
             A == At(pk, l, t)
  <1>3. /\ activet'[pk] = t
        /\ activen'[pk] = CHOOSE n \in A : \A x \in A : n <= x
    <2>1. activet' = [p \in Feeds |-> Newest(Times(p, l))]
      BY <1>1 DEF Load
    <2>2. activen' = [p \in Feeds |->
                       CHOOSE n \in At(p, l, activet'[p]) : \A x \in At(p, l, activet'[p]) : n <= x]
      BY <1>1 DEF Load
    <2> QED
      BY <2>1, <2>2
  <1>4. A \subseteq Nat /\ A # {}
    BY <1>2, ActiveSome
  <1>5. (CHOOSE n \in A : \A x \in A : n <= x) \in A
    <2> HIDE DEF A
    <2>1. \E n \in A : \A x \in A : n <= x
      BY <1>4, Least
    <2> QED
      BY <2>1
  <1> QED
    BY <1>1, <1>3, <1>5 DEF ActiveAt

ActiveInv == (phase = "open" => \A pk \in Feeds : ActiveAt(pk)) /\ Dated

LEMMA StepActiveInv ==
  ASSUME Calls \cap {"AddHead", "DelHead", "DelRoot", "old"} = {}, OffersInOrder,
         TypeOK, LoadInv, ActiveInv, [Next]_vars
  PROVE  ActiveInv'
  <1>0. CASE UNCHANGED vars
    <2>1. /\ UNCHANGED <<last, activen, activet, roots, now, phase>>
      BY <1>0 DEF vars, index, idxdb
    <2>2. ASSUME NEW pk \in Feeds, ActiveAt(pk) PROVE ActiveAt(pk)'
      BY <2>1, <2>2, SameActive
    <2> QED
      BY <2>1, <2>2 DEF ActiveInv, Dated
  <1> SUFFICES ASSUME Next PROVE ActiveInv'
    BY <1>0
  <1>a. /\ \A pk \in Feeds : ActiveAt(pk)
        /\ Dated
        /\ \A h \in Heads : last[h] \subseteq Of(h) /\ Loaded(h)
    BY DEF ActiveInv, LoadInv, LoadAgrees, Next, LastOf, Loaded
  <1>b. ASSUME UNCHANGED <<last, activen, activet>>, NEW pk \in Feeds PROVE ActiveAt(pk)'
    BY <1>a, <1>b, SameActive
  <1>1. ASSUME NEW pk \in Feeds, AddFeed(pk) PROVE ActiveInv'
    <2>1. \A p \in Feeds : ActiveAt(p)'
      BY <1>1, <1>a, BlankActive DEF AddFeed
    <2> QED
      BY <1>1, <1>a, <2>1 DEF ActiveInv, AddFeed, Dated
  <1>2. ASSUME NEW r \in Offers, AddRoot(r) PROVE ActiveInv'
    <2>1. CASE UNCHANGED <<index, idxdb>>
      <3>1. \A pk \in Feeds : ActiveAt(pk)'
        BY <1>b, <2>1 DEF index
      <3>2. UNCHANGED <<roots, now>>
        BY <1>2, <2>1 DEF AddRoot, idxdb
      <3> QED
        BY <1>a, <3>1, <3>2 DEF ActiveInv, Dated
    <2>2. CASE ~UNCHANGED <<index, idxdb>>
      <3>1. "old" \notin Calls /\ Loaded(HeadOf(r))
        BY <1>a, HeadOfRoot, OffersAssumption
      <3>2. /\ r \in Roots /\ HeadOf(r) \in Heads /\ Replace(r)
            /\ roots' = roots \cup {r}
            /\ \A x \in Of(HeadOf(r)) : x.seq < r.seq
        BY <1>2, <2>2, <3>1, AddRootNew
      <3>3. r.nonce \notin Own
        BY DEF OffersInOrder
      <3>4. ASSUME NEW x \in last[HeadOf(r)] PROVE x.time <= r.time
        <4>1. x \in roots /\ HeadOf(x) = HeadOf(r) /\ x.seq < r.seq
          BY <1>a, <3>2 DEF Of
        <4>2. x.nonce = r.nonce
          BY <4>1 DEF HeadOf
        <4>3. x \in Offers
          BY <1>a, <3>3, <4>1, <4>2 DEF Dated
        <4> QED
          BY <4>1, <4>3 DEF OffersInOrder
      <3>5. \A pk \in Feeds : ActiveAt(pk)'
        BY <1>a, <3>2, <3>4, ReplaceActives
      <3>6. Dated'
        BY <1>2, <1>a, <3>2, <3>3 DEF Dated, AddRoot
      <3> QED
        BY <3>5, <3>6 DEF ActiveInv
    <2> QED
      BY <2>1, <2>2
  <1>3. ASSUME NEW u \in Users, NEW h \in Heads, SaveRoot(u, h) PROVE ActiveInv'
    <2>1. PICK r \in Roots :
            /\ HeadOf(r) = h /\ Replace(r) /\ r.time = now' /\ r.nonce \in Own
            /\ roots' = roots \cup {r}
      BY <1>3, SaveRootNew
    <2>2. now' = now + 1 /\ now \in Nat
      BY <1>3, BoundsAssumption DEF SaveRoot, TypeOK
    <2>3. ASSUME NEW x \in roots, x.nonce \in Own PROVE x.time <= now'
      <3>1. x.time <= now /\ x.time \in Nat
        BY <1>a, <2>3, BoundsAssumption DEF Dated, TypeOK, Roots
      <3> QED
        BY <2>2, <3>1
    <2>4. ASSUME NEW x \in last[HeadOf(r)] PROVE x.time <= r.time
      <3>1. x \in roots /\ x.nonce = r.nonce
        BY <1>a, <2>1 DEF Of, HeadOf
      <3> QED
        BY <2>1, <2>3, <3>1
    <2>5. \A pk \in Feeds : ActiveAt(pk)'
      BY <1>a, <2>1, <2>4, ReplaceActives
    <2>6. Dated'
      <3>1. now' <= now'
        BY <2>2
      <3> QED
        BY <1>a, <2>1, <2>3, <3>1 DEF Dated
    <2> QED
      BY <2>5, <2>6 DEF ActiveInv
  <1>4. ASSUME NEW u \in Users, SaveValue(u) \/ DelValue(u) PROVE ActiveInv'
    BY <1>4, <1>a, <1>b DEF SaveValue, DelValue, ActiveInv, Dated, index, idxdb
  <1>5. ASSUME NEW u \in Users, NEW pk \in Feeds, DelFeed(u, pk) PROVE ActiveInv'
    <2>1. \A p \in Feeds : ActiveAt(p)'
      BY <1>5, <1>a, BlankActive DEF DelFeed
    <2>2. roots' \subseteq roots /\ now' = now
      BY <1>5 DEF DelFeed
    <2> QED
      BY <1>a, <2>1, <2>2 DEF ActiveInv, Dated
  <1>6. ASSUME NEW u \in Users, NEW h \in Heads, DelHead(u, h) \/ AddHead(h) PROVE FALSE
    BY <1>6 DEF DelHead, AddHead
  <1>7. ASSUME NEW u \in Users, NEW h \in Heads, NEW r \in Of(h), DelRoot(u, h, r) PROVE FALSE
    BY <1>7 DEF DelRoot
  <1>8. ASSUME NEW h \in Heads, AddHead(h) PROVE FALSE
    BY <1>8 DEF AddHead
  <1>9. ASSUME NEW h \in Heads, LastRoot(h) PROVE ActiveInv'
    BY <1>9, <1>a, <1>b DEF LastRoot, ActiveInv, Dated, index, idxdb
  <1>10. ASSUME ListFeeds PROVE ActiveInv'
    BY <1>10, <1>a, <1>b DEF ListFeeds, ActiveInv, Dated, idxdb
  <1>11. ASSUME Load PROVE ActiveInv'
    <2>1. \A pk \in Feeds : ActiveAt(pk)'
      BY <1>11, LoadActive
    <2> QED
      BY <1>11, <1>a, <2>1 DEF Load, ActiveInv, Dated, idxdb
  <1> QED
    BY <1>1, <1>2, <1>3, <1>4, <1>5, <1>6, <1>7, <1>8, <1>9, <1>10, <1>11 DEF Next

\* index.go:457: ActiveHead names a head whose last Root is the newest of the
\* feed, as long as Roots of other nodes come in order and only whole feeds are
\* deleted, through Saves, deletions of feeds, crashes and loads.  addRoot and
\* addSavedRoot compare the new Root with the active head only; that is enough
\* because no Root replaces a newer one of its head.
THEOREM IndexActiveNewest ==
  ASSUME Calls \cap {"AddHead", "DelHead", "DelRoot", "old"} = {}, OffersInOrder
  PROVE  Spec => []ActiveNewest
  <1>1. Init => LoadInv /\ ActiveInv
    <2> SUFFICES ASSUME Init PROVE LoadInv /\ ActiveInv
      OBVIOUS
    <2>1. LoadInv
      BY LastOfNone DEF Init, LoadInv, Housed, LoadAgrees, Of
    <2>2. ASSUME NEW pk \in Feeds PROVE ActiveAt(pk)
      <3>1. \A n \in Nonces : last[<<pk, n>>] = {}
        BY DEF Init, Heads
      <3>2. Times(pk, last) = {}
        BY <3>1, TimesOf
      <3> QED
        BY <3>2 DEF ActiveAt, Newest, At, Init
    <2> QED
      BY <2>1, <2>2 DEF ActiveInv, Dated, Init
  <1>2. TypeOK /\ HeadsAgree /\ LoadInv /\ ActiveInv /\ [Next]_vars => LoadInv' /\ ActiveInv'
    BY StepLoadInv, StepActiveInv
  <1>3. TypeOK /\ ActiveInv => ActiveNewest
    BY DEF ActiveInv, ActiveAt, ActiveNewest, TypeOK
  <1> QED
    BY <1>1, <1>2, <1>3, IndexTypeOK, IndexHeadsAgree, PTL DEF Spec

=============================================================================
