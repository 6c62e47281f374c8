----------------------------- MODULE HeadProofs -----------------------------
(***************************************************************************)
(* A head keeps the pending Root in order (PendingNewer), does not sit     *)
(* with keys to request while nobody is asked (AsksOn), and has every key  *)
(* the Filler waits for in one place (EachKeyKept), for any connections,   *)
(* objects, Roots, failures and bounds.                                    *)
(***************************************************************************)
EXTENDS Head, FiniteSetTheorems, TLAPS

\* Records with the fields of h; the lists and the map of the connections may
\* be anything.
HeadsLike(x) == [r : Nat, p : Nat, next : Nat, rqo : {x.rqo}, fc : {x.fc}, cs : {x.cs}, requesting : Nat,
                 failing : BOOLEAN]

FillersOf ==
  [state : {"none", "registry", "walk", "select", "ended"}, asked : SUBSET Gets, missing : SUBSET Keys,
   awaits : SUBSET Gets, full : BOOLEAN, timer : BOOLEAN, result : {"none", "err", "full"}]

Types ==
  /\ h \in HeadsLike(h)
  /\ filler \in FillersOf
  /\ IsFiniteSet(flights)
  /\ rrq \in Seq([c : Conns, s : Seqs])
  /\ feeds.pc = "root" => feeds.s \in Seqs

\* A Root waits to be filled only while none is filled.
Order ==
  phase = "run" =>
    /\ h.p # 0 => h.r # 0 /\ h.p > h.r
    /\ h.next # 0 => h.r = 0

\* What is requested is counted, so the count does not go below zero.
Requests == phase = "run" => Cardinality(flights) <= h.requesting

HeadInv == Types /\ Order /\ Requests /\ AsksOn

\* The seqs of Roots are positive.
LEMMA SeqsPositive == \A s \in Seqs : s \in Nat /\ s # 0
  BY SeqsAssumption

\* The initial state is right.
LEMMA InitInv == Init => HeadInv
  <1> SUFFICES ASSUME Init PROVE HeadInv
    OBVIOUS
  <1>1. IsFiniteSet(flights) /\ Cardinality(flights) = 0
    BY FS_EmptySet DEF Init
  <1>2. Types
    <2>1. h \in HeadsLike(h)
      BY DEF Init, HeadsLike
    <2>2. filler \in FillersOf
      <3>1. NoFiller \in FillersOf
        BY DEF FillersOf, NoFiller
      <3> QED BY <3>1 DEF Init
    <2>3. rrq \in Seq([c : Conns, s : Seqs]) /\ feeds.pc # "root"
      BY DEF Init, Free
    <2> QED BY <1>1, <2>1, <2>2, <2>3 DEF Types
  <1>3. Order
    BY DEF Init, Order
  <1>4. Requests
    BY <1>1 DEF Init, Requests
  <1>5. AsksOn
    BY DEF Init, AsksOn
  <1> QED BY <1>2, <1>3, <1>4, <1>5 DEF HeadInv

\* Fail leaves an error for a Filler that runs.
LEMMA FailMarks ==
  ASSUME NEW hd, hd \in HeadsLike(hd), filler \in FillersOf, Fail(hd)
  PROVE  /\ h' \in HeadsLike(h') /\ h'.r = hd.r /\ h'.p = hd.p /\ h'.next = hd.next
         /\ h'.rqo = hd.rqo /\ h'.requesting = hd.requesting
         /\ filler' \in FillersOf /\ filler'.state = filler.state /\ filler'.asked = filler.asked
         /\ Runs => filler'.full
  <1>1. filler.full \in BOOLEAN /\ Runs \in BOOLEAN
    BY DEF FillersOf, Runs
  <1> DEFINE waits == Runs /\ filler.full
  <1>2. h' = [hd EXCEPT !.failing = waits] /\ waits \in BOOLEAN
    BY <1>1 DEF Fail
  <1> HIDE DEF waits
  <1>3. /\ h' \in HeadsLike(h') /\ h'.r = hd.r /\ h'.p = hd.p /\ h'.next = hd.next
        /\ h'.rqo = hd.rqo /\ h'.requesting = hd.requesting
    BY <1>2 DEF HeadsLike
  <1>4. /\ filler' \in FillersOf /\ filler'.state = filler.state /\ filler'.asked = filler.asked
        /\ Runs => filler'.full
    BY DEF Fail, FillersOf
  <1> QED BY <1>3, <1>4

\* triggerRequest leaves no key without somebody who is asked, or the Filler
\* fails.
LEMMA TriggerAsks ==
  ASSUME NEW hd, hd \in HeadsLike(hd), filler \in FillersOf,
         NEW others, IsFiniteSet(others), Cardinality(others) <= hd.requesting,
         triggerRequest(hd, others)
  PROVE  /\ h' \in HeadsLike(h') /\ h'.r = hd.r /\ h'.p = hd.p /\ h'.next = hd.next
         /\ filler' \in FillersOf
         /\ IsFiniteSet(flights') /\ Cardinality(flights') <= h'.requesting
         /\ Runs' /\ h'.rqo # <<>> => h'.requesting > 0 \/ filler'.full
  <1> DEFINE live == {i \in DOMAIN hd.fc : hd.fc[i] \in DOMAIN hd.cs}
  <1>1. hd.requesting \in Nat /\ Cardinality(others) \in Nat
    BY FS_CardinalityType DEF HeadsLike
  <1>2. CASE hd.rqo = <<>> /\ h' = hd /\ flights' = others /\ UNCHANGED filler
    BY <1>2
  <1>3. CASE flights' = others /\ ((hd.requesting = 0 /\ Fail([hd EXCEPT !.fc = <<>>]))
                                    \/ (hd.requesting # 0 /\ h' = [hd EXCEPT !.fc = <<>>] /\ UNCHANGED filler))
    <2> DEFINE e == [hd EXCEPT !.fc = <<>>]
    <2>1. e \in HeadsLike(e) /\ e.r = hd.r /\ e.p = hd.p /\ e.next = hd.next /\ e.requesting = hd.requesting
      BY DEF HeadsLike
    <2>2. (hd.requesting = 0 /\ Fail(e)) \/ (hd.requesting # 0 /\ h' = e /\ UNCHANGED filler)
      BY <1>3
    <2> HIDE DEF e
    <2>3. CASE hd.requesting = 0 /\ Fail(e)
      <3>1. /\ h' \in HeadsLike(h') /\ h'.r = hd.r /\ h'.p = hd.p /\ h'.next = hd.next /\ h'.requesting = hd.requesting
            /\ filler' \in FillersOf /\ filler'.state = filler.state /\ (Runs => filler'.full)
        BY <2>1, <2>3, FailMarks
      <3> QED BY <1>1, <1>3, <3>1 DEF Runs
    <2>4. CASE hd.requesting # 0 /\ h' = e /\ UNCHANGED filler
      BY <1>1, <1>3, <2>1, <2>4
    <2> QED BY <2>2, <2>3, <2>4
  <1>4. CASE \E x, fc, rqo : /\ h' = [hd EXCEPT !.fc = fc, !.rqo = rqo, !.requesting = @ + 1]
                             /\ flights' = others \cup {x} /\ UNCHANGED filler
    <2>1. PICK x, fc, rqo : /\ h' = [hd EXCEPT !.fc = fc, !.rqo = rqo, !.requesting = @ + 1]
                            /\ flights' = others \cup {x} /\ UNCHANGED filler
      BY <1>4
    <2>2. h' \in HeadsLike(h') /\ h'.r = hd.r /\ h'.p = hd.p /\ h'.next = hd.next /\ h'.requesting = hd.requesting + 1
      <3>1. h' = [r |-> hd.r, p |-> hd.p, next |-> hd.next, rqo |-> rqo, fc |-> fc, cs |-> hd.cs,
                  requesting |-> hd.requesting + 1, failing |-> hd.failing]
        BY <2>1 DEF HeadsLike
      <3>2. hd.r \in Nat /\ hd.p \in Nat /\ hd.next \in Nat /\ hd.requesting + 1 \in Nat
        BY DEF HeadsLike
      <3> QED BY <3>1, <3>2 DEF HeadsLike
    <2>3. IsFiniteSet(flights') /\ Cardinality(flights') <= Cardinality(others) + 1
      <3>1. /\ IsFiniteSet(others \cup {x})
            /\ Cardinality(others \cup {x}) = IF x \in others THEN Cardinality(others) ELSE Cardinality(others) + 1
        BY FS_AddElement
      <3> QED BY <1>1, <2>1, <3>1
    <2>4. Cardinality(flights') \in Nat
      BY <2>3, FS_CardinalityType
    <2> QED BY <1>1, <2>1, <2>2, <2>3, <2>4
  <1>5. \/ hd.rqo = <<>> /\ h' = hd /\ flights' = others /\ UNCHANGED filler
        \/ flights' = others /\ ((hd.requesting = 0 /\ Fail([hd EXCEPT !.fc = <<>>]))
                                    \/ (hd.requesting # 0 /\ h' = [hd EXCEPT !.fc = <<>>] /\ UNCHANGED filler))
        \/ \E x, fc, rqo : /\ h' = [hd EXCEPT !.fc = fc, !.rqo = rqo, !.requesting = @ + 1]
                           /\ flights' = others \cup {x} /\ UNCHANGED filler
    <2>1. CASE hd.rqo = <<>> \/ live = {}
      BY <2>1 DEF triggerRequest
    <2>2. CASE hd.rqo # <<>> /\ live # {}
      BY <2>2 DEF triggerRequest
    <2> QED BY <2>1, <2>2
  <1> QED BY <1>2, <1>3, <1>4, <1>5

\* So a step that ends in it keeps the invariant.
LEMMA TriggerInv ==
  ASSUME HeadInv, phase = "run",
         NEW hd, hd \in HeadsLike(hd), hd.r = h.r, hd.p = h.p, hd.next = h.next,
         NEW others, IsFiniteSet(others), Cardinality(others) <= hd.requesting,
         triggerRequest(hd, others),
         rrq' = rrq, phase' = phase, feeds' = feeds \/ feeds' = Free
  PROVE  HeadInv'
  <1> USE DEF HeadInv
  <1>1. filler \in FillersOf
    BY DEF Types
  <1>2. /\ h' \in HeadsLike(h') /\ h'.r = hd.r /\ h'.p = hd.p /\ h'.next = hd.next
        /\ filler' \in FillersOf
        /\ IsFiniteSet(flights') /\ Cardinality(flights') <= h'.requesting
        /\ Runs' /\ h'.rqo # <<>> => h'.requesting > 0 \/ filler'.full
    BY <1>1, TriggerAsks
  <1>3. Types'
    BY <1>2 DEF Types, Free
  <1>4. Order'
    BY <1>2 DEF Order
  <1>5. Requests'
    BY <1>2 DEF Requests
  <1>6. AsksOn'
    BY <1>2 DEF AsksOn, Filling, Runs
  <1> QED BY <1>3, <1>4, <1>5, <1>6

\* Steps of others: the head keeps its fields but for where it waits, and the
\* flights are no more.
LEMMA OthersInv ==
  ASSUME HeadInv, h' \in HeadsLike(h'), h'.r = h.r, h'.p = h.p, h'.next = h.next, h'.rqo = h.rqo,
         h'.requesting = h.requesting, filler' \in FillersOf, Runs' => Runs /\ (filler.full => filler'.full), IsFiniteSet(flights'), Cardinality(flights') <= Cardinality(flights),
         rrq' \in Seq([c : Conns, s : Seqs]), feeds'.pc = "root" => feeds'.s \in Seqs,
         phase' = phase
  PROVE  HeadInv'
  <1> USE DEF HeadInv
  <1>1. Types'
    BY DEF Types
  <1>2. Order'
    BY DEF Order
  <1>3. Requests'
    <2>1. h.requesting \in Nat /\ Cardinality(flights) \in Nat /\ Cardinality(flights') \in Nat
      BY FS_CardinalityType DEF Types, HeadsLike
    <2> QED BY <2>1 DEF Requests
  <1>4. AsksOn'
    BY DEF AsksOn, Filling, Runs
  <1> QED BY <1>1, <1>2, <1>3, <1>4

\* When the head does not run any more nothing is claimed.
LEMMA StoppedInv ==
  ASSUME HeadInv, h' \in HeadsLike(h'), filler' \in FillersOf, IsFiniteSet(flights'), UNCHANGED <<rrq, feeds>>,
         phase' # "run"
  PROVE  HeadInv'
  BY DEF HeadInv, Types, Order, Requests, AsksOn, Filling, Runs

\* A flight that is replaced or gone.
LEMMA FewerFlights ==
  ASSUME IsFiniteSet(flights), NEW fl \in flights
  PROVE  /\ IsFiniteSet(flights \ {fl}) /\ Cardinality(flights \ {fl}) = Cardinality(flights) - 1
         /\ \A x : /\ IsFiniteSet((flights \ {fl}) \cup {x})
                   /\ Cardinality((flights \ {fl}) \cup {x}) <= Cardinality(flights)
         /\ Cardinality(flights) \in Nat
  <1>1. IsFiniteSet(flights \ {fl}) /\ Cardinality(flights \ {fl}) = Cardinality(flights) - 1
    BY FS_RemoveElement
  <1>2. Cardinality(flights \ {fl}) \in Nat /\ Cardinality(flights) \in Nat
    BY <1>1, FS_CardinalityType
  <1>3. ASSUME NEW x
        PROVE  /\ IsFiniteSet((flights \ {fl}) \cup {x})
               /\ Cardinality((flights \ {fl}) \cup {x}) <= Cardinality(flights)
    <2>1. /\ IsFiniteSet((flights \ {fl}) \cup {x})
          /\ Cardinality((flights \ {fl}) \cup {x}) <= Cardinality(flights \ {fl}) + 1
      <3> DEFINE F == flights \ {fl}
      <3>1. /\ IsFiniteSet(F \cup {x})
            /\ Cardinality(F \cup {x}) = IF x \in F THEN Cardinality(F) ELSE Cardinality(F) + 1
        BY <1>1, FS_AddElement
      <3> QED BY <1>2, <3>1
    <2>2. Cardinality((flights \ {fl}) \cup {x}) \in Nat
      BY <2>1, FS_CardinalityType
    <2> QED BY <1>1, <1>2, <2>1, <2>2
  <1> QED BY <1>1, <1>2, <1>3

-----------------------------------------------------------------------------
\* What the head does with a request and its result.
LEMMA RequestInv ==
  ASSUME HeadInv, phase = "run", NEW k \in Gets, handleRequest(k)
  PROVE  HeadInv'
  <1> DEFINE hd == [h EXCEPT !.rqo = Append(@, k)]
  <1>1. hd \in HeadsLike(hd) /\ hd.r = h.r /\ hd.p = h.p /\ hd.next = h.next /\ hd.requesting = h.requesting
    BY DEF HeadInv, Types, HeadsLike
  <1>2. IsFiniteSet(flights) /\ Cardinality(flights) <= h.requesting
    BY DEF HeadInv, Types, Requests
  <1>3. triggerRequest(hd, flights) /\ UNCHANGED <<rrq, phase, feeds>>
    BY DEF handleRequest
  <1> HIDE DEF hd
  <1> QED BY <1>1, <1>2, <1>3, TriggerInv

LEMMA SuccessInv ==
  ASSUME HeadInv, phase = "run", NEW fl \in flights, handleSuccess(fl)
  PROVE  HeadInv'
  <1> DEFINE hd == [h EXCEPT !.requesting = @ - 1, !.fc = Append(@, fl.c)]
  <1>1. IsFiniteSet(flights) /\ Cardinality(flights) <= h.requesting /\ h.requesting \in Nat
    BY DEF HeadInv, Types, Requests, HeadsLike
  <1>2. /\ IsFiniteSet(flights \ {fl}) /\ Cardinality(flights \ {fl}) = Cardinality(flights) - 1
        /\ Cardinality(flights \ {fl}) \in Nat /\ Cardinality(flights) \in Nat
    BY <1>1, FewerFlights, FS_CardinalityType
  <1>3. h.requesting - 1 \in Nat /\ Cardinality(flights \ {fl}) <= h.requesting - 1
    BY <1>1, <1>2
  <1>4. hd \in HeadsLike(hd) /\ hd.r = h.r /\ hd.p = h.p /\ hd.next = h.next /\ hd.requesting = h.requesting - 1
    BY <1>3 DEF HeadInv, Types, HeadsLike
  <1>5. triggerRequest(hd, flights \ {fl}) /\ UNCHANGED <<rrq, phase, feeds>>
    BY DEF handleSuccess
  <1> HIDE DEF hd
  <1> QED BY <1>2, <1>3, <1>4, <1>5, TriggerInv

LEMMA FailureInv ==
  ASSUME HeadInv, phase = "run", NEW fl \in flights, handleRequestFailure(fl)
  PROVE  HeadInv'
  <1> DEFINE hd == [h EXCEPT !.requesting = @ - 1, !.cs = Blamed(@, fl), !.rqo = <<fl.key>> \o @]
  <1>1. IsFiniteSet(flights) /\ Cardinality(flights) <= h.requesting /\ h.requesting \in Nat
    BY DEF HeadInv, Types, Requests, HeadsLike
  <1>2. /\ IsFiniteSet(flights \ {fl}) /\ Cardinality(flights \ {fl}) = Cardinality(flights) - 1
        /\ Cardinality(flights \ {fl}) \in Nat /\ Cardinality(flights) \in Nat
    BY <1>1, FewerFlights, FS_CardinalityType
  <1>3. h.requesting - 1 \in Nat /\ Cardinality(flights \ {fl}) <= h.requesting - 1
    BY <1>1, <1>2
  <1>4. hd \in HeadsLike(hd) /\ hd.r = h.r /\ hd.p = h.p /\ hd.next = h.next /\ hd.requesting = h.requesting - 1
    BY <1>3 DEF HeadInv, Types, HeadsLike
  <1>5. triggerRequest(hd, flights \ {fl}) /\ UNCHANGED <<rrq, phase, feeds>>
    BY DEF handleRequestFailure
  <1> HIDE DEF hd
  <1> QED BY <1>2, <1>3, <1>4, <1>5, TriggerInv

\* A Root of the same seq brings a connection to ask; a newer one waits.
LEMMA ReceivedRootInv ==
  ASSUME HeadInv, phase = "run", h.next = 0, handleReceivedRoot
  PROVE  HeadInv'
  <1> DEFINE c == feeds.c
             s == feeds.s
             known == [h EXCEPT !.cs = addKnown(@, c, s)]
  <1>1. s \in Nat /\ s # 0
    BY SeqsPositive DEF HeadInv, Types, handleReceivedRoot
  <1>2. /\ known \in HeadsLike(known) /\ known.r = h.r /\ known.p = h.p /\ known.next = h.next
        /\ known.rqo = h.rqo /\ known.requesting = h.requesting
    BY DEF HeadInv, Types, HeadsLike
  <1>3. IsFiniteSet(flights) /\ Cardinality(flights) <= h.requesting /\ h.r \in Nat /\ h.p \in Nat
    BY DEF HeadInv, Types, Requests, HeadsLike
  <1>4. UNCHANGED <<rrq, phase>> /\ feeds' = Free
    BY DEF handleReceivedRoot, FeedsGo
  <1>5. CASE s < h.r /\ UNCHANGED <<h, filler, flights>>
    <2>1. /\ filler' \in FillersOf /\ rrq' \in Seq([c : Conns, s : Seqs]) /\ IsFiniteSet(flights')
          /\ feeds'.pc # "root" /\ Cardinality(flights') <= Cardinality(flights)
          /\ h' \in HeadsLike(h') /\ (Runs' => Runs /\ (filler.full => filler'.full))
      BY <1>3, <1>4, <1>5, FS_CardinalityType DEF HeadInv, Types, Free, Runs
    <2> QED BY <1>4, <1>5, <2>1, OthersInv
  <1>6. CASE triggerRequest([known EXCEPT !.fc = Append(@, c)], flights)
    <2> DEFINE hd == [known EXCEPT !.fc = Append(@, c)]
    <2>1. hd \in HeadsLike(hd) /\ hd.r = h.r /\ hd.p = h.p /\ hd.next = h.next /\ hd.requesting = h.requesting
      <3> HIDE DEF known
      <3> QED BY <1>2 DEF HeadsLike
    <2>2. triggerRequest(hd, flights)
      BY <1>6
    <2> HIDE DEF hd
    <2> QED BY <1>3, <1>4, <2>1, <2>2, TriggerInv
  <1>7. CASE UNCHANGED <<filler, flights>> /\ \E p, next \in Nat :
               /\ h' = [known EXCEPT !.p = p, !.next = next]
               /\ p # 0 => h.r # 0 /\ p > h.r
               /\ next # 0 => h.r = 0
    <2>1. PICK p \in Nat, next \in Nat :
               /\ h' = [known EXCEPT !.p = p, !.next = next]
               /\ p # 0 => h.r # 0 /\ p > h.r
               /\ next # 0 => h.r = 0
      BY <1>7
    <2>2. /\ h' \in HeadsLike(h') /\ h'.r = h.r /\ h'.p = p /\ h'.next = next
          /\ h'.rqo = h.rqo /\ h'.requesting = h.requesting
      <3> HIDE DEF known
      <3> QED BY <1>2, <2>1 DEF HeadsLike
    <2> HIDE DEF known
    <2>3. Types'
      BY <1>4, <1>7, <2>2 DEF HeadInv, Types, Free
    <2>4. Order'
      BY <2>1, <2>2 DEF Order
    <2>5. Requests' /\ AsksOn'
      BY <1>4, <1>7, <2>2 DEF HeadInv, Requests, AsksOn, Filling, Runs
    <2> QED BY <2>3, <2>4, <2>5 DEF HeadInv
  <1>8. CASE /\ h.r # 0 /\ s > h.r /\ UNCHANGED <<filler, flights>>
             /\ \E accept \in Verdicts : h' = IF s > h.p /\ accept THEN [known EXCEPT !.p = s] ELSE known
    <2>1. h.p # 0 => h.r # 0 /\ h.p > h.r
      BY DEF HeadInv, Order
    <2>2. \E p \in Nat : h' = [known EXCEPT !.p = p] /\ (p # 0 => h.r # 0 /\ p > h.r)
      <3>1. known = [known EXCEPT !.p = h.p]
        <4> HIDE DEF known
        <4> QED BY <1>2 DEF HeadsLike
      <3> HIDE DEF known, s
      <3> QED BY <1>1, <1>3, <1>8, <2>1, <3>1
    <2>3. PICK p \in Nat : h' = [known EXCEPT !.p = p] /\ (p # 0 => h.r # 0 /\ p > h.r)
      BY <2>2
    <2>4. h' = [known EXCEPT !.p = p, !.next = 0]
      <3> HIDE DEF known
      <3> QED BY <1>2, <2>3 DEF HeadsLike
    <2>5. \E q, next \in Nat :
               /\ h' = [known EXCEPT !.p = q, !.next = next]
               /\ q # 0 => h.r # 0 /\ q > h.r
               /\ next # 0 => h.r = 0
      <3> HIDE DEF known
      <3> WITNESS p \in Nat, 0 \in Nat
      <3> QED BY <2>3, <2>4
    <2> HIDE DEF known
    <2> QED BY <1>7, <1>8, <2>5
  <1>9. CASE /\ h.r = 0 /\ UNCHANGED <<filler, flights>>
             /\ \E accept \in Verdicts : h' = IF accept THEN [known EXCEPT !.next = s] ELSE known
    <2>1. h.p = 0
      BY <1>9 DEF HeadInv, Order
    <2>2. \E next \in Nat : h' = [known EXCEPT !.p = 0, !.next = next]
      <3>1. known = [known EXCEPT !.p = 0, !.next = 0] /\ [known EXCEPT !.next = s] = [known EXCEPT !.p = 0, !.next = s]
        <4> HIDE DEF known, s
        <4> QED BY <1>2, <2>1 DEF HeadsLike
      <3> HIDE DEF known, s
      <3> QED BY <1>1, <1>9, <3>1
    <2> QED BY <1>7, <1>9, <2>2
  <1>10. \/ s < h.r /\ UNCHANGED <<h, filler, flights>>
         \/ triggerRequest([known EXCEPT !.fc = Append(@, c)], flights)
         \/ /\ h.r # 0 /\ s > h.r /\ UNCHANGED <<filler, flights>>
            /\ \E accept \in Verdicts : h' = IF s > h.p /\ accept THEN [known EXCEPT !.p = s] ELSE known
         \/ /\ h.r = 0 /\ UNCHANGED <<filler, flights>>
            /\ \E accept \in Verdicts : h' = IF accept THEN [known EXCEPT !.next = s] ELSE known
    BY DEF handleReceivedRoot
  <1> HIDE DEF known, s, c
  <1> QED BY <1>5, <1>6, <1>8, <1>9, <1>10

\* The head starts and ends fillings, takes the pending Root, and loses
\* connections.
LEMMA CreateInv ==
  ASSUME HeadInv, phase = "run", createFiller
  PROVE  HeadInv'
  <1>1. PICK l : h' = [h EXCEPT !.r = h.next, !.next = 0, !.rqo = <<>>, !.fc = l]
    BY DEF createFiller
  <1>2. h.next # 0 /\ UNCHANGED <<flights, feeds, rrq, phase>> /\ filler' = newFiller
    BY DEF createFiller
  <1>3. /\ h' \in HeadsLike(h') /\ h'.p = h.p /\ h'.next = 0 /\ h'.rqo = <<>>
        /\ h'.requesting = h.requesting
    BY <1>1 DEF HeadInv, Types, HeadsLike
  <1>4. filler' \in FillersOf
    <2>1. Keys \ have \in SUBSET Keys /\ Timers \in BOOLEAN
      BY BoundsAssumption
    <2> QED BY <1>2, <2>1 DEF FillersOf, NoFiller, newFiller
  <1>5. Types'
    BY <1>2, <1>3, <1>4 DEF HeadInv, Types
  <1>6. h.p = 0
    BY <1>2 DEF HeadInv, Order
  <1>7. Order'
    BY <1>3, <1>6 DEF Order
  <1>8. Requests'
    BY <1>2, <1>3 DEF HeadInv, Requests
  <1>9. AsksOn'
    BY <1>3 DEF AsksOn
  <1> QED BY <1>5, <1>7, <1>8, <1>9 DEF HeadInv

LEMMA ResultInv ==
  ASSUME HeadInv, phase = "run", h.next = 0, handleFillingResult
  PROVE  HeadInv'
  <1> DEFINE moved == [h EXCEPT !.cs = moveForward(@, h.r + 1)]
  <1>1. PICK hd : /\ hd \in HeadsLike(hd) /\ hd.p = h.p
                  /\ h' = TakePending(closeFiller(hd))
    <2>1. h \in HeadsLike(h) /\ moved \in HeadsLike(moved) /\ moved.p = h.p
      BY DEF HeadInv, Types, HeadsLike
    <2>2. h' = TakePending(closeFiller(IF filler.result = "full" THEN moved ELSE h))
      BY DEF handleFillingResult
    <2> HIDE DEF moved
    <2> QED BY <2>1, <2>2
  <1>2. filler' = NoFiller /\ flights' = {} /\ UNCHANGED <<feeds, rrq, phase>>
    BY DEF handleFillingResult
  <1> DEFINE done == closeFiller(hd)
  <1>3. done \in HeadsLike(done) /\ done.r = 0 /\ done.p = h.p /\ done.requesting = 0
    BY <1>1 DEF closeFiller, HeadsLike
  <1>4. h' = [done EXCEPT !.next = done.p, !.p = 0]
    BY <1>1 DEF TakePending
  <1>5. h' \in HeadsLike(h') /\ h'.r = 0 /\ h'.p = 0 /\ h'.requesting = 0
    <2> HIDE DEF done
    <2> QED BY <1>3, <1>4 DEF HeadsLike
  <1>6. filler' \in FillersOf /\ ~Runs'
    BY <1>2 DEF FillersOf, NoFiller, Runs
  <1>7. IsFiniteSet(flights') /\ Cardinality(flights') = 0
    BY <1>2, FS_EmptySet
  <1>8. Types'
    BY <1>2, <1>5, <1>6, <1>7 DEF HeadInv, Types
  <1>9. Order' /\ Requests' /\ AsksOn'
    BY <1>5, <1>6, <1>7 DEF Order, Requests, AsksOn, Filling, Runs
  <1> QED BY <1>8, <1>9 DEF HeadInv

LEMMA DelConnInv ==
  ASSUME HeadInv, phase = "run", handleDelConn
  PROVE  HeadInv'
  <1>1. h' = [h EXCEPT !.cs = Forget(@, feeds.c)] /\ feeds' = Free /\ UNCHANGED <<filler, flights, rrq, phase>>
    BY DEF handleDelConn, FeedsGo
  <1>2. /\ h' \in HeadsLike(h') /\ h'.r = h.r /\ h'.p = h.p /\ h'.next = h.next
        /\ h'.rqo = h.rqo /\ h'.requesting = h.requesting
    BY <1>1 DEF HeadInv, Types, HeadsLike
  <1>3. Types'
    BY <1>1, <1>2 DEF HeadInv, Types, Free
  <1>4. Order' /\ Requests' /\ AsksOn'
    BY <1>1, <1>2 DEF HeadInv, Order, Requests, AsksOn, Filling, Runs
  <1> QED BY <1>3, <1>4 DEF HeadInv

LEMMA TerminateInv ==
  ASSUME HeadInv, terminate
  PROVE  HeadInv'
  <1>1. h' \in HeadsLike(h')
    BY DEF terminate, closeFiller, HeadInv, Types, HeadsLike
  <1>2. filler' \in FillersOf
    BY DEF terminate, FillersOf, NoFiller
  <1>3. IsFiniteSet(flights') /\ UNCHANGED <<rrq, feeds>> /\ phase' # "run"
    BY DEF terminate, HeadInv, Types
  <1> QED BY <1>1, <1>2, <1>3, StoppedInv

\* Every branch of the select.
LEMMA HandleInv ==
  ASSUME HeadInv, Handle
  PROVE  HeadInv'
  <1>1. phase = "run" /\ h.next = 0
    BY DEF Handle, Selects
  <1>2. ASSUME NEW k \in Gets, handleRequest(k) PROVE HeadInv'
    BY <1>1, <1>2, RequestInv
  <1>3. ASSUME NEW fl \in flights, handleSuccess(fl) \/ handleRequestFailure(fl) PROVE HeadInv'
    BY <1>1, <1>3, SuccessInv, FailureInv
  <1>4. CASE lateResult
    <2>1. h' = h /\ filler' = filler /\ flights' = flights /\ UNCHANGED <<rrq, feeds>> /\ phase' # "run"
      BY <1>4 DEF lateResult
    <2>2. h' \in HeadsLike(h') /\ filler' \in FillersOf /\ IsFiniteSet(flights')
      BY <2>1 DEF HeadInv, Types
    <2> QED BY <2>1, <2>2, StoppedInv
  <1> QED BY <1>1, <1>2, <1>3, <1>4, ReceivedRootInv, DelConnInv, ResultInv, TerminateInv DEF Handle

-----------------------------------------------------------------------------
\* The Filler, the goroutines of request and the timer.
LEMMA OutsideInv ==
  ASSUME HeadInv, Fires \/ Fills \/ Breaks \/ Replies
  PROVE  HeadInv'
  <1>1. filler \in FillersOf /\ h \in HeadsLike(h) /\ IsFiniteSet(flights) /\ Cardinality(flights) \in Nat
    BY FS_CardinalityType DEF HeadInv, Types
  <1>2. UNCHANGED <<rrq, feeds, phase>>
    BY DEF Fires, Timeout, Fills, get, goesOn, RunEnds, failed, Breaks, goroutineFails, Replies, Answer, NoAnswer, lateAnswer
  <1>3. rrq' \in Seq([c : Conns, s : Seqs]) /\ (feeds'.pc = "root" => feeds'.s \in Seqs)
    BY <1>2 DEF HeadInv, Types
  <1>4. CASE Fires \/ Fills \/ Breaks
    <2>1. flights' = flights
      BY <1>4 DEF Fires, Timeout, Fills, get, goesOn, RunEnds, failed, Breaks, goroutineFails
    <2>2. /\ h' \in HeadsLike(h') /\ h'.r = h.r /\ h'.p = h.p /\ h'.next = h.next /\ h'.rqo = h.rqo
          /\ h'.requesting = h.requesting
      <3>1. h' = h \/ h' = [h EXCEPT !.failing = filler.full] \/ h' = [h EXCEPT !.failing = FALSE]
        BY <1>4 DEF Fires, Timeout, Fills, get, goesOn, RunEnds, failed, Breaks, goroutineFails
      <3>2. filler.full \in BOOLEAN
        BY <1>1 DEF FillersOf
      <3> QED BY <1>1, <3>1, <3>2 DEF HeadsLike
    <2>3. filler' \in FillersOf /\ (Runs' => Runs /\ (filler.full => filler'.full))
      <3>1. CASE Fires
        BY <1>1, <3>1 DEF Fires, Timeout, FillersOf, Runs
      <3>2. ASSUME NEW o \in Gets, Runs, get(o)
            PROVE  filler' \in FillersOf /\ (Runs' => Runs /\ (filler.full => filler'.full))
        <4>1. PICK own \in {{}, {o}} : filler' = [filler EXCEPT !.asked = @ \cup {o}, !.awaits = @ \cup own]
          BY <3>2 DEF get
        <4> QED BY <1>1, <3>2, <4>1 DEF FillersOf, Runs
      <3>3. CASE goesOn \/ RunEnds \/ failed
        BY <1>1, <3>3 DEF goesOn, RunEnds, failed, FillersOf, Runs
      <3>4. CASE Breaks
        BY <1>1, <3>4 DEF Breaks, goroutineFails, FillersOf, Runs
      <3> QED BY <1>4, <3>1, <3>2, <3>3, <3>4 DEF Fills
    <2>4. Cardinality(flights') <= Cardinality(flights)
      BY <1>1, <2>1
    <2> QED BY <1>1, <1>2, <1>3, <2>1, <2>2, <2>3, <2>4, OthersInv
  <1>5. CASE Replies
    <2>1. filler' = filler /\ h' = h
      BY <1>5 DEF Replies, Answer, NoAnswer, lateAnswer
    <2>2. IsFiniteSet(flights') /\ Cardinality(flights') <= Cardinality(flights)
      <3>1. ASSUME NEW fl \in flights, Answer(fl) \/ NoAnswer(fl)
            PROVE  IsFiniteSet(flights') /\ Cardinality(flights') <= Cardinality(flights)
        <4>1. PICK x : flights' = (flights \ {fl}) \cup {x}
          BY <3>1 DEF Answer, NoAnswer
        <4> QED BY <1>1, <4>1, FewerFlights
      <3>2. ASSUME NEW k \in late, lateAnswer(k)
            PROVE  IsFiniteSet(flights') /\ Cardinality(flights') <= Cardinality(flights)
        BY <1>1, <3>2 DEF lateAnswer
      <3> QED BY <1>5, <3>1, <3>2 DEF Replies
    <2>3. Runs' => Runs /\ (filler.full => filler'.full)
      BY <2>1 DEF Runs
    <2> QED BY <1>1, <1>2, <1>3, <2>1, <2>2, <2>3, OthersInv
  <1> QED BY <1>4, <1>5

\* The goroutine of the feeds and the peers.
LEMMA FeedsInv ==
  ASSUME HeadInv, Feeds \/ Peers
  PROVE  HeadInv'
  <1>1. filler \in FillersOf /\ IsFiniteSet(flights) /\ Cardinality(flights) \in Nat
    BY FS_CardinalityType DEF HeadInv, Types
  <1>2. UNCHANGED <<h, filler, flights, phase>>
    BY DEF Feeds, receivedRoot, feedDeleted, Peers, handleRoot, delConnFeed, addConnFeed, delFeed
  <1>3. rrq' \in Seq([c : Conns, s : Seqs]) /\ (feeds'.pc = "root" => feeds'.s \in Seqs)
    <2> DEFINE R == [c : Conns, s : Seqs]
    <2>1. rrq \in Seq(R) /\ (feeds.pc = "root" => feeds.s \in Seqs)
      BY DEF HeadInv, Types
    <2>2. CASE receivedRoot
      <3>1. rrq # <<>> /\ rrq' = Tail(rrq)
        BY <2>2 DEF receivedRoot
      <3>2. Head(rrq) \in R /\ Tail(rrq) \in Seq(R)
        <4> HIDE DEF R
        <4> QED BY <2>1, <3>1
      <3>3. Head(rrq).s \in Seqs
        BY <3>2
      <3> QED BY <2>2, <3>1, <3>2, <3>3 DEF receivedRoot, Free
    <2>3. ASSUME NEW c \in Conns, NEW s \in Seqs, handleRoot(c, s)
          PROVE  rrq' \in Seq(R) /\ (feeds'.pc = "root" => feeds'.s \in Seqs)
      <3>1. [c |-> c, s |-> s] \in R /\ rrq' = Append(rrq, [c |-> c, s |-> s]) /\ feeds' = feeds
        BY <2>3 DEF handleRoot
      <3> HIDE DEF R
      <3> QED BY <2>1, <3>1
    <2>4. CASE feedDeleted \/ delFeed \/ \E c \in Conns : delConnFeed(c) \/ addConnFeed(c)
      BY <2>1, <2>4 DEF feedDeleted, delFeed, delConnFeed, addConnFeed
    <2> QED BY <2>2, <2>3, <2>4 DEF Feeds, Peers
  <1>4. h \in HeadsLike(h) /\ (Runs' => Runs /\ (filler.full => filler'.full))
    BY <1>2 DEF HeadInv, Types, Runs
  <1> QED BY <1>1, <1>2, <1>3, <1>4, OthersInv

\* Every step keeps the invariant.
LEMMA NextInv == HeadInv /\ [Next]_vars => HeadInv'
  <1> SUFFICES ASSUME HeadInv, [Next]_vars PROVE HeadInv'
    OBVIOUS
  <1>1. CASE UNCHANGED vars
    BY <1>1 DEF vars, HeadInv, Types, Order, Requests, AsksOn, Filling, Runs
  <1>2. CASE Broadcast
    BY <1>2, CreateInv DEF Broadcast
  <1> QED BY <1>1, <1>2, HandleInv, OutsideInv, FeedsInv DEF Next

\* The pending Root is newer than the one that is filled and goes with it
\* (handleReceivedRoot, handleFillingResult).
THEOREM HeadPendingNewer == Spec => []PendingNewer
  <1>1. Spec => []HeadInv
    BY InitInv, NextInv, PTL DEF Spec
  <1>2. HeadInv => PendingNewer
    BY DEF HeadInv, Order, PendingNewer
  <1> QED BY <1>1, <1>2, PTL

\* Whatever answers, fails, comes and goes: keys to request are requested, or
\* the Filler is told (triggerRequest, tryRequest).
THEOREM HeadAsksOn == Spec => []AsksOn
  <1>1. Spec => []HeadInv
    BY InitInv, NextInv, PTL DEF Spec
  <1>2. HeadInv => AsksOn
    BY DEF HeadInv
  <1> QED BY <1>1, <1>2, PTL

-----------------------------------------------------------------------------
(* Where a key may be.  Of what the Filler has asked for (A), q has not been *)
(* taken, l is the list, F are the goroutines of request; H is in the DB.    *)

\* A flight whose id and connection may be anything.
Flight(fl) == fl = [id |-> fl.id, c |-> fl.c, key |-> fl.key, st |-> fl.st]

Open(F) == {fl \in F : fl.st # "ok"}

Once(A, q, l, F, H) ==
  /\ q \subseteq A /\ l \in Seq(A)
  /\ \A fl \in F : Flight(fl) /\ fl.key \in A /\ (fl.st = "ok" => fl.key \in H)
  /\ \A i, j \in DOMAIN l : l[i] = l[j] => i = j
  /\ \A i \in DOMAIN l : l[i] \notin q
  /\ \A fl \in Open(F) : fl.key \notin q /\ \A i \in DOMAIN l : l[i] # fl.key
  /\ \A fl, gl \in Open(F) : fl.key = gl.key => fl = gl
  /\ \A k \in A \ H : k \in q \/ (\E i \in DOMAIN l : l[i] = k) \/ (\E fl \in Open(F) : fl.key = k)

\* The calls whose object the DB has.
Had == {o \in Gets : KeyOf[o] \in have}

\* There is a Filler while a Root is filled, and nothing of an earlier one is
\* left.
KeysInv ==
  phase = "run" =>
    /\ filler.state = "none" <=> h.r = 0
    /\ h.r = 0 => filler.asked = {}
    /\ Once(filler.asked, rq, h.rqo, flights, Had)

AllInv == HeadInv /\ KeysInv

\* The first key of the list is requested.
LEMMA OnceRequested ==
  ASSUME NEW A, NEW q, NEW l, NEW F, NEW H, Once(A, q, l, F, H), l # <<>>,
         NEW x, Flight(x), x.key = Head(l), x.st = "sent"
  PROVE  Once(A, q, Tail(l), F \cup {x}, H)
  <1> DEFINE t == Tail(l)
             G == F \cup {x}
  <1>1. l \in Seq(A) /\ Len(l) \in Nat /\ Len(l) > 0 /\ DOMAIN l = 1..Len(l)
    BY DEF Once
  <1>2. /\ t \in Seq(A) /\ DOMAIN t = 1..(Len(l) - 1) /\ \A i \in DOMAIN t : i + 1 \in DOMAIN l /\ t[i] = l[i + 1]
        /\ Head(l) = l[1] /\ 1 \in DOMAIN l /\ l[1] \in A
    BY <1>1
  <1>3. \A i \in DOMAIN l : i = 1 \/ (i - 1 \in DOMAIN t /\ t[i - 1] = l[i])
    <2> SUFFICES ASSUME NEW i \in DOMAIN l, i # 1 PROVE i - 1 \in DOMAIN t /\ t[i - 1] = l[i]
      OBVIOUS
    <2>1. i - 1 \in DOMAIN t /\ (i - 1) + 1 = i
      BY <1>1, <1>2
    <2> QED BY <1>2, <2>1
  <1>4. \A i \in DOMAIN t : t[i] # x.key
    <2> SUFFICES ASSUME NEW i \in DOMAIN t, t[i] = x.key PROVE FALSE
      OBVIOUS
    <2>1. i \in Nat /\ i >= 1 /\ i + 1 \in DOMAIN l /\ l[i + 1] = l[1]
      BY <1>1, <1>2
    <2>2. i + 1 = 1
      BY <1>2, <2>1 DEF Once
    <2> QED BY <2>1, <2>2
  <1>5. Open(G) = Open(F) \cup {x}
    BY DEF Open
  <1> HIDE DEF t
  <1>6. \A fl \in G : Flight(fl) /\ fl.key \in A /\ (fl.st = "ok" => fl.key \in H)
    BY <1>2 DEF Once
  <1>7. \A i, j \in DOMAIN t : t[i] = t[j] => i = j
    <2> SUFFICES ASSUME NEW i \in DOMAIN t, NEW j \in DOMAIN t, t[i] = t[j] PROVE i = j
      OBVIOUS
    <2>1. i + 1 = j + 1
      BY <1>2 DEF Once
    <2> QED BY <1>1, <1>2, <2>1
  <1>8. \A i \in DOMAIN t : t[i] \notin q
    BY <1>2 DEF Once
  <1>9. \A fl \in Open(G) : fl.key \notin q /\ \A i \in DOMAIN t : t[i] # fl.key
    BY <1>2, <1>4, <1>5 DEF Once
  <1>10. \A fl, gl \in Open(G) : fl.key = gl.key => fl = gl
    BY <1>2, <1>5 DEF Once
  <1>11. \A k \in A \ H : k \in q \/ (\E i \in DOMAIN t : t[i] = k) \/ (\E fl \in Open(G) : fl.key = k)
    <2> SUFFICES ASSUME NEW k \in A \ H, k \notin q, ~\E fl \in Open(G) : fl.key = k PROVE \E i \in DOMAIN t : t[i] = k
      OBVIOUS
    <2>1. PICK i \in DOMAIN l : l[i] = k
      BY <1>5 DEF Once
    <2>2. i # 1
      BY <1>2, <1>5, <2>1
    <2> QED BY <1>3, <2>1, <2>2
  <1> HIDE DEF G
  <1>12. q \subseteq A
    BY DEF Once
  <1>13. Once(A, q, t, G, H)
    BY <1>2, <1>6, <1>7, <1>8, <1>9, <1>10, <1>11, <1>12 DEF Once
  <1> QED BY <1>13 DEF t, G

\* The head takes a key of the Filler.
LEMMA OnceTaken ==
  ASSUME NEW A, NEW q, NEW l, NEW F, NEW H, Once(A, q, l, F, H), NEW k \in q
  PROVE  Once(A, q \ {k}, Append(l, k), F, H)
  <1> DEFINE t == Append(l, k)
             p == q \ {k}
  <1>1. l \in Seq(A) /\ k \in A /\ Len(l) \in Nat /\ DOMAIN l = 1..Len(l) /\ p \subseteq A
    BY DEF Once
  <1>2. /\ t \in Seq(A) /\ DOMAIN t = 1..(Len(l) + 1) /\ t[Len(l) + 1] = k
        /\ \A i \in DOMAIN l : i \in DOMAIN t /\ t[i] = l[i]
        /\ \A i \in DOMAIN t : i \in DOMAIN l \/ i = Len(l) + 1
    BY <1>1
  <1>3. \A i \in DOMAIN l : l[i] # k
    BY DEF Once
  <1> HIDE DEF t
  <1>4. \A i, j \in DOMAIN t : t[i] = t[j] => i = j
    BY <1>2, <1>3 DEF Once
  <1>5. \A i \in DOMAIN t : t[i] \notin p
    BY <1>2 DEF Once
  <1>6. \A fl \in Open(F) : fl.key \notin p /\ \A i \in DOMAIN t : t[i] # fl.key
    BY <1>2 DEF Once
  <1>7. \A d \in A \ H : d \in p \/ (\E i \in DOMAIN t : t[i] = d) \/ (\E fl \in Open(F) : fl.key = d)
    <2> SUFFICES ASSUME NEW d \in A \ H, d \notin p, ~\E fl \in Open(F) : fl.key = d PROVE \E i \in DOMAIN t : t[i] = d
      OBVIOUS
    <2>1. CASE d = k
      BY <1>1, <1>2, <2>1
    <2>2. CASE d # k
      <3>1. PICK i \in DOMAIN l : l[i] = d
        BY <2>2 DEF Once
      <3> QED BY <1>2, <3>1
    <2> QED BY <2>1, <2>2
  <1> HIDE DEF p
  <1>8. Once(A, p, t, F, H)
    BY <1>1, <1>2, <1>4, <1>5, <1>6, <1>7 DEF Once
  <1> QED BY <1>8 DEF p, t

\* A request that has failed puts its key first.
LEMMA OnceBack ==
  ASSUME NEW A, NEW q, NEW l, NEW F, NEW H, Once(A, q, l, F, H), NEW fl \in F, fl.st # "ok"
  PROVE  Once(A, q, <<fl.key>> \o l, F \ {fl}, H)
  <1> DEFINE k == fl.key
             t == <<fl.key>> \o l
             G == F \ {fl}
  <1>1. l \in Seq(A) /\ k \in A /\ Len(l) \in Nat /\ DOMAIN l = 1..Len(l) /\ q \subseteq A /\ fl \in Open(F)
    BY DEF Once, Open
  <1>2. /\ t \in Seq(A) /\ DOMAIN t = 1..(Len(l) + 1) /\ t[1] = k
        /\ \A i \in DOMAIN t : i = 1 \/ (i - 1 \in DOMAIN l /\ t[i] = l[i - 1])
        /\ \A i \in DOMAIN l : i + 1 \in DOMAIN t /\ t[i + 1] = l[i]
    <2> HIDE DEF k
    <2>1. t = <<k>> \o l /\ <<k>> \in Seq(A) /\ Len(<<k>>) = 1 /\ <<k>>[1] = k
      BY <1>1 DEF k
    <2>2. t \in Seq(A) /\ Len(t) = Len(l) + 1 /\ DOMAIN t = 1..(Len(l) + 1)
      <3> HIDE DEF t
      <3> QED BY <1>1, <2>1
    <2>3. \A i \in 1..(Len(l) + 1) : t[i] = IF i <= 1 THEN <<k>>[i] ELSE l[i - 1]
      <3> HIDE DEF t
      <3> QED BY <1>1, <2>1
    <2> HIDE DEF t
    <2>4. t[1] = k /\ 1 \in DOMAIN t
      BY <1>1, <2>1, <2>2, <2>3
    <2>5. \A i \in DOMAIN t : i = 1 \/ (i - 1 \in DOMAIN l /\ t[i] = l[i - 1])
      BY <1>1, <2>2, <2>3
    <2>6. ASSUME NEW i \in DOMAIN l PROVE i + 1 \in DOMAIN t /\ t[i + 1] = l[i]
      <3>1. i + 1 \in DOMAIN t /\ i + 1 # 1 /\ (i + 1) - 1 = i
        BY <1>1, <2>2
      <3> QED BY <2>5, <3>1
    <2> QED BY <2>2, <2>4, <2>5, <2>6
  <1>3. k \notin q /\ \A i \in DOMAIN l : l[i] # k
    BY <1>1 DEF Once
  <1>4. Open(G) = Open(F) \ {fl} /\ \A gl \in Open(G) : gl.key # k
    BY <1>1 DEF Open, Once
  <1> HIDE DEF t
  <1>5. \A gl \in G : Flight(gl) /\ gl.key \in A /\ (gl.st = "ok" => gl.key \in H)
    BY DEF Once
  <1>6. \A i, j \in DOMAIN t : t[i] = t[j] => i = j
    <2> SUFFICES ASSUME NEW i \in DOMAIN t, NEW j \in DOMAIN t, t[i] = t[j] PROVE i = j
      OBVIOUS
    <2>1. CASE i = 1 \/ j = 1
      BY <1>2, <1>3, <2>1
    <2>2. CASE i # 1 /\ j # 1
      <3>1. i - 1 = j - 1
        BY <1>2, <2>2 DEF Once
      <3> QED BY <1>1, <1>2, <3>1
    <2> QED BY <2>1, <2>2
  <1>7. ASSUME NEW i \in DOMAIN t PROVE t[i] \notin q
    <2>1. \A j \in DOMAIN l : l[j] \notin q
      BY DEF Once
    <2>2. CASE i = 1
      BY <1>2, <1>3, <2>2
    <2>3. CASE i # 1
      <3>1. i - 1 \in DOMAIN l /\ t[i] = l[i - 1]
        BY <1>2, <2>3
      <3> QED BY <2>1, <3>1
    <2> QED BY <2>2, <2>3
  <1>8. ASSUME NEW gl \in Open(G) PROVE gl.key \notin q /\ \A i \in DOMAIN t : t[i] # gl.key
    <2>1. gl.key # k /\ gl.key \notin q /\ \A j \in DOMAIN l : l[j] # gl.key
      BY <1>4 DEF Once
    <2> QED BY <1>2, <2>1
  <1>9. \A gl, hl \in Open(G) : gl.key = hl.key => gl = hl
    BY <1>4 DEF Once
  <1>10. \A d \in A \ H : d \in q \/ (\E i \in DOMAIN t : t[i] = d) \/ (\E gl \in Open(G) : gl.key = d)
    <2> SUFFICES ASSUME NEW d \in A \ H, d \notin q, ~\E gl \in Open(G) : gl.key = d PROVE \E i \in DOMAIN t : t[i] = d
      OBVIOUS
    <2>1. CASE d = k
      BY <1>1, <1>2, <2>1
    <2>2. CASE d # k
      <3>1. PICK i \in DOMAIN l : l[i] = d
        BY <1>4, <2>2 DEF Once
      <3> QED BY <1>2, <3>1
    <2> QED BY <2>1, <2>2
  <1> HIDE DEF G
  <1>11. Once(A, q, t, G, H)
    BY <1>1, <1>2, <1>5, <1>6, <1>7, <1>8, <1>9, <1>10 DEF Once
  <1> QED BY <1>11 DEF t, G

\* A request that is done and saved is gone.
LEMMA OnceDone ==
  ASSUME NEW A, NEW q, NEW l, NEW F, NEW H, Once(A, q, l, F, H), NEW fl \in F, fl.st = "ok"
  PROVE  Once(A, q, l, F \ {fl}, H)
  <1>1. Open(F \ {fl}) = Open(F)
    BY DEF Open
  <1> QED BY <1>1 DEF Once

\* A request ends: the object is saved, or not.
LEMMA OnceAnswered ==
  ASSUME NEW A, NEW q, NEW l, NEW F, NEW H, Once(A, q, l, F, H), NEW fl \in F, fl.st = "sent", NEW st
  PROVE  /\ st = "ok" => Once(A, q, l, (F \ {fl}) \cup {[fl EXCEPT !.st = st]}, H \cup {fl.key})
         /\ st # "ok" => Once(A, q, l, (F \ {fl}) \cup {[fl EXCEPT !.st = st]}, H)
  <1> DEFINE x == [fl EXCEPT !.st = st]
             G == (F \ {fl}) \cup {x}
  <1>1. Flight(fl) /\ fl \in Open(F) /\ fl.key \in A
    BY DEF Once, Open
  <1>2. Flight(x) /\ x.key = fl.key /\ x.st = st
    BY <1>1 DEF Flight
  <1> HIDE DEF x
  <1>3. CASE st = "ok"
    <2>1. Open(G) = Open(F) \ {fl}
      BY <1>1, <1>2, <1>3 DEF Open
    <2>2. \A gl \in G : Flight(gl) /\ gl.key \in A /\ (gl.st = "ok" => gl.key \in H \cup {fl.key})
      BY <1>1, <1>2 DEF Once
    <2> HIDE DEF G
    <2>3. \A d \in A \ (H \cup {fl.key}) : d \in q \/ (\E i \in DOMAIN l : l[i] = d) \/ (\E gl \in Open(G) : gl.key = d)
      BY <2>1 DEF Once
    <2>4. \A gl \in Open(G) : gl \in Open(F)
      BY <2>1
    <2>5. Once(A, q, l, G, H \cup {fl.key})
      BY <2>2, <2>3, <2>4 DEF Once
    <2> QED BY <1>3, <2>5 DEF G, x
  <1>4. CASE st # "ok"
    <2>1. Open(G) = (Open(F) \ {fl}) \cup {x}
      BY <1>1, <1>2, <1>4 DEF Open
    <2>2. \A gl \in G : Flight(gl) /\ gl.key \in A /\ (gl.st = "ok" => gl.key \in H)
      BY <1>1, <1>2, <1>4 DEF Once
    <2> HIDE DEF G
    <2>3. \A d \in A \ H : d \in q \/ (\E i \in DOMAIN l : l[i] = d) \/ (\E gl \in Open(G) : gl.key = d)
      <3> SUFFICES ASSUME NEW d \in A \ H, d \notin q, ~\E i \in DOMAIN l : l[i] = d PROVE \E gl \in Open(G) : gl.key = d
        OBVIOUS
      <3>1. PICK gl \in Open(F) : gl.key = d
        BY DEF Once
      <3> QED BY <1>2, <2>1, <3>1
    <2>4. \A gl \in Open(G) : gl.key \notin q /\ \A i \in DOMAIN l : l[i] # gl.key
      BY <1>1, <1>2, <2>1 DEF Once
    <2>5. \A gl, hl \in Open(G) : gl.key = hl.key => gl = hl
      BY <1>1, <1>2, <2>1 DEF Once
    <2>6. Once(A, q, l, G, H)
      BY <2>2, <2>3, <2>4, <2>5 DEF Once
    <2> QED BY <1>4, <2>6 DEF G, x
  <1> QED BY <1>3, <1>4

\* The DB has more.
LEMMA OnceMore ==
  ASSUME NEW A, NEW q, NEW l, NEW F, NEW H, NEW I, Once(A, q, l, F, H), H \subseteq I
  PROVE  Once(A, q, l, F, I)
  BY DEF Once

\* The Filler asks for one more.
LEMMA OnceAsked ==
  ASSUME NEW A, NEW q, NEW l, NEW F, NEW H, Once(A, q, l, F, H), NEW k, k \notin A
  PROVE  Once(A \cup {k}, q \cup {k}, l, F, H)
  <1> DEFINE B == A \cup {k}
             p == q \cup {k}
  <1>1. l \in Seq(A) /\ (\A i \in DOMAIN l : l[i] \in A) /\ Open(F) \subseteq F
    BY DEF Once, Open
  <1>2. l \in Seq(B)
    BY <1>1
  <1>3. p \subseteq B /\ \A i \in DOMAIN l : l[i] \notin p
    BY <1>1 DEF Once
  <1>4. \A fl \in F : Flight(fl) /\ fl.key \in B /\ fl.key # k /\ (fl.st = "ok" => fl.key \in H)
    BY DEF Once
  <1>5. \A fl \in Open(F) : fl.key \notin p /\ \A i \in DOMAIN l : l[i] # fl.key
    BY <1>1, <1>4 DEF Once
  <1>6. \A d \in B \ H : d \in p \/ (\E i \in DOMAIN l : l[i] = d) \/ (\E fl \in Open(F) : fl.key = d)
    BY DEF Once
  <1> HIDE DEF B, p
  <1>7. Once(B, p, l, F, H)
    BY <1>2, <1>3, <1>4, <1>5, <1>6 DEF Once
  <1> QED BY <1>7 DEF B, p

-----------------------------------------------------------------------------
\* triggerRequest moves the first key from the list to a goroutine.
LEMMA TriggerOnce ==
  ASSUME NEW hd, hd \in HeadsLike(hd), filler \in FillersOf,
         NEW others, NEW A, NEW q, NEW H, Once(A, q, hd.rqo, others, H),
         triggerRequest(hd, others)
  PROVE  /\ Once(A, q, h'.rqo, flights', H)
         /\ h'.r = hd.r
         /\ filler'.asked = filler.asked /\ filler'.state = filler.state
  <1> DEFINE live == {i \in DOMAIN hd.fc : hd.fc[i] \in DOMAIN hd.cs}
             x == [id |-> FreeId, c |-> hd.fc[Min(live)], key |-> Head(hd.rqo), st |-> "sent"]
  <1>1. CASE hd.rqo = <<>> /\ h' = hd /\ flights' = others /\ UNCHANGED filler
    BY <1>1
  <1>2. CASE flights' = others /\ ((hd.requesting = 0 /\ Fail([hd EXCEPT !.fc = <<>>]))
                                    \/ (hd.requesting # 0 /\ h' = [hd EXCEPT !.fc = <<>>] /\ UNCHANGED filler))
    <2> DEFINE e == [hd EXCEPT !.fc = <<>>]
    <2>1. e \in HeadsLike(e) /\ e.rqo = hd.rqo /\ e.r = hd.r
      BY DEF HeadsLike
    <2>2. Fail(e) \/ (h' = e /\ UNCHANGED filler)
      BY <1>2
    <2> HIDE DEF e
    <2>3. /\ h'.rqo = hd.rqo /\ h'.r = hd.r
          /\ filler'.asked = filler.asked /\ filler'.state = filler.state
      BY <2>1, <2>2, FailMarks
    <2> QED BY <1>2, <2>3
  <1>3. ASSUME NEW fc, hd.rqo # <<>>,
               h' = [hd EXCEPT !.fc = fc, !.rqo = Tail(@), !.requesting = @ + 1],
               flights' = others \cup {x}, UNCHANGED filler
        PROVE  Once(A, q, h'.rqo, flights', H) /\ h'.r = hd.r
    <2>1. h'.rqo = Tail(hd.rqo) /\ h'.r = hd.r
      BY <1>3 DEF HeadsLike
    <2>2. Flight(x) /\ x.key = Head(hd.rqo) /\ x.st = "sent"
      BY DEF Flight
    <2> HIDE DEF x
    <2> QED BY <1>3, <2>1, <2>2, OnceRequested
  <1>4. \/ hd.rqo = <<>> /\ h' = hd /\ flights' = others /\ UNCHANGED filler
        \/ flights' = others /\ ((hd.requesting = 0 /\ Fail([hd EXCEPT !.fc = <<>>]))
                                    \/ (hd.requesting # 0 /\ h' = [hd EXCEPT !.fc = <<>>] /\ UNCHANGED filler))
        \/ /\ hd.rqo # <<>>
           /\ h' = [hd EXCEPT !.fc = SubSeq(@, Min(live) + 1, Len(@)), !.rqo = Tail(@), !.requesting = @ + 1]
           /\ flights' = others \cup {x}
           /\ UNCHANGED filler
    BY DEF triggerRequest
  <1> HIDE DEF x, live
  <1> QED BY <1>1, <1>2, <1>3, <1>4

\* So does a step that ends in it.
LEMMA TriggerKeys ==
  ASSUME AllInv, phase = "run",
         NEW hd, hd \in HeadsLike(hd), hd.r = h.r,
         NEW others, NEW q, Once(filler.asked, q, hd.rqo, others, Had),
         triggerRequest(hd, others),
         rq' = q, have' = have
  PROVE  KeysInv'
  <1>1. filler \in FillersOf
    BY DEF AllInv, HeadInv, Types
  <1>2. /\ Once(filler.asked, q, h'.rqo, flights', Had)
        /\ h'.r = hd.r
        /\ filler'.asked = filler.asked /\ filler'.state = filler.state
    BY <1>1, TriggerOnce
  <1>3. Had' = Had
    BY DEF Had
  <1> QED BY <1>2, <1>3 DEF AllInv, KeysInv, Had

LEMMA RequestKeys ==
  ASSUME AllInv, phase = "run", NEW k \in Gets, handleRequest(k)
  PROVE  KeysInv'
  <1> DEFINE hd == [h EXCEPT !.rqo = Append(@, k)]
  <1>1. hd \in HeadsLike(hd) /\ hd.r = h.r /\ hd.rqo = Append(h.rqo, k)
    BY DEF AllInv, HeadInv, Types, HeadsLike
  <1>2. k \in rq /\ triggerRequest(hd, flights) /\ rq' = rq \ {k} /\ have' = have
    BY DEF handleRequest
  <1> HIDE DEF hd
  <1>3. Once(filler.asked, rq, h.rqo, flights, Had)
    BY DEF AllInv, KeysInv, Had
  <1>4. Once(filler.asked, rq \ {k}, hd.rqo, flights, Had)
    BY <1>1, <1>2, <1>3, OnceTaken
  <1> QED BY <1>1, <1>2, <1>4, TriggerKeys

LEMMA SuccessKeys ==
  ASSUME AllInv, phase = "run", NEW fl \in flights, handleSuccess(fl)
  PROVE  KeysInv'
  <1> DEFINE hd == [h EXCEPT !.requesting = @ - 1, !.fc = Append(@, fl.c)]
  <1>1. h.requesting - 1 \in Nat
    <2>1. IsFiniteSet(flights) /\ Cardinality(flights) <= h.requesting /\ h.requesting \in Nat
      BY DEF AllInv, HeadInv, Types, Requests, HeadsLike
    <2>2. /\ IsFiniteSet(flights \ {fl}) /\ Cardinality(flights \ {fl}) = Cardinality(flights) - 1
          /\ Cardinality(flights \ {fl}) \in Nat /\ Cardinality(flights) \in Nat
      BY <2>1, FewerFlights, FS_CardinalityType
    <2> QED BY <2>1, <2>2
  <1>2. hd \in HeadsLike(hd) /\ hd.r = h.r /\ hd.rqo = h.rqo
    BY <1>1 DEF AllInv, HeadInv, Types, HeadsLike
  <1>3. fl.st = "ok" /\ triggerRequest(hd, flights \ {fl}) /\ rq' = rq /\ have' = have
    BY DEF handleSuccess
  <1> HIDE DEF hd
  <1>4. Once(filler.asked, rq, hd.rqo, flights \ {fl}, Had)
    BY <1>2, <1>3, OnceDone DEF AllInv, KeysInv, Had
  <1> QED BY <1>2, <1>3, <1>4, TriggerKeys

LEMMA FailureKeys ==
  ASSUME AllInv, phase = "run", NEW fl \in flights, handleRequestFailure(fl)
  PROVE  KeysInv'
  <1> DEFINE hd == [h EXCEPT !.requesting = @ - 1, !.cs = Blamed(@, fl), !.rqo = <<fl.key>> \o @]
  <1>1. h.requesting - 1 \in Nat
    <2>1. IsFiniteSet(flights) /\ Cardinality(flights) <= h.requesting /\ h.requesting \in Nat
      BY DEF AllInv, HeadInv, Types, Requests, HeadsLike
    <2>2. /\ IsFiniteSet(flights \ {fl}) /\ Cardinality(flights \ {fl}) = Cardinality(flights) - 1
          /\ Cardinality(flights \ {fl}) \in Nat /\ Cardinality(flights) \in Nat
      BY <2>1, FewerFlights, FS_CardinalityType
    <2> QED BY <2>1, <2>2
  <1>2. hd \in HeadsLike(hd) /\ hd.r = h.r /\ hd.rqo = <<fl.key>> \o h.rqo
    BY <1>1 DEF AllInv, HeadInv, Types, HeadsLike
  <1>3. fl.st # "ok" /\ triggerRequest(hd, flights \ {fl}) /\ rq' = rq /\ have' = have
    BY DEF handleRequestFailure
  <1> HIDE DEF hd
  <1>4. Once(filler.asked, rq, hd.rqo, flights \ {fl}, Had)
    BY <1>2, <1>3, OnceBack DEF AllInv, KeysInv, Had
  <1> QED BY <1>2, <1>3, <1>4, TriggerKeys

\* A Root that is announced moves no key but by triggerRequest.
LEMMA ReceivedRootKeys ==
  ASSUME AllInv, phase = "run", h.next = 0, handleReceivedRoot
  PROVE  KeysInv'
  <1> DEFINE c == feeds.c
             s == feeds.s
             known == [h EXCEPT !.cs = addKnown(@, c, s)]
             hd == [known EXCEPT !.fc = Append(@, c)]
  <1>1. known \in HeadsLike(known) /\ known.r = h.r /\ known.rqo = h.rqo
    BY DEF AllInv, HeadInv, Types, HeadsLike
  <1>2. h \in HeadsLike(h) /\ rq' = rq /\ have' = have /\ phase' = phase
    BY DEF AllInv, HeadInv, Types, handleReceivedRoot
  <1>3. CASE triggerRequest(hd, flights)
    <2>1. hd \in HeadsLike(hd) /\ hd.r = h.r /\ hd.rqo = h.rqo
      <3> HIDE DEF known
      <3> QED BY <1>1 DEF HeadsLike
    <2>2. Once(filler.asked, rq, hd.rqo, flights, Had)
      <3> HIDE DEF hd
      <3> QED BY <2>1 DEF AllInv, KeysInv, Had
    <2> HIDE DEF hd
    <2> QED BY <1>2, <1>3, <2>1, <2>2, TriggerKeys
  <1>4. CASE UNCHANGED <<filler, flights>> /\ h'.r = h.r /\ h'.rqo = h.rqo
    BY <1>2, <1>4 DEF AllInv, KeysInv, Had
  <1>5. \/ triggerRequest(hd, flights)
        \/ UNCHANGED <<filler, flights>> /\ h' = h
        \/ UNCHANGED <<filler, flights>> /\ h' = known
        \/ UNCHANGED <<filler, flights>> /\ h' = [known EXCEPT !.p = s]
        \/ UNCHANGED <<filler, flights>> /\ h' = [known EXCEPT !.next = s]
    BY DEF handleReceivedRoot
  <1> HIDE DEF hd, known
  <1>6. ASSUME NEW x, h' = [known EXCEPT !.p = x] \/ h' = [known EXCEPT !.next = x] PROVE h'.r = h.r /\ h'.rqo = h.rqo
    BY <1>1, <1>6 DEF HeadsLike
  <1> QED BY <1>1, <1>3, <1>4, <1>5, <1>6

\* A filling begins with nothing asked, nothing listed and nothing in the air.
LEMMA CreateKeys ==
  ASSUME AllInv, phase = "run", createFiller
  PROVE  KeysInv'
  <1>1. PICK l : h' = [h EXCEPT !.r = h.next, !.next = 0, !.rqo = <<>>, !.fc = l]
    BY DEF createFiller
  <1>2. /\ h.next # 0 /\ UNCHANGED <<rq, flights, have, phase>>
        /\ filler' = newFiller
    BY DEF createFiller
  <1>3. h'.r # 0 /\ h'.rqo = <<>>
    BY <1>1, <1>2 DEF AllInv, HeadInv, Types, HeadsLike
  <1>4. filler'.state # "none" /\ filler'.asked = {}
    BY <1>2 DEF NoFiller, newFiller
  <1>5. rq = {} /\ flights = {}
    <2>1. filler.asked = {}
      BY <1>2 DEF AllInv, HeadInv, Order, KeysInv
    <2> QED BY <2>1 DEF AllInv, KeysInv, Once
  <1>6. Once({}, {}, <<>>, {}, Had')
    BY DEF Once, Open
  <1> QED BY <1>2, <1>3, <1>4, <1>5, <1>6 DEF KeysInv

LEMMA ResultKeys ==
  ASSUME AllInv, phase = "run", handleFillingResult
  PROVE  KeysInv'
  <1> DEFINE moved == [h EXCEPT !.cs = moveForward(@, h.r + 1)]
  <1>1. PICK hd : hd \in HeadsLike(hd) /\ h' = TakePending(closeFiller(hd))
    <2>1. h \in HeadsLike(h) /\ moved \in HeadsLike(moved)
      BY DEF AllInv, HeadInv, Types, HeadsLike
    <2>2. h' = TakePending(closeFiller(IF filler.result = "full" THEN moved ELSE h))
      BY DEF handleFillingResult
    <2> HIDE DEF moved
    <2> QED BY <2>1, <2>2
  <1>2. h'.r = 0 /\ h'.rqo = <<>>
    BY <1>1 DEF closeFiller, TakePending, HeadsLike
  <1>3. filler'.state = "none" /\ filler'.asked = {} /\ flights' = {} /\ rq' = {} /\ have' = have
    BY DEF handleFillingResult, NoFiller
  <1>4. Once({}, {}, <<>>, {}, Had')
    BY DEF Once, Open
  <1> QED BY <1>2, <1>3, <1>4 DEF KeysInv

LEMMA HandleKeys ==
  ASSUME AllInv, Handle
  PROVE  KeysInv'
  <1>1. phase = "run" /\ h.next = 0
    BY DEF Handle, Selects
  <1>2. ASSUME NEW k \in Gets, handleRequest(k) PROVE KeysInv'
    BY <1>1, <1>2, RequestKeys
  <1>3. ASSUME NEW fl \in flights, handleSuccess(fl) \/ handleRequestFailure(fl) PROVE KeysInv'
    BY <1>1, <1>3, SuccessKeys, FailureKeys
  <1>4. CASE lateResult \/ terminate
    BY <1>4 DEF lateResult, terminate, KeysInv
  <1>5. CASE handleDelConn
    <2>1. h' = [h EXCEPT !.cs = Forget(@, feeds.c)] /\ UNCHANGED <<filler, rq, flights, have, phase>>
      BY <1>5 DEF handleDelConn
    <2>2. h'.r = h.r /\ h'.rqo = h.rqo
      BY <2>1 DEF AllInv, HeadInv, Types, HeadsLike
    <2> QED BY <2>1, <2>2 DEF AllInv, KeysInv, Had
  <1> QED BY <1>1, <1>2, <1>3, <1>4, <1>5, ReceivedRootKeys, ResultKeys DEF Handle

\* The Filler sends the key of a call once; requests end.
LEMMA OutsideKeys ==
  ASSUME AllInv, Fires \/ Fills \/ Breaks \/ Replies
  PROVE  KeysInv'
  <1>1. filler \in FillersOf /\ h \in HeadsLike(h) /\ UNCHANGED phase /\ phase = "run"
    BY DEF AllInv, HeadInv, Types, Fires, Selects, Timeout, Fills, get, goesOn, RunEnds, failed, Breaks, goroutineFails,
           Replies, Answer, NoAnswer, lateAnswer
  <1>2. /\ filler.state = "none" <=> h.r = 0
        /\ h.r = 0 => filler.asked = {}
        /\ Once(filler.asked, rq, h.rqo, flights, Had)
    BY <1>1 DEF AllInv, KeysInv
  <1>3. ASSUME filler'.asked = filler.asked, filler'.state = "none" <=> filler.state = "none",
               h'.r = h.r, h'.rqo = h.rqo, UNCHANGED <<rq, flights, have>>
        PROVE  KeysInv'
    BY <1>1, <1>2, <1>3 DEF KeysInv, Had
  <1>4. CASE Fires
    <2>1. h'.r = h.r /\ h'.rqo = h.rqo
      BY <1>1, <1>4 DEF Fires, Timeout, HeadsLike
    <2>2. filler'.asked = filler.asked /\ filler'.state = filler.state
      BY <1>1, <1>4 DEF Fires, Timeout, FillersOf
    <2> QED BY <1>3, <1>4, <2>1, <2>2 DEF Fires, Timeout
  <1>5. ASSUME NEW o \in Gets, Runs, get(o) PROVE KeysInv'
    <2>1. o \notin filler.asked /\ UNCHANGED <<h, flights, have>> /\ rq' = rq \cup {o}
      BY <1>5 DEF get
    <2>2. filler'.asked = filler.asked \cup {o} /\ filler'.state = filler.state
      BY <1>1, <1>5 DEF get, FillersOf
    <2>3. Once(filler.asked \cup {o}, rq \cup {o}, h.rqo, flights, Had)
      BY <1>2, <2>1, OnceAsked
    <2>4. filler.state # "none"
      BY <1>5 DEF Runs
    <2> QED BY <1>1, <1>2, <2>1, <2>2, <2>3, <2>4 DEF KeysInv, Had
  <1>6. CASE goesOn \/ RunEnds \/ Breaks
    <2>1. filler'.asked = filler.asked /\ filler.state # "none" /\ filler'.state # "none"
      BY <1>1, <1>6 DEF goesOn, RunEnds, Breaks, goroutineFails, FillersOf
    <2> QED BY <1>3, <1>6, <2>1 DEF goesOn, RunEnds, Breaks, goroutineFails
  <1>7. CASE failed
    <2>1. h'.r = h.r /\ h'.rqo = h.rqo
      BY <1>1, <1>7 DEF failed, HeadsLike
    <2> QED BY <1>3, <1>7, <2>1 DEF failed
  <1>8. ASSUME NEW fl \in flights, Answer(fl) \/ NoAnswer(fl) PROVE KeysInv'
    <2>1. fl.st = "sent" /\ UNCHANGED <<filler, rq, h>>
      BY <1>8 DEF Answer, NoAnswer
    <2>2. CASE Answer(fl)
      <3>1. have' = have \cup {KeyOf[fl.key]} /\ flights' = (flights \ {fl}) \cup {[fl EXCEPT !.st = "ok"]}
        BY <2>2 DEF Answer
      <3> DEFINE F == (flights \ {fl}) \cup {[fl EXCEPT !.st = "ok"]}
      <3>2. Once(filler.asked, rq, h.rqo, F, Had \cup {fl.key})
        BY <1>2, <2>1, OnceAnswered
      <3>3. Had \cup {fl.key} \subseteq Had' \cup {fl.key}
        BY <3>1 DEF Had
      <3>4. fl.key \in filler.asked /\ filler.asked \subseteq Gets
        BY <1>1, <1>2 DEF Once, FillersOf
      <3>5. fl.key \in Had'
        BY <3>1, <3>4 DEF Had
      <3> HIDE DEF F
      <3>6. Once(filler.asked, rq, h.rqo, F, Had')
        BY <3>2, <3>3, <3>5, OnceMore
      <3> QED BY <1>1, <1>2, <2>1, <3>1, <3>6 DEF KeysInv, F
    <2>3. CASE NoAnswer(fl)
      <3>1. PICK e \in Errors : flights' = (flights \ {fl}) \cup {[fl EXCEPT !.st = e]}
        BY <2>3 DEF NoAnswer
      <3>2. e # "ok" /\ have' = have
        BY <2>3, ErrorsAssumption DEF NoAnswer
      <3>3. Once(filler.asked, rq, h.rqo, (flights \ {fl}) \cup {[fl EXCEPT !.st = e]}, Had)
        BY <1>2, <2>1, <3>2, OnceAnswered
      <3> QED BY <1>1, <1>2, <2>1, <3>1, <3>2, <3>3 DEF KeysInv, Had
    <2> QED BY <1>8, <2>2, <2>3
  <1>9. ASSUME NEW k \in late, lateAnswer(k) PROVE KeysInv'
    <2>1. have' = have \cup {k} /\ UNCHANGED <<filler, rq, flights, h>>
      BY <1>9 DEF lateAnswer
    <2>2. Had \subseteq Had'
      BY <2>1 DEF Had
    <2>3. Once(filler.asked, rq, h.rqo, flights, Had')
      BY <1>2, <2>2, OnceMore
    <2> QED BY <1>1, <1>2, <2>1, <2>3 DEF KeysInv
  <1> QED BY <1>4, <1>5, <1>6, <1>7, <1>8, <1>9 DEF Fills, Replies

LEMMA NextKeys == AllInv /\ [Next]_vars => AllInv'
  <1> SUFFICES ASSUME AllInv, [Next]_vars PROVE AllInv'
    OBVIOUS
  <1>1. HeadInv'
    BY NextInv DEF AllInv
  <1>2. ASSUME UNCHANGED vars PROVE KeysInv'
    BY <1>2 DEF vars, AllInv, KeysInv, Had
  <1>3. ASSUME Broadcast PROVE KeysInv'
    BY <1>3, CreateKeys DEF Broadcast
  <1>4. ASSUME Feeds \/ Peers PROVE KeysInv'
    <2>1. UNCHANGED <<h, filler, rq, flights, have, phase>>
      BY <1>4 DEF Feeds, receivedRoot, feedDeleted, Peers, handleRoot, delConnFeed, addConnFeed, delFeed
    <2> QED BY <2>1 DEF AllInv, KeysInv, Had
  <1>5. KeysInv'
    BY <1>2, <1>3, <1>4, HandleKeys, OutsideKeys DEF Next
  <1> QED BY <1>1, <1>5 DEF AllInv

LEMMA InitKeys == Init => AllInv
  <1> SUFFICES ASSUME Init PROVE AllInv
    OBVIOUS
  <1>1. Once({}, {}, <<>>, {}, Had)
    BY DEF Once, Open
  <1>2. KeysInv
    BY <1>1 DEF Init, KeysInv, NoFiller
  <1> QED BY <1>2, InitInv DEF AllInv

\* A key in one place is counted once.
LEMMA OncePlaces ==
  ASSUME NEW k \in filler.asked, k \notin Had, Once(filler.asked, rq, h.rqo, flights, Had)
  PROVE  Places(k) = 1
  <1> DEFINE Q == {x \in {k} : x \in rq}
             L == {i \in DOMAIN h.rqo : h.rqo[i] = k}
             F == {fl \in flights : fl.key = k /\ fl.st # "ok"}
  <1>1. F = {fl \in Open(flights) : fl.key = k}
    BY DEF Open
  <1>2. k \in rq \/ L # {} \/ F # {}
    BY <1>1 DEF Once
  <1>3. \A i, j \in L : i = j
    BY DEF Once
  <1>4. \A fl, gl \in F : fl = gl
    BY <1>1 DEF Once
  <1>5. /\ k \in rq => L = {} /\ F = {}
        /\ L # {} => F = {}
    BY <1>1 DEF Once
  <1>6. \A x : Cardinality({x}) = 1
    BY FS_Singleton
  <1>7. Cardinality({}) = 0
    BY FS_EmptySet
  <1>8. Places(k) = Cardinality(Q) + Cardinality(L) + Cardinality(F)
    BY DEF Places
  <1>9. Q = IF k \in rq THEN {k} ELSE {}
    OBVIOUS
  <1>10. L = {} \/ \E i : L = {i}
    <2> HIDE DEF L
    <2> QED BY <1>3
  <1>11. F = {} \/ \E fl : F = {fl}
    <2> HIDE DEF F
    <2> QED BY <1>4
  <1> HIDE DEF Q, L, F
  <1>12. CASE k \in rq
    <2>1. Cardinality(Q) = 1 /\ Cardinality(L) = 0 /\ Cardinality(F) = 0
      BY <1>5, <1>6, <1>7, <1>9, <1>12
    <2> QED BY <1>8, <2>1
  <1>13. CASE k \notin rq /\ L # {}
    <2>1. Cardinality(Q) = 0 /\ Cardinality(L) = 1 /\ Cardinality(F) = 0
      BY <1>5, <1>6, <1>7, <1>9, <1>10, <1>13
    <2> QED BY <1>8, <2>1
  <1>14. CASE k \notin rq /\ L = {}
    <2>1. Cardinality(Q) = 0 /\ Cardinality(L) = 0 /\ Cardinality(F) = 1
      BY <1>2, <1>6, <1>7, <1>9, <1>11, <1>14
    <2> QED BY <1>8, <2>1
  <1> QED BY <1>12, <1>13, <1>14

\* What the Filler waits for is in one place, as often as it was sent, whichever
\* requests fail and whoever is asked again (Filler.get, handleRequest,
\* handleSuccess, handleRequestFailure).
THEOREM HeadEachKeyKept == Spec => []EachKeyKept
  <1>1. Spec => []AllInv
    BY InitKeys, NextKeys, PTL DEF Spec
  <1>2. AllInv => EachKeyKept
    <2> SUFFICES ASSUME AllInv, Filling, NEW o \in filler.asked, KeyOf[o] \notin have PROVE Places(o) = 1
      BY DEF EachKeyKept
    <2>1. Once(filler.asked, rq, h.rqo, flights, Had) /\ o \notin Had
      BY DEF AllInv, KeysInv, Filling, Had
    <2> QED BY <2>1, OncePlaces
  <1> QED BY <1>1, <1>2, PTL
=============================================================================
