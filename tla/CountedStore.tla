---------------------------- MODULE CountedStore ----------------------------
(***************************************************************************)
(* What a store of reference-counted objects promises its callers: the     *)
(* CXDS interface (data/cxds.go) and, on top of it, the calls fillers make *)
(* on the Cache (skyobject/cache.go: Want, Unwant, Finc).  Nothing here    *)
(* knows of caching, eviction or of when a counter reaches the disk.       *)
(*                                                                         *)
(* refs[k] counts all the references to k; hold[k] is the part of them     *)
(* fillers took for Root objects that are not full yet.  What a caller is  *)
(* told is the hard count, refs[k] - hold[k].                              *)
(***************************************************************************)
EXTENDS Integers, FiniteSets

CONSTANTS Keys,      \* hashes of objects
          Wanters,   \* channels passed to Want
          Incs,      \* the inc arguments callers use
          Answered,  \* operations whose answered count is part of the promise
          Failing,   \* TRUE: a call may fail, and then has done nothing
          DelUsed    \* TRUE: objects in use may be removed too

VARIABLES stored,    \* keys the store has a value for
          refs,      \* key -> references
          hold,      \* key -> references of unfinished fillings
          wants,     \* key -> (waiting channel -> its inc)
          mail,      \* channel -> what the caller has asked for and got
          reply      \* the answer of Get, Set or Inc, if the last step was one

vars == <<stored, refs, hold, wants, mail, reply>>

Sat(n) == IF n < 0 THEN 0 ELSE n

\* the incs of all waiting channels of one key
Wincs(f) == Cardinality({w \in DOMAIN f : f[w] = 1})

Remove(f, w) == [x \in DOMAIN f \ {w} |-> f[x]]

NoWants == [w \in {} |-> 0]

Idle == [st |-> "idle", key |-> CHOOSE k \in Keys : TRUE, rc |-> 0]

Told(k, rc) == [st |-> "ok", key |-> k, rc |-> rc]

\* everybody in W is told rc
Deliver(W, msg) == [w \in Wanters |-> IF w \in W THEN msg ELSE mail[w]]

Answer(op, k, rc) ==
  /\ reply'.op = op
  /\ reply'.key = k
  /\ reply'.ok
  /\ op \in Answered => reply'.rc = rc

NoReply == [op |-> "none", key |-> CHOOSE k \in Keys : TRUE, ok |-> FALSE, rc |-> 0]

NotFound(op, k) == reply' = [op |-> op, key |-> k, ok |-> FALSE, rc |-> 0]

Init ==
  /\ stored = {}
  /\ refs = [k \in Keys |-> 0]
  /\ hold = [k \in Keys |-> 0]
  /\ wants = [k \in Keys |-> NoWants]
  /\ mail = [w \in Wanters |-> Idle]
  /\ reply = NoReply

\* Get or Inc: change the counter of a stored object and answer the hard count
Touch(op, k, inc) ==
  /\ \/ /\ k \in stored
        /\ refs' = [refs EXCEPT ![k] = Sat(@ + inc)]
        /\ Answer(op, k, refs'[k] - hold[k])
     \/ /\ k \notin stored
        /\ NotFound(op, k)
        /\ UNCHANGED refs
  /\ UNCHANGED <<stored, hold, wants, mail>>

\* store k, counting the incs of everybody who waits for it, and wake them
Create(k, inc) ==
  /\ k \notin stored
  /\ stored' = stored \cup {k}
  /\ refs' = [refs EXCEPT ![k] = inc + Wincs(wants[k])]
  /\ hold' = [hold EXCEPT ![k] = @ + Wincs(wants[k])]
  /\ mail' = Deliver(DOMAIN wants[k], Told(k, refs'[k] - hold'[k]))
  /\ wants' = [wants EXCEPT ![k] = NoWants]

Set(k, inc) ==
  \/ /\ Create(k, inc)
     /\ Answer("Set", k, refs'[k] - hold'[k])
  \/ /\ k \in stored
     /\ refs' = [refs EXCEPT ![k] = Sat(@ + inc)]
     /\ Answer("Set", k, refs'[k] - hold[k])
     /\ UNCHANGED <<stored, hold, wants, mail>>

\* an object over the size limit is refused, whoever waits for it is told so
Refuse(k) ==
  /\ k \notin stored
  /\ mail' = Deliver(DOMAIN wants[k], [st |-> "err", key |-> k, rc |-> 0])
  /\ wants' = [wants EXCEPT ![k] = NoWants]
  /\ reply' = NoReply \/ NotFound("Set", k)
  /\ UNCHANGED <<stored, refs, hold>>

\* an object received from a peer is stored only if somebody waits for it
SetWanted(k) ==
  /\ Wincs(wants[k]) > 0
  /\ Create(k, 0)
  /\ reply' = NoReply

Want(k, w, inc) ==
  /\ mail[w] = Idle
  /\ \/ /\ k \in stored
        /\ refs' = [refs EXCEPT ![k] = @ + inc]
        /\ hold' = [hold EXCEPT ![k] = @ + inc]
        /\ mail' = [mail EXCEPT ![w] = Told(k, refs'[k] - hold'[k])]
        /\ UNCHANGED wants
     \/ /\ k \notin stored
        /\ wants' = [wants EXCEPT ![k] = [x \in DOMAIN @ \cup {w} |-> IF x = w THEN inc ELSE @[x]]]
        /\ mail' = [mail EXCEPT ![w] = [st |-> "wait", key |-> k, rc |-> 0]]
        /\ UNCHANGED <<refs, hold>>
  /\ reply' = NoReply /\ UNCHANGED <<stored>>

Unwant(w) ==
  /\ mail[w] # Idle
  /\ wants' = [wants EXCEPT ![mail[w].key] = Remove(@, w)]
  /\ mail' = [mail EXCEPT ![w] = Idle]
  /\ reply' = NoReply /\ UNCHANGED <<stored, refs, hold>>

\* Finc: a filling ended; its references become ordinary ones or are undone
Finc(k, n, keep) ==
  /\ n <= hold[k]
  /\ hold' = [hold EXCEPT ![k] = @ - n]
  /\ refs' = IF keep THEN refs ELSE [refs EXCEPT ![k] = Sat(@ - n)]
  /\ reply' = NoReply /\ UNCHANGED <<stored, wants, mail>>

\* objects without references may be removed
Forget ==
  /\ \E K \in SUBSET {k \in stored : hold[k] = 0 /\ (refs[k] = 0 \/ DelUsed)} :
       /\ stored' = stored \ K
       /\ refs' = [k \in Keys |-> IF k \in K THEN 0 ELSE refs[k]]
  /\ reply' = NoReply /\ UNCHANGED <<hold, wants, mail>>

Fail ==
  /\ Failing
  /\ reply'.op \in {"Get", "Inc", "Set"} /\ ~reply'.ok
  /\ UNCHANGED <<stored, refs, hold, wants, mail>>

\* closing undoes the references of unfinished fillings
Close ==
  /\ refs' = [k \in Keys |-> Sat(refs[k] - hold[k])]
  /\ hold' = [k \in Keys |-> 0]
  /\ wants' = [k \in Keys |-> NoWants]
  /\ reply' = NoReply /\ UNCHANGED <<stored, mail>>

Next ==
  \/ \E k \in Keys, inc \in Incs : Touch("Get", k, inc) \/ Touch("Inc", k, inc)
  \/ \E k \in Keys, inc \in Incs : inc > 0 /\ Set(k, inc)
  \/ \E k \in Keys : Refuse(k) \/ SetWanted(k)
  \/ \E k \in Keys, w \in Wanters, inc \in {0, 1} : Want(k, w, inc)
  \/ \E w \in Wanters : Unwant(w)
  \/ \E k \in Keys, n \in 1..Cardinality(Wanters), keep \in BOOLEAN : Finc(k, n, keep)
  \/ Forget \/ Fail
  \/ Close

Spec == Init /\ [][Next]_vars
=============================================================================
