----------------------------- MODULE SubsProofs -----------------------------
(***************************************************************************)
(* The maps of nodeFeeds agree (IdleIsFree), the list kept for Feeds is    *)
(* true (ListIsTrue), and two nodes that are done with their calls agree   *)
(* who is subscribed (Agree) and have the same last seq of a feed's active *)
(* head (NoRootMissed), for any feeds, calls of the users, callbacks and   *)
(* bounds.                                                                 *)
(*                                                                         *)
(* The last two rest on ConnInv, the invariant of a connection that is     *)
(* open, with no timeout and nothing crossed: each node has one request at *)
(* a time, every difference of the two is about to end, and every newer    *)
(* Root is on its way.  It says of each direction what a message or a      *)
(* goroutine makes up for.  The lemmas are about kinds of steps (a request *)
(* is sent, served, answered; a feed is left; a Root is sent or taken);    *)
(* the actions are composed of them.                                       *)
(***************************************************************************)
EXTENDS Subs, TLAPS, FiniteSetTheorems, SequenceTheorems

Pasts == [calls : Nat, timeouts : Nat, early : BOOLEAN, crossed : BOOLEAN, recreated : BOOLEAN]

\* Every node has its maps.
Maps ==
  /\ DOMAIN fs = Nodes /\ DOMAIN fl = Nodes /\ DOMAIN cs = Nodes /\ DOMAIN idle = Nodes
  /\ past \in Pasts

\* The parts are inductive together: none of them needs the messages or the
\* goroutines.
SubsInv == Maps /\ IdleIsFree /\ ListIsTrue

\* The initial maps agree.
LEMMA InitInv == Init => SubsInv
  <1> SUFFICES ASSUME Init PROVE SubsInv
    OBVIOUS
  <1>1. Maps
    BY DEF Init, Maps, Pasts
  <1>2. IdleIsFree
    BY DEF Init, IdleIsFree
  <1>3. ListIsTrue
    BY DEF Init, ListIsTrue, Nil
  <1> QED BY <1>1, <1>2, <1>3 DEF SubsInv

\* Sharing a feed (Share, Subscribe and the callback) keeps them.
LEMMA AddFeedInv ==
  ASSUME SubsInv, NEW n \in Nodes, NEW f, handleAddFeed(n, f), UNCHANGED <<cs, idle, past>>
  PROVE  SubsInv'
  <1> USE DEF SubsInv, Maps, handleAddFeed
  <1>1. Maps'
    OBVIOUS
  <1>2. IdleIsFree'
    BY DEF IdleIsFree
  <1>3. ListIsTrue'
    <2> SUFFICES ASSUME NEW m \in Nodes, fl'[m].kept PROVE fl'[m].list = fs'[m] \/ past'.recreated
      BY DEF ListIsTrue
    <2>1. CASE m # n \/ f \in fs[n]
      <3>1. fl'[m] = fl[m] /\ fs'[m] = fs[m]
        BY <2>1 DEF Nil, ListIsTrue
      <3> QED BY <3>1 DEF ListIsTrue
    <2>2. CASE m = n /\ f \notin fs[n]
      <3>1. fl'[m] = Nil
        BY <2>2
      <3> QED BY <3>1 DEF Nil
    <2> QED BY <2>1, <2>2
  <1> QED BY <1>1, <1>2, <1>3

\* Subscribing a connection keeps them, since it takes the connection from the
\* idle ones and creates a feed that is missing.
LEMMA AddConnFeedInv ==
  ASSUME SubsInv, NEW n \in Nodes, NEW f, handleAddConnFeed(n, f), Recreated(n, f)
  PROVE  SubsInv'
  <1> USE DEF SubsInv, Maps, handleAddConnFeed
  <1>1. Maps'
    BY DEF Recreated, Pasts
  <1>2. IdleIsFree'
    BY DEF IdleIsFree
  <1>3. ListIsTrue'
    <2> SUFFICES ASSUME NEW m \in Nodes, fl'[m].kept PROVE fl'[m].list = fs'[m] \/ past'.recreated
      BY DEF ListIsTrue
    <2>1. fl'[m].kept = fl[m].kept /\ fl'[m].list = fl[m].list
      OBVIOUS
    <2>2. fl[m].list = fs[m] \/ past.recreated
      BY <2>1 DEF ListIsTrue
    <2>3. past'.recreated = (past.recreated \/ (f \notin fs[n] /\ fl[n].kept))
      BY DEF Recreated, Pasts
    <2>4. CASE m # n \/ f \in fs[n]
      <3>1. fs'[m] = fs[m]
        BY <2>4
      <3> QED BY <2>1, <2>2, <2>3, <3>1
    <2>5. CASE m = n /\ f \notin fs[n]
      BY <2>1, <2>3, <2>5
    <2> QED BY <2>4, <2>5
  <1> QED BY <1>1, <1>2, <1>3

\* Unsubscribing makes a connection idle only with its last feed.
LEMMA DelConnFeedInv ==
  ASSUME SubsInv, NEW n \in Nodes, NEW f, handleDelConnFeed(n, f), UNCHANGED <<fs, fl>>,
         past' \in Pasts, past'.recreated = past.recreated
  PROVE  SubsInv'
  <1> USE DEF SubsInv, Maps, handleDelConnFeed
  <1>1. Maps'
    OBVIOUS
  <1>2. IdleIsFree'
    BY DEF IdleIsFree
  <1>3. ListIsTrue'
    BY DEF ListIsTrue
  <1> QED BY <1>1, <1>2, <1>3

\* A feed that is deleted takes its connections and the kept list with it.
LEMMA DelFeedInv ==
  ASSUME SubsInv, NEW n \in Nodes, NEW f, handleDelFeed(n, f), UNCHANGED <<idle, past>>
  PROVE  SubsInv'
  <1> USE DEF SubsInv, Maps, handleDelFeed
  <1>1. Maps'
    OBVIOUS
  <1>2. IdleIsFree'
    BY DEF IdleIsFree
  <1>3. ListIsTrue'
    <2> SUFFICES ASSUME NEW m \in Nodes, fl'[m].kept PROVE fl'[m].list = fs'[m] \/ past'.recreated
      BY DEF ListIsTrue
    <2>1. CASE m # n \/ f \notin fs[n]
      <3>1. fl'[m] = fl[m] /\ fs'[m] = fs[m]
        BY <2>1
      <3> QED BY <3>1 DEF ListIsTrue
    <2>2. CASE m = n /\ f \in fs[n]
      <3>1. fl'[m] = Nil
        BY <2>2
      <3> QED BY <3>1 DEF Nil
    <2> QED BY <2>1, <2>2
  <1> QED BY <1>1, <1>2, <1>3

\* Keeping the list makes it the feeds.
LEMMA ListInv ==
  ASSUME SubsInv, NEW n \in Nodes, handleList(n), UNCHANGED <<fs, cs, idle, past>>
  PROVE  SubsInv'
  <1> USE DEF SubsInv, Maps
  <1>1. CASE fl' = fl
    BY <1>1 DEF IdleIsFree, ListIsTrue
  <1>2. CASE fl' = [fl EXCEPT ![n] = [list |-> fs[n], kept |-> TRUE]]
    BY <1>2 DEF IdleIsFree, ListIsTrue
  <1> QED BY <1>1, <1>2 DEF handleList

\* Steps that leave the maps alone.
LEMMA OtherInv ==
  ASSUME SubsInv, UNCHANGED <<fs, fl, cs, idle>>, past' \in Pasts, past'.recreated = past.recreated
  PROVE  SubsInv'
  BY DEF SubsInv, Maps, IdleIsFree, ListIsTrue

\* The calls of a user keep them.
LEMMA UserInv ==
  ASSUME SubsInv, NEW n \in Nodes, UserStep(n)
  PROVE  SubsInv'
  <1>1. past \in Pasts
    BY DEF SubsInv, Maps
  <1>2. CASE Share(n)
    BY <1>2, AddFeedInv DEF Share
  <1>3. CASE SubscribeAdd(n)
    BY <1>3, AddConnFeedInv DEF SubscribeAdd
  <1>4. CASE Unsubscribe(n)
    BY <1>1, <1>4, DelConnFeedInv DEF Unsubscribe
  <1>5. CASE DontShare(n)
    BY <1>5, DelFeedInv DEF DontShare
  <1>6. CASE List(n)
    BY <1>6, ListInv DEF List
  <1>7. CASE Notify(n)
    <2>1. past' \in Pasts /\ past'.recreated = past.recreated
      BY <1>1, <1>7 DEF Notify, Pasts
    <2> QED BY <1>7, <2>1, OtherInv DEF Notify
  <1>8. CASE Unanswered(n)
    <2>1. past' \in Pasts /\ past'.recreated = past.recreated
      BY <1>1, <1>8 DEF Unanswered, Pasts
    <2> QED BY <1>8, <2>1, OtherInv DEF Unanswered
  <1>9. CASE sendRequest(n) \/ Replied(n) \/ SubscribePush(n) \/ Save(n) \/ Publish(n) \/ Close(n)
    <2>1. UNCHANGED <<fs, fl, cs, idle, past>>
      BY <1>9 DEF sendRequest, Replied, SubscribePush, Save, Publish, Close
    <2> QED BY <1>1, <2>1, OtherInv
  <1> QED BY <1>2, <1>3, <1>4, <1>5, <1>6, <1>7, <1>8, <1>9 DEF UserStep

\* So do the messages it receives.
LEMMA ReceiveInv ==
  ASSUME SubsInv, NEW n \in Nodes, Receive(n)
  PROVE  SubsInv'
  <1>1. past \in Pasts
    BY DEF SubsInv, Maps
  <1>2. CASE subAdd(n)
    BY <1>2, AddConnFeedInv DEF subAdd
  <1>3. CASE subCallback(n)
    <2>1. CASE handleAddFeed(n, rcv[n].feed)
      BY <1>3, <2>1, AddFeedInv DEF subCallback
    <2>2. CASE UNCHANGED <<fs, fl>>
      BY <1>1, <1>3, <2>2, OtherInv DEF subCallback
    <2> QED BY <1>3, <2>1, <2>2 DEF subCallback
  <1>4. CASE handleUnsub(n)
    <2>1. past' \in Pasts /\ past'.recreated = past.recreated
      BY <1>1, <1>4 DEF handleUnsub, Pasts
    <2> QED BY <1>4, <2>1, DelConnFeedInv DEF handleUnsub
  <1>5. CASE handleRqList(n)
    <2>1. CASE handleList(n)
      BY <1>5, <2>1, ListInv DEF handleRqList
    <2>2. CASE UNCHANGED fl
      BY <1>1, <1>5, <2>2, OtherInv DEF handleRqList
    <2> QED BY <1>5, <2>1, <2>2 DEF handleRqList
  <1>6. CASE Response(n) \/ handleSub(n) \/ subAgain(n) \/ subHas(n) \/ subPush(n) \/ handleRoot(n) \/ handleRqPreview(n)
    <2>1. UNCHANGED <<fs, fl, cs, idle, past>>
      BY <1>6 DEF Response, handleSub, subAgain, subHas, subPush, handleRoot, handleRqPreview
    <2> QED BY <1>1, <2>1, OtherInv
  <1> QED BY <1>2, <1>3, <1>4, <1>5, <1>6 DEF Receive

\* Every step keeps them.
LEMMA NextInv == SubsInv /\ [Next]_vars => SubsInv'
  <1> SUFFICES ASSUME SubsInv, [Next]_vars PROVE SubsInv'
    OBVIOUS
  <1>1. past \in Pasts
    BY DEF SubsInv, Maps
  <1>2. CASE UNCHANGED vars
    BY <1>1, <1>2, OtherInv DEF vars
  <1>3. ASSUME NEW n \in Nodes, Call(n) PROVE SubsInv'
    <2>1. past' \in Pasts /\ past'.recreated = past.recreated
      BY <1>1, <1>3 DEF Call, Pasts
    <2> QED BY <1>3, <2>1, OtherInv DEF Call
  <1>4. ASSUME NEW n \in Nodes, receivedRoot(n) PROVE SubsInv'
    <2>1. past' \in Pasts /\ past'.recreated = past.recreated
      BY <1>1, <1>4 DEF receivedRoot, Pasts
    <2> QED BY <1>4, <2>1, OtherInv DEF receivedRoot
  <1> QED BY <1>2, <1>3, <1>4, UserInv, ReceiveInv DEF Next

\* No connection is idle and subscribed at once, and no feed without an entry
\* has one (feeds.go: handleAddConnFeed, handleDelConnFeed, handleDelFeed).
THEOREM SubsIdleIsFree == Spec => []IdleIsFree
  <1>1. Spec => []SubsInv
    BY InitInv, NextInv, PTL DEF Spec
  <1>2. SubsInv => IdleIsFree
    BY DEF SubsInv
  <1> QED BY <1>1, <1>2, PTL

\* The list handleList keeps is the feeds of the node, unless handleAddConnFeed
\* created one again, which forgets to drop it (feeds.go:304-325).
THEOREM SubsListIsTrue == Spec => []ListIsTrue
  <1>1. Spec => []SubsInv
    BY InitInv, NextInv, PTL DEF Spec
  <1>2. SubsInv => ListIsTrue
    BY DEF SubsInv
  <1> QED BY <1>1, <1>2, PTL
-----------------------------------------------------------------------------
(* What is on the way.                                                     *)

Message ==
  [type : {"Unsub"}, feed : Feeds] \cup [type : {"Root"}, feed : Feeds, seq : Nat]
    \cup [type : {"Sub", "RqList", "RqPreview"}, feed : Feeds, id : Nat]
    \cup [type : {"reply"}, what : {"ok", "err", "list"}, id : Nat]
    \cup [type : {"reply"}, what : {"root"}, id : Nat, feed : Feeds, seq : Nat]

Unsubs == {x \in Message : x.type = "Unsub"}
Roots == {x \in Message : x.type = "Root"}
Requests == {x \in Message : x.type \in {"Sub", "RqList", "RqPreview"}}
Replies == {x \in Message : x.type = "reply"}
Oks == {x \in Message : x.type = "reply" /\ x.what = "ok"}

\* requests and replies that are not those of the call u
StrangeRequests(u) == {x \in Requests : x.id # u.id \/ (x.type = "Sub" /\ x.feed # u.feed)}
StrangeReplies(u) == {x \in Replies : x.id # u.id}

Entry == [feed : Feeds, seq : Nat]

\* a Root of f as new as the one of number q, or newer
FreshRoots(f, q) == {x \in Roots : x.feed = f /\ x.seq >= q}
FreshEntries(f, q) == {x \in Entry : x.feed = f /\ x.seq >= q}

\* a Root newer than the ones in d
AheadRoots(d) == {x \in Roots : x.seq > d[x.feed]}
AheadReplies(d) == {x \in Replies : x.what = "root" /\ x.seq > d[x.feed]}
AheadEntries(d) == {x \in Entry : x.seq > d[x.feed]}

\* Some message of S is in s; no message of T is behind one of S.
Has(s, S) == \E i \in 1..Len(s) : s[i] \in S
NoneBehind(s, S, T) == \A i, j \in 1..Len(s) : i < j /\ s[i] \in S => s[j] \notin T

-----------------------------------------------------------------------------
(* The invariant of a connection nothing has crossed on.                   *)

Pcs == Methods \cup {"request", "wait", "add", "push", "notify", "broadcast"}
Users == {Free} \cup [pc : Pcs, feed : Feeds, id : Nat, reply : {"none", "ok", "err", "list", "root"}]
Servers == {Free} \cup [pc : {"again", "callback", "has", "add", "push"}, feed : Feeds, id : Nat]

TypeOK ==
  /\ cs \in [Nodes -> SUBSET Feeds] /\ db \in [Nodes -> [Feeds -> Nat]]
  /\ queue \in [Nodes -> Seq(Entry)] /\ net \in [Nodes -> Seq(Message)]
  /\ user \in [Nodes -> Users] /\ rcv \in [Nodes -> Servers]
  /\ alive \in BOOLEAN /\ past \in Pasts

\* An answer is there only when it has come.
Answers ==
  \A n \in Nodes :
    /\ user[n].pc \in {"Subscribe", "request", "RemoteFeeds", "Preview"} => user[n].reply = "none"
    /\ user[n].pc = "add" => user[n].reply = "ok"

Live == alive /\ Uncrossed

Asks(n) == user[n].pc = "wait" /\ user[n].reply = "none"

\* the request of n has been taken by m
Taken(n, m) ==
  \/ user[n].pc = "add"
  \/ user[n].pc = "wait" /\ (user[n].reply # "none" \/ rcv[m].pc # "free" \/ Has(net[n], Replies))

\* A node asks for one thing at a time: its request is on the way, or served,
\* or the reply is on the way; and the messages it sent before are taken first.
OneRequest(n, m) ==
  /\ Has(net[m], Requests) \/ rcv[m].pc # "free" \/ Has(net[n], Replies) => Asks(n)
  /\ Has(net[m], Requests) => rcv[m].pc = "free" /\ ~Has(net[n], Replies)
  /\ rcv[m].pc # "free" => ~Has(net[n], Replies) /\ rcv[m].id = user[n].id /\ rcv[m].feed = user[n].feed
  /\ Asks(n) => ~Has(net[m], StrangeRequests(user[n])) /\ ~Has(net[n], StrangeReplies(user[n]))
  /\ NoneBehind(net[m], Requests, Requests) /\ NoneBehind(net[m], Requests, Unsubs)
  /\ NoneBehind(net[n], Replies, Replies)
  /\ Taken(n, m) => ~Has(net[m], Unsubs)

\* m has granted the subscription of n to f, and n has not added it yet
Granted(n, m, f) ==
  \/ user[n].pc = "add" /\ user[n].feed = f
  \/ user[n].pc = "wait" /\ user[n].feed = f /\ (user[n].reply = "ok" \/ Has(net[n], Oks) \/ rcv[m].pc \in {"again", "push"})

\* n has left f, and m has not been told yet
Telling(n, m, f) == (user[n].pc = "notify" /\ user[n].feed = f) \/ Has(net[m], {Unsub(f)})

\* A feed only one of them is subscribed to is being granted or being left.
Explained(n, m) == \A f \in cs[n] : f \in cs[m] \/ Granted(m, n, f) \/ Telling(m, n, f)

\* A granted feed is there, unless it was left since.
Kept(n, m) == \A f \in Feeds : Granted(n, m, f) => f \in cs[m] \/ Telling(m, n, f)

\* An Unsub for a feed the sender has again is taken before the Ok is.
Doomed(n, m) ==
  \A f \in cs[n] :
    /\ NoneBehind(net[m], Replies, {Unsub(f)})
    /\ Has(net[m], {Unsub(f)}) =>
         /\ Asks(m) /\ user[m].feed = f
         /\ rcv[n].pc = "push" \/ Has(net[m], Oks)

Agreeing(n, m) == Explained(n, m) /\ Kept(n, m) /\ Doomed(n, m)

\* No Root on the way is newer than that of its sender.
Known(n, m) ==
  /\ ~Has(net[m], AheadRoots(db[n])) /\ ~Has(net[m], AheadReplies(db[n]))
  /\ ~Has(queue[m], AheadEntries(db[n]))

\* m has what n has of f, or something brings it
Coming(n, m, f) ==
  \/ db[m][f] >= db[n][f]
  \/ Has(net[m], FreshRoots(f, db[n][f])) \/ Has(queue[m], FreshEntries(f, db[n][f]))
  \/ user[n].pc \in {"broadcast", "push"} /\ user[n].feed = f
  \/ rcv[n].pc = "push" /\ rcv[n].feed = f
  \/ Granted(n, m, f)

Supplied(n, m) == ~past.early => \A f \in cs[n] : (f \in cs[m] \/ Granted(m, n, f)) => Coming(n, m, f)

Connected(n, m) == OneRequest(n, m) /\ Agreeing(n, m) /\ Known(n, m) /\ Supplied(n, m)

ConnInv == TypeOK /\ Answers /\ (Live => \A n \in Nodes : Connected(n, Peer(n)))

-----------------------------------------------------------------------------
(* What sending and taking a message does to the messages on the way.      *)

\* There are a node and its peer.
LEMMA Peers ==
  ASSUME NEW n \in Nodes
  PROVE  Peer(n) \in Nodes /\ Peer(n) # n /\ Peer(Peer(n)) = n /\ Nodes = {n, Peer(n)}
  <1>1. IsFiniteSet(Nodes \ {n}) /\ Cardinality(Nodes \ {n}) = 1
    BY NodesAssumption, FS_RemoveElement
  <1>2. PICK m : Nodes \ {n} = {m}
    BY <1>1, FS_Singleton
  <1>3. m \in Nodes /\ m # n /\ Nodes = {n, m}
    BY <1>2
  <1>4. Peer(n) = m
    BY <1>3 DEF Peer
  <1>5. Peer(m) = n
    BY <1>3 DEF Peer
  <1> QED BY <1>3, <1>4, <1>5

\* A message at the end is there, and behind all others.
LEMMA HasAppend ==
  ASSUME NEW A, NEW s \in Seq(A), NEW x \in A
  PROVE  /\ s \o <<x>> \in Seq(A)
         /\ \A S : Has(s \o <<x>>, S) <=> (Has(s, S) \/ x \in S)
         /\ \A S, T : NoneBehind(s \o <<x>>, S, T) <=> (NoneBehind(s, S, T) /\ (Has(s, S) => x \notin T))
  <1> DEFINE t == s \o <<x>>
  <1>1. /\ t \in Seq(A) /\ Len(s) \in Nat /\ Len(t) = Len(s) + 1
        /\ \A i \in 1..Len(s) : t[i] = s[i]
        /\ t[Len(s) + 1] = x
    OBVIOUS
  <1> HIDE DEF t
  <1>2. ASSUME NEW S PROVE Has(t, S) <=> (Has(s, S) \/ x \in S)
    BY <1>1 DEF Has
  <1>3. ASSUME NEW S, NEW T PROVE NoneBehind(t, S, T) <=> (NoneBehind(s, S, T) /\ (Has(s, S) => x \notin T))
    <2>1. ASSUME NoneBehind(t, S, T) PROVE NoneBehind(s, S, T)
      BY <1>1, <2>1 DEF NoneBehind
    <2>2. ASSUME NoneBehind(t, S, T), Has(s, S) PROVE x \notin T
      BY <1>1, <2>2 DEF NoneBehind, Has
    <2>3. ASSUME NoneBehind(s, S, T), Has(s, S) => x \notin T, NEW i \in 1..Len(t), NEW j \in 1..Len(t), i < j, t[i] \in S
          PROVE  t[j] \notin T
      <3>1. i \in 1..Len(s) /\ s[i] \in S
        BY <1>1, <2>3
      <3>2. CASE j = Len(s) + 1
        BY <1>1, <2>3, <3>1, <3>2 DEF Has
      <3>3. CASE j \in 1..Len(s)
        BY <1>1, <2>3, <3>1, <3>3 DEF NoneBehind
      <3> QED BY <1>1, <3>2, <3>3
    <2> QED BY <2>1, <2>2, <2>3 DEF NoneBehind
  <1> QED BY <1>1, <1>2, <1>3 DEF t

\* The head is before all others.
LEMMA HasTail ==
  ASSUME NEW A, NEW s \in Seq(A), s # <<>>
  PROVE  /\ Head(s) \in A /\ Tail(s) \in Seq(A)
         /\ \A S : Has(s, S) <=> (Has(Tail(s), S) \/ Head(s) \in S)
         /\ \A S, T : NoneBehind(s, S, T) <=> (NoneBehind(Tail(s), S, T) /\ (Head(s) \in S => ~Has(Tail(s), T)))
  <1> DEFINE t == Tail(s)
  <1>1. /\ Head(s) \in A /\ t \in Seq(A) /\ Len(t) \in Nat /\ Len(s) = Len(t) + 1
        /\ \A i \in 1..Len(t) : t[i] = s[i + 1]
        /\ s[1] = Head(s)
    BY HeadTailProperties, LenProperties
  <1> HIDE DEF t
  <1>2. ASSUME NEW S PROVE Has(s, S) <=> (Has(t, S) \/ Head(s) \in S)
    <2>1. ASSUME NEW i \in 1..Len(s), s[i] \in S, i # 1 PROVE Has(t, S)
      <3>1. i - 1 \in 1..Len(t) /\ t[i - 1] = s[i]
        BY <1>1, <2>1
      <3> QED BY <2>1, <3>1 DEF Has
    <2>2. ASSUME NEW i \in 1..Len(t), t[i] \in S PROVE Has(s, S)
      <3>1. i + 1 \in 1..Len(s) /\ t[i] = s[i + 1]
        BY <1>1
      <3> QED BY <2>2, <3>1 DEF Has
    <2>3. Head(s) \in S => Has(s, S)
      BY <1>1 DEF Has
    <2> QED BY <1>1, <2>1, <2>2, <2>3 DEF Has
  <1>3. ASSUME NEW S, NEW T PROVE NoneBehind(s, S, T) <=> (NoneBehind(t, S, T) /\ (Head(s) \in S => ~Has(t, T)))
    <2>1. ASSUME NoneBehind(s, S, T), NEW i \in 1..Len(t), NEW j \in 1..Len(t), i < j, t[i] \in S PROVE t[j] \notin T
      <3>1. i + 1 \in 1..Len(s) /\ j + 1 \in 1..Len(s) /\ i + 1 < j + 1 /\ t[i] = s[i + 1] /\ t[j] = s[j + 1]
        BY <1>1, <2>1
      <3> QED BY <2>1, <3>1 DEF NoneBehind
    <2>2. ASSUME NoneBehind(s, S, T), Head(s) \in S, NEW j \in 1..Len(t) PROVE t[j] \notin T
      <3>1. 1 \in 1..Len(s) /\ j + 1 \in 1..Len(s) /\ 1 < j + 1 /\ t[j] = s[j + 1]
        BY <1>1
      <3> QED BY <1>1, <2>2, <3>1 DEF NoneBehind
    <2>3. ASSUME NoneBehind(t, S, T), Head(s) \in S => ~Has(t, T), NEW i \in 1..Len(s), NEW j \in 1..Len(s), i < j, s[i] \in S
          PROVE  s[j] \notin T
      <3>1. j - 1 \in 1..Len(t) /\ t[j - 1] = s[j]
        BY <1>1, <2>3
      <3>2. CASE i = 1
        BY <1>1, <2>3, <3>1, <3>2 DEF Has
      <3>3. CASE i # 1
        <4>1. i - 1 \in 1..Len(t) /\ t[i - 1] = s[i] /\ i - 1 < j - 1
          BY <1>1, <2>3, <3>3
        <4> QED BY <2>3, <3>1, <4>1 DEF NoneBehind
      <3> QED BY <3>2, <3>3
    <2> QED BY <2>1, <2>2, <2>3 DEF NoneBehind, Has
  <1> QED BY <1>1, <1>2, <1>3 DEF t

\* Nothing is in the empty sequence, and fewer messages are less.
LEMMA HasEmpty == \A S, T : ~Has(<<>>, S) /\ NoneBehind(<<>>, S, T)
  BY DEF Has, NoneBehind

LEMMA HasMore ==
  ASSUME NEW s, NEW S, NEW T, S \subseteq T
  PROVE  Has(s, S) => Has(s, T)
  BY DEF Has

-----------------------------------------------------------------------------
(* Types.                                                                  *)

\* What is sent is behind what the peer has to take yet.
LEMMA Sent ==
  ASSUME TypeOK, NEW a \in Nodes, NEW x \in Message, Send(a, <<x>>)
  PROVE  /\ net' \in [Nodes -> Seq(Message)] /\ net'[a] = net[a]
         /\ alive => /\ \A S : Has(net'[Peer(a)], S) <=> (Has(net[Peer(a)], S) \/ x \in S)
                     /\ \A S, T : NoneBehind(net'[Peer(a)], S, T)
                                    <=> (NoneBehind(net[Peer(a)], S, T) /\ (Has(net[Peer(a)], S) => x \notin T))
  <1> DEFINE b == Peer(a)
             s == net[b]
             t == s \o <<x>>
  <1>1. b \in Nodes /\ b # a /\ Nodes = {a, b}
    BY Peers
  <1>2. s \in Seq(Message)
    BY <1>1 DEF TypeOK
  <1>3. /\ t \in Seq(Message)
        /\ \A S : Has(t, S) <=> (Has(s, S) \/ x \in S)
        /\ \A S, T : NoneBehind(t, S, T) <=> (NoneBehind(s, S, T) /\ (Has(s, S) => x \notin T))
    BY <1>2, HasAppend
  <1>4. net' = IF alive THEN [net EXCEPT ![b] = t] ELSE net
    BY DEF Send
  <1> HIDE DEF t, b
  <1> QED BY <1>1, <1>3, <1>4 DEF TypeOK, b

LEMMA SentNone ==
  ASSUME TypeOK, NEW a \in Nodes, Send(a, <<>>)
  PROVE  net' = net
  <1>1. Peer(a) \in Nodes /\ net[Peer(a)] \in Seq(Message)
    BY Peers DEF TypeOK
  <1>2. net[Peer(a)] \o <<>> = net[Peer(a)]
    BY <1>1
  <1> QED BY <1>1, <1>2 DEF Send, TypeOK

\* The head of the messages is taken.
LEMMA Taking ==
  ASSUME TypeOK, NEW a \in Nodes, net[a] # <<>>, Next1(a)
  PROVE  /\ Head(net[a]) \in Message
         /\ net' \in [Nodes -> Seq(Message)] /\ net'[Peer(a)] = net[Peer(a)]
         /\ \A S : Has(net[a], S) <=> (Has(net'[a], S) \/ Head(net[a]) \in S)
         /\ \A S, T : NoneBehind(net[a], S, T)
                        <=> (NoneBehind(net'[a], S, T) /\ (Head(net[a]) \in S => ~Has(net'[a], T)))
  <1> DEFINE s == net[a]
             t == Tail(s)
  <1>1. Peer(a) \in Nodes /\ Peer(a) # a /\ Nodes = {a, Peer(a)}
    BY Peers
  <1>2. s \in Seq(Message)
    BY DEF TypeOK
  <1>3. /\ Head(s) \in Message /\ t \in Seq(Message)
        /\ \A S : Has(s, S) <=> (Has(t, S) \/ Head(s) \in S)
        /\ \A S, T : NoneBehind(s, S, T) <=> (NoneBehind(t, S, T) /\ (Head(s) \in S => ~Has(t, T)))
    BY <1>2, HasTail
  <1>4. net' = [net EXCEPT ![a] = t]
    BY DEF Next1
  <1> HIDE DEF t
  <1> QED BY <1>1, <1>3, <1>4 DEF TypeOK

\* The head is taken and answered.
LEMMA TakingAnswering ==
  ASSUME TypeOK, NEW a \in Nodes, net[a] # <<>>, NEW x \in Message,
         net' = [net EXCEPT ![a] = Tail(@), ![Peer(a)] = Append(@, x)]
  PROVE  /\ Head(net[a]) \in Message
         /\ net' \in [Nodes -> Seq(Message)]
         /\ \A S : Has(net[a], S) <=> (Has(net'[a], S) \/ Head(net[a]) \in S)
         /\ \A S, T : NoneBehind(net[a], S, T)
                        <=> (NoneBehind(net'[a], S, T) /\ (Head(net[a]) \in S => ~Has(net'[a], T)))
         /\ \A S : Has(net'[Peer(a)], S) <=> (Has(net[Peer(a)], S) \/ x \in S)
         /\ \A S, T : NoneBehind(net'[Peer(a)], S, T)
                        <=> (NoneBehind(net[Peer(a)], S, T) /\ (Has(net[Peer(a)], S) => x \notin T))
  <1> DEFINE b == Peer(a)
             s == net[a]
             t == Tail(s)
             u == net[b]
             v == u \o <<x>>
  <1>1. b \in Nodes /\ b # a /\ Nodes = {a, b}
    BY Peers
  <1>2. s \in Seq(Message) /\ u \in Seq(Message)
    BY <1>1 DEF TypeOK
  <1>3. /\ Head(s) \in Message /\ t \in Seq(Message)
        /\ \A S : Has(s, S) <=> (Has(t, S) \/ Head(s) \in S)
        /\ \A S, T : NoneBehind(s, S, T) <=> (NoneBehind(t, S, T) /\ (Head(s) \in S => ~Has(t, T)))
    BY <1>2, HasTail
  <1>4. /\ v \in Seq(Message)
        /\ \A S : Has(v, S) <=> (Has(u, S) \/ x \in S)
        /\ \A S, T : NoneBehind(v, S, T) <=> (NoneBehind(u, S, T) /\ (Has(u, S) => x \notin T))
    BY <1>2, HasAppend
  <1>5. Append(u, x) = v
    BY <1>2, AppendIsConcat
  <1>6. net' = [net EXCEPT ![a] = t, ![b] = v]
    BY <1>1, <1>5 DEF TypeOK
  <1>7. net' \in [Nodes -> Seq(Message)] /\ net'[a] = t /\ net'[b] = v
    <2>1. net \in [Nodes -> Seq(Message)]
      BY DEF TypeOK
    <2> HIDE DEF t, v, b, u
    <2> QED BY <1>1, <1>3, <1>4, <1>6, <2>1
  <1> HIDE DEF t, v, b, u
  <1> QED BY <1>3, <1>4, <1>7 DEF b, s, u

\* The kinds of messages, by their type.
LEMMA Kinds ==
  /\ \A f \in Feeds : Unsub(f) \in Unsubs
  /\ \A f \in Feeds, q \in Nat : Root(f, q) \in Roots
  /\ \A id \in Nat, w \in {"ok", "err", "list"} : Reply(w, id) \in Replies
  /\ \A id \in Nat : Reply("ok", id) \in Oks
  /\ \A f \in Feeds, id \in Nat, t \in {"Sub", "RqList", "RqPreview"} : [type |-> t, feed |-> f, id |-> id] \in Requests
  /\ \A f \in Feeds, q, id \in Nat : RootReply(id, f, q) \in Replies
  <1> USE DEF Message, Unsubs, Roots, Replies, Oks, Requests, Unsub, Root, Reply, RootReply
  <1>2. \A f \in Feeds : Unsub(f) \in Unsubs
    OBVIOUS
  <1>3. \A f \in Feeds, q \in Nat : Root(f, q) \in Roots
    OBVIOUS
  <1>4. \A id \in Nat, w \in {"ok", "err", "list"} : Reply(w, id) \in Replies
    OBVIOUS
  <1>5. \A id \in Nat : Reply("ok", id) \in Oks
    OBVIOUS
  <1>6. \A f \in Feeds, id \in Nat, t \in {"Sub", "RqList", "RqPreview"} : [type |-> t, feed |-> f, id |-> id] \in Requests
    OBVIOUS
  <1>7. \A f \in Feeds, q, id \in Nat : RootReply(id, f, q) \in Replies
    OBVIOUS
  <1> QED BY <1>2, <1>3, <1>4, <1>5, <1>6, <1>7

-----------------------------------------------------------------------------
(* The goroutines.                                                         *)

\* A busy user is in a call.
LEMMA InCall ==
  ASSUME TypeOK, NEW n \in Nodes
  PROVE  /\ user[n] \in Users
         /\ user[n].pc # "free" => /\ user[n].pc \in Pcs /\ user[n].feed \in Feeds /\ user[n].id \in Nat
                                   /\ user[n].reply \in {"none", "ok", "err", "list", "root"}
         /\ rcv[n].pc # "free" => rcv[n].pc \in {"again", "callback", "has", "add", "push"} /\ rcv[n].feed \in Feeds /\ rcv[n].id \in Nat
  BY DEF TypeOK, Users, Servers, Free

\* It goes on with the call, or ends it.
LEMMA GoesOn ==
  ASSUME TypeOK, NEW n \in Nodes, user[n].pc # "free", NEW pc \in Pcs, To(n, pc)
  PROVE  /\ user' \in [Nodes -> Users]
         /\ user'[n].pc = pc /\ user'[n].feed = user[n].feed /\ user'[n].id = user[n].id /\ user'[n].reply = user[n].reply
         /\ \A m \in Nodes \ {n} : user'[m] = user[m]
  <1>1. user[n] \in [pc : Pcs, feed : Feeds, id : Nat, reply : {"none", "ok", "err", "list", "root"}]
    BY DEF TypeOK, Users, Free
  <1>2. user \in [Nodes -> Users]
    BY DEF TypeOK
  <1>3. user' = [user EXCEPT ![n] = [user[n] EXCEPT !.pc = pc]]
    BY <1>2 DEF To
  <1>4. [user[n] EXCEPT !.pc = pc] \in [pc : Pcs, feed : Feeds, id : Nat, reply : {"none", "ok", "err", "list", "root"}]
    BY <1>1
  <1>5. user'[n] = [user[n] EXCEPT !.pc = pc]
    BY <1>2, <1>3
  <1>6. user' \in [Nodes -> Users]
    BY <1>2, <1>3, <1>4 DEF Users
  <1> QED BY <1>1, <1>2, <1>3, <1>5, <1>6

LEMMA Ends ==
  ASSUME TypeOK, NEW n \in Nodes, Done(n)
  PROVE  user' \in [Nodes -> Users] /\ user'[n] = Free /\ user'[n].pc = "free" /\ \A m \in Nodes \ {n} : user'[m] = user[m]
  BY DEF TypeOK, Done, Users, Free

\* The same of the goroutine that receives.
LEMMA ServesOn ==
  ASSUME TypeOK, NEW n \in Nodes, rcv[n].pc # "free", NEW pc \in {"again", "callback", "has", "add", "push"}, Serve(n, pc)
  PROVE  /\ rcv' \in [Nodes -> Servers]
         /\ rcv'[n].pc = pc /\ rcv'[n].feed = rcv[n].feed /\ rcv'[n].id = rcv[n].id
         /\ \A m \in Nodes \ {n} : rcv'[m] = rcv[m]
  <1>1. rcv[n] \in [pc : {"again", "callback", "has", "add", "push"}, feed : Feeds, id : Nat]
    BY DEF TypeOK, Servers, Free
  <1>2. rcv \in [Nodes -> Servers]
    BY DEF TypeOK
  <1>3. rcv' = [rcv EXCEPT ![n] = [rcv[n] EXCEPT !.pc = pc]]
    BY <1>2 DEF Serve
  <1>4. [rcv[n] EXCEPT !.pc = pc] \in [pc : {"again", "callback", "has", "add", "push"}, feed : Feeds, id : Nat]
    BY <1>1
  <1>5. rcv'[n] = [rcv[n] EXCEPT !.pc = pc]
    BY <1>2, <1>3
  <1>6. rcv' \in [Nodes -> Servers]
    BY <1>2, <1>3, <1>4 DEF Servers
  <1> QED BY <1>1, <1>2, <1>3, <1>5, <1>6

LEMMA ServesNot ==
  ASSUME TypeOK, NEW n \in Nodes, Served(n)
  PROVE  rcv' \in [Nodes -> Servers] /\ rcv'[n] = Free /\ rcv'[n].pc = "free" /\ \A m \in Nodes \ {n} : rcv'[m] = rcv[m]
  BY DEF TypeOK, Served, Servers, Free

\* A Root that is newer goes to the queue.
LEMMA Queued ==
  ASSUME TypeOK, NEW n \in Nodes, NEW f \in Feeds, NEW q \in Nat, Enqueue(n, f, q)
  PROVE  /\ queue' \in [Nodes -> Seq(Entry)] /\ \A m \in Nodes \ {n} : queue'[m] = queue[m]
         /\ \A S : Has(queue'[n], S) <=> (Has(queue[n], S) \/ (q > db[n][f] /\ [feed |-> f, seq |-> q] \in S))
  <1> DEFINE x == [feed |-> f, seq |-> q]
             t == queue[n] \o <<x>>
  <1>1. queue \in [Nodes -> Seq(Entry)] /\ queue[n] \in Seq(Entry) /\ x \in Entry
    BY DEF TypeOK, Entry
  <1>2. t \in Seq(Entry) /\ \A S : Has(t, S) <=> (Has(queue[n], S) \/ x \in S)
    BY <1>1, HasAppend
  <1>3. Append(queue[n], x) = t
    BY <1>1, AppendIsConcat
  <1>4. queue' = IF q > db[n][f] THEN [queue EXCEPT ![n] = t] ELSE queue
    BY <1>1, <1>3 DEF Enqueue
  <1> HIDE DEF t, x
  <1> QED BY <1>1, <1>2, <1>4 DEF x

\* Types hold at the beginning.
LEMMA InitTypes == Init => TypeOK /\ Answers
  <1> SUFFICES ASSUME Init PROVE TypeOK /\ Answers
    OBVIOUS
  <1>1. Shared \subseteq Feeds
    BY BoundsAssumption
  <1>2. TypeOK
    BY <1>1 DEF Init, TypeOK, Users, Servers, Pasts
  <1>3. Answers
    BY DEF Init, Answers, Free
  <1> QED BY <1>2, <1>3

\* The calls of the user keep the types.
LEMMA UserTypes ==
  ASSUME TypeOK, Answers, NEW n \in Nodes, UserStep(n)
  PROVE  TypeOK' /\ Answers'
  <1> USE DEF Pcs, Methods
  <1>1. user[n].pc # "free" => user[n].feed \in Feeds /\ user[n].id \in Nat
    BY InCall
  <1>2. cs \in [Nodes -> SUBSET Feeds] /\ db \in [Nodes -> [Feeds -> Nat]] /\ past \in Pasts /\ Peer(n) \in Nodes
    BY Peers DEF TypeOK
  <1>3. ASSUME Share(n) PROVE TypeOK' /\ Answers'
    <2>1. user' \in [Nodes -> Users] /\ Answers'
      <3>1. CASE To(n, "request") /\ At(n, "Subscribe")
        BY <3>1, GoesOn DEF Answers, At
      <3>2. CASE Done(n)
        BY <3>2, Ends DEF Answers
      <3> QED BY <1>3, <3>1, <3>2 DEF Share
    <2> QED BY <1>3, <2>1 DEF Share, TypeOK
  <1>4. ASSUME sendRequest(n) PROVE TypeOK' /\ Answers'
    <2>1. PICK t \in {"Sub", "RqList", "RqPreview"} :
            /\ user[n].pc \in {"request", "RemoteFeeds", "Preview"}
            /\ Send(n, <<[type |-> t, feed |-> user[n].feed, id |-> user[n].id]>>)
      BY <1>4 DEF sendRequest, At
    <2>2. [type |-> t, feed |-> user[n].feed, id |-> user[n].id] \in Message
      BY <1>1, <2>1, Kinds DEF Requests
    <2>3. net' \in [Nodes -> Seq(Message)]
      BY <2>1, <2>2, Sent
    <2>4. user' \in [Nodes -> Users] /\ Answers'
      BY <1>4, <2>1, GoesOn DEF sendRequest, Answers
    <2> QED BY <1>4, <2>3, <2>4 DEF sendRequest, TypeOK
  <1>5. ASSUME Replied(n) PROVE TypeOK' /\ Answers'
    <2>1. user' \in [Nodes -> Users] /\ Answers'
      <3>1. CASE user[n].reply = "ok" /\ To(n, "add")
        BY <1>5, <3>1, GoesOn DEF Replied, At, Answers
      <3>2. CASE Done(n)
        BY <3>2, Ends DEF Answers
      <3>3. CASE user' = [user EXCEPT ![n] = [user[n] EXCEPT !.pc = "Subscribe", !.id = @ + MaxCalls, !.reply = "none"]]
        <4> DEFINE u == [user[n] EXCEPT !.pc = "Subscribe", !.id = @ + MaxCalls, !.reply = "none"]
        <4>1. user[n] \in [pc : Pcs, feed : Feeds, id : Nat, reply : {"none", "ok", "err", "list", "root"}] /\ user \in [Nodes -> Users]
          <5>1. user[n].pc = "wait"
            BY <1>5 DEF Replied, At
          <5> HIDE DEF Pcs, Methods
          <5> QED BY <5>1 DEF TypeOK, Users, Free
        <4>2. u \in [pc : Pcs, feed : Feeds, id : Nat, reply : {"none", "ok", "err", "list", "root"}] /\ u.pc = "Subscribe" /\ u.reply = "none"
          <5>1. user[n].id + MaxCalls \in Nat /\ "Subscribe" \in Pcs
            BY <4>1, BoundsAssumption
          <5> HIDE DEF Pcs, Methods
          <5> QED BY <4>1, <5>1
        <4>3. user' = [user EXCEPT ![n] = u]
          BY <3>3, <4>1
        <4> HIDE DEF u
        <4> QED BY <4>1, <4>2, <4>3 DEF Answers, Users
      <3> QED BY <1>5, <3>1, <3>2, <3>3 DEF Replied
    <2> QED BY <1>5, <2>1 DEF Replied, TypeOK
  <1>6. ASSUME Unanswered(n) PROVE TypeOK' /\ Answers'
    <2>1. past' \in Pasts
      BY <1>2, <1>6 DEF Unanswered, Pasts
    <2>2. Answers' /\ user' \in [Nodes -> Users]
      BY <1>6, Ends DEF Unanswered, Answers
    <2> QED BY <1>6, <2>1, <2>2 DEF Unanswered, TypeOK
  <1>7. ASSUME SubscribeAdd(n) PROVE TypeOK' /\ Answers'
    <2>1. past' \in Pasts
      BY <1>2, <1>7 DEF SubscribeAdd, Recreated, Pasts
    <2>2. Answers' /\ user' \in [Nodes -> Users]
      BY <1>7, GoesOn DEF SubscribeAdd, At, Answers
    <2>3. cs' \in [Nodes -> SUBSET Feeds]
      BY <1>1, <1>2, <1>7 DEF SubscribeAdd, handleAddConnFeed, At
    <2> QED BY <1>7, <2>1, <2>2, <2>3 DEF SubscribeAdd, TypeOK
  <1>8. ASSUME SubscribePush(n) PROVE TypeOK' /\ Answers'
    <2>1. net' \in [Nodes -> Seq(Message)]
      <3>1. CASE db[n][user[n].feed] = 0
        BY <1>8, <3>1, SentNone DEF SubscribePush, LastRoot, TypeOK
      <3>2. CASE db[n][user[n].feed] # 0
        <4>1. Root(user[n].feed, db[n][user[n].feed]) \in Message
          BY <1>1, <1>2, <1>8, Kinds DEF SubscribePush, At, Roots
        <4> QED BY <1>8, <3>2, <4>1, Sent DEF SubscribePush, LastRoot
      <3> QED BY <3>1, <3>2
    <2>2. Answers' /\ user' \in [Nodes -> Users]
      BY <1>8, Ends DEF SubscribePush, Answers
    <2> QED BY <1>8, <2>1, <2>2 DEF SubscribePush, TypeOK
  <1>9. ASSUME Unsubscribe(n) PROVE TypeOK' /\ Answers'
    <2>1. Answers' /\ user' \in [Nodes -> Users]
      BY <1>9, GoesOn DEF Unsubscribe, At, Answers
    <2>2. cs' \in [Nodes -> SUBSET Feeds]
      BY <1>2, <1>9 DEF Unsubscribe, handleDelConnFeed
    <2> QED BY <1>9, <2>1, <2>2 DEF Unsubscribe, TypeOK
  <1>10. ASSUME Notify(n) PROVE TypeOK' /\ Answers'
    <2>1. Unsub(user[n].feed) \in Message
      BY <1>1, <1>10, Kinds DEF Notify, At, Unsubs
    <2>2. net' \in [Nodes -> Seq(Message)]
      BY <1>10, <2>1, Sent DEF Notify
    <2>3. Answers' /\ user' \in [Nodes -> Users]
      BY <1>10, Ends DEF Notify, Answers
    <2>4. past' \in Pasts
      BY <1>2, <1>10 DEF Notify, Pasts
    <2> QED BY <1>10, <2>2, <2>3, <2>4 DEF Notify, TypeOK
  <1>11. ASSUME DontShare(n) PROVE TypeOK' /\ Answers'
    <2>1. Unsub(user[n].feed) \in Message
      BY <1>1, <1>11, Kinds DEF DontShare, At, Unsubs
    <2>2. net' \in [Nodes -> Seq(Message)]
      BY <1>11, <2>1, Sent, SentNone DEF DontShare, handleDelFeed, TypeOK
    <2>3. Answers' /\ user' \in [Nodes -> Users]
      BY <1>11, Ends DEF DontShare, Answers
    <2>4. cs' \in [Nodes -> SUBSET Feeds]
      BY <1>2, <1>11 DEF DontShare, handleDelFeed
    <2> QED BY <1>11, <2>2, <2>3, <2>4 DEF DontShare, TypeOK
  <1>12. ASSUME Save(n) PROVE TypeOK' /\ Answers'
    <2>1. Answers' /\ user' \in [Nodes -> Users]
      BY <1>12, GoesOn DEF Save, At, Answers
    <2>2. db' \in [Nodes -> [Feeds -> Nat]]
      <3>1. db[n] \in [Feeds -> Nat] /\ user[n].feed \in Feeds /\ db[n][user[n].feed] + 1 \in Nat
        BY <1>1, <1>2, <1>12 DEF Save, At
      <3>2. db' = [db EXCEPT ![n] = [db[n] EXCEPT ![user[n].feed] = db[n][user[n].feed] + 1]]
        BY <1>2, <1>12, <3>1 DEF Save
      <3> QED BY <1>2, <3>1, <3>2
    <2> QED BY <1>12, <2>1, <2>2 DEF Save, TypeOK
  <1>13. ASSUME Publish(n) PROVE TypeOK' /\ Answers'
    <2>1. Root(user[n].feed, db[n][user[n].feed]) \in Message
      BY <1>1, <1>2, <1>13, Kinds DEF Publish, At, Roots
    <2>2. net' \in [Nodes -> Seq(Message)]
      BY <1>13, <2>1, Sent, SentNone DEF Publish, handleBroadcastRoot, TypeOK
    <2>3. Answers' /\ user' \in [Nodes -> Users]
      BY <1>13, Ends DEF Publish, Answers
    <2> QED BY <1>13, <2>2, <2>3 DEF Publish, TypeOK
  <1>14. ASSUME List(n) PROVE TypeOK' /\ Answers'
    <2>1. Answers' /\ user' \in [Nodes -> Users]
      BY <1>14, Ends DEF List, Answers
    <2> QED BY <1>14, <2>1 DEF List, TypeOK
  <1>15. ASSUME Close(n) PROVE TypeOK' /\ Answers'
    <2>1. Answers' /\ user' \in [Nodes -> Users]
      BY <1>15, Ends DEF Close, Answers
    <2>2. <<>> \in Seq(Message)
      OBVIOUS
    <2>3. net' \in [Nodes -> Seq(Message)] /\ alive' \in BOOLEAN
      BY <1>15, <2>2 DEF Close
    <2> QED BY <1>15, <2>1, <2>3 DEF Close, TypeOK
  <1> QED BY <1>3, <1>4, <1>5, <1>6, <1>7, <1>8, <1>9, <1>10, <1>11, <1>12, <1>13, <1>14, <1>15 DEF UserStep

\* The last Root is sent if there is one.
LEMMA Rooted ==
  ASSUME TypeOK, NEW n \in Nodes, NEW f \in Feeds, Send(n, LastRoot(n, f))
  PROVE  /\ net' \in [Nodes -> Seq(Message)] /\ net'[n] = net[n]
         /\ db[n][f] = 0 => net' = net
         /\ db[n][f] # 0 =>
              /\ Root(f, db[n][f]) \in Roots
              /\ alive => /\ \A S : Has(net'[Peer(n)], S) <=> (Has(net[Peer(n)], S) \/ Root(f, db[n][f]) \in S)
                          /\ \A S, T : NoneBehind(net'[Peer(n)], S, T)
                                <=> (NoneBehind(net[Peer(n)], S, T) /\ (Has(net[Peer(n)], S) => Root(f, db[n][f]) \notin T))
  <1>1. Root(f, db[n][f]) \in Roots /\ Root(f, db[n][f]) \in Message
    BY Kinds DEF TypeOK, Roots
  <1>2. CASE db[n][f] = 0
    BY <1>2, SentNone DEF LastRoot, TypeOK
  <1>3. CASE db[n][f] # 0
    BY <1>1, <1>3, Sent DEF LastRoot
  <1> QED BY <1>2, <1>3

\* The Ok is sent, and the last Root behind it.
LEMMA Pushed ==
  ASSUME TypeOK, NEW n \in Nodes, rcv[n].pc = "push", Send(n, <<Reply("ok", rcv[n].id)>> \o LastRoot(n, rcv[n].feed))
  PROVE  LET b == Peer(n)
             x == Reply("ok", rcv[n].id)
             y == Root(rcv[n].feed, db[n][rcv[n].feed])
         IN /\ net' \in [Nodes -> Seq(Message)] /\ net'[n] = net[n]
            /\ x \in Oks
            /\ alive /\ db[n][rcv[n].feed] = 0 =>
                 /\ \A S : Has(net'[b], S) <=> (Has(net[b], S) \/ x \in S)
                 /\ \A S, T : NoneBehind(net'[b], S, T) <=> (NoneBehind(net[b], S, T) /\ (Has(net[b], S) => x \notin T))
            /\ alive /\ db[n][rcv[n].feed] # 0 =>
                 /\ y \in Roots
                 /\ \A S : Has(net'[b], S) <=> (Has(net[b], S) \/ x \in S \/ y \in S)
                 /\ \A S, T : NoneBehind(net'[b], S, T) <=>
                      /\ NoneBehind(net[b], S, T) /\ (Has(net[b], S) => x \notin T)
                      /\ (Has(net[b], S) \/ x \in S => y \notin T)
  <1> DEFINE f == rcv[n].feed
             b == Peer(n)
             x == Reply("ok", rcv[n].id)
             y == Root(f, db[n][f])
             s == net[b] \o <<x>>
             t == s \o <<y>>
  <1>1. f \in Feeds /\ rcv[n].id \in Nat /\ db[n][f] \in Nat /\ b \in Nodes /\ b # n /\ Nodes = {n, b} /\ net[b] \in Seq(Message)
    BY InCall, Peers DEF TypeOK
  <1>2. x \in Oks /\ x \in Message /\ y \in Roots /\ y \in Message
    BY <1>1, Kinds DEF Oks, Roots
  <1>3. /\ s \in Seq(Message)
        /\ \A S : Has(s, S) <=> (Has(net[b], S) \/ x \in S)
        /\ \A S, T : NoneBehind(s, S, T) <=> (NoneBehind(net[b], S, T) /\ (Has(net[b], S) => x \notin T))
    BY <1>1, <1>2, HasAppend
  <1> HIDE DEF s
  <1>4. /\ t \in Seq(Message)
        /\ \A S : Has(t, S) <=> (Has(s, S) \/ y \in S)
        /\ \A S, T : NoneBehind(t, S, T) <=> (NoneBehind(s, S, T) /\ (Has(s, S) => y \notin T))
    BY <1>2, <1>3, HasAppend
  <1>5. net[b] \o (<<x>> \o LastRoot(n, f)) = IF db[n][f] = 0 THEN s ELSE t
    <2>1. <<x>> \in Seq(Message) /\ <<y>> \in Seq(Message)
      BY <1>2
    <2>2. CASE db[n][f] = 0
      <3>1. <<x>> \o LastRoot(n, f) = <<x>>
        BY <2>1, <2>2, ConcatEmptySeq DEF LastRoot
      <3> QED BY <2>2, <3>1 DEF s
    <2>3. CASE db[n][f] # 0
      <3>1. LastRoot(n, f) = <<y>>
        BY <2>3 DEF LastRoot
      <3> HIDE DEF x, y
      <3>2. (net[b] \o <<x>>) \o <<y>> = net[b] \o (<<x>> \o <<y>>)
        BY <1>1, <2>1, ConcatAssociative
      <3> QED BY <2>3, <3>1, <3>2 DEF s
    <2> QED BY <2>2, <2>3
  <1>6. net' = IF alive THEN [net EXCEPT ![b] = IF db[n][f] = 0 THEN s ELSE t] ELSE net
    BY <1>5 DEF Send
  <1> HIDE DEF t, x, y, b, f
  <1>7. net' \in [Nodes -> Seq(Message)] /\ net'[n] = net[n] /\ (alive => net'[b] = IF db[n][f] = 0 THEN s ELSE t)
    BY <1>1, <1>3, <1>4, <1>6 DEF TypeOK
  <1> QED BY <1>2, <1>3, <1>4, <1>7 DEF x, y, b, f

\* What was received first is a message of its type.
LEMMA Gotten ==
  ASSUME TypeOK, NEW n \in Nodes, NEW t, Got(n, t)
  PROVE  /\ alive /\ rcv[n].pc = "free" /\ net[n] # <<>> /\ Head(net[n]) \in Message /\ Head(net[n]).type = t
         /\ t = "Unsub" => Head(net[n]).feed \in Feeds
         /\ t = "Root" => Head(net[n]).feed \in Feeds /\ Head(net[n]).seq \in Nat
         /\ t \in {"Sub", "RqList", "RqPreview"} => Head(net[n]).feed \in Feeds /\ Head(net[n]).id \in Nat
         /\ t = "reply" => /\ Head(net[n]).id \in Nat /\ Head(net[n]).what \in {"ok", "err", "list", "root"}
                           /\ Head(net[n]).what = "root" => Head(net[n]).feed \in Feeds /\ Head(net[n]).seq \in Nat
  <1>1. net[n] \in Seq(Message) /\ net[n] # <<>>
    BY DEF TypeOK, Got
  <1>2. Head(net[n]) \in Message
    BY <1>1, HeadTailProperties
  <1> QED BY <1>1, <1>2 DEF Got, Message

\* The messages received keep the types.
LEMMA ReceiveTypes ==
  ASSUME TypeOK, Answers, NEW n \in Nodes, Receive(n)
  PROVE  TypeOK' /\ Answers'
  <1> DEFINE m == Head(net[n])
  <1>1. cs \in [Nodes -> SUBSET Feeds] /\ db \in [Nodes -> [Feeds -> Nat]] /\ past \in Pasts /\ Peer(n) \in Nodes
    BY Peers DEF TypeOK
  <1>2. rcv[n].pc # "free" => rcv[n].feed \in Feeds /\ rcv[n].id \in Nat
    BY InCall
  <1>3. ASSUME Response(n) PROVE TypeOK' /\ Answers'
    <2>1. /\ net[n] # <<>> /\ m.what \in {"ok", "err", "list", "root"}
          /\ m.what = "root" => m.feed \in Feeds /\ m.seq \in Nat
      BY <1>3, Gotten DEF Response
    <2>2. net' \in [Nodes -> Seq(Message)]
      BY <1>3, <2>1, Taking DEF Response
    <2>3. CASE At(n, "wait") /\ user[n].id = m.id /\ user' = [user EXCEPT ![n].reply = m.what] /\ UNCHANGED queue
      <3>1. user[n] \in [pc : Pcs, feed : Feeds, id : Nat, reply : {"none", "ok", "err", "list", "root"}] /\ user \in [Nodes -> Users]
        BY <2>3 DEF TypeOK, Users, Free, At
      <3>2. [user[n] EXCEPT !.reply = m.what] \in [pc : Pcs, feed : Feeds, id : Nat, reply : {"none", "ok", "err", "list", "root"}]
        BY <2>1, <3>1
      <3>3. user' = [user EXCEPT ![n] = [user[n] EXCEPT !.reply = m.what]] /\ [user[n] EXCEPT !.reply = m.what].pc = "wait"
        BY <2>3, <3>1 DEF At
      <3>4. user' \in [Nodes -> Users]
        BY <3>1, <3>2, <3>3 DEF Users
      <3>5. user'[n].pc = "wait" /\ \A k \in Nodes \ {n} : user'[k] = user[k]
        BY <3>1, <3>3
      <3>6. Answers'
        BY <3>5 DEF Answers
      <3> QED BY <1>3, <2>2, <2>3, <3>4, <3>6 DEF Response, TypeOK
    <2>4. CASE UNCHANGED user
      <3>1. queue' \in [Nodes -> Seq(Entry)]
        <4>1. CASE m.what = "root" /\ Enqueue(n, m.feed, m.seq)
          BY <2>1, <4>1, Queued
        <4>2. CASE UNCHANGED queue
          BY <4>2 DEF TypeOK
        <4> QED BY <1>3, <4>1, <4>2 DEF Response
      <3> QED BY <1>3, <2>2, <2>4, <3>1 DEF Response, TypeOK, Answers
    <2> QED BY <1>3, <2>3, <2>4 DEF Response
  <1>4. ASSUME handleSub(n) PROVE TypeOK' /\ Answers'
    <2>1. net[n] # <<>> /\ m.feed \in Feeds /\ m.id \in Nat
      BY <1>4, Gotten DEF handleSub
    <2>2. net' \in [Nodes -> Seq(Message)]
      BY <1>4, <2>1, Taking DEF handleSub
    <2>3. rcv' \in [Nodes -> Servers]
      BY <1>4, <2>1 DEF handleSub, TypeOK, Servers
    <2> QED BY <1>4, <2>2, <2>3 DEF handleSub, TypeOK, Answers
  <1>5. ASSUME NEW w \in {"ok", "err"}, rcv[n].pc # "free", Answer(n, w) PROVE net' \in [Nodes -> Seq(Message)]
    <2>1. Reply(w, rcv[n].id) \in Message
      BY <1>2, <1>5, Kinds DEF Replies
    <2> QED BY <1>5, <2>1, Sent DEF Answer
  <1>6. ASSUME subAgain(n) PROVE TypeOK' /\ Answers'
    <2>1. net' \in [Nodes -> Seq(Message)]
      BY <1>5, <1>6 DEF subAgain
    <2>2. rcv' \in [Nodes -> Servers]
      BY <1>6, ServesNot DEF subAgain
    <2> QED BY <1>6, <2>1, <2>2 DEF subAgain, TypeOK, Answers
  <1>7. ASSUME subCallback(n) PROVE TypeOK' /\ Answers'
    <2>1. net' \in [Nodes -> Seq(Message)]
      BY <1>5, <1>7 DEF subCallback, TypeOK
    <2>2. rcv' \in [Nodes -> Servers]
      BY <1>7, ServesOn, ServesNot DEF subCallback
    <2> QED BY <1>7, <2>1, <2>2 DEF subCallback, TypeOK, Answers
  <1>8. ASSUME subHas(n) PROVE TypeOK' /\ Answers'
    <2>1. net' \in [Nodes -> Seq(Message)]
      BY <1>5, <1>8 DEF subHas, TypeOK
    <2>2. rcv' \in [Nodes -> Servers]
      BY <1>8, ServesOn, ServesNot DEF subHas
    <2> QED BY <1>8, <2>1, <2>2 DEF subHas, TypeOK, Answers
  <1>9. ASSUME subAdd(n) PROVE TypeOK' /\ Answers'
    <2>1. rcv' \in [Nodes -> Servers]
      BY <1>9, ServesOn DEF subAdd
    <2>2. cs' \in [Nodes -> SUBSET Feeds]
      BY <1>1, <1>2, <1>9 DEF subAdd, handleAddConnFeed
    <2>3. past' \in Pasts
      BY <1>1, <1>9 DEF subAdd, Recreated, Pasts
    <2> QED BY <1>9, <2>1, <2>2, <2>3 DEF subAdd, TypeOK, Answers
  <1>10. ASSUME subPush(n) PROVE TypeOK' /\ Answers'
    <2>1. net' \in [Nodes -> Seq(Message)]
      BY <1>10, Pushed DEF subPush
    <2>2. rcv' \in [Nodes -> Servers]
      BY <1>10, ServesNot DEF subPush
    <2> QED BY <1>10, <2>1, <2>2 DEF subPush, TypeOK, Answers
  <1>11. ASSUME handleUnsub(n) PROVE TypeOK' /\ Answers'
    <2>1. net[n] # <<>>
      BY <1>11, Gotten DEF handleUnsub
    <2>2. net' \in [Nodes -> Seq(Message)]
      BY <1>11, <2>1, Taking DEF handleUnsub
    <2>3. cs' \in [Nodes -> SUBSET Feeds]
      BY <1>1, <1>11 DEF handleUnsub, handleDelConnFeed
    <2>4. past' \in Pasts
      BY <1>1, <1>11 DEF handleUnsub, Pasts
    <2> QED BY <1>11, <2>2, <2>3, <2>4 DEF handleUnsub, TypeOK, Answers
  <1>12. ASSUME handleRoot(n) PROVE TypeOK' /\ Answers'
    <2>1. net[n] # <<>> /\ m.feed \in Feeds /\ m.seq \in Nat
      BY <1>12, Gotten DEF handleRoot
    <2>2. net' \in [Nodes -> Seq(Message)]
      BY <1>12, <2>1, Taking DEF handleRoot
    <2>3. queue' \in [Nodes -> Seq(Entry)]
      BY <1>12, <2>1, Queued DEF handleRoot
    <2> QED BY <1>12, <2>2, <2>3 DEF handleRoot, TypeOK, Answers
  <1>13. ASSUME handleRqList(n) PROVE TypeOK' /\ Answers'
    <2>1. net[n] # <<>> /\ m.id \in Nat
      BY <1>13, Gotten DEF handleRqList
    <2>2. Reply(IF n \in Public THEN "list" ELSE "err", m.id) \in Message
      BY <2>1, Kinds DEF Replies
    <2>3. net' \in [Nodes -> Seq(Message)]
      BY <1>13, <2>1, <2>2, TakingAnswering DEF handleRqList
    <2> QED BY <1>13, <2>3 DEF handleRqList, TypeOK, Answers
  <1>14. ASSUME handleRqPreview(n) PROVE TypeOK' /\ Answers'
    <2>1. net[n] # <<>> /\ m.id \in Nat /\ m.feed \in Feeds
      BY <1>14, Gotten DEF handleRqPreview
    <2>2. db[n][m.feed] \in Nat
      BY <1>1, <2>1
    <2>3. Reply("err", m.id) \in Message /\ RootReply(m.id, m.feed, db[n][m.feed]) \in Message
      BY <2>1, <2>2, Kinds DEF Replies
    <2>4. net' \in [Nodes -> Seq(Message)]
      BY <1>14, <2>1, <2>3, TakingAnswering DEF handleRqPreview
    <2> QED BY <1>14, <2>4 DEF handleRqPreview, TypeOK, Answers
  <1> QED BY <1>3, <1>4, <1>6, <1>7, <1>8, <1>9, <1>10, <1>11, <1>12, <1>13, <1>14 DEF Receive

\* Every step keeps them.
LEMMA NextTypes == TypeOK /\ Answers /\ [Next]_vars => TypeOK' /\ Answers'
  <1> SUFFICES ASSUME TypeOK, Answers, [Next]_vars PROVE TypeOK' /\ Answers'
    OBVIOUS
  <1>1. CASE UNCHANGED vars
    BY <1>1 DEF vars, TypeOK, Answers
  <1>2. ASSUME NEW n \in Nodes, Call(n) PROVE TypeOK' /\ Answers'
    <2>1. past' \in Pasts /\ past.calls + 1 \in Nat
      <3>1. past \in Pasts /\ past' = [past EXCEPT !.calls = @ + 1]
        BY <1>2 DEF Call, TypeOK
      <3> QED BY <3>1 DEF Pasts
    <2>2. PICK c \in Calls[n] : user' = [user EXCEPT ![n] = [pc |-> c[1], feed |-> c[2], id |-> past.calls + 1, reply |-> "none"]]
      BY <1>2 DEF Call
    <2>3. c[1] \in Methods /\ c[2] \in Feeds
      BY CallsAssumption
    <2>4. user' \in [Nodes -> Users] /\ user'[n].pc \in Methods /\ user'[n].reply = "none" /\ \A k \in Nodes \ {n} : user'[k] = user[k]
      BY <2>1, <2>2, <2>3 DEF TypeOK, Users, Pcs
    <2>5. Answers'
      BY <2>4 DEF Answers, Methods
    <2> QED BY <1>2, <2>1, <2>4, <2>5 DEF Call, TypeOK
  <1>3. ASSUME NEW n \in Nodes, receivedRoot(n) PROVE TypeOK' /\ Answers'
    <2>1. past' \in Pasts
      BY <1>3 DEF receivedRoot, TypeOK, Pasts
    <2>2. Head(queue[n]) \in Entry /\ queue' \in [Nodes -> Seq(Entry)]
      <3>1. queue[n] \in Seq(Entry) /\ queue[n] # <<>> /\ queue \in [Nodes -> Seq(Entry)]
        BY <1>3 DEF receivedRoot, TypeOK
      <3>2. Head(queue[n]) \in Entry /\ Tail(queue[n]) \in Seq(Entry)
        BY <3>1, HeadTailProperties
      <3> QED BY <1>3, <3>1, <3>2 DEF receivedRoot
    <2>3. db' \in [Nodes -> [Feeds -> Nat]]
      BY <1>3, <2>2 DEF receivedRoot, TypeOK, Entry
    <2> QED BY <1>3, <2>1, <2>2, <2>3 DEF receivedRoot, TypeOK, Answers
  <1> QED BY <1>1, <1>2, <1>3, UserTypes, ReceiveTypes DEF Next

-----------------------------------------------------------------------------
(* One request at a time.                                                  *)

\* A user that has no request on the way and sends none: neither Unsub nor Root
\* change the requests.
LEMMA NotAsking ==
  ASSUME NEW a \in Nodes, NEW b \in Nodes, OneRequest(a, b), OneRequest(b, a), a # b,
         ~Asks(a), user'[a].pc # "wait", user'[a].pc = "add" => user[a].pc = "wait", user'[b] = user[b], rcv' = rcv, net'[a] = net[a],
         \/ net'[b] = net[b]
         \/ \E x \in Unsubs \cup Roots :
              /\ x \in Unsubs => user'[a].pc # "add"
              /\ \A S : Has(net'[b], S) <=> (Has(net[b], S) \/ x \in S)
              /\ \A S, T : NoneBehind(net'[b], S, T) <=> (NoneBehind(net[b], S, T) /\ (Has(net[b], S) => x \notin T))
  PROVE  OneRequest(a, b)' /\ OneRequest(b, a)'
  <1>1. ~Has(net[b], Requests) /\ rcv[b].pc = "free" /\ ~Has(net[a], Replies)
    BY DEF OneRequest
  <1>2. user[a].pc = "wait" => user[a].reply # "none" /\ ~Has(net[b], Unsubs)
    BY DEF OneRequest, Asks, Taken
  <1>3. /\ ~Has(net'[b], Requests)
        /\ \A S \in SUBSET Replies : Has(net'[b], S) <=> Has(net[b], S)
        /\ NoneBehind(net'[b], Requests, Requests) /\ NoneBehind(net'[b], Requests, Unsubs)
        /\ NoneBehind(net'[b], Replies, Replies)
        /\ user'[a].pc = "add" => ~Has(net'[b], Unsubs)
    <2>1. CASE net'[b] = net[b]
      BY <1>1, <1>2, <2>1 DEF OneRequest
    <2>2. ASSUME NEW x \in Unsubs \cup Roots,
                 x \in Unsubs => user'[a].pc # "add",
                 \A S : Has(net'[b], S) <=> (Has(net[b], S) \/ x \in S),
                 \A S, T : NoneBehind(net'[b], S, T) <=> (NoneBehind(net[b], S, T) /\ (Has(net[b], S) => x \notin T))
          PROVE  /\ ~Has(net'[b], Requests)
                 /\ \A S \in SUBSET Replies : Has(net'[b], S) <=> Has(net[b], S)
                 /\ NoneBehind(net'[b], Requests, Requests) /\ NoneBehind(net'[b], Requests, Unsubs)
                 /\ NoneBehind(net'[b], Replies, Replies)
                 /\ user'[a].pc = "add" => ~Has(net'[b], Unsubs)
      <3>1. x \notin Requests /\ x \notin Replies
        BY DEF Unsubs, Roots, Requests, Replies
      <3>2. \A S \in SUBSET Replies : x \notin S
        BY <3>1
      <3>3. \A S \in SUBSET Replies : Has(net'[b], S) <=> Has(net[b], S)
        BY <2>2, <3>2
      <3>4. ~Has(net'[b], Requests)
        BY <1>1, <2>2, <3>1
      <3>5. NoneBehind(net'[b], Requests, Requests) /\ NoneBehind(net'[b], Requests, Unsubs) /\ NoneBehind(net'[b], Replies, Replies)
        BY <1>1, <2>2, <3>1 DEF OneRequest
      <3>6. user'[a].pc = "add" => ~Has(net'[b], Unsubs)
        BY <1>2, <2>2
      <3> QED BY <3>3, <3>4, <3>5, <3>6
    <2> QED BY <2>1, <2>2
  <1>4. OneRequest(a, b)'
    BY <1>1, <1>3 DEF OneRequest, Asks, Taken
  <1>5. OneRequest(b, a)'
    <2>1. StrangeReplies(user[b]) \in SUBSET Replies /\ Replies \in SUBSET Replies
      BY DEF StrangeReplies
    <2> QED BY <1>3, <2>1 DEF OneRequest, Asks, Taken
  <1> QED BY <1>4, <1>5

\* A user sends its request, behind everything else.
LEMMA Asking ==
  ASSUME NEW a \in Nodes, NEW b \in Nodes, OneRequest(a, b), OneRequest(b, a), a # b,
         ~Asks(a), user[a].pc \notin {"wait", "add"}, Asks(a)', user'[b] = user[b], rcv' = rcv, net'[a] = net[a],
         NEW x \in Requests \ StrangeRequests(user'[a]),
         \A S : Has(net'[b], S) <=> (Has(net[b], S) \/ x \in S),
         \A S, T : NoneBehind(net'[b], S, T) <=> (NoneBehind(net[b], S, T) /\ (Has(net[b], S) => x \notin T))
  PROVE  OneRequest(a, b)' /\ OneRequest(b, a)' /\ ~Taken(a, b)'
  <1>1. ~Has(net[b], Requests) /\ rcv[b].pc = "free" /\ ~Has(net[a], Replies)
    BY DEF OneRequest
  <1>2. x \notin Unsubs /\ x \notin Replies
    BY DEF Requests, Unsubs, Replies
  <1>3. ~Has(net[b], StrangeRequests(user'[a])) /\ ~Has(net[a], StrangeReplies(user'[a]))
    BY <1>1, HasMore DEF StrangeRequests, StrangeReplies
  <1>4. ~Has(net'[b], StrangeRequests(user'[a]))
    BY <1>3
  <1>5. NoneBehind(net'[b], Requests, Requests) /\ NoneBehind(net'[b], Requests, Unsubs)
    BY <1>1, <1>2 DEF OneRequest
  <1>6. OneRequest(a, b)' /\ ~Taken(a, b)'
    <2>1. ~Taken(a, b)'
      BY <1>1 DEF Asks, Taken
    <2> QED BY <1>1, <1>3, <1>4, <1>5, <2>1 DEF OneRequest, Asks
  <1>7. OneRequest(b, a)'
    <2>1. ~Asks(b) \/ ~Has(net'[b], StrangeReplies(user[b]))
      BY <1>2 DEF OneRequest, StrangeReplies
    <2>2. Has(net'[b], Replies) <=> Has(net[b], Replies)
      BY <1>2
    <2>3. NoneBehind(net'[b], Replies, Replies)
      BY <1>2 DEF OneRequest
    <2> QED BY <2>1, <2>2, <2>3 DEF OneRequest, Asks, Taken
  <1> QED BY <1>6, <1>7

\* A node takes the answer to its request.
LEMMA Answered ==
  ASSUME NEW a \in Nodes, NEW b \in Nodes, OneRequest(a, b), OneRequest(b, a), a # b,
         net[a] # <<>>, NEW x \in Replies,
         user[a].pc = "wait", user'[a].pc = "wait", user'[a].reply # "none", user'[b] = user[b], rcv' = rcv, net'[b] = net[b],
         \A S : Has(net[a], S) <=> (Has(net'[a], S) \/ x \in S),
         \A S, T : NoneBehind(net[a], S, T) <=> (NoneBehind(net'[a], S, T) /\ (x \in S => ~Has(net'[a], T)))
  PROVE  OneRequest(a, b)' /\ OneRequest(b, a)'
  <1>1. Asks(a) /\ ~Has(net[b], Requests) /\ rcv[b].pc = "free" /\ ~Has(net'[a], Replies) /\ ~Has(net[b], Unsubs)
    BY DEF OneRequest, Asks, Taken
  <1>2. x \notin Requests /\ x \notin Unsubs
    BY DEF Replies, Requests, Unsubs
  <1>3. OneRequest(a, b)'
    BY <1>1 DEF OneRequest, Asks, Taken
  <1>4. OneRequest(b, a)'
    <2>1. Has(net'[a], Requests) <=> Has(net[a], Requests)
      BY <1>2
    <2>2. Has(net'[a], Unsubs) <=> Has(net[a], Unsubs)
      BY <1>2
    <2>3. ~Has(net[a], StrangeRequests(user[b])) => ~Has(net'[a], StrangeRequests(user[b]))
      OBVIOUS
    <2>4. NoneBehind(net'[a], Requests, Requests) /\ NoneBehind(net'[a], Requests, Unsubs)
      BY DEF OneRequest
    <2> QED BY <2>1, <2>2, <2>3, <2>4 DEF OneRequest, Asks, Taken
  <1> QED BY <1>3, <1>4

\* A node takes an Unsub or a Root.
LEMMA TakesOther ==
  ASSUME NEW a \in Nodes, NEW b \in Nodes, OneRequest(a, b), OneRequest(b, a), a # b,
         NEW x \in Unsubs \cup Roots, user' = user, rcv' = rcv, net'[b] = net[b],
         \A S : Has(net[a], S) <=> (Has(net'[a], S) \/ x \in S),
         \A S, T : NoneBehind(net[a], S, T) <=> (NoneBehind(net'[a], S, T) /\ (x \in S => ~Has(net'[a], T)))
  PROVE  OneRequest(a, b)' /\ OneRequest(b, a)'
  <1>1. x \notin Requests /\ x \notin Replies
    BY DEF Replies, Requests, Unsubs, Roots
  <1>2. Has(net'[a], Requests) <=> Has(net[a], Requests)
    BY <1>1
  <1>3. Has(net'[a], Replies) <=> Has(net[a], Replies)
    BY <1>1
  <1>4. Has(net'[a], Unsubs) => Has(net[a], Unsubs)
    OBVIOUS
  <1>5. /\ ~Has(net[a], StrangeRequests(user[b])) => ~Has(net'[a], StrangeRequests(user[b]))
        /\ ~Has(net[a], StrangeReplies(user[a])) => ~Has(net'[a], StrangeReplies(user[a]))
    OBVIOUS
  <1>6. NoneBehind(net'[a], Requests, Requests) /\ NoneBehind(net'[a], Requests, Unsubs) /\ NoneBehind(net'[a], Replies, Replies)
    BY DEF OneRequest
  <1> QED BY <1>2, <1>3, <1>4, <1>5, <1>6 DEF OneRequest, Asks, Taken

\* A node takes a request, which has nothing behind it that is like it.
LEMMA TakesRequest ==
  ASSUME NEW a \in Nodes, NEW b \in Nodes, OneRequest(b, a), NEW x \in Requests,
         \A S : Has(net[a], S) <=> (Has(net'[a], S) \/ x \in S),
         \A S, T : NoneBehind(net[a], S, T) <=> (NoneBehind(net'[a], S, T) /\ (x \in S => ~Has(net'[a], T)))
  PROVE  /\ Asks(b) /\ x.id = user[b].id /\ (x.type = "Sub" => x.feed = user[b].feed)
         /\ rcv[a].pc = "free" /\ ~Has(net[b], Replies)
         /\ ~Has(net'[a], Requests) /\ ~Has(net'[a], Unsubs)
         /\ \A S : x \notin S => (Has(net'[a], S) <=> Has(net[a], S))
         /\ NoneBehind(net'[a], Requests, Requests) /\ NoneBehind(net'[a], Requests, Unsubs)
         /\ NoneBehind(net[a], Replies, Replies) => NoneBehind(net'[a], Replies, Replies)
  <1>1. Has(net[a], Requests) /\ Asks(b)
    BY DEF OneRequest
  <1>2. x \notin StrangeRequests(user[b])
    BY <1>1 DEF OneRequest
  <1> QED BY <1>1, <1>2 DEF OneRequest, StrangeRequests

\* It serves the request.
LEMMA Serving ==
  ASSUME NEW a \in Nodes, NEW b \in Nodes, OneRequest(a, b), OneRequest(b, a), a # b,
         NEW x \in Requests, x.type = "Sub",
         user' = user, rcv'[b] = rcv[b], rcv'[a].pc # "free", rcv'[a].id = x.id, rcv'[a].feed = x.feed, net'[b] = net[b],
         \A S : Has(net[a], S) <=> (Has(net'[a], S) \/ x \in S),
         \A S, T : NoneBehind(net[a], S, T) <=> (NoneBehind(net'[a], S, T) /\ (x \in S => ~Has(net'[a], T)))
  PROVE  OneRequest(a, b)' /\ OneRequest(b, a)'
  <1>1. /\ Asks(b) /\ x.id = user[b].id /\ x.feed = user[b].feed
        /\ rcv[a].pc = "free" /\ ~Has(net[b], Replies)
        /\ ~Has(net'[a], Requests) /\ ~Has(net'[a], Unsubs)
        /\ \A S : x \notin S => (Has(net'[a], S) <=> Has(net[a], S))
        /\ NoneBehind(net'[a], Requests, Requests) /\ NoneBehind(net'[a], Requests, Unsubs)
        /\ NoneBehind(net[a], Replies, Replies) => NoneBehind(net'[a], Replies, Replies)
    BY TakesRequest
  <1>2. x \notin Replies /\ x \notin StrangeReplies(user[a])
    BY DEF Requests, Replies, StrangeReplies
  <1>3. OneRequest(b, a)'
    <2>1. ~Has(net'[a], StrangeRequests(user[b])) /\ ~Has(net[b], StrangeReplies(user[b]))
      BY <1>1, HasMore DEF StrangeRequests, StrangeReplies
    <2>2. NoneBehind(net[b], Replies, Replies)
      BY DEF OneRequest
    <2> QED BY <1>1, <2>1, <2>2 DEF OneRequest, Asks, Taken
  <1>4. OneRequest(a, b)'
    <2>1. (Has(net'[a], Replies) <=> Has(net[a], Replies)) /\ (Has(net'[a], StrangeReplies(user[a])) <=> Has(net[a], StrangeReplies(user[a])))
      BY <1>1, <1>2
    <2> QED BY <1>1, <2>1 DEF OneRequest, Asks, Taken
  <1> QED BY <1>3, <1>4

\* It goes on serving it.
LEMMA StillServing ==
  ASSUME NEW a \in Nodes, NEW b \in Nodes, OneRequest(a, b), OneRequest(b, a), a # b,
         user' = user, rcv'[b] = rcv[b], rcv[a].pc # "free", rcv'[a].pc # "free", rcv'[a].id = rcv[a].id, rcv'[a].feed = rcv[a].feed, net' = net
  PROVE  OneRequest(a, b)' /\ OneRequest(b, a)'
  BY DEF OneRequest, Asks, Taken

\* It replies.
LEMMA Replying ==
  ASSUME NEW a \in Nodes, NEW b \in Nodes, OneRequest(a, b), OneRequest(b, a), a # b,
         user' = user, rcv'[b] = rcv[b], rcv[a].pc # "free", rcv'[a].pc = "free", net'[a] = net[a],
         NEW x \in Replies, x.id = rcv[a].id,
         \A S \in SUBSET (Message \ Roots) : Has(net'[b], S) <=> (Has(net[b], S) \/ x \in S),
         \A S, T \in SUBSET (Message \ Roots) : NoneBehind(net'[b], S, T) <=> (NoneBehind(net[b], S, T) /\ (Has(net[b], S) => x \notin T))
  PROVE  OneRequest(a, b)' /\ OneRequest(b, a)'
  <1>1. Asks(b) /\ ~Has(net[b], Replies) /\ rcv[a].id = user[b].id /\ ~Has(net[a], Requests) /\ ~Has(net[a], Unsubs)
    BY DEF OneRequest, Asks, Taken
  <1>2. /\ x \notin Requests /\ x \notin Unsubs /\ x \notin StrangeReplies(user[b]) /\ x \notin StrangeRequests(user[a])
        /\ Requests \in SUBSET (Message \ Roots) /\ Replies \in SUBSET (Message \ Roots) /\ Unsubs \in SUBSET (Message \ Roots)
        /\ StrangeReplies(user[b]) \in SUBSET (Message \ Roots) /\ StrangeRequests(user[a]) \in SUBSET (Message \ Roots)
    BY <1>1 DEF Requests, Replies, Unsubs, Roots, StrangeReplies, StrangeRequests
  <1>3. /\ Has(net'[b], Requests) <=> Has(net[b], Requests)
        /\ Has(net'[b], Unsubs) <=> Has(net[b], Unsubs)
        /\ Has(net'[b], StrangeRequests(user[a])) <=> Has(net[b], StrangeRequests(user[a]))
        /\ Has(net'[b], StrangeReplies(user[b])) <=> Has(net[b], StrangeReplies(user[b]))
    BY <1>2
  <1>4. /\ NoneBehind(net'[b], Requests, Requests) <=> NoneBehind(net[b], Requests, Requests)
        /\ NoneBehind(net'[b], Requests, Unsubs) <=> NoneBehind(net[b], Requests, Unsubs)
        /\ NoneBehind(net'[b], Replies, Replies) <=> NoneBehind(net[b], Replies, Replies)
    BY <1>1, <1>2
  <1>5. OneRequest(a, b)'
    BY <1>3, <1>4 DEF OneRequest, Asks, Taken
  <1>6. OneRequest(b, a)'
    BY <1>1, <1>3, <1>4 DEF OneRequest, Asks, Taken
  <1> QED BY <1>5, <1>6

\* It takes a request and replies at once.
LEMMA ReplyingAtOnce ==
  ASSUME NEW a \in Nodes, NEW b \in Nodes, OneRequest(a, b), OneRequest(b, a), a # b,
         user' = user, rcv' = rcv, NEW x \in Requests, NEW y \in Replies, y.id = x.id,
         \A S : Has(net[a], S) <=> (Has(net'[a], S) \/ x \in S),
         \A S, T : NoneBehind(net[a], S, T) <=> (NoneBehind(net'[a], S, T) /\ (x \in S => ~Has(net'[a], T))),
         \A S : Has(net'[b], S) <=> (Has(net[b], S) \/ y \in S),
         \A S, T : NoneBehind(net'[b], S, T) <=> (NoneBehind(net[b], S, T) /\ (Has(net[b], S) => y \notin T))
  PROVE  OneRequest(a, b)' /\ OneRequest(b, a)'
  <1>1. /\ Asks(b) /\ x.id = user[b].id
        /\ rcv[a].pc = "free" /\ ~Has(net[b], Replies)
        /\ ~Has(net'[a], Requests) /\ ~Has(net'[a], Unsubs)
        /\ \A S : x \notin S => (Has(net'[a], S) <=> Has(net[a], S))
        /\ NoneBehind(net'[a], Requests, Requests) /\ NoneBehind(net'[a], Requests, Unsubs)
        /\ NoneBehind(net[a], Replies, Replies) => NoneBehind(net'[a], Replies, Replies)
    BY TakesRequest
  <1>2. x \notin Replies /\ x \notin StrangeReplies(user[a])
    BY DEF Requests, Replies, StrangeReplies
  <1>3. y \notin Requests /\ y \notin Unsubs /\ y \notin StrangeReplies(user[b]) /\ y \notin StrangeRequests(user[a])
    BY <1>1 DEF Requests, Replies, Unsubs, StrangeReplies, StrangeRequests
  <1>4. /\ Has(net'[b], Requests) <=> Has(net[b], Requests)
        /\ Has(net'[b], Unsubs) <=> Has(net[b], Unsubs)
        /\ Has(net'[b], StrangeRequests(user[a])) <=> Has(net[b], StrangeRequests(user[a]))
        /\ ~Has(net'[b], StrangeReplies(user[b]))
        /\ Has(net'[a], Replies) <=> Has(net[a], Replies)
        /\ Has(net'[a], StrangeReplies(user[a])) <=> Has(net[a], StrangeReplies(user[a]))
        /\ ~Has(net'[a], StrangeRequests(user[b]))
    <2>1. ~Has(net[b], StrangeReplies(user[b])) /\ ~Has(net'[a], StrangeRequests(user[b]))
      BY <1>1, HasMore DEF StrangeReplies, StrangeRequests
    <2> QED BY <1>1, <1>2, <1>3, <2>1
  <1>5. /\ NoneBehind(net[b], Requests, Requests) => NoneBehind(net'[b], Requests, Requests)
        /\ NoneBehind(net[b], Requests, Unsubs) => NoneBehind(net'[b], Requests, Unsubs)
        /\ NoneBehind(net[b], Replies, Replies) => NoneBehind(net'[b], Replies, Replies)
    BY <1>1, <1>3
  <1>6. OneRequest(a, b)'
    BY <1>1, <1>4, <1>5 DEF OneRequest, Asks, Taken
  <1>7. OneRequest(b, a)'
    BY <1>1, <1>4, <1>5 DEF OneRequest, Asks, Taken
  <1> QED BY <1>6, <1>7

-----------------------------------------------------------------------------
(* Who is subscribed to what.                                              *)

\* Without messages of one kind nothing is behind them, or they behind others.
LEMMA NoneThere == \A s, S, T : ~Has(s, S) \/ ~Has(s, T) => NoneBehind(s, S, T)
  BY DEF Has, NoneBehind

\* The kinds are apart.
LEMMA Apart ==
  /\ Oks \in SUBSET Replies
  /\ \A x \in Replies : x \notin Requests /\ x \notin Unsubs /\ x \notin Roots /\ \A f : x \notin {Unsub(f)}
  /\ \A x \in Requests : x \notin Replies /\ x \notin Oks /\ x \notin Unsubs /\ x \notin Roots /\ \A f : x \notin {Unsub(f)}
  /\ \A x \in Roots : x \notin Replies /\ x \notin Oks /\ x \notin Unsubs /\ x \notin Requests /\ \A f : x \notin {Unsub(f)}
  /\ \A x \in Unsubs : x \notin Replies /\ x \notin Oks /\ x \notin Roots /\ x \notin Requests
  /\ \A x \in Unsubs : x.feed \in Feeds /\ x = Unsub(x.feed) /\ \A f : x \in {Unsub(f)} <=> f = x.feed
  /\ \A f \in Feeds : {Unsub(f)} \in SUBSET Unsubs /\ {Unsub(f)} \in SUBSET (Message \ Roots)
  /\ \A S \in {Requests, Replies, Oks, Unsubs} : S \in SUBSET (Message \ Roots)
  <1> USE DEF Oks, Replies, Requests, Unsubs, Roots
  <1>1. \A x \in Replies : x \notin Requests /\ x \notin Unsubs /\ x \notin Roots /\ \A f : x \notin {Unsub(f)}
    BY DEF Unsub
  <1>2. \A x \in Requests : x \notin Replies /\ x \notin Oks /\ x \notin Unsubs /\ x \notin Roots /\ \A f : x \notin {Unsub(f)}
    BY DEF Unsub
  <1>3. \A x \in Roots : x \notin Replies /\ x \notin Oks /\ x \notin Unsubs /\ x \notin Requests /\ \A f : x \notin {Unsub(f)}
    BY DEF Unsub
  <1>4. \A x \in Unsubs : x \notin Replies /\ x \notin Oks /\ x \notin Roots /\ x \notin Requests
    OBVIOUS
  <1>5. ASSUME NEW x \in Unsubs PROVE x.feed \in Feeds /\ x = Unsub(x.feed)
    <2>1. x \in [type : {"Unsub"}, feed : Feeds]
      BY DEF Message
    <2> QED BY <2>1 DEF Unsub
  <1>6. ASSUME NEW x \in Unsubs, NEW f PROVE x \in {Unsub(f)} <=> f = x.feed
    BY <1>5 DEF Unsub
  <1>7. \A f \in Feeds : {Unsub(f)} \in SUBSET Unsubs /\ {Unsub(f)} \in SUBSET (Message \ Roots)
    <2>1. \A f \in Feeds : Unsub(f) \in Message /\ Unsub(f).type = "Unsub"
      BY DEF Message, Unsub
    <2> QED BY <2>1
  <1> QED BY <1>1, <1>2, <1>3, <1>4, <1>5, <1>6, <1>7

\* What was granted, and who is telling, changes only by the own goroutine.
LEMMA SameGranted ==
  ASSUME NEW n \in Nodes, NEW m \in Nodes, user'[n] = user[n],
         Has(net'[n], Oks) <=> Has(net[n], Oks), rcv'[m].pc \in {"again", "push"} <=> rcv[m].pc \in {"again", "push"}
  PROVE  \A f \in Feeds : Granted(n, m, f)' <=> Granted(n, m, f)
  BY DEF Granted

LEMMA SameTelling ==
  ASSUME NEW n \in Nodes, NEW m \in Nodes,
         (user'[n].pc = "notify" \/ user[n].pc = "notify") => user'[n] = user[n],
         \A f \in Feeds : Has(net'[m], {Unsub(f)}) <=> Has(net[m], {Unsub(f)})
  PROVE  \A f \in Feeds : Telling(n, m, f)' <=> Telling(n, m, f)
  BY DEF Telling

\* Who grants nothing and tells the same is as explained as before.
LEMMA SameAgreeing ==
  ASSUME NEW n \in Nodes, NEW m \in Nodes, cs \in [Nodes -> SUBSET Feeds], cs' = cs, Explained(n, m), Kept(n, m),
         \A f \in Feeds : Granted(m, n, f)' <=> Granted(m, n, f),
         \A f \in Feeds : Granted(n, m, f)' <=> Granted(n, m, f),
         \A f \in Feeds : Telling(m, n, f)' <=> Telling(m, n, f)
  PROVE  Explained(n, m)' /\ Kept(n, m)'
  <1>1. cs[n] \subseteq Feeds
    OBVIOUS
  <1>2. Explained(n, m)'
    BY <1>1 DEF Explained
  <1>3. Kept(n, m)'
    BY DEF Kept
  <1> QED BY <1>2, <1>3

\* A node that does not ask has no Unsub in vain to take, and none behind one.
LEMMA NotDoomed ==
  ASSUME NEW n \in Nodes, NEW m \in Nodes, Doomed(n, m), cs' = cs, ~Asks(m), net'[m] = net[m]
  PROVE  Doomed(n, m)'
  BY DEF Doomed

LEMMA SameDoomed ==
  ASSUME NEW n \in Nodes, NEW m \in Nodes, cs \in [Nodes -> SUBSET Feeds], Doomed(n, m), cs'[n] \subseteq cs[n],
         user'[m] = user[m], rcv[n].pc = "push" => rcv'[n].pc = "push",
         \A f \in cs'[n] : /\ Has(net'[m], {Unsub(f)}) => Has(net[m], {Unsub(f)})
                           /\ NoneBehind(net[m], Replies, {Unsub(f)}) => NoneBehind(net'[m], Replies, {Unsub(f)}),
         Has(net[m], Oks) => Has(net'[m], Oks)
  PROVE  Doomed(n, m)'
  BY DEF Doomed, Asks

\* A user that does not change its feeds.
LEMMA QuietUser ==
  ASSUME NEW a \in Nodes, NEW b \in Nodes, a # b, cs \in [Nodes -> SUBSET Feeds], OneRequest(a, b), OneRequest(b, a),
         Agreeing(a, b), Agreeing(b, a), cs' = cs, rcv' = rcv, user'[b] = user[b], net'[a] = net[a],
         ~Asks(a), user[a].pc # "notify", user'[a].pc # "notify",
         \A f \in Feeds : Granted(a, b, f)' <=> Granted(a, b, f),
         \/ net'[b] = net[b]
         \/ \E x \in Roots \cup Requests :
              /\ \A S : Has(net'[b], S) <=> (Has(net[b], S) \/ x \in S)
              /\ \A S, T : NoneBehind(net'[b], S, T) <=> (NoneBehind(net[b], S, T) /\ (Has(net[b], S) => x \notin T))
  PROVE  /\ Agreeing(a, b)' /\ Agreeing(b, a)'
         /\ \A f \in Feeds : Granted(b, a, f)' <=> Granted(b, a, f)
  <1>1. /\ Has(net'[b], Oks) <=> Has(net[b], Oks)
        /\ \A f \in Feeds : Has(net'[b], {Unsub(f)}) <=> Has(net[b], {Unsub(f)})
        /\ \A f \in Feeds : NoneBehind(net[b], Replies, {Unsub(f)}) => NoneBehind(net'[b], Replies, {Unsub(f)})
    BY Apart
  <1>2. \A f \in Feeds : Granted(b, a, f)' <=> Granted(b, a, f)
    BY <1>1, SameGranted
  <1>3. \A f \in Feeds : Telling(a, b, f)' <=> Telling(a, b, f)
    BY <1>1, SameTelling
  <1>4. \A f \in Feeds : Telling(b, a, f)' <=> Telling(b, a, f)
    BY SameTelling
  <1>5. Explained(a, b)' /\ Kept(a, b)' /\ Explained(b, a)' /\ Kept(b, a)'
    BY <1>2, <1>3, <1>4, SameAgreeing DEF Agreeing
  <1>6. Doomed(a, b)'
    BY <1>1, SameDoomed DEF Agreeing
  <1>7. Doomed(b, a)'
    BY NotDoomed DEF Agreeing
  <1> QED BY <1>2, <1>5, <1>6, <1>7 DEF Agreeing

\* A user that leaves a feed tells it before it does anything else.
LEMMA Leaving ==
  ASSUME NEW a \in Nodes, NEW b \in Nodes, a # b, cs \in [Nodes -> SUBSET Feeds], OneRequest(a, b), OneRequest(b, a),
         Agreeing(a, b), Agreeing(b, a), rcv' = rcv, user'[b] = user[b], net'[a] = net[a],
         NEW g \in Feeds, user[a].pc \notin {"wait", "add"}, user'[a].pc \notin {"wait", "add"},
         cs'[a] = cs[a] \ {g}, cs'[b] = cs[b],
         \A f \in Feeds : Telling(a, b, f)' <=> (Telling(a, b, f) \/ f = g),
         \/ net'[b] = net[b]
         \/ /\ \A S : Has(net'[b], S) <=> (Has(net[b], S) \/ Unsub(g) \in S)
            /\ \A S, T : NoneBehind(net'[b], S, T) <=> (NoneBehind(net[b], S, T) /\ (Has(net[b], S) => Unsub(g) \notin T))
  PROVE  /\ Agreeing(a, b)' /\ Agreeing(b, a)'
         /\ \A f \in Feeds : (Granted(a, b, f)' <=> Granted(a, b, f)) /\ (Granted(b, a, f)' <=> Granted(b, a, f))
  <1>1. cs[a] \subseteq Feeds /\ cs[b] \subseteq Feeds /\ Unsub(g) \in Unsubs /\ Unsub(g).feed = g
    BY Kinds DEF Unsub
  <1>2. /\ Has(net'[b], Oks) <=> Has(net[b], Oks)
        /\ \A f \in Feeds : f # g => (Has(net'[b], {Unsub(f)}) <=> Has(net[b], {Unsub(f)}))
        /\ \A f \in Feeds : f # g => (NoneBehind(net[b], Replies, {Unsub(f)}) => NoneBehind(net'[b], Replies, {Unsub(f)}))
    BY <1>1, Apart
  <1>3. \A f \in Feeds : Granted(b, a, f)' <=> Granted(b, a, f)
    BY <1>2, SameGranted
  <1>4. \A f \in Feeds : Telling(b, a, f)' <=> Telling(b, a, f)
    BY SameTelling
  <1>5. \A f \in Feeds : ~Granted(a, b, f)' /\ ~Granted(a, b, f)
    BY DEF Granted
  <1>6. Explained(a, b)' /\ Kept(a, b)'
    BY <1>1, <1>3, <1>4, <1>5 DEF Agreeing, Explained, Kept
  <1>7. Explained(b, a)' /\ Kept(b, a)'
    BY <1>1, <1>3, <1>5 DEF Agreeing, Explained, Kept
  <1>8. Doomed(a, b)'
    BY <1>1, <1>2, SameDoomed DEF Agreeing
  <1>9. Doomed(b, a)'
    BY DEF Agreeing, Doomed, Asks
  <1> QED BY <1>3, <1>5, <1>6, <1>7, <1>8, <1>9 DEF Agreeing

\* A user that tells it is not subscribed again (or the calls have crossed).
LEMMA Tells ==
  ASSUME NEW a \in Nodes, NEW b \in Nodes, a # b, cs \in [Nodes -> SUBSET Feeds], OneRequest(a, b), OneRequest(b, a),
         Agreeing(a, b), Agreeing(b, a), cs' = cs, rcv' = rcv, user'[b] = user[b], net'[a] = net[a],
         NEW g \in Feeds \ cs[a], user[a].pc = "notify", user[a].feed = g, user'[a].pc = "free",
         \A S : Has(net'[b], S) <=> (Has(net[b], S) \/ Unsub(g) \in S),
         \A S, T : NoneBehind(net'[b], S, T) <=> (NoneBehind(net[b], S, T) /\ (Has(net[b], S) => Unsub(g) \notin T))
  PROVE  /\ Agreeing(a, b)' /\ Agreeing(b, a)'
         /\ \A f \in Feeds : (Granted(a, b, f)' <=> Granted(a, b, f)) /\ (Granted(b, a, f)' <=> Granted(b, a, f))
  <1>1. cs[a] \subseteq Feeds /\ cs[b] \subseteq Feeds /\ Unsub(g) \in Unsubs /\ Unsub(g).feed = g
    BY Kinds DEF Unsub
  <1>2. /\ Has(net'[b], Oks) <=> Has(net[b], Oks)
        /\ \A f \in Feeds : Has(net'[b], {Unsub(f)}) <=> (Has(net[b], {Unsub(f)}) \/ f = g)
        /\ \A f \in Feeds : f # g => (NoneBehind(net[b], Replies, {Unsub(f)}) => NoneBehind(net'[b], Replies, {Unsub(f)}))
    BY <1>1, Apart
  <1>3. \A f \in Feeds : Granted(b, a, f)' <=> Granted(b, a, f)
    BY <1>2, SameGranted
  <1>4. \A f \in Feeds : Telling(b, a, f)' <=> Telling(b, a, f)
    BY SameTelling
  <1>5. \A f \in Feeds : Granted(a, b, f)' <=> Granted(a, b, f)
    BY DEF Granted
  <1>6. \A f \in Feeds : Telling(a, b, f)' <=> Telling(a, b, f)
    BY <1>2 DEF Telling
  <1>7. Explained(a, b)' /\ Kept(a, b)' /\ Explained(b, a)' /\ Kept(b, a)'
    BY <1>3, <1>4, <1>5, <1>6, SameAgreeing DEF Agreeing
  <1>8. Doomed(a, b)'
    BY <1>1, <1>2, SameDoomed DEF Agreeing
  <1>9. Doomed(b, a)'
    BY NotDoomed DEF Agreeing, Asks
  <1> QED BY <1>3, <1>5, <1>7, <1>8, <1>9 DEF Agreeing

\* A user adds what was granted.
LEMMA Adding ==
  ASSUME NEW a \in Nodes, NEW b \in Nodes, a # b, cs \in [Nodes -> SUBSET Feeds], OneRequest(a, b), OneRequest(b, a),
         Agreeing(a, b), Agreeing(b, a), rcv' = rcv, user'[b] = user[b], net' = net,
         NEW g \in Feeds, user[a].pc = "add", user[a].feed = g, user'[a].pc = "push", cs'[a] = cs[a] \cup {g}, cs'[b] = cs[b]
  PROVE  /\ Agreeing(a, b)' /\ Agreeing(b, a)'
         /\ \A f \in Feeds : ~Granted(a, b, f)' /\ (Granted(a, b, f) <=> f = g) /\ (Granted(b, a, f)' <=> Granted(b, a, f))
  <1>1. cs[a] \subseteq Feeds /\ cs[b] \subseteq Feeds
    OBVIOUS
  <1>2. \A f \in Feeds : Granted(b, a, f)' <=> Granted(b, a, f)
    BY SameGranted
  <1>3. \A f \in Feeds : (Telling(a, b, f)' <=> Telling(a, b, f)) /\ (Telling(b, a, f)' <=> Telling(b, a, f))
    BY SameTelling
  <1>4. \A f \in Feeds : ~Granted(a, b, f)' /\ (Granted(a, b, f) <=> f = g)
    BY DEF Granted
  <1>5. Explained(a, b)'
    BY <1>1, <1>2, <1>3, <1>4 DEF Agreeing, Explained, Kept
  <1>6. Explained(b, a)'
    BY <1>1, <1>3, <1>4 DEF Agreeing, Explained
  <1>7. Kept(a, b)' /\ Kept(b, a)'
    BY <1>2, <1>3, <1>4 DEF Agreeing, Kept
  <1>8. Doomed(a, b)'
    <2>1. ~Has(net[b], Unsubs)
      BY DEF OneRequest, Taken
    <2>2. ~Has(net[b], {Unsub(g)}) /\ NoneBehind(net[b], Replies, {Unsub(g)})
      BY <2>1, HasMore, NoneThere, Apart
    <2> QED BY <2>2 DEF Agreeing, Doomed, Asks
  <1>9. Doomed(b, a)'
    BY DEF Agreeing, Doomed, Asks
  <1> QED BY <1>2, <1>4, <1>5, <1>6, <1>7, <1>8, <1>9 DEF Agreeing

\* A node takes an Unsub that does not cross its own Subscribe.
LEMMA TakesUnsub ==
  ASSUME NEW a \in Nodes, NEW b \in Nodes, a # b, cs \in [Nodes -> SUBSET Feeds], OneRequest(a, b), OneRequest(b, a),
         Agreeing(a, b), Agreeing(b, a), user' = user, rcv' = rcv, net'[b] = net[b],
         NEW g \in Feeds, cs'[a] = cs[a] \ {g}, cs'[b] = cs[b], ~(user[a].pc \in {"wait", "add"} /\ user[a].feed = g),
         \A S : Has(net[a], S) <=> (Has(net'[a], S) \/ Unsub(g) \in S),
         \A S, T : NoneBehind(net[a], S, T) <=> (NoneBehind(net'[a], S, T) /\ (Unsub(g) \in S => ~Has(net'[a], T)))
  PROVE  /\ Agreeing(a, b)' /\ Agreeing(b, a)'
         /\ \A f \in Feeds : (Granted(a, b, f)' <=> Granted(a, b, f)) /\ (Granted(b, a, f)' <=> Granted(b, a, f))
  <1>1. cs[a] \subseteq Feeds /\ cs[b] \subseteq Feeds /\ Unsub(g) \in Unsubs /\ Unsub(g).feed = g
    BY Kinds DEF Unsub
  <1>2. Has(net[a], Unsubs) /\ Has(net[a], {Unsub(g)})
    BY <1>1, Apart
  <1>3. g \notin cs[b]
    BY <1>2 DEF Agreeing, Doomed, Asks
  <1>4. /\ Has(net'[a], Oks) <=> Has(net[a], Oks)
        /\ \A f \in Feeds : f # g => (Has(net'[a], {Unsub(f)}) <=> Has(net[a], {Unsub(f)}))
        /\ \A f \in Feeds : NoneBehind(net[a], Replies, {Unsub(f)}) => NoneBehind(net'[a], Replies, {Unsub(f)})
    BY <1>1, Apart
  <1>5. \A f \in Feeds : (Granted(b, a, f)' <=> Granted(b, a, f)) /\ (Granted(a, b, f)' <=> Granted(a, b, f))
    BY <1>4, SameGranted
  <1>6. \A f \in Feeds : Telling(a, b, f)' <=> Telling(a, b, f)
    BY SameTelling
  <1>7. \A f \in Feeds : f # g => (Telling(b, a, f)' <=> Telling(b, a, f))
    BY <1>4 DEF Telling
  <1>8. ~Granted(a, b, g)
    BY DEF Granted
  <1>9. ~Granted(b, a, g)
    <2>1. ~Taken(b, a)
      BY <1>2 DEF OneRequest
    <2>2. ~Has(net[b], Replies) => ~Has(net[b], Oks)
      BY HasMore, Apart
    <2> QED BY <2>1, <2>2 DEF Granted, Taken
  <1>10. Explained(a, b)' /\ Kept(a, b)'
    BY <1>1, <1>5, <1>7, <1>8 DEF Agreeing, Explained, Kept
  <1>11. Explained(b, a)' /\ Kept(b, a)'
    BY <1>1, <1>3, <1>5, <1>6, <1>9 DEF Agreeing, Explained, Kept
  <1>12. Doomed(a, b)'
    BY SameDoomed DEF Agreeing
  <1>13. Doomed(b, a)'
    <2>1. \A f \in cs[b] : Has(net'[a], {Unsub(f)}) => Has(net[a], {Unsub(f)})
      BY <1>1
    <2> QED BY <1>1, <1>4, <2>1, SameDoomed DEF Agreeing
  <1> QED BY <1>5, <1>10, <1>11, <1>12, <1>13 DEF Agreeing

\* A node adds the feed its peer asks for.
LEMMA AddsPeer ==
  ASSUME NEW a \in Nodes, NEW b \in Nodes, a # b, cs \in [Nodes -> SUBSET Feeds], OneRequest(a, b), OneRequest(b, a),
         Agreeing(a, b), Agreeing(b, a), user' = user, net' = net, rcv'[b] = rcv[b],
         NEW g \in Feeds, rcv[a].pc = "add", rcv[a].feed = g, rcv'[a].pc = "push", cs'[a] = cs[a] \cup {g}, cs'[b] = cs[b]
  PROVE  /\ Agreeing(a, b)' /\ Agreeing(b, a)'
         /\ \A f \in Feeds : ~Granted(b, a, f) /\ (Granted(b, a, f)' <=> f = g) /\ (Granted(a, b, f)' <=> Granted(a, b, f))
  <1>1. cs[a] \subseteq Feeds /\ cs[b] \subseteq Feeds
    OBVIOUS
  <1>2. Asks(b) /\ user[b].feed = g /\ ~Has(net[b], Replies) /\ ~Has(net[b], Oks)
    BY HasMore, Apart DEF OneRequest
  <1>3. \A f \in Feeds : Granted(a, b, f)' <=> Granted(a, b, f)
    BY SameGranted
  <1>4. \A f \in Feeds : (Telling(a, b, f)' <=> Telling(a, b, f)) /\ (Telling(b, a, f)' <=> Telling(b, a, f))
    BY SameTelling
  <1>5. \A f \in Feeds : ~Granted(b, a, f) /\ (Granted(b, a, f)' <=> f = g)
    BY <1>2 DEF Granted, Asks
  <1>6. Explained(a, b)'
    BY <1>1, <1>4, <1>5 DEF Agreeing, Explained
  <1>7. Explained(b, a)'
    BY <1>1, <1>3, <1>4 DEF Agreeing, Explained
  <1>8. Kept(a, b)' /\ Kept(b, a)'
    BY <1>3, <1>4, <1>5 DEF Agreeing, Kept
  <1>9. Doomed(a, b)'
    <2>1. NoneBehind(net[b], Replies, {Unsub(g)})
      BY <1>2, NoneThere
    <2> QED BY <1>2, <2>1 DEF Agreeing, Doomed, Asks
  <1>10. Doomed(b, a)'
    BY DEF Agreeing, Doomed, Asks
  <1> QED BY <1>3, <1>5, <1>6, <1>7, <1>8, <1>9, <1>10 DEF Agreeing

\* A node takes a request to subscribe; what it has already it grants again.
LEMMA Serves ==
  ASSUME NEW a \in Nodes, NEW b \in Nodes, a # b, cs \in [Nodes -> SUBSET Feeds], OneRequest(a, b), OneRequest(b, a),
         Agreeing(a, b), Agreeing(b, a), user' = user, net'[b] = net[b], rcv'[b] = rcv[b], cs' = cs,
         NEW x \in Requests, x.type = "Sub", rcv'[a].pc = IF x.feed \in cs[a] THEN "again" ELSE "callback",
         \A S : Has(net[a], S) <=> (Has(net'[a], S) \/ x \in S),
         \A S, T : NoneBehind(net[a], S, T) <=> (NoneBehind(net'[a], S, T) /\ (x \in S => ~Has(net'[a], T)))
  PROVE  /\ Agreeing(a, b)' /\ Agreeing(b, a)'
         /\ \A f \in Feeds : ~Granted(b, a, f) /\ (Granted(b, a, f)' => f \in cs[a] /\ f \in cs[b])
         /\ \A f \in Feeds : Granted(a, b, f)' <=> Granted(a, b, f)
  <1>1. cs[a] \subseteq Feeds /\ cs[b] \subseteq Feeds
    OBVIOUS
  <1>2. Asks(b) /\ x.feed = user[b].feed /\ rcv[a].pc = "free" /\ ~Has(net[b], Replies) /\ ~Has(net'[a], Unsubs)
    BY TakesRequest
  <1>3. ~Has(net[b], Oks)
    BY <1>2, HasMore, Apart
  <1>4. /\ Has(net'[a], Oks) <=> Has(net[a], Oks)
        /\ \A f \in Feeds : ~Has(net'[a], {Unsub(f)}) /\ ~Has(net[a], {Unsub(f)})
        /\ \A f \in Feeds : NoneBehind(net'[a], Replies, {Unsub(f)})
    BY <1>2, HasMore, NoneThere, Apart
  <1>5. \A f \in Feeds : Granted(a, b, f)' <=> Granted(a, b, f)
    BY <1>4, SameGranted
  <1>6. \A f \in Feeds : (Telling(a, b, f)' <=> Telling(a, b, f)) /\ (Telling(b, a, f)' <=> Telling(b, a, f))
    BY <1>4, SameTelling
  <1>7. \A f \in Feeds : ~Granted(b, a, f) /\ (Granted(b, a, f)' => f \in cs[a])
    BY <1>2, <1>3 DEF Granted, Asks
  <1>8. Explained(a, b)'
    BY <1>1, <1>6, <1>7 DEF Agreeing, Explained
  <1>9. Explained(b, a)'
    BY <1>1, <1>5, <1>6 DEF Agreeing, Explained
  <1>10. Kept(a, b)' /\ Kept(b, a)'
    BY <1>5, <1>6, <1>7 DEF Agreeing, Kept
  <1>11. Doomed(a, b)'
    BY <1>2, <1>3, SameDoomed DEF Agreeing
  <1>12. Doomed(b, a)'
    BY <1>1, <1>4 DEF Doomed
  <1>13. \A f \in Feeds : Granted(b, a, f)' => f \in cs[a] /\ f \in cs[b]
    BY <1>2, <1>4, <1>7 DEF Agreeing, Explained, Telling, Asks
  <1> QED BY <1>5, <1>7, <1>8, <1>9, <1>10, <1>11, <1>12, <1>13 DEF Agreeing

\* The callback and the check of the feed grant nothing.
LEMMA Considers ==
  ASSUME NEW a \in Nodes, NEW b \in Nodes, a # b, cs \in [Nodes -> SUBSET Feeds], Agreeing(a, b), Agreeing(b, a),
         user' = user, net' = net, rcv'[b] = rcv[b], cs' = cs, rcv[a].pc \in {"callback", "has"}, rcv'[a].pc \in {"has", "add"}
  PROVE  /\ Agreeing(a, b)' /\ Agreeing(b, a)'
         /\ \A f \in Feeds : (Granted(a, b, f)' <=> Granted(a, b, f)) /\ (Granted(b, a, f)' <=> Granted(b, a, f))
  <1>1. \A f \in Feeds : (Granted(a, b, f)' <=> Granted(a, b, f)) /\ (Granted(b, a, f)' <=> Granted(b, a, f))
    BY SameGranted
  <1>2. \A f \in Feeds : (Telling(a, b, f)' <=> Telling(a, b, f)) /\ (Telling(b, a, f)' <=> Telling(b, a, f))
    BY SameTelling
  <1>3. Explained(a, b)' /\ Kept(a, b)' /\ Explained(b, a)' /\ Kept(b, a)'
    BY <1>1, <1>2, SameAgreeing DEF Agreeing
  <1>4. Doomed(a, b)' /\ Doomed(b, a)'
    BY SameDoomed DEF Agreeing
  <1> QED BY <1>1, <1>3, <1>4 DEF Agreeing

\* The reply is an Ok if the feed was granted.
LEMMA RepliesLater ==
  ASSUME NEW a \in Nodes, NEW b \in Nodes, a # b, cs \in [Nodes -> SUBSET Feeds], OneRequest(a, b), OneRequest(b, a),
         Agreeing(a, b), Agreeing(b, a), user' = user, rcv'[b] = rcv[b], rcv[a].pc # "free", rcv'[a].pc = "free", net'[a] = net[a],
         cs' = cs, NEW x \in Replies, x \in Oks <=> rcv[a].pc \in {"again", "push"},
         \A S \in SUBSET (Message \ Roots) : Has(net'[b], S) <=> (Has(net[b], S) \/ x \in S),
         \A S, T \in SUBSET (Message \ Roots) : NoneBehind(net'[b], S, T) <=> (NoneBehind(net[b], S, T) /\ (Has(net[b], S) => x \notin T))
  PROVE  /\ Agreeing(a, b)' /\ Agreeing(b, a)'
         /\ \A f \in Feeds : (Granted(a, b, f)' <=> Granted(a, b, f)) /\ (Granted(b, a, f)' <=> Granted(b, a, f))
  <1>1. cs[a] \subseteq Feeds /\ cs[b] \subseteq Feeds
    OBVIOUS
  <1>2. Asks(b) /\ ~Has(net[b], Replies) /\ ~Has(net[b], Oks)
    BY HasMore, Apart DEF OneRequest
  <1>3. /\ Has(net'[b], Oks) <=> x \in Oks
        /\ \A f \in Feeds : Has(net'[b], {Unsub(f)}) <=> Has(net[b], {Unsub(f)})
        /\ \A f \in Feeds : NoneBehind(net'[b], Replies, {Unsub(f)})
    <2>1. Replies \in SUBSET (Message \ Roots) /\ Oks \in SUBSET (Message \ Roots)
          /\ \A f \in Feeds : {Unsub(f)} \in SUBSET (Message \ Roots) /\ x \notin {Unsub(f)}
      BY Apart
    <2>2. \A f \in Feeds : NoneBehind(net[b], Replies, {Unsub(f)})
      BY <1>2, NoneThere
    <2> QED BY <1>2, <2>1, <2>2
  <1>4. \A f \in Feeds : Granted(a, b, f)' <=> Granted(a, b, f)
    BY SameGranted
  <1>5. \A f \in Feeds : Granted(b, a, f)' <=> Granted(b, a, f)
    BY <1>2, <1>3 DEF Granted
  <1>6. \A f \in Feeds : (Telling(a, b, f)' <=> Telling(a, b, f)) /\ (Telling(b, a, f)' <=> Telling(b, a, f))
    BY <1>3, SameTelling
  <1>7. Explained(a, b)' /\ Kept(a, b)' /\ Explained(b, a)' /\ Kept(b, a)'
    BY <1>4, <1>5, <1>6, SameAgreeing DEF Agreeing
  <1>8. Doomed(a, b)'
    BY <1>1, <1>2, <1>3 DEF Agreeing, Doomed, Asks
  <1>9. Doomed(b, a)'
    BY SameDoomed DEF Agreeing
  <1> QED BY <1>4, <1>5, <1>7, <1>8, <1>9 DEF Agreeing

\* The replies to other requests are no Ok.
LEMMA RepliesAtOnce ==
  ASSUME NEW a \in Nodes, NEW b \in Nodes, a # b, cs \in [Nodes -> SUBSET Feeds], OneRequest(a, b), OneRequest(b, a),
         Agreeing(a, b), Agreeing(b, a), user' = user, rcv' = rcv, cs' = cs,
         NEW x \in Requests, NEW y \in Replies \ Oks,
         \A S : Has(net[a], S) <=> (Has(net'[a], S) \/ x \in S),
         \A S, T : NoneBehind(net[a], S, T) <=> (NoneBehind(net'[a], S, T) /\ (x \in S => ~Has(net'[a], T))),
         \A S : Has(net'[b], S) <=> (Has(net[b], S) \/ y \in S),
         \A S, T : NoneBehind(net'[b], S, T) <=> (NoneBehind(net[b], S, T) /\ (Has(net[b], S) => y \notin T))
  PROVE  /\ Agreeing(a, b)' /\ Agreeing(b, a)'
         /\ \A f \in Feeds : (Granted(a, b, f)' <=> Granted(a, b, f)) /\ (Granted(b, a, f)' <=> Granted(b, a, f))
  <1>1. cs[a] \subseteq Feeds /\ cs[b] \subseteq Feeds
    OBVIOUS
  <1>2. /\ Has(net'[a], Oks) <=> Has(net[a], Oks)
        /\ Has(net'[b], Oks) <=> Has(net[b], Oks)
        /\ \A f \in Feeds : Has(net'[a], {Unsub(f)}) <=> Has(net[a], {Unsub(f)})
        /\ \A f \in Feeds : Has(net'[b], {Unsub(f)}) <=> Has(net[b], {Unsub(f)})
    BY Apart
  <1>3. /\ \A f \in Feeds : NoneBehind(net[a], Replies, {Unsub(f)}) => NoneBehind(net'[a], Replies, {Unsub(f)})
        /\ \A f \in Feeds : NoneBehind(net[b], Replies, {Unsub(f)}) => NoneBehind(net'[b], Replies, {Unsub(f)})
    BY Apart
  <1>4. \A f \in Feeds : (Granted(a, b, f)' <=> Granted(a, b, f)) /\ (Granted(b, a, f)' <=> Granted(b, a, f))
    BY <1>2, SameGranted
  <1>5. \A f \in Feeds : (Telling(a, b, f)' <=> Telling(a, b, f)) /\ (Telling(b, a, f)' <=> Telling(b, a, f))
    BY <1>2, SameTelling
  <1>6. Explained(a, b)' /\ Kept(a, b)' /\ Explained(b, a)' /\ Kept(b, a)'
    BY <1>4, <1>5, SameAgreeing DEF Agreeing
  <1>7. Doomed(a, b)' /\ Doomed(b, a)'
    BY <1>1, <1>2, <1>3, SameDoomed DEF Agreeing
  <1> QED BY <1>4, <1>6, <1>7 DEF Agreeing

\* The reply is taken behind every Unsub for a feed the peer has again.
LEMMA TakesReply ==
  ASSUME NEW a \in Nodes, NEW b \in Nodes, a # b, cs \in [Nodes -> SUBSET Feeds], OneRequest(a, b), OneRequest(b, a),
         Agreeing(a, b), Agreeing(b, a), rcv' = rcv, net'[b] = net[b], cs' = cs, user'[b] = user[b],
         NEW x \in Replies, user[a].pc = "wait", user'[a].pc = "wait", user'[a].feed = user[a].feed, user'[a].reply = x.what,
         \A S : Has(net[a], S) <=> (Has(net'[a], S) \/ x \in S),
         \A S, T : NoneBehind(net[a], S, T) <=> (NoneBehind(net'[a], S, T) /\ (x \in S => ~Has(net'[a], T)))
  PROVE  /\ Agreeing(a, b)' /\ Agreeing(b, a)'
         /\ \A f \in Feeds : (Granted(a, b, f)' <=> Granted(a, b, f)) /\ (Granted(b, a, f)' <=> Granted(b, a, f))
  <1>1. cs[a] \subseteq Feeds /\ cs[b] \subseteq Feeds
    OBVIOUS
  <1>2. Has(net[a], Replies)
    OBVIOUS
  <1>3. Asks(a) /\ rcv[b].pc = "free" /\ ~Has(net'[a], Replies)
    BY <1>2 DEF OneRequest
  <1>4. ~Has(net'[a], Oks) /\ (Has(net[a], Oks) <=> x.what = "ok")
    <2>1. ~Has(net'[a], Oks)
      BY <1>3, HasMore, Apart
    <2>2. x \in Oks <=> x.what = "ok"
      BY DEF Oks, Replies
    <2> QED BY <2>1, <2>2
  <1>5. \A f \in Feeds : Granted(a, b, f)' <=> Granted(a, b, f)
    BY <1>3, <1>4 DEF Granted, Asks
  <1>6. \A f \in Feeds : Granted(b, a, f)' <=> Granted(b, a, f)
    BY SameGranted
  <1>7. \A f \in Feeds : Has(net'[a], {Unsub(f)}) <=> Has(net[a], {Unsub(f)})
    BY Apart
  <1>8. \A f \in Feeds : (Telling(a, b, f)' <=> Telling(a, b, f)) /\ (Telling(b, a, f)' <=> Telling(b, a, f))
    BY <1>7, SameTelling
  <1>9. Explained(a, b)' /\ Kept(a, b)' /\ Explained(b, a)' /\ Kept(b, a)'
    BY <1>5, <1>6, <1>8, SameAgreeing DEF Agreeing
  <1>10. Doomed(a, b)'
    BY SameDoomed DEF Agreeing
  <1>11. Doomed(b, a)'
    <2>1. \A f \in cs[b] : NoneBehind(net[a], Replies, {Unsub(f)})
      BY DEF Agreeing, Doomed
    <2>2. \A f \in cs[b] : ~Has(net'[a], {Unsub(f)}) /\ NoneBehind(net'[a], Replies, {Unsub(f)})
      BY <2>1
    <2> QED BY <2>2 DEF Doomed
  <1> QED BY <1>5, <1>6, <1>9, <1>10, <1>11 DEF Agreeing

\* A Root that is taken changes nothing of it.
LEMMA TakesRoot ==
  ASSUME NEW a \in Nodes, NEW b \in Nodes, a # b, cs \in [Nodes -> SUBSET Feeds],
         Agreeing(a, b), Agreeing(b, a), user' = user, rcv' = rcv, net'[b] = net[b], cs' = cs, NEW x \in Roots,
         \A S : Has(net[a], S) <=> (Has(net'[a], S) \/ x \in S),
         \A S, T : NoneBehind(net[a], S, T) <=> (NoneBehind(net'[a], S, T) /\ (x \in S => ~Has(net'[a], T)))
  PROVE  /\ Agreeing(a, b)' /\ Agreeing(b, a)'
         /\ \A f \in Feeds : (Granted(a, b, f)' <=> Granted(a, b, f)) /\ (Granted(b, a, f)' <=> Granted(b, a, f))
  <1>1. cs[a] \subseteq Feeds /\ cs[b] \subseteq Feeds
    OBVIOUS
  <1>2. /\ Has(net'[a], Oks) <=> Has(net[a], Oks)
        /\ \A f \in Feeds : Has(net'[a], {Unsub(f)}) <=> Has(net[a], {Unsub(f)})
        /\ \A f \in Feeds : NoneBehind(net[a], Replies, {Unsub(f)}) => NoneBehind(net'[a], Replies, {Unsub(f)})
    BY Apart
  <1>3. \A f \in Feeds : (Granted(a, b, f)' <=> Granted(a, b, f)) /\ (Granted(b, a, f)' <=> Granted(b, a, f))
    BY <1>2, SameGranted
  <1>4. \A f \in Feeds : (Telling(a, b, f)' <=> Telling(a, b, f)) /\ (Telling(b, a, f)' <=> Telling(b, a, f))
    BY <1>2, SameTelling
  <1>5. Explained(a, b)' /\ Kept(a, b)' /\ Explained(b, a)' /\ Kept(b, a)'
    BY <1>3, <1>4, SameAgreeing DEF Agreeing
  <1>6. Doomed(a, b)' /\ Doomed(b, a)'
    BY <1>1, <1>2, SameDoomed DEF Agreeing
  <1> QED BY <1>3, <1>5, <1>6 DEF Agreeing

-----------------------------------------------------------------------------
(* Which Roots are on the way.                                             *)

\* Nothing newer is on the way, if nothing newer is sent.
LEMMA StillKnown ==
  ASSUME NEW n \in Nodes, NEW m \in Nodes, db \in [Nodes -> [Feeds -> Nat]], db' \in [Nodes -> [Feeds -> Nat]],
         Known(n, m), \A f \in Feeds : db[n][f] <= db'[n][f],
         Has(net'[m], AheadRoots(db'[n])) => Has(net[m], AheadRoots(db'[n])),
         Has(net'[m], AheadReplies(db'[n])) => Has(net[m], AheadReplies(db'[n])),
         Has(queue'[m], AheadEntries(db'[n])) => Has(queue[m], AheadEntries(db'[n]))
  PROVE  Known(n, m)'
  <1>1. \A f \in Feeds : db[n][f] \in Nat /\ db'[n][f] \in Nat
    OBVIOUS
  <1>2. AheadRoots(db'[n]) \subseteq AheadRoots(db[n])
    <2> SUFFICES ASSUME NEW x \in Roots, x.seq > db'[n][x.feed] PROVE x.seq > db[n][x.feed]
      BY DEF AheadRoots
    <2>1. x.feed \in Feeds /\ x.seq \in Nat
      BY DEF Roots, Message
    <2> QED BY <1>1, <2>1
  <1>3. AheadReplies(db'[n]) \subseteq AheadReplies(db[n])
    <2> SUFFICES ASSUME NEW x \in Replies, x.what = "root", x.seq > db'[n][x.feed] PROVE x.seq > db[n][x.feed]
      BY DEF AheadReplies
    <2>1. x.feed \in Feeds /\ x.seq \in Nat
      BY DEF Replies, Message
    <2> QED BY <1>1, <2>1
  <1>4. AheadEntries(db'[n]) \subseteq AheadEntries(db[n])
    <2> SUFFICES ASSUME NEW x \in Entry, x.seq > db'[n][x.feed] PROVE x.seq > db[n][x.feed]
      BY DEF AheadEntries
    <2>1. x.feed \in Feeds /\ x.seq \in Nat
      BY DEF Entry
    <2> QED BY <1>1, <2>1
  <1>5. ~Has(net'[m], AheadRoots(db'[n]))
    BY <1>2, HasMore DEF Known
  <1>6. ~Has(net'[m], AheadReplies(db'[n]))
    BY <1>3, HasMore DEF Known
  <1>7. ~Has(queue'[m], AheadEntries(db'[n]))
    BY <1>4, HasMore DEF Known
  <1> QED BY <1>5, <1>6, <1>7 DEF Known

\* The sender has what it sends.
LEMMA NotAhead ==
  ASSUME TypeOK, NEW n \in Nodes
  PROVE  /\ \A x \in Unsubs \cup Requests : x \notin AheadRoots(db[n]) /\ x \notin AheadReplies(db[n])
         /\ \A f \in Feeds : Root(f, db[n][f]) \notin AheadRoots(db[n]) /\ Root(f, db[n][f]) \notin AheadReplies(db[n])
         /\ \A w \in {"ok", "err", "list"}, id \in Nat :
              Reply(w, id) \notin AheadRoots(db[n]) /\ Reply(w, id) \notin AheadReplies(db[n])
         /\ \A f \in Feeds, id \in Nat :
              RootReply(id, f, db[n][f]) \notin AheadRoots(db[n]) /\ RootReply(id, f, db[n][f]) \notin AheadReplies(db[n])
  <1>1. \A f \in Feeds : db[n][f] \in Nat
    BY DEF TypeOK
  <1>2. \A x \in Unsubs \cup Requests : x \notin AheadRoots(db[n]) /\ x \notin AheadReplies(db[n])
    BY DEF Unsubs, Requests, AheadRoots, AheadReplies, Roots, Replies
  <1>3. \A f \in Feeds : Root(f, db[n][f]) \notin AheadRoots(db[n]) /\ Root(f, db[n][f]) \notin AheadReplies(db[n])
    BY <1>1 DEF Root, AheadRoots, AheadReplies, Replies
  <1>4. \A w \in {"ok", "err", "list"}, id \in Nat : Reply(w, id) \notin AheadRoots(db[n]) /\ Reply(w, id) \notin AheadReplies(db[n])
    BY DEF Reply, AheadRoots, AheadReplies, Roots
  <1>5. \A f \in Feeds, id \in Nat : RootReply(id, f, db[n][f]) \notin AheadRoots(db[n]) /\ RootReply(id, f, db[n][f]) \notin AheadReplies(db[n])
    BY <1>1 DEF RootReply, AheadRoots, AheadReplies, Roots
  <1> QED BY <1>2, <1>3, <1>4, <1>5

\* What brings a Root goes on bringing it.
LEMMA SameSupplied ==
  ASSUME NEW n \in Nodes, NEW m \in Nodes, cs \in [Nodes -> SUBSET Feeds], Supplied(n, m),
         past.early => past'.early, cs'[n] \subseteq cs[n], cs'[m] \subseteq cs[m], db' = db, queue'[m] = queue[m],
         \A f \in Feeds : Granted(n, m, f) => Granted(n, m, f)',
         \A f \in Feeds : Granted(m, n, f)' => (Granted(m, n, f) \/ f \in cs[m]),
         \A f \in Feeds : Has(net[m], FreshRoots(f, db[n][f])) => Has(net'[m], FreshRoots(f, db[n][f])),
         \A f \in cs'[n] : user[n].pc \in {"broadcast", "push"} /\ user[n].feed = f =>
            user'[n] = user[n] \/ db[m][f] >= db[n][f] \/ Has(net'[m], FreshRoots(f, db[n][f])),
         \A f \in cs'[n] : rcv[n].pc = "push" /\ rcv[n].feed = f =>
            rcv'[n] = rcv[n] \/ db[m][f] >= db[n][f] \/ Has(net'[m], FreshRoots(f, db[n][f]))
  PROVE  Supplied(n, m)'
  <1> SUFFICES ASSUME ~past'.early, NEW f \in cs'[n], f \in cs'[m] \/ Granted(m, n, f)' PROVE Coming(n, m, f)'
    BY DEF Supplied
  <1>1. f \in cs[n] /\ f \in Feeds /\ (f \in cs[m] \/ Granted(m, n, f))
    OBVIOUS
  <1>2. Coming(n, m, f)
    BY <1>1 DEF Supplied
  <1> QED BY <1>1, <1>2 DEF Coming

\* A Root as new as that of the sender is fresh, other messages are not.
LEMMA Fresh ==
  ASSUME TypeOK, NEW n \in Nodes, NEW f \in Feeds
  PROVE  /\ Root(f, db[n][f]) \in FreshRoots(f, db[n][f])
         /\ \A x \in Unsubs \cup Requests \cup Replies : x \notin FreshRoots(f, db[n][f])
         /\ FreshRoots(f, db[n][f]) \in SUBSET Roots
  <1>1. db[n][f] \in Nat /\ Root(f, db[n][f]) \in Roots
    BY Kinds DEF TypeOK
  <1>2. Root(f, db[n][f]) \in FreshRoots(f, db[n][f])
    BY <1>1 DEF FreshRoots, Root
  <1>3. \A x \in Unsubs \cup Requests \cup Replies : x \notin FreshRoots(f, db[n][f])
    BY Apart DEF FreshRoots
  <1> QED BY <1>2, <1>3 DEF FreshRoots

-----------------------------------------------------------------------------
(* Every step keeps the connection.                                        *)

\* The two ends of a live connection: a acts, b is its peer.
Pair(a, b) ==
  /\ TypeOK /\ Answers /\ alive /\ a # b /\ b = Peer(a) /\ a = Peer(b)
  /\ OneRequest(a, b) /\ Agreeing(a, b) /\ Known(a, b) /\ Supplied(a, b)
  /\ OneRequest(b, a) /\ Agreeing(b, a) /\ Known(b, a) /\ Supplied(b, a)

Joined(a, b) == Connected(a, b) /\ Connected(b, a)

\* A step that changes no Root of the two, and takes none off.
LEMMA KeepsRoots ==
  ASSUME NEW a \in Nodes, NEW b \in Nodes, Pair(a, b), TypeOK', db' = db, queue' = queue, past.early => past'.early,
         cs'[a] \subseteq cs[a], cs'[b] = cs[b], user'[b] = user[b], rcv'[b] = rcv[b],
         Has(net'[b], AheadRoots(db[a])) => Has(net[b], AheadRoots(db[a])),
         Has(net'[b], AheadReplies(db[a])) => Has(net[b], AheadReplies(db[a])),
         Has(net'[a], AheadRoots(db[b])) => Has(net[a], AheadRoots(db[b])),
         Has(net'[a], AheadReplies(db[b])) => Has(net[a], AheadReplies(db[b])),
         \A f \in Feeds : Has(net[b], FreshRoots(f, db[a][f])) => Has(net'[b], FreshRoots(f, db[a][f])),
         \A f \in Feeds : Has(net[a], FreshRoots(f, db[b][f])) => Has(net'[a], FreshRoots(f, db[b][f])),
         \A f \in Feeds : Granted(a, b, f)' <=> Granted(a, b, f),
         \A f \in Feeds : Granted(b, a, f) => Granted(b, a, f)',
         \A f \in Feeds : Granted(b, a, f)' => Granted(b, a, f) \/ f \in cs[b],
         \A f \in cs'[a] : user[a].pc \in {"broadcast", "push"} /\ user[a].feed = f =>
            user'[a] = user[a] \/ db[b][f] >= db[a][f] \/ Has(net'[b], FreshRoots(f, db[a][f])),
         \A f \in cs'[a] : rcv[a].pc = "push" /\ rcv[a].feed = f =>
            rcv'[a] = rcv[a] \/ db[b][f] >= db[a][f] \/ Has(net'[b], FreshRoots(f, db[a][f]))
  PROVE  Known(a, b)' /\ Known(b, a)' /\ Supplied(a, b)' /\ Supplied(b, a)'
  <1>1. cs \in [Nodes -> SUBSET Feeds] /\ db \in [Nodes -> [Feeds -> Nat]] /\ db' \in [Nodes -> [Feeds -> Nat]]
    BY DEF Pair, TypeOK
  <1>2. \A n \in Nodes : \A f \in Feeds : db[n][f] <= db'[n][f]
    BY <1>1
  <1>3. Known(a, b)'
    BY <1>1, <1>2, StillKnown DEF Pair
  <1>4. Known(b, a)'
    BY <1>1, <1>2, StillKnown DEF Pair
  <1>5. Supplied(a, b)'
    BY <1>1, SameSupplied DEF Pair
  <1>6. Supplied(b, a)'
    BY <1>1, SameSupplied DEF Pair
  <1> QED BY <1>3, <1>4, <1>5, <1>6

\* A step of the user that changes neither the feeds nor the answers, and
\* sends nothing.
LEMMA Silent ==
  ASSUME NEW a \in Nodes, NEW b \in Nodes, Pair(a, b), TypeOK',
         cs' = cs, db' = db, queue' = queue, net' = net, rcv' = rcv, past'.early = past.early, user'[b] = user[b],
         ~Asks(a), user[a].pc \notin {"notify", "broadcast", "push"}, user'[a].pc \notin {"wait", "notify"},
         user'[a].pc = "add" => user[a].pc = "wait",
         \A f \in Feeds : Granted(a, b, f)' <=> Granted(a, b, f)
  PROVE  Joined(a, b)'
  <1>1. cs \in [Nodes -> SUBSET Feeds]
    BY DEF Pair, TypeOK
  <1>2. OneRequest(a, b)' /\ OneRequest(b, a)'
    BY NotAsking DEF Pair
  <1>3. /\ Agreeing(a, b)' /\ Agreeing(b, a)'
        /\ \A f \in Feeds : Granted(b, a, f)' <=> Granted(b, a, f)
    BY <1>1, QuietUser DEF Pair
  <1>4. Known(a, b)' /\ Known(b, a)' /\ Supplied(a, b)' /\ Supplied(b, a)'
    BY <1>3, KeepsRoots
  <1> QED BY <1>2, <1>3, <1>4 DEF Joined, Connected

\* The user begins a call.
LEMMA CallConn ==
  ASSUME NEW a \in Nodes, NEW b \in Nodes, Pair(a, b), TypeOK', Call(a)
  PROVE  Joined(a, b)'
  <1>1. PICK c \in Calls[a] : user' = [user EXCEPT ![a] = [pc |-> c[1], feed |-> c[2], id |-> past.calls + 1, reply |-> "none"]]
    BY DEF Call
  <1>2. c[1] \in Methods
    BY CallsAssumption
  <1>3. user'[a].pc \in Methods /\ user'[b] = user[b] /\ user[a].pc = "free" /\ past'.early = past.early
    BY <1>1, <1>2 DEF Call, At, Pair, TypeOK, Pasts
  <1>4. user'[a].pc \notin {"wait", "add", "notify"}
    BY <1>3 DEF Methods
  <1>5. \A f \in Feeds : Granted(a, b, f)' <=> Granted(a, b, f)
    BY <1>3, <1>4 DEF Granted
  <1> QED BY <1>3, <1>4, <1>5, Silent DEF Call, Asks

\* It shares the feed, which only concerns the node.
LEMMA ShareConn ==
  ASSUME NEW a \in Nodes, NEW b \in Nodes, Pair(a, b), TypeOK', Share(a)
  PROVE  Joined(a, b)'
  <1>1. user[a].pc \in {"Subscribe", "Share"}
    BY DEF Share, At
  <1>2. user'[a].pc \in {"request", "free"} /\ user'[b] = user[b]
    <2>1. CASE To(a, "request")
      BY <1>1, <2>1, GoesOn DEF Pair, Pcs
    <2>2. CASE Done(a)
      BY <2>2, Ends DEF Pair
    <2> QED BY <2>1, <2>2 DEF Share
  <1>3. \A f \in Feeds : Granted(a, b, f)' <=> Granted(a, b, f)
    BY <1>1, <1>2 DEF Granted
  <1> QED BY <1>1, <1>2, <1>3, Silent DEF Share, Asks

\* It goes on with the answer; only an Ok of Subscribe is a grant.
LEMMA RepliedConn ==
  ASSUME NEW a \in Nodes, NEW b \in Nodes, Pair(a, b), TypeOK', Replied(a)
  PROVE  Joined(a, b)'
  <1>1. user[a].pc = "wait" /\ user[a].reply # "none"
    BY DEF Replied, At
  <1>2. ~Has(net[a], Replies) /\ rcv[b].pc = "free"
    BY <1>1 DEF Pair, OneRequest, Asks
  <1>3. ~Has(net[a], Oks)
    BY <1>2, Apart, HasMore
  <1>4. /\ user'[b] = user[b] /\ user'[a].pc \in {"add", "free", "Subscribe"}
        /\ user'[a].pc = "add" => user'[a].feed = user[a].feed
        /\ user'[a].pc = "add" <=> user[a].reply = "ok"
    <2>1. CASE user[a].reply = "ok" /\ To(a, "add")
      BY <1>1, <2>1, GoesOn DEF Pair, Pcs
    <2>2. CASE user[a].reply \in {"err", "list", "root"} /\ Done(a)
      BY <2>2, Ends DEF Pair
    <2>3. CASE /\ user[a].reply = "root"
               /\ user' = [user EXCEPT ![a] = [user[a] EXCEPT !.pc = "Subscribe", !.id = @ + MaxCalls, !.reply = "none"]]
      <3>1. user[a] \in [pc : Pcs, feed : Feeds, id : Nat, reply : {"none", "ok", "err", "list", "root"}] /\ user \in [Nodes -> Users]
        BY <1>1 DEF Pair, TypeOK, Users, Free
      <3>2. user'[a].pc = "Subscribe"
        BY <2>3, <3>1
      <3> QED BY <2>3, <3>1, <3>2 DEF Pair
    <2> QED BY <2>1, <2>2, <2>3 DEF Replied
  <1>5. \A f \in Feeds : Granted(a, b, f)' <=> Granted(a, b, f)
    BY <1>1, <1>2, <1>3, <1>4 DEF Granted, Replied
  <1> QED BY <1>1, <1>4, <1>5, Silent DEF Replied, Asks

\* It lists the feeds.
LEMMA ListConn ==
  ASSUME NEW a \in Nodes, NEW b \in Nodes, Pair(a, b), TypeOK', List(a)
  PROVE  Joined(a, b)'
  <1>1. user[a].pc = "Feeds" /\ user'[a].pc = "free" /\ user'[b] = user[b]
    BY Ends DEF Pair, List, At
  <1>2. \A f \in Feeds : Granted(a, b, f)' <=> Granted(a, b, f)
    BY <1>1 DEF Granted
  <1> QED BY <1>1, <1>2, Silent DEF List, Asks

\* It sends a request.
LEMMA sendRequestConn ==
  ASSUME NEW a \in Nodes, NEW b \in Nodes, Pair(a, b), TypeOK', sendRequest(a)
  PROVE  Joined(a, b)'
  <1> DEFINE type == CASE At(a, "request") -> "Sub" [] At(a, "RemoteFeeds") -> "RqList" [] At(a, "Preview") -> "RqPreview" [] OTHER -> "none"
             x == [type |-> type, feed |-> user[a].feed, id |-> user[a].id]
  <1>1. user[a].pc \in {"request", "RemoteFeeds", "Preview"} /\ type \in {"Sub", "RqList", "RqPreview"}
    BY DEF sendRequest, At
  <1>2. Send(a, <<x>>) /\ To(a, "wait")
    BY DEF sendRequest
  <1> HIDE DEF type
  <1>3. user[a].pc # "free" /\ user[a].feed \in Feeds /\ user[a].id \in Nat /\ user[a].reply = "none"
    BY <1>1, InCall DEF Pair, Answers
  <1>4. x \in Requests /\ x \in Message /\ x.type = type /\ x.feed = user[a].feed /\ x.id = user[a].id
    BY <1>1, <1>3, Kinds DEF Requests
  <1>5. /\ user'[a].pc = "wait" /\ user'[a].feed = user[a].feed /\ user'[a].id = user[a].id /\ user'[a].reply = "none"
        /\ user'[b] = user[b]
    BY <1>2, <1>3, GoesOn DEF Pair, Pcs
  <1>6. x \notin StrangeRequests(user'[a])
    BY <1>4, <1>5 DEF StrangeRequests
  <1>7. /\ net'[a] = net[a]
        /\ \A S : Has(net'[b], S) <=> (Has(net[b], S) \/ x \in S)
        /\ \A S, T : NoneBehind(net'[b], S, T) <=> (NoneBehind(net[b], S, T) /\ (Has(net[b], S) => x \notin T))
    <2>1. TypeOK /\ alive /\ b = Peer(a)
      BY DEF Pair
    <2> HIDE DEF x
    <2> QED BY <1>2, <1>4, <2>1, Sent
  <1> HIDE DEF x
  <1>8. cs \in [Nodes -> SUBSET Feeds] /\ cs' = cs /\ rcv' = rcv /\ db' = db /\ queue' = queue /\ past' = past
    BY DEF Pair, TypeOK, sendRequest
  <1>9. OneRequest(a, b)' /\ OneRequest(b, a)' /\ ~Taken(a, b)'
    BY <1>1, <1>4, <1>5, <1>6, <1>7, <1>8, Asking DEF Pair, Asks
  <1>10. \A f \in Feeds : Granted(a, b, f)' <=> Granted(a, b, f)
    <2>1. user'[a].reply = "none" /\ rcv'[b].pc = "free" /\ ~Has(net'[a], Replies)
      BY <1>5, <1>9 DEF Taken
    <2>2. ~Has(net'[a], Oks)
      BY <2>1, Apart, HasMore
    <2> QED BY <1>1, <1>5, <2>1, <2>2 DEF Granted
  <1>11. /\ Agreeing(a, b)' /\ Agreeing(b, a)'
         /\ \A f \in Feeds : Granted(b, a, f)' <=> Granted(b, a, f)
    BY <1>1, <1>4, <1>5, <1>7, <1>8, <1>10, QuietUser DEF Pair, Asks
  <1>12. x \notin AheadRoots(db[a]) /\ x \notin AheadReplies(db[a])
    BY <1>4, NotAhead DEF Pair
  <1>13. Known(a, b)' /\ Known(b, a)' /\ Supplied(a, b)' /\ Supplied(b, a)'
    BY <1>1, <1>5, <1>7, <1>8, <1>10, <1>11, <1>12, KeepsRoots
  <1> QED BY <1>9, <1>11, <1>13 DEF Joined, Connected

\* It sends its last Root of g, or has no need to.
LEMMA Brings ==
  ASSUME NEW a \in Nodes, NEW b \in Nodes, Pair(a, b), TypeOK', NEW g \in Feeds,
         cs' = cs, db' = db, queue' = queue, rcv' = rcv, past' = past, user'[b] = user[b], net'[a] = net[a],
         user[a].pc \in {"broadcast", "push"}, user[a].feed = g, user'[a].pc = "free",
         \/ net' = net /\ (db[a][g] = 0 \/ g \notin cs[a])
         \/ /\ \A S : Has(net'[b], S) <=> (Has(net[b], S) \/ Root(g, db[a][g]) \in S)
            /\ \A S, T : NoneBehind(net'[b], S, T) <=> (NoneBehind(net[b], S, T) /\ (Has(net[b], S) => Root(g, db[a][g]) \notin T))
  PROVE  Joined(a, b)'
  <1>1. cs \in [Nodes -> SUBSET Feeds] /\ \A n \in Nodes : \A f \in Feeds : db[n][f] \in Nat
    BY DEF Pair, TypeOK
  <1>2. Root(g, db[a][g]) \in Roots /\ ~Asks(a)
    BY <1>1, Kinds DEF Asks
  <1>3. OneRequest(a, b)' /\ OneRequest(b, a)'
    BY <1>2, NotAsking DEF Pair
  <1>4. \A f \in Feeds : Granted(a, b, f)' <=> Granted(a, b, f)
    BY DEF Granted
  <1>5. /\ Agreeing(a, b)' /\ Agreeing(b, a)'
        /\ \A f \in Feeds : Granted(b, a, f)' <=> Granted(b, a, f)
    BY <1>1, <1>2, <1>4, QuietUser DEF Pair
  <1>6. Root(g, db[a][g]) \notin AheadRoots(db[a]) /\ Root(g, db[a][g]) \notin AheadReplies(db[a])
    BY NotAhead DEF Pair
  <1>7. g \in cs[a] => db[b][g] >= db[a][g] \/ Has(net'[b], FreshRoots(g, db[a][g]))
    BY <1>1, Fresh DEF Pair
  <1>8. Known(a, b)' /\ Known(b, a)' /\ Supplied(a, b)' /\ Supplied(b, a)'
    BY <1>1, <1>4, <1>5, <1>6, <1>7, KeepsRoots
  <1> QED BY <1>3, <1>5, <1>8 DEF Joined, Connected

\* After Subscribe it sends the last Root.
LEMMA SubscribePushConn ==
  ASSUME NEW a \in Nodes, NEW b \in Nodes, Pair(a, b), TypeOK', SubscribePush(a)
  PROVE  Joined(a, b)'
  <1>1. user[a].pc = "push" /\ user[a].feed \in Feeds
    BY InCall DEF Pair, SubscribePush, At
  <1>2. user'[a].pc = "free" /\ user'[b] = user[b]
    BY Ends DEF Pair, SubscribePush
  <1> DEFINE g == user[a].feed
  <1>3. net'[a] = net[a] /\ (\/ net' = net /\ db[a][g] = 0
                             \/ /\ \A S : Has(net'[b], S) <=> (Has(net[b], S) \/ Root(g, db[a][g]) \in S)
                                /\ \A S, T : NoneBehind(net'[b], S, T) <=>
                                      (NoneBehind(net[b], S, T) /\ (Has(net[b], S) => Root(g, db[a][g]) \notin T)))
    <2>1. TypeOK /\ alive /\ b = Peer(a) /\ Send(a, LastRoot(a, g))
      BY DEF Pair, SubscribePush
    <2> HIDE DEF g
    <2>2. g \in Feeds
      BY <1>1 DEF g
    <2> QED BY <2>1, <2>2, Rooted
  <1> QED BY <1>1, <1>2, <1>3, Brings DEF SubscribePush

\* It publishes the Root it has saved.
LEMMA PublishConn ==
  ASSUME NEW a \in Nodes, NEW b \in Nodes, Pair(a, b), TypeOK', Publish(a)
  PROVE  Joined(a, b)'
  <1>1. user[a].pc = "broadcast" /\ user[a].feed \in Feeds
    BY InCall DEF Pair, Publish, At
  <1>2. user'[a].pc = "free" /\ user'[b] = user[b]
    BY Ends DEF Pair, Publish
  <1> DEFINE g == user[a].feed
             x == Root(g, db[a][g])
  <1>3. x \in Message
    BY <1>1, Kinds DEF Pair, TypeOK, Roots
  <1>4. CASE g \in cs[a]
    <2>1. Send(a, <<x>>)
      BY <1>4 DEF Publish, handleBroadcastRoot
    <2>2. /\ net'[a] = net[a]
          /\ \A S : Has(net'[b], S) <=> (Has(net[b], S) \/ x \in S)
          /\ \A S, T : NoneBehind(net'[b], S, T) <=> (NoneBehind(net[b], S, T) /\ (Has(net[b], S) => x \notin T))
      BY <1>3, <2>1, Sent DEF Pair
    <2> QED BY <1>1, <1>2, <2>2, Brings DEF Publish
  <1>5. CASE g \notin cs[a]
    <2>1. Send(a, <<>>)
      BY <1>5 DEF Publish, handleBroadcastRoot
    <2>2. net' = net
      BY <2>1, SentNone DEF Pair
    <2> QED BY <1>1, <1>2, <1>5, <2>2, Brings DEF Publish
  <1> QED BY <1>4, <1>5

\* It leaves a feed.
LEMMA Leaves ==
  ASSUME NEW a \in Nodes, NEW b \in Nodes, Pair(a, b), TypeOK', NEW g \in Feeds,
         db' = db, queue' = queue, rcv' = rcv, past' = past, user'[b] = user[b], net'[a] = net[a],
         cs'[a] = cs[a] \ {g}, cs'[b] = cs[b],
         user[a].pc \notin {"wait", "add", "notify", "broadcast", "push"},
         \/ net' = net /\ user'[a].pc = "notify" /\ user'[a].feed = g
         \/ /\ user'[a].pc = "free"
            /\ \A S : Has(net'[b], S) <=> (Has(net[b], S) \/ Unsub(g) \in S)
            /\ \A S, T : NoneBehind(net'[b], S, T) <=> (NoneBehind(net[b], S, T) /\ (Has(net[b], S) => Unsub(g) \notin T))
  PROVE  Joined(a, b)'
  <1>1. cs \in [Nodes -> SUBSET Feeds] /\ Unsub(g) \in Unsubs
    BY Kinds DEF Pair, TypeOK
  <1>2. ~Asks(a) /\ user'[a].pc \in {"free", "notify"}
    BY DEF Asks
  <1>3. OneRequest(a, b)' /\ OneRequest(b, a)'
    BY <1>1, <1>2, NotAsking DEF Pair
  <1>4. \A f \in Feeds : Telling(a, b, f)' <=> (Telling(a, b, f) \/ f = g)
    <2>1. \A f \in Feeds : Unsub(g) \in {Unsub(f)} <=> f = g
      BY DEF Unsub
    <2> QED BY <2>1 DEF Telling
  <1>5. /\ Agreeing(a, b)' /\ Agreeing(b, a)'
        /\ \A f \in Feeds : (Granted(a, b, f)' <=> Granted(a, b, f)) /\ (Granted(b, a, f)' <=> Granted(b, a, f))
    BY <1>1, <1>2, <1>4, Leaving DEF Pair
  <1>6. /\ Unsub(g) \notin AheadRoots(db[a]) /\ Unsub(g) \notin AheadReplies(db[a])
    BY <1>1, NotAhead DEF Pair
  <1>7. Known(a, b)' /\ Known(b, a)' /\ Supplied(a, b)' /\ Supplied(b, a)'
    BY <1>1, <1>5, <1>6, KeepsRoots
  <1> QED BY <1>3, <1>5, <1>7 DEF Joined, Connected

LEMMA UnsubscribeConn ==
  ASSUME NEW a \in Nodes, NEW b \in Nodes, Pair(a, b), TypeOK', Unsubscribe(a)
  PROVE  Joined(a, b)'
  <1>1. user[a].pc = "Unsubscribe" /\ user[a].feed \in Feeds
    BY InCall DEF Pair, Unsubscribe, At
  <1>2. user'[a].pc = "notify" /\ user'[a].feed = user[a].feed /\ user'[b] = user[b]
    BY <1>1, GoesOn DEF Pair, Unsubscribe, Pcs
  <1>3. cs'[a] = cs[a] \ {user[a].feed} /\ cs'[b] = cs[b]
    BY DEF Pair, TypeOK, Unsubscribe, handleDelConnFeed
  <1> QED BY <1>1, <1>2, <1>3, Leaves DEF Unsubscribe

LEMMA DontShareConn ==
  ASSUME NEW a \in Nodes, NEW b \in Nodes, Pair(a, b), TypeOK', DontShare(a)
  PROVE  Joined(a, b)'
  <1> DEFINE g == user[a].feed
             x == Unsub(g)
  <1>1. user[a].pc = "DontShare" /\ g \in Feeds
    BY InCall DEF Pair, DontShare, At
  <1>2. user'[a].pc = "free" /\ user'[b] = user[b]
    BY Ends DEF Pair, DontShare
  <1>3. cs'[a] = cs[a] \ {g} /\ cs'[b] = cs[b] /\ cs \in [Nodes -> SUBSET Feeds] /\ cs' = [cs EXCEPT ![a] = @ \ {g}]
    BY DEF Pair, TypeOK, DontShare, handleDelFeed
  <1>4. CASE g \in cs[a]
    <2>1. Send(a, <<x>>) /\ TypeOK /\ alive /\ b = Peer(a)
      BY <1>4 DEF DontShare, handleDelFeed, Pair
    <2>2. x \in Message
      BY <1>1, Kinds DEF Unsubs
    <2>3. /\ net'[a] = net[a]
          /\ \A S : Has(net'[b], S) <=> (Has(net[b], S) \/ x \in S)
          /\ \A S, T : NoneBehind(net'[b], S, T) <=> (NoneBehind(net[b], S, T) /\ (Has(net[b], S) => x \notin T))
      <3> HIDE DEF x
      <3> QED BY <2>1, <2>2, Sent
    <2> QED BY <1>1, <1>2, <1>3, <2>3, Leaves DEF DontShare
  <1>5. CASE g \notin cs[a]
    <2>1. Send(a, <<>>)
      BY <1>5 DEF DontShare, handleDelFeed
    <2>2. net' = net
      BY <2>1, SentNone DEF Pair
    <2>3. cs' = cs
      BY <1>3, <1>5
    <2>4. \A f \in Feeds : Granted(a, b, f)' <=> Granted(a, b, f)
      BY <1>1, <1>2 DEF Granted
    <2> QED BY <1>1, <1>2, <2>2, <2>3, <2>4, Silent DEF DontShare, Asks
  <1> QED BY <1>4, <1>5

\* It tells the peer it has left, and has not come back.
LEMMA NotifyConn ==
  ASSUME NEW a \in Nodes, NEW b \in Nodes, Pair(a, b), TypeOK', Notify(a), ~past'.crossed
  PROVE  Joined(a, b)'
  <1> DEFINE g == user[a].feed
             x == Unsub(g)
  <1>1. user[a].pc = "notify" /\ g \in Feeds
    BY InCall DEF Pair, Notify, At
  <1>2. user'[a].pc = "free" /\ user'[b] = user[b]
    BY Ends DEF Pair, Notify
  <1>3. cs' = cs /\ rcv' = rcv /\ db' = db /\ queue' = queue /\ cs \in [Nodes -> SUBSET Feeds]
    BY DEF Pair, TypeOK, Notify
  <1>4. past'.early = past.early /\ g \notin cs[a]
    BY DEF Pair, TypeOK, Pasts, Notify
  <1>5. x \in Unsubs /\ x \in Message
    BY <1>1, Kinds DEF Unsubs
  <1>6. /\ net'[a] = net[a]
        /\ \A S : Has(net'[b], S) <=> (Has(net[b], S) \/ x \in S)
        /\ \A S, T : NoneBehind(net'[b], S, T) <=> (NoneBehind(net[b], S, T) /\ (Has(net[b], S) => x \notin T))
    <2>1. Send(a, <<x>>) /\ TypeOK /\ alive /\ b = Peer(a)
      BY DEF Notify, Pair
    <2> HIDE DEF x
    <2> QED BY <1>5, <2>1, Sent
  <1>7. ~Asks(a)
    BY <1>1 DEF Asks
  <1>8. OneRequest(a, b)' /\ OneRequest(b, a)'
    BY <1>2, <1>3, <1>5, <1>6, <1>7, NotAsking DEF Pair
  <1>9. /\ Agreeing(a, b)' /\ Agreeing(b, a)'
        /\ \A f \in Feeds : (Granted(a, b, f)' <=> Granted(a, b, f)) /\ (Granted(b, a, f)' <=> Granted(b, a, f))
    BY <1>1, <1>2, <1>3, <1>4, <1>6, Tells DEF Pair
  <1>10. x \notin AheadRoots(db[a]) /\ x \notin AheadReplies(db[a])
    BY <1>5, NotAhead DEF Pair
  <1>11. Known(a, b)' /\ Known(b, a)' /\ Supplied(a, b)' /\ Supplied(b, a)'
    BY <1>1, <1>2, <1>3, <1>4, <1>6, <1>9, <1>10, KeepsRoots
  <1> QED BY <1>8, <1>9, <1>11 DEF Joined, Connected

\* It saves a Root that it has to publish.
LEMMA SaveConn ==
  ASSUME NEW a \in Nodes, NEW b \in Nodes, Pair(a, b), TypeOK', Save(a)
  PROVE  Joined(a, b)'
  <1> DEFINE g == user[a].feed
  <1>1. user[a].pc = "Publish" /\ g \in Feeds
    BY InCall DEF Pair, Save, At
  <1>2. user'[a].pc = "broadcast" /\ user'[a].feed = g /\ user'[b] = user[b]
    BY <1>1, GoesOn DEF Pair, Save, Pcs
  <1>3. cs' = cs /\ rcv' = rcv /\ net' = net /\ queue' = queue /\ past' = past /\ cs \in [Nodes -> SUBSET Feeds]
    BY DEF Pair, TypeOK, Save
  <1>4. db \in [Nodes -> [Feeds -> Nat]] /\ db' \in [Nodes -> [Feeds -> Nat]] /\ db' = [db EXCEPT ![a][g] = @ + 1]
    BY DEF Pair, TypeOK, Save
  <1>5. /\ \A n \in Nodes, f \in Feeds : db[n][f] \in Nat /\ db'[n][f] \in Nat /\ db[n][f] <= db'[n][f]
        /\ \A f \in Feeds : f # g => db'[a][f] = db[a][f]
        /\ db'[b] = db[b]
    BY <1>1, <1>4 DEF Pair
  <1>6. ~Asks(a)
    BY <1>1 DEF Asks
  <1>7. OneRequest(a, b)' /\ OneRequest(b, a)'
    BY <1>1, <1>2, <1>3, <1>6, NotAsking DEF Pair
  <1>8. \A f \in Feeds : Granted(a, b, f)' <=> Granted(a, b, f)
    BY <1>1, <1>2 DEF Granted
  <1>9. /\ Agreeing(a, b)' /\ Agreeing(b, a)'
        /\ \A f \in Feeds : Granted(b, a, f)' <=> Granted(b, a, f)
    BY <1>1, <1>2, <1>3, <1>6, <1>8, QuietUser DEF Pair
  <1>10. Known(a, b)' /\ Known(b, a)'
    BY <1>3, <1>4, <1>5, StillKnown DEF Pair
  <1>11. Supplied(a, b)'
    <2> SUFFICES ASSUME ~past'.early, NEW f \in cs'[a], f \in cs'[b] \/ Granted(b, a, f)' PROVE Coming(a, b, f)'
      BY DEF Supplied
    <2>1. f \in Feeds /\ Coming(a, b, f)
      BY <1>3, <1>9 DEF Pair, Supplied
    <2>2. CASE f = g
      BY <1>2, <2>2 DEF Coming
    <2>3. CASE f # g
      <3>1. db'[a][f] = db[a][f] /\ db'[b][f] = db[b][f]
        BY <1>5, <2>1, <2>3
      <3>2. user[a].pc \notin {"broadcast", "push"}
        BY <1>1
      <3> QED BY <1>3, <1>8, <2>1, <3>1, <3>2 DEF Coming
    <2> QED BY <2>2, <2>3
  <1>12. Supplied(b, a)'
    <2> SUFFICES ASSUME ~past'.early, NEW f \in cs'[b], f \in cs'[a] \/ Granted(a, b, f)' PROVE Coming(b, a, f)'
      BY DEF Supplied
    <2>1. f \in Feeds /\ Coming(b, a, f)
      BY <1>3, <1>8 DEF Pair, Supplied
    <2>2. db'[b][f] = db[b][f] /\ (db[a][f] >= db[b][f] => db'[a][f] >= db[b][f])
      BY <1>5, <2>1
    <2> QED BY <1>2, <1>3, <1>9, <2>1, <2>2 DEF Coming
  <1> QED BY <1>7, <1>9, <1>10, <1>11, <1>12 DEF Joined, Connected

\* It adds the feed after the Ok; its last Root will follow.
LEMMA SubscribeAddConn ==
  ASSUME NEW a \in Nodes, NEW b \in Nodes, Pair(a, b), TypeOK', SubscribeAdd(a)
  PROVE  Joined(a, b)'
  <1> DEFINE g == user[a].feed
  <1>1. user[a].pc = "add" /\ g \in Feeds
    BY InCall DEF Pair, SubscribeAdd, At
  <1>2. user'[a].pc = "push" /\ user'[a].feed = g /\ user'[b] = user[b]
    BY <1>1, GoesOn DEF Pair, SubscribeAdd, Pcs
  <1>3. rcv' = rcv /\ net' = net /\ queue' = queue /\ db' = db /\ past'.early = past.early
    BY DEF Pair, TypeOK, SubscribeAdd, Recreated, Pasts
  <1>4. cs'[a] = cs[a] \cup {g} /\ cs'[b] = cs[b] /\ cs \in [Nodes -> SUBSET Feeds]
    BY DEF Pair, TypeOK, SubscribeAdd, handleAddConnFeed
  <1>5. ~Asks(a)
    BY <1>1 DEF Asks
  <1>6. OneRequest(a, b)' /\ OneRequest(b, a)'
    BY <1>1, <1>2, <1>3, <1>5, NotAsking DEF Pair
  <1>7. /\ Agreeing(a, b)' /\ Agreeing(b, a)'
        /\ \A f \in Feeds : ~Granted(a, b, f)' /\ (Granted(a, b, f) <=> f = g) /\ (Granted(b, a, f)' <=> Granted(b, a, f))
    BY <1>1, <1>2, <1>3, <1>4, Adding DEF Pair
  <1>8. Known(a, b)' /\ Known(b, a)'
    <2>1. db \in [Nodes -> [Feeds -> Nat]] /\ db' \in [Nodes -> [Feeds -> Nat]] /\ \A n \in Nodes, f \in Feeds : db[n][f] <= db'[n][f]
      BY <1>3 DEF Pair, TypeOK
    <2> QED BY <1>3, <2>1, StillKnown DEF Pair
  <1>9. Supplied(a, b)'
    <2> SUFFICES ASSUME ~past'.early, NEW f \in cs'[a], f \in cs'[b] \/ Granted(b, a, f)' PROVE Coming(a, b, f)'
      BY DEF Supplied
    <2>1. CASE f = g
      BY <1>2, <2>1 DEF Coming
    <2>2. CASE f # g
      <3>1. f \in Feeds /\ ~Granted(a, b, f) /\ Coming(a, b, f)
        BY <1>3, <1>4, <1>7, <2>2 DEF Pair, Supplied
      <3> QED BY <1>1, <1>3, <3>1 DEF Coming
    <2> QED BY <2>1, <2>2
  <1>10. Supplied(b, a)'
    <2> SUFFICES ASSUME ~past'.early, NEW f \in cs'[b], f \in cs'[a] \/ Granted(a, b, f)' PROVE Coming(b, a, f)'
      BY DEF Supplied
    <2>1. f \in Feeds /\ f \in cs[b] /\ (f \in cs[a] \/ Granted(a, b, f))
      BY <1>4, <1>7
    <2>2. Coming(b, a, f)
      BY <1>3, <2>1 DEF Pair, Supplied
    <2> QED BY <1>2, <1>3, <1>7, <2>1, <2>2 DEF Coming
  <1> QED BY <1>6, <1>7, <1>8, <1>9, <1>10 DEF Joined, Connected

\* Every step of a user that leaves the connection live.
LEMMA UserConn ==
  ASSUME NEW a \in Nodes, NEW b \in Nodes, Pair(a, b), TypeOK', UserStep(a), Live'
  PROVE  Joined(a, b)'
  <1>1. ~past'.crossed /\ past'.timeouts = 0 /\ alive'
    BY DEF Live, Uncrossed
  <1>2. ~Unanswered(a)
    BY <1>1 DEF Unanswered, Pair, TypeOK, Pasts
  <1>3. ~Close(a)
    BY <1>1 DEF Close
  <1> QED BY <1>1, <1>2, <1>3, ShareConn, sendRequestConn, RepliedConn, SubscribeAddConn, SubscribePushConn,
             UnsubscribeConn, NotifyConn, DontShareConn, SaveConn, PublishConn, ListConn DEF UserStep

\* The node takes the reply of the request it waits for: there is no other.
LEMMA ResponseConn ==
  ASSUME NEW a \in Nodes, NEW b \in Nodes, Pair(a, b), TypeOK', Response(a)
  PROVE  Joined(a, b)'
  <1> DEFINE x == Head(net[a])
  <1>1. net[a] # <<>> /\ x \in Message /\ x.type = "reply" /\ x.id \in Nat /\ x.what \in {"ok", "err", "list", "root"}
    BY Gotten DEF Pair, Response
  <1>2. x \in Replies
    BY <1>1 DEF Replies
  <1>3. /\ net'[b] = net[b]
        /\ \A S : Has(net[a], S) <=> (Has(net'[a], S) \/ x \in S)
        /\ \A S, T : NoneBehind(net[a], S, T) <=> (NoneBehind(net'[a], S, T) /\ (x \in S => ~Has(net'[a], T)))
    <2>1. TypeOK /\ b = Peer(a) /\ Next1(a)
      BY DEF Pair, Response
    <2> QED BY <1>1, <2>1, Taking
  <1>4. Asks(a) /\ x.id = user[a].id
    BY <1>2, <1>3 DEF Pair, OneRequest, StrangeReplies
  <1>5. user' = [user EXCEPT ![a].reply = x.what] /\ queue' = queue
    BY <1>4 DEF Response, At, Asks
  <1>6. /\ user'[a].pc = "wait" /\ user'[a].feed = user[a].feed /\ user'[a].reply = x.what /\ user'[b] = user[b]
        /\ user[a].pc = "wait"
    <2>1. user[a].pc = "wait" /\ user \in [Nodes -> Users] /\ b # a
      BY <1>4 DEF Pair, TypeOK, Asks
    <2>2. user[a] \in [pc : Pcs, feed : Feeds, id : Nat, reply : {"none", "ok", "err", "list", "root"}]
      BY <2>1 DEF Users, Free
    <2>3. user'[a] = [user[a] EXCEPT !.reply = x.what] /\ user'[b] = user[b]
      BY <1>5, <2>1
    <2> HIDE DEF x
    <2> QED BY <2>1, <2>2, <2>3
  <1> HIDE DEF x
  <1>7. cs' = cs /\ rcv' = rcv /\ db' = db /\ past' = past /\ cs \in [Nodes -> SUBSET Feeds]
    BY DEF Pair, TypeOK, Response
  <1>8. OneRequest(a, b)' /\ OneRequest(b, a)'
    BY <1>1, <1>2, <1>3, <1>6, <1>7, Answered DEF Pair
  <1>9. /\ Agreeing(a, b)' /\ Agreeing(b, a)'
        /\ \A f \in Feeds : (Granted(a, b, f)' <=> Granted(a, b, f)) /\ (Granted(b, a, f)' <=> Granted(b, a, f))
    BY <1>2, <1>3, <1>6, <1>7, TakesReply DEF Pair
  <1>10. \A f \in Feeds : x \notin FreshRoots(f, db[b][f])
    BY <1>2, Fresh DEF Pair
  <1>11. Known(a, b)' /\ Known(b, a)' /\ Supplied(a, b)' /\ Supplied(b, a)'
    BY <1>3, <1>5, <1>6, <1>7, <1>9, <1>10, KeepsRoots
  <1> QED BY <1>8, <1>9, <1>11 DEF Joined, Connected

\* The node takes the request of the peer.
LEMMA handleSubConn ==
  ASSUME NEW a \in Nodes, NEW b \in Nodes, Pair(a, b), TypeOK', handleSub(a)
  PROVE  Joined(a, b)'
  <1> DEFINE x == Head(net[a])
  <1>1. net[a] # <<>> /\ x \in Message /\ x.type = "Sub" /\ rcv[a].pc = "free"
    BY Gotten DEF Pair, handleSub
  <1>2. x \in Requests
    BY <1>1 DEF Requests
  <1>3. /\ net'[b] = net[b]
        /\ \A S : Has(net[a], S) <=> (Has(net'[a], S) \/ x \in S)
        /\ \A S, T : NoneBehind(net[a], S, T) <=> (NoneBehind(net'[a], S, T) /\ (x \in S => ~Has(net'[a], T)))
    <2>1. TypeOK /\ b = Peer(a) /\ Next1(a)
      BY DEF Pair, handleSub
    <2> QED BY <1>1, <2>1, Taking
  <1>4. /\ rcv'[a].pc = IF x.feed \in cs[a] THEN "again" ELSE "callback"
        /\ rcv'[a].feed = x.feed /\ rcv'[a].id = x.id /\ rcv'[b] = rcv[b]
    BY DEF Pair, TypeOK, handleSub
  <1> HIDE DEF x
  <1>5. user' = user /\ cs' = cs /\ queue' = queue /\ db' = db /\ past' = past /\ cs \in [Nodes -> SUBSET Feeds]
    BY DEF Pair, TypeOK, handleSub
  <1>6. OneRequest(a, b)' /\ OneRequest(b, a)'
    BY <1>1, <1>2, <1>3, <1>4, <1>5, Serving DEF Pair
  <1>7. /\ Agreeing(a, b)' /\ Agreeing(b, a)'
        /\ \A f \in Feeds : ~Granted(b, a, f) /\ (Granted(b, a, f)' => f \in cs[a] /\ f \in cs[b])
        /\ \A f \in Feeds : Granted(a, b, f)' <=> Granted(a, b, f)
    BY <1>1, <1>2, <1>3, <1>4, <1>5, Serves DEF Pair
  <1>8. \A f \in Feeds : x \notin FreshRoots(f, db[b][f])
    BY <1>2, Fresh DEF Pair
  <1>9. Known(a, b)' /\ Known(b, a)' /\ Supplied(a, b)' /\ Supplied(b, a)'
    BY <1>1, <1>3, <1>4, <1>5, <1>7, <1>8, KeepsRoots
  <1> QED BY <1>6, <1>7, <1>9 DEF Joined, Connected

\* It replies without a Root behind.
LEMMA RepliesOnly ==
  ASSUME NEW a \in Nodes, NEW b \in Nodes, Pair(a, b), TypeOK', NEW what \in {"ok", "err"},
         rcv[a].pc \notin {"free", "push"}, what = "ok" <=> rcv[a].pc = "again", Answer(a, what), Served(a),
         cs' = cs, db' = db, queue' = queue, user' = user, past' = past
  PROVE  Joined(a, b)'
  <1> DEFINE x == Reply(what, rcv[a].id)
  <1>1. rcv[a].id \in Nat /\ cs \in [Nodes -> SUBSET Feeds]
    BY InCall DEF Pair, TypeOK
  <1>2. x \in Replies /\ x \in Message /\ x.id = rcv[a].id /\ (x \in Oks <=> what = "ok")
    <2>1. x \in Replies /\ x.id = rcv[a].id /\ x.what = what
      BY <1>1, Kinds DEF Reply
    <2> QED BY <2>1 DEF Replies, Oks
  <1>3. rcv'[a].pc = "free" /\ rcv'[b] = rcv[b]
    BY ServesNot DEF Pair
  <1>4. x \notin AheadRoots(db[a]) /\ x \notin AheadReplies(db[a])
    BY <1>1, NotAhead DEF Pair
  <1>5. /\ net'[a] = net[a]
        /\ \A S : Has(net'[b], S) <=> (Has(net[b], S) \/ x \in S)
        /\ \A S, T : NoneBehind(net'[b], S, T) <=> (NoneBehind(net[b], S, T) /\ (Has(net[b], S) => x \notin T))
    <2>1. Send(a, <<x>>) /\ TypeOK /\ alive /\ b = Peer(a)
      BY DEF Answer, Pair
    <2> HIDE DEF x
    <2> QED BY <1>2, <2>1, Sent
  <1> HIDE DEF x
  <1>6. OneRequest(a, b)' /\ OneRequest(b, a)'
    BY <1>2, <1>3, <1>5, Replying DEF Pair
  <1>7. /\ Agreeing(a, b)' /\ Agreeing(b, a)'
        /\ \A f \in Feeds : (Granted(a, b, f)' <=> Granted(a, b, f)) /\ (Granted(b, a, f)' <=> Granted(b, a, f))
    BY <1>1, <1>2, <1>3, <1>5, RepliesLater DEF Pair
  <1>8. Known(a, b)' /\ Known(b, a)' /\ Supplied(a, b)' /\ Supplied(b, a)'
    BY <1>3, <1>4, <1>5, <1>7, KeepsRoots
  <1> QED BY <1>6, <1>7, <1>8 DEF Joined, Connected

\* It considers the request and has not granted it yet.
LEMMA StillConsiders ==
  ASSUME NEW a \in Nodes, NEW b \in Nodes, Pair(a, b), TypeOK', NEW pc \in {"has", "add"},
         rcv[a].pc \in {"callback", "has"}, Serve(a, pc),
         cs' = cs, db' = db, queue' = queue, user' = user, net' = net, past' = past
  PROVE  Joined(a, b)'
  <1>1. rcv'[a].pc = pc /\ rcv'[a].feed = rcv[a].feed /\ rcv'[a].id = rcv[a].id /\ rcv'[b] = rcv[b]
    BY ServesOn DEF Pair
  <1>2. cs \in [Nodes -> SUBSET Feeds]
    BY DEF Pair, TypeOK
  <1>3. OneRequest(a, b)' /\ OneRequest(b, a)'
    BY <1>1, StillServing DEF Pair
  <1>4. /\ Agreeing(a, b)' /\ Agreeing(b, a)'
        /\ \A f \in Feeds : (Granted(a, b, f)' <=> Granted(a, b, f)) /\ (Granted(b, a, f)' <=> Granted(b, a, f))
    BY <1>1, <1>2, Considers DEF Pair
  <1>5. Known(a, b)' /\ Known(b, a)' /\ Supplied(a, b)' /\ Supplied(b, a)'
    BY <1>1, <1>4, KeepsRoots
  <1> QED BY <1>3, <1>4, <1>5 DEF Joined, Connected

LEMMA subAgainConn ==
  ASSUME NEW a \in Nodes, NEW b \in Nodes, Pair(a, b), TypeOK', subAgain(a)
  PROVE  Joined(a, b)'
  BY RepliesOnly DEF subAgain

LEMMA subCallbackConn ==
  ASSUME NEW a \in Nodes, NEW b \in Nodes, Pair(a, b), TypeOK', subCallback(a)
  PROVE  Joined(a, b)'
  <1>1. CASE Serve(a, "has") /\ net' = net
    BY <1>1, StillConsiders DEF subCallback
  <1>2. CASE Served(a) /\ Answer(a, "err")
    BY <1>2, RepliesOnly DEF subCallback
  <1> QED BY <1>1, <1>2 DEF subCallback

LEMMA subHasConn ==
  ASSUME NEW a \in Nodes, NEW b \in Nodes, Pair(a, b), TypeOK', subHas(a)
  PROVE  Joined(a, b)'
  <1>1. CASE Serve(a, "add") /\ net' = net
    BY <1>1, StillConsiders DEF subHas
  <1>2. CASE Served(a) /\ Answer(a, "err")
    BY <1>2, RepliesOnly DEF subHas
  <1> QED BY <1>1, <1>2 DEF subHas

\* It adds the peer to the feed; the Ok and its last Root will follow.
LEMMA subAddConn ==
  ASSUME NEW a \in Nodes, NEW b \in Nodes, Pair(a, b), TypeOK', subAdd(a)
  PROVE  Joined(a, b)'
  <1> DEFINE g == rcv[a].feed
  <1>1. rcv[a].pc = "add" /\ g \in Feeds
    BY InCall DEF Pair, subAdd
  <1>2. rcv'[a].pc = "push" /\ rcv'[a].feed = g /\ rcv'[a].id = rcv[a].id /\ rcv'[b] = rcv[b]
    BY <1>1, ServesOn DEF Pair, subAdd
  <1>3. user' = user /\ net' = net /\ queue' = queue /\ db' = db /\ past'.early = past.early
    BY DEF Pair, TypeOK, subAdd, Recreated, Pasts
  <1>4. cs'[a] = cs[a] \cup {g} /\ cs'[b] = cs[b] /\ cs \in [Nodes -> SUBSET Feeds]
    BY DEF Pair, TypeOK, subAdd, handleAddConnFeed
  <1>5. OneRequest(a, b)' /\ OneRequest(b, a)'
    BY <1>1, <1>2, <1>3, StillServing DEF Pair
  <1>6. /\ Agreeing(a, b)' /\ Agreeing(b, a)'
        /\ \A f \in Feeds : ~Granted(b, a, f) /\ (Granted(b, a, f)' <=> f = g) /\ (Granted(a, b, f)' <=> Granted(a, b, f))
    BY <1>1, <1>2, <1>3, <1>4, AddsPeer DEF Pair
  <1>7. Known(a, b)' /\ Known(b, a)'
    <2>1. db \in [Nodes -> [Feeds -> Nat]] /\ db' \in [Nodes -> [Feeds -> Nat]] /\ \A n \in Nodes, f \in Feeds : db[n][f] <= db'[n][f]
      BY <1>3 DEF Pair, TypeOK
    <2> QED BY <1>3, <2>1, StillKnown DEF Pair
  <1>8. Supplied(a, b)'
    <2> SUFFICES ASSUME ~past'.early, NEW f \in cs'[a], f \in cs'[b] \/ Granted(b, a, f)' PROVE Coming(a, b, f)'
      BY DEF Supplied
    <2>1. CASE f = g
      BY <1>2, <2>1 DEF Coming
    <2>2. CASE f # g
      <3>1. f \in Feeds /\ f \in cs[a] /\ f \in cs[b]
        BY <1>4, <1>6, <2>2
      <3>2. Coming(a, b, f)
        BY <1>3, <3>1 DEF Pair, Supplied
      <3> QED BY <1>1, <1>3, <1>6, <3>1, <3>2 DEF Coming
    <2> QED BY <2>1, <2>2
  <1>9. Supplied(b, a)'
    <2> SUFFICES ASSUME ~past'.early, NEW f \in cs'[b], f \in cs'[a] \/ Granted(a, b, f)' PROVE Coming(b, a, f)'
      BY DEF Supplied
    <2>1. f \in Feeds
      BY <1>4
    <2>2. CASE f = g
      BY <1>6, <2>1, <2>2 DEF Coming
    <2>3. CASE f # g
      <3>1. f \in cs[b] /\ (f \in cs[a] \/ Granted(a, b, f))
        BY <1>4, <1>6, <2>1, <2>3
      <3>2. Coming(b, a, f)
        BY <1>3, <3>1 DEF Pair, Supplied
      <3> QED BY <1>2, <1>3, <1>6, <2>1, <3>2 DEF Coming
    <2> QED BY <2>2, <2>3
  <1> QED BY <1>5, <1>6, <1>7, <1>8, <1>9 DEF Joined, Connected

\* It replies, and sends its last Root behind the Ok.
LEMMA subPushConn ==
  ASSUME NEW a \in Nodes, NEW b \in Nodes, Pair(a, b), TypeOK', subPush(a)
  PROVE  Joined(a, b)'
  <1> DEFINE g == rcv[a].feed
             x == Reply("ok", rcv[a].id)
             y == Root(g, db[a][g])
  <1>1. rcv[a].pc = "push" /\ g \in Feeds /\ rcv[a].id \in Nat /\ db[a][g] \in Nat /\ db[b][g] \in Nat
    BY InCall DEF Pair, TypeOK, subPush
  <1>2. x \in Replies /\ x \in Oks /\ x.id = rcv[a].id /\ y \in Roots
    BY <1>1, Kinds DEF Reply
  <1>3. rcv'[a].pc = "free" /\ rcv'[b] = rcv[b]
    BY ServesNot DEF Pair, subPush
  <1>4. /\ x \notin AheadRoots(db[a]) /\ x \notin AheadReplies(db[a]) /\ y \notin AheadRoots(db[a]) /\ y \notin AheadReplies(db[a])
        /\ y \in FreshRoots(g, db[a][g])
    BY <1>1, NotAhead, Fresh DEF Pair
  <1>5. TypeOK /\ alive /\ b = Peer(a) /\ Send(a, <<x>> \o LastRoot(a, g))
    BY DEF Pair, subPush
  <1>6. net'[a] = net[a]
    BY <1>1, <1>5, Pushed
  <1>7. /\ \A S \in SUBSET (Message \ Roots) : Has(net'[b], S) <=> (Has(net[b], S) \/ x \in S)
        /\ \A S, T \in SUBSET (Message \ Roots) :
             NoneBehind(net'[b], S, T) <=> (NoneBehind(net[b], S, T) /\ (Has(net[b], S) => x \notin T))
        /\ \A S : Has(net[b], S) => Has(net'[b], S)
        /\ \A S : x \notin S /\ y \notin S => (Has(net'[b], S) => Has(net[b], S))
        /\ db[a][g] = 0 \/ Has(net'[b], FreshRoots(g, db[a][g]))
    <2>1. CASE db[a][g] = 0
      <3>1. /\ \A S : Has(net'[b], S) <=> (Has(net[b], S) \/ x \in S)
            /\ \A S, T : NoneBehind(net'[b], S, T) <=> (NoneBehind(net[b], S, T) /\ (Has(net[b], S) => x \notin T))
        BY <1>1, <1>5, <2>1, Pushed
      <3> HIDE DEF x, y
      <3> QED BY <2>1, <3>1
    <2>2. CASE db[a][g] # 0
      <3>1. /\ \A S : Has(net'[b], S) <=> (Has(net[b], S) \/ x \in S \/ y \in S)
            /\ \A S, T : NoneBehind(net'[b], S, T) <=>
                 /\ NoneBehind(net[b], S, T) /\ (Has(net[b], S) => x \notin T)
                 /\ (Has(net[b], S) \/ x \in S => y \notin T)
        BY <1>1, <1>5, <2>2, Pushed
      <3>2. \A S \in SUBSET (Message \ Roots) : y \notin S
        BY <1>2
      <3> HIDE DEF x, y
      <3> QED BY <1>4, <3>1, <3>2
    <2> QED BY <2>1, <2>2
  <1> HIDE DEF x, y
  <1>8. cs' = cs /\ user' = user /\ db' = db /\ queue' = queue /\ past' = past /\ cs \in [Nodes -> SUBSET Feeds]
    BY DEF Pair, TypeOK, subPush
  <1>9. OneRequest(a, b)' /\ OneRequest(b, a)'
    BY <1>1, <1>2, <1>3, <1>6, <1>7, <1>8, Replying DEF Pair
  <1>10. /\ Agreeing(a, b)' /\ Agreeing(b, a)'
         /\ \A f \in Feeds : (Granted(a, b, f)' <=> Granted(a, b, f)) /\ (Granted(b, a, f)' <=> Granted(b, a, f))
    BY <1>1, <1>2, <1>3, <1>6, <1>7, <1>8, RepliesLater DEF Pair
  <1>11. db[b][g] >= db[a][g] \/ Has(net'[b], FreshRoots(g, db[a][g]))
    BY <1>1, <1>7
  <1>12. Known(a, b)' /\ Known(b, a)' /\ Supplied(a, b)' /\ Supplied(b, a)'
    BY <1>3, <1>4, <1>6, <1>7, <1>8, <1>10, <1>11, KeepsRoots
  <1> QED BY <1>9, <1>10, <1>12 DEF Joined, Connected

\* It takes an Unsub that nothing of its own crosses.
LEMMA handleUnsubConn ==
  ASSUME NEW a \in Nodes, NEW b \in Nodes, Pair(a, b), TypeOK', handleUnsub(a), ~past'.crossed
  PROVE  Joined(a, b)'
  <1> DEFINE x == Head(net[a])
             g == Head(net[a]).feed
  <1>1. net[a] # <<>> /\ x \in Message /\ x.type = "Unsub" /\ g \in Feeds
    BY Gotten DEF Pair, handleUnsub
  <1>2. x \in Unsubs
    BY <1>1 DEF Unsubs
  <1>3. x = Unsub(g) /\ x \in Unsubs \cup Roots
    BY <1>2, Apart
  <1>4. /\ net'[b] = net[b]
        /\ \A S : Has(net[a], S) <=> (Has(net'[a], S) \/ x \in S)
        /\ \A S, T : NoneBehind(net[a], S, T) <=> (NoneBehind(net'[a], S, T) /\ (x \in S => ~Has(net'[a], T)))
    <2>1. TypeOK /\ b = Peer(a) /\ Next1(a)
      BY DEF Pair, handleUnsub
    <2> QED BY <1>1, <2>1, Taking
  <1>5. cs'[a] = cs[a] \ {g} /\ cs'[b] = cs[b] /\ cs \in [Nodes -> SUBSET Feeds]
    BY DEF Pair, TypeOK, handleUnsub, handleDelConnFeed
  <1>6. past'.early = past.early /\ ~(user[a].pc \in {"wait", "add"} /\ user[a].feed = g)
    BY DEF Pair, TypeOK, Pasts, handleUnsub
  <1>7. \A f \in Feeds : x \notin FreshRoots(f, db[b][f])
    BY <1>2, Fresh DEF Pair
  <1> HIDE DEF x, g
  <1>8. user' = user /\ rcv' = rcv /\ queue' = queue /\ db' = db
    BY DEF handleUnsub
  <1>9. OneRequest(a, b)' /\ OneRequest(b, a)'
    BY <1>3, <1>4, <1>8, TakesOther DEF Pair
  <1>10. /\ Agreeing(a, b)' /\ Agreeing(b, a)'
         /\ \A f \in Feeds : (Granted(a, b, f)' <=> Granted(a, b, f)) /\ (Granted(b, a, f)' <=> Granted(b, a, f))
    BY <1>1, <1>3, <1>4, <1>5, <1>6, <1>8, TakesUnsub DEF Pair
  <1>11. Known(a, b)' /\ Known(b, a)' /\ Supplied(a, b)' /\ Supplied(b, a)'
    BY <1>4, <1>5, <1>6, <1>7, <1>8, <1>10, KeepsRoots
  <1> QED BY <1>9, <1>10, <1>11 DEF Joined, Connected

\* It takes a Root: a newer one waits for the feeds.
LEMMA handleRootConn ==
  ASSUME NEW a \in Nodes, NEW b \in Nodes, Pair(a, b), TypeOK', handleRoot(a)
  PROVE  Joined(a, b)'
  <1> DEFINE x == Head(net[a])
             g == Head(net[a]).feed
             q == Head(net[a]).seq
             e == [feed |-> g, seq |-> q]
  <1>1. net[a] # <<>> /\ x \in Message /\ x.type = "Root" /\ g \in Feeds /\ q \in Nat
    BY Gotten DEF Pair, handleRoot
  <1>2. x \in Roots /\ x \in Unsubs \cup Roots
    BY <1>1 DEF Roots
  <1>3. /\ net'[b] = net[b]
        /\ \A S : Has(net[a], S) <=> (Has(net'[a], S) \/ x \in S)
        /\ \A S, T : NoneBehind(net[a], S, T) <=> (NoneBehind(net'[a], S, T) /\ (x \in S => ~Has(net'[a], T)))
    <2>1. TypeOK /\ b = Peer(a) /\ Next1(a)
      BY DEF Pair, handleRoot
    <2> QED BY <1>1, <2>1, Taking
  <1>4. /\ queue'[b] = queue[b]
        /\ \A S : Has(queue'[a], S) <=> (Has(queue[a], S) \/ (q > db[a][g] /\ e \in S))
    <2>1. Enqueue(a, g, q)
      BY DEF handleRoot
    <2> HIDE DEF g, q
    <2> QED BY <1>1, <2>1, Queued DEF Pair
  <1>5. q <= db[b][g]
    <2>1. x \notin AheadRoots(db[b])
      BY <1>3 DEF Pair, Known
    <2> QED BY <1>1, <1>2, <2>1 DEF AheadRoots, Pair, TypeOK
  <1>6. \A f \in Feeds : x \in FreshRoots(f, db[b][f]) => db[a][f] >= db[b][f] \/ Has(queue'[a], FreshEntries(f, db[b][f]))
    <2> SUFFICES ASSUME NEW f \in Feeds, x \in FreshRoots(f, db[b][f]) PROVE db[a][f] >= db[b][f] \/ Has(queue'[a], FreshEntries(f, db[b][f]))
      OBVIOUS
    <2>1. g = f /\ q >= db[b][f]
      BY DEF FreshRoots
    <2>2. e \in FreshEntries(f, db[b][f])
      BY <1>1, <2>1 DEF FreshEntries, Entry
    <2>3. db[a][f] \in Nat /\ db[b][f] \in Nat
      BY DEF Pair, TypeOK
    <2> HIDE DEF g, q, e
    <2>4. CASE q > db[a][g]
      BY <1>4, <2>2, <2>4
    <2>5. CASE ~(q > db[a][g])
      BY <1>1, <2>1, <2>3, <2>5
    <2> QED BY <2>4, <2>5
  <1>7. e \notin AheadEntries(db[b])
    BY <1>1, <1>5 DEF AheadEntries, Pair, TypeOK
  <1> HIDE DEF x, g, q, e
  <1>8. user' = user /\ rcv' = rcv /\ cs' = cs /\ db' = db /\ past' = past /\ cs \in [Nodes -> SUBSET Feeds]
    BY DEF Pair, TypeOK, handleRoot
  <1>9. OneRequest(a, b)' /\ OneRequest(b, a)'
    BY <1>2, <1>3, <1>8, TakesOther DEF Pair
  <1>10. /\ Agreeing(a, b)' /\ Agreeing(b, a)'
         /\ \A f \in Feeds : (Granted(a, b, f)' <=> Granted(a, b, f)) /\ (Granted(b, a, f)' <=> Granted(b, a, f))
    BY <1>2, <1>3, <1>8, TakesRoot DEF Pair
  <1>11. Known(a, b)' /\ Known(b, a)'
    <2>1. db \in [Nodes -> [Feeds -> Nat]] /\ db' \in [Nodes -> [Feeds -> Nat]] /\ \A n \in Nodes, f \in Feeds : db[n][f] <= db'[n][f]
      BY <1>8 DEF Pair, TypeOK
    <2> QED BY <1>3, <1>4, <1>7, <1>8, <2>1, StillKnown DEF Pair
  <1>12. Supplied(a, b)'
    BY <1>3, <1>4, <1>8, <1>10, SameSupplied DEF Pair
  <1>13. Supplied(b, a)'
    <2> SUFFICES ASSUME ~past'.early, NEW f \in cs'[b], f \in cs'[a] \/ Granted(a, b, f)' PROVE Coming(b, a, f)'
      BY DEF Supplied
    <2>1. f \in Feeds /\ Coming(b, a, f)
      BY <1>8, <1>10 DEF Pair, Supplied
    <2>2. Has(queue[a], FreshEntries(f, db[b][f])) => Has(queue'[a], FreshEntries(f, db[b][f]))
      BY <1>4
    <2>3. Has(net[a], FreshRoots(f, db[b][f])) => Has(net'[a], FreshRoots(f, db[b][f])) \/ x \in FreshRoots(f, db[b][f])
      BY <1>3
    <2> QED BY <1>6, <1>8, <1>10, <2>1, <2>2, <2>3 DEF Coming
  <1> QED BY <1>9, <1>10, <1>11, <1>12, <1>13 DEF Joined, Connected

\* It answers a request at once.
LEMMA AnswersAtOnce ==
  ASSUME NEW a \in Nodes, NEW b \in Nodes, Pair(a, b), TypeOK', NEW type \in {"RqList", "RqPreview"}, Got(a, type),
         NEW y \in Replies \ Oks, y.id = Head(net[a]).id, y \notin AheadRoots(db[a]), y \notin AheadReplies(db[a]),
         net' = [net EXCEPT ![a] = Tail(@), ![Peer(a)] = Append(@, y)],
         cs' = cs, db' = db, queue' = queue, user' = user, rcv' = rcv, past' = past
  PROVE  Joined(a, b)'
  <1> DEFINE x == Head(net[a])
  <1>1. net[a] # <<>> /\ x \in Message /\ x.type = type
    BY Gotten DEF Pair
  <1>2. x \in Requests
    BY <1>1 DEF Requests
  <1>3. /\ \A S : Has(net[a], S) <=> (Has(net'[a], S) \/ x \in S)
        /\ \A S, T : NoneBehind(net[a], S, T) <=> (NoneBehind(net'[a], S, T) /\ (x \in S => ~Has(net'[a], T)))
        /\ \A S : Has(net'[b], S) <=> (Has(net[b], S) \/ y \in S)
        /\ \A S, T : NoneBehind(net'[b], S, T) <=> (NoneBehind(net[b], S, T) /\ (Has(net[b], S) => y \notin T))
    <2>1. TypeOK /\ b = Peer(a) /\ y \in Message
      BY DEF Pair, Replies
    <2>2. /\ \A S : Has(net[a], S) <=> (Has(net'[a], S) \/ x \in S)
          /\ \A S, T : NoneBehind(net[a], S, T) <=> (NoneBehind(net'[a], S, T) /\ (x \in S => ~Has(net'[a], T)))
      BY <1>1, <2>1, TakingAnswering
    <2>3. /\ \A S : Has(net'[Peer(a)], S) <=> (Has(net[Peer(a)], S) \/ y \in S)
          /\ \A S, T : NoneBehind(net'[Peer(a)], S, T) <=> (NoneBehind(net[Peer(a)], S, T) /\ (Has(net[Peer(a)], S) => y \notin T))
      BY <1>1, <2>1, TakingAnswering
    <2> QED BY <2>1, <2>2, <2>3
  <1> HIDE DEF x
  <1>4. y.id = x.id
    BY DEF x
  <1>5. cs \in [Nodes -> SUBSET Feeds]
    BY DEF Pair, TypeOK
  <1>6. OneRequest(a, b)' /\ OneRequest(b, a)'
    BY <1>2, <1>3, <1>4, ReplyingAtOnce DEF Pair
  <1>7. /\ Agreeing(a, b)' /\ Agreeing(b, a)'
        /\ \A f \in Feeds : (Granted(a, b, f)' <=> Granted(a, b, f)) /\ (Granted(b, a, f)' <=> Granted(b, a, f))
    BY <1>2, <1>3, <1>5, RepliesAtOnce DEF Pair
  <1>8. \A f \in Feeds : x \notin FreshRoots(f, db[b][f])
    BY <1>2, Fresh DEF Pair
  <1>9. Known(a, b)' /\ Known(b, a)' /\ Supplied(a, b)' /\ Supplied(b, a)'
    BY <1>3, <1>5, <1>7, <1>8, KeepsRoots
  <1> QED BY <1>6, <1>7, <1>9 DEF Joined, Connected

LEMMA handleRqListConn ==
  ASSUME NEW a \in Nodes, NEW b \in Nodes, Pair(a, b), TypeOK', handleRqList(a)
  PROVE  Joined(a, b)'
  <1> DEFINE what == IF a \in Public THEN "list" ELSE "err"
             id == Head(net[a]).id
             y == Reply(what, id)
  <1>1. id \in Nat /\ what \in {"list", "err"} /\ Got(a, "RqList")
    BY Gotten DEF Pair, handleRqList
  <1>2. y \in Replies /\ y.id = id /\ y.what = what
    BY <1>1, Kinds DEF Reply
  <1>3. y \in Replies \ Oks
    BY <1>1, <1>2 DEF Oks
  <1>4. y \notin AheadRoots(db[a]) /\ y \notin AheadReplies(db[a])
    BY <1>1, NotAhead DEF Pair
  <1>5. net' = [net EXCEPT ![a] = Tail(@), ![Peer(a)] = Append(@, y)]
    BY DEF handleRqList
  <1>6. cs' = cs /\ db' = db /\ queue' = queue /\ user' = user /\ rcv' = rcv /\ past' = past
    BY DEF handleRqList
  <1> HIDE DEF y
  <1> QED BY <1>1, <1>2, <1>3, <1>4, <1>5, <1>6, AnswersAtOnce

LEMMA handleRqPreviewConn ==
  ASSUME NEW a \in Nodes, NEW b \in Nodes, Pair(a, b), TypeOK', handleRqPreview(a)
  PROVE  Joined(a, b)'
  <1> DEFINE id == Head(net[a]).id
             f == Head(net[a]).feed
             q == db[a][f]
             y == IF q = 0 THEN Reply("err", id) ELSE RootReply(id, f, q)
  <1>1. id \in Nat /\ f \in Feeds /\ Got(a, "RqPreview")
    BY Gotten DEF Pair, handleRqPreview
  <1>2. q \in Nat
    BY <1>1 DEF Pair, TypeOK
  <1>3. y \in Replies /\ y.id = id /\ y.what \in {"err", "root"}
    <2>1. Reply("err", id) \in Replies /\ RootReply(id, f, q) \in Replies
      BY <1>1, <1>2, Kinds
    <2> QED BY <2>1 DEF Reply, RootReply
  <1>4. y \in Replies \ Oks
    BY <1>3 DEF Oks
  <1>5. y \notin AheadRoots(db[a]) /\ y \notin AheadReplies(db[a])
    BY <1>1, NotAhead DEF Pair
  <1>6. net' = [net EXCEPT ![a] = Tail(@), ![Peer(a)] = Append(@, y)]
    BY DEF handleRqPreview
  <1>7. cs' = cs /\ db' = db /\ queue' = queue /\ user' = user /\ rcv' = rcv /\ past' = past
    BY DEF handleRqPreview
  <1> HIDE DEF y
  <1> QED BY <1>1, <1>3, <1>4, <1>5, <1>6, <1>7, AnswersAtOnce

\* Every step of the goroutine that receives.
LEMMA ReceiveConn ==
  ASSUME NEW a \in Nodes, NEW b \in Nodes, Pair(a, b), TypeOK', Receive(a), ~past'.crossed
  PROVE  Joined(a, b)'
  BY ResponseConn, handleSubConn, subAgainConn, subCallbackConn, subHasConn, subAddConn, subPushConn,
     handleUnsubConn, handleRootConn, handleRqListConn, handleRqPreviewConn DEF Receive

\* The feeds take a Root from the queue: it is no newer than that of the peer,
\* and one that is dropped is either of no use or early.
LEMMA receivedRootConn ==
  ASSUME NEW a \in Nodes, NEW b \in Nodes, Pair(a, b), TypeOK', receivedRoot(a)
  PROVE  Joined(a, b)'
  <1> DEFINE e == Head(queue[a])
             g == Head(queue[a]).feed
  <1>1. /\ e \in Entry /\ queue'[b] = queue[b]
        /\ \A S : Has(queue[a], S) <=> (Has(queue'[a], S) \/ e \in S)
    <2>1. queue \in [Nodes -> Seq(Entry)] /\ queue[a] \in Seq(Entry) /\ queue[a] # <<>> /\ a # b
      BY DEF Pair, TypeOK, receivedRoot
    <2>2. queue'[a] = Tail(queue[a]) /\ queue'[b] = queue[b]
      BY <2>1 DEF receivedRoot
    <2> QED BY <2>1, <2>2, HasTail
  <1>2. g \in Feeds /\ e.feed = g /\ e.seq \in Nat
    BY <1>1 DEF Entry
  <1>3. e.seq <= db[b][g]
    <2>1. e \notin AheadEntries(db[b])
      BY <1>1 DEF Pair, Known
    <2> QED BY <1>1, <1>2, <2>1 DEF AheadEntries, Pair, TypeOK
  <1>4. /\ db \in [Nodes -> [Feeds -> Nat]] /\ db' \in [Nodes -> [Feeds -> Nat]]
        /\ \A n \in Nodes, f \in Feeds : db[n][f] \in Nat /\ db'[n][f] \in Nat
    BY DEF Pair, TypeOK
  <1>5. /\ db'[b] = db[b]
        /\ \A f \in Feeds : f # g => db'[a][f] = db[a][f]
        /\ db'[a][g] = IF g \in cs[a] /\ e.seq > db[a][g] THEN e.seq ELSE db[a][g]
    BY <1>2, <1>4 DEF receivedRoot, Pair
  <1>6. past'.early = (past.early \/ (g \notin cs[a] /\ user[a].pc \in {"wait", "add"} /\ user[a].feed = g))
    BY DEF Pair, TypeOK, Pasts, receivedRoot
  <1>7. user' = user /\ rcv' = rcv /\ net' = net /\ cs' = cs /\ cs \in [Nodes -> SUBSET Feeds]
    BY DEF Pair, TypeOK, receivedRoot
  <1>8. g \in cs[a] => db'[a][g] >= e.seq
    BY <1>2, <1>4, <1>5
  <1>9. \A n \in Nodes, f \in Feeds : db[n][f] <= db'[n][f]
    <2>1. \A f \in Feeds : db[a][f] <= db'[a][f] /\ db[b][f] <= db'[b][f]
      BY <1>2, <1>4, <1>5
    <2>2. Nodes = {a, b}
      BY Peers DEF Pair
    <2> QED BY <2>1, <2>2
  <1>10. g \in Feeds => db'[a][g] = db[a][g] \/ db[b][g] >= db'[a][g]
    BY <1>2, <1>3, <1>4, <1>5
  <1> HIDE DEF e, g
  <1>11. OneRequest(a, b)' /\ OneRequest(b, a)'
    BY <1>7 DEF Pair, OneRequest, Asks, Taken
  <1>12. /\ Agreeing(a, b)' /\ Agreeing(b, a)'
         /\ \A f : (Granted(a, b, f)' <=> Granted(a, b, f)) /\ (Granted(b, a, f)' <=> Granted(b, a, f))
    BY <1>7 DEF Pair, Agreeing, Explained, Kept, Doomed, Granted, Telling, Asks
  <1>13. Known(a, b)' /\ Known(b, a)'
    BY <1>1, <1>4, <1>7, <1>9, StillKnown DEF Pair
  <1>14. Supplied(a, b)'
    <2> SUFFICES ASSUME ~past'.early, NEW f \in cs'[a], f \in cs'[b] \/ Granted(b, a, f)' PROVE Coming(a, b, f)'
      BY DEF Supplied
    <2>1. f \in Feeds /\ Coming(a, b, f)
      BY <1>6, <1>7, <1>12 DEF Pair, Supplied
    <2>2. CASE db'[a][f] = db[a][f]
      BY <1>1, <1>5, <1>7, <1>12, <2>1, <2>2 DEF Coming
    <2>3. CASE db'[a][f] # db[a][f]
      <3>1. db'[b][f] >= db'[a][f]
        BY <1>5, <1>10, <2>1, <2>3
      <3> QED BY <3>1 DEF Coming
    <2> QED BY <2>2, <2>3
  <1>15. Supplied(b, a)'
    <2> SUFFICES ASSUME ~past'.early, NEW f \in cs'[b], f \in cs'[a] \/ Granted(a, b, f)' PROVE Coming(b, a, f)'
      BY DEF Supplied
    <2>1. f \in Feeds /\ Coming(b, a, f)
      BY <1>6, <1>7, <1>12 DEF Pair, Supplied
    <2>2. db'[b][f] = db[b][f] /\ (db[a][f] >= db[b][f] => db'[a][f] >= db[b][f])
      <3>1. db[a][f] <= db'[a][f] /\ db[a][f] \in Nat /\ db'[a][f] \in Nat /\ db[b][f] \in Nat
        BY <1>4, <1>9, <2>1
      <3> QED BY <1>5, <3>1
    <2>3. CASE e \in FreshEntries(f, db[b][f])
      <3>1. f = g /\ e.seq >= db[b][f]
        BY <1>2, <2>3 DEF FreshEntries
      <3>2. f \in cs[a]
        <4>1. CASE Granted(a, b, f)
          <5>1. user[a].pc \in {"wait", "add"} /\ user[a].feed = f
            BY <4>1 DEF Granted
          <5> QED BY <1>6, <3>1, <5>1
        <4> QED BY <1>7, <1>12, <4>1
      <3>3. db'[a][f] >= db'[b][f]
        <4>1. db'[a][f] \in Nat /\ db[b][f] \in Nat /\ e.seq \in Nat /\ db'[a][f] >= e.seq
          BY <1>2, <1>4, <1>8, <2>1, <3>1, <3>2
        <4> QED BY <2>2, <3>1, <4>1
      <3> QED BY <3>3 DEF Coming
    <2>4. CASE e \notin FreshEntries(f, db[b][f])
      <3>1. Has(queue[a], FreshEntries(f, db[b][f])) => Has(queue'[a], FreshEntries(f, db[b][f]))
        BY <1>1, <2>4
      <3> QED BY <1>7, <1>12, <2>1, <2>2, <3>1 DEF Coming
    <2> QED BY <2>3, <2>4
  <1> QED BY <1>11, <1>12, <1>13, <1>14, <1>15 DEF Joined, Connected

-----------------------------------------------------------------------------
(* The invariant of the connection.                                        *)

LEMMA InitConn == Init => ConnInv
  <1> SUFFICES ASSUME Init PROVE ConnInv
    OBVIOUS
  <1>1. TypeOK /\ Answers
    BY InitTypes
  <1>2. ASSUME NEW n \in Nodes, NEW m \in Nodes PROVE Connected(n, m)
    <2>1. user[n].pc = "free" /\ rcv[n].pc = "free" /\ net[n] = <<>> /\ queue[n] = <<>> /\ cs[n] = {}
      BY DEF Init, Free
    <2>2. user[m].pc = "free" /\ rcv[m].pc = "free" /\ net[m] = <<>> /\ queue[m] = <<>> /\ cs[m] = {}
      BY DEF Init, Free
    <2>3. \A S, T : ~Has(net[n], S) /\ ~Has(net[m], S) /\ ~Has(queue[m], S) /\ NoneBehind(net[n], S, T) /\ NoneBehind(net[m], S, T)
      BY <2>1, <2>2, HasEmpty
    <2>4. OneRequest(n, m)
      BY <2>1, <2>2, <2>3 DEF OneRequest, Asks, Taken
    <2>5. Agreeing(n, m)
      BY <2>1, <2>2, <2>3 DEF Agreeing, Explained, Kept, Doomed, Granted
    <2>6. Known(n, m) /\ Supplied(n, m)
      BY <2>1, <2>3 DEF Known, Supplied
    <2> QED BY <2>4, <2>5, <2>6 DEF Connected
  <1>3. \A n \in Nodes : Connected(n, Peer(n))
    BY <1>2, Peers
  <1> QED BY <1>1, <1>3 DEF ConnInv

\* A connection that was closed, crossed or timed out stays so.
LEMMA StaysLive ==
  ASSUME TypeOK, Next, Live'
  PROVE  Live
  <1>1. past \in Pasts
    BY DEF TypeOK
  <1>2. alive' /\ ~past'.crossed /\ past'.timeouts = 0
    BY DEF Live, Uncrossed
  <1>3. PICK n \in Nodes : Call(n) \/ UserStep(n) \/ Receive(n) \/ receivedRoot(n)
    BY DEF Next
  <1>4. alive
    <2>1. ~Close(n)
      BY <1>2 DEF Close
    <2>2. alive' = alive
      BY <1>3, <2>1 DEF Call, UserStep, Share, sendRequest, Replied, Unanswered, SubscribeAdd, SubscribePush, Unsubscribe, Notify,
         DontShare, Save, Publish, List, Receive, Response, handleSub, subAgain, subCallback, subHas, subAdd, subPush, handleUnsub,
         handleRoot, handleRqList, handleRqPreview, receivedRoot
    <2> QED BY <1>2, <2>2
  <1>5. ~past.crossed /\ past.timeouts = 0
    <2>1. CASE Call(n)
      BY <1>1, <1>2, <2>1 DEF Call, Pasts
    <2>2. CASE UserStep(n)
      <3>1. CASE Unanswered(n)
        BY <1>1, <1>2, <3>1 DEF Unanswered, Pasts
      <3>2. CASE SubscribeAdd(n)
        BY <1>1, <1>2, <3>2 DEF SubscribeAdd, Recreated, Pasts
      <3>3. CASE Notify(n)
        BY <1>1, <1>2, <3>3 DEF Notify, Pasts
      <3>4. CASE ~Unanswered(n) /\ ~SubscribeAdd(n) /\ ~Notify(n)
        <4>1. past' = past
          BY <2>2, <3>4 DEF UserStep, Share, sendRequest, Replied, SubscribePush, Unsubscribe, DontShare, Save, Publish, List, Close
        <4> QED BY <1>2, <4>1
      <3> QED BY <3>1, <3>2, <3>3, <3>4
    <2>3. CASE Receive(n)
      BY <1>1, <1>2, <2>3 DEF Receive, Pasts, Response, handleSub, subAgain, subCallback, subHas, subAdd, subPush, handleUnsub,
         handleRoot, handleRqList, handleRqPreview, Recreated
    <2>4. CASE receivedRoot(n)
      BY <1>1, <1>2, <2>4 DEF receivedRoot, Pasts
    <2> QED BY <1>3, <2>1, <2>2, <2>3, <2>4
  <1> QED BY <1>4, <1>5 DEF Live, Uncrossed

LEMMA NextConn == ConnInv /\ [Next]_vars => ConnInv'
  <1> SUFFICES ASSUME ConnInv, [Next]_vars PROVE ConnInv'
    OBVIOUS
  <1>1. TypeOK /\ Answers /\ TypeOK' /\ Answers'
    BY NextTypes DEF ConnInv
  <1>2. CASE UNCHANGED vars
    <2>1. /\ cs' = cs /\ db' = db /\ queue' = queue /\ net' = net /\ user' = user /\ rcv' = rcv
          /\ alive' = alive /\ past' = past
      BY <1>2 DEF vars
    <2>2. Live' => Live
      BY <2>1 DEF Live, Uncrossed
    <2>3. ASSUME NEW n \in Nodes, NEW m \in Nodes, Connected(n, m) PROVE Connected(n, m)'
      BY <2>1, <2>3 DEF Connected, OneRequest, Asks, Taken, Agreeing, Explained, Kept, Doomed, Granted, Telling, Known, Supplied, Coming
    <2> QED BY <1>1, <2>2, <2>3, Peers DEF ConnInv
  <1>3. CASE Next
    <2> SUFFICES ASSUME Live' PROVE \A n \in Nodes : Connected(n, Peer(n))'
      BY <1>1 DEF ConnInv
    <2>1. Live /\ ~past'.crossed
      BY <1>1, <1>3, StaysLive DEF Live, Uncrossed
    <2>2. PICK a \in Nodes : Call(a) \/ UserStep(a) \/ Receive(a) \/ receivedRoot(a)
      BY <1>3 DEF Next
    <2> DEFINE b == Peer(a)
    <2>3. b \in Nodes /\ b # a /\ a = Peer(b) /\ Nodes = {a, b}
      BY Peers
    <2> HIDE DEF b
    <2>4. Connected(a, b) /\ Connected(b, a)
      BY <2>1, <2>3 DEF ConnInv, b
    <2>5. Pair(a, b)
      BY <1>1, <2>1, <2>3, <2>4 DEF Pair, Connected, Live, b
    <2>6. Joined(a, b)'
      BY <1>1, <2>1, <2>2, <2>3, <2>5, CallConn, UserConn, ReceiveConn, receivedRootConn
    <2>7. Connected(a, b)' /\ Connected(b, a)'
      BY <2>6 DEF Joined
    <2>8. b = Peer(a)
      BY DEF b
    <2> QED BY <2>3, <2>7, <2>8
  <1> QED BY <1>2, <1>3

\* Through every step of the users, the receivers and the feeds, an open
\* connection with no timeout and nothing crossed keeps: one request of a node
\* is on the way, served or answered at a time, and the reply its user takes is
\* that of its request (conn.go:493-560); a feed only one node is subscribed to
\* is being granted or left; no Root is newer than that of its sender; and a
\* Root a subscribed node lacks is on its way to it.
THEOREM SubsConnInv == Spec => []ConnInv
  BY InitConn, NextConn, PTL DEF Spec

\* Two nodes that are done with their calls agree who is subscribed: Subscribe
\* and the handler of Sub, Unsubscribe, DontShare and the handler of Unsub
\* change the feeds of both ends alike, unless a request timed out or an Unsub
\* crossed a Subscribe (conn.go:270-330, 637-695; feeds.go:276-367).
THEOREM SubsAgree == Spec => []Agree
  <1>1. Spec => []ConnInv
    BY SubsConnInv
  <1>2. ConnInv => Agree
    <2>1. ASSUME ConnInv, Quiet, Uncrossed, NEW n \in Nodes, NEW m \in Nodes PROVE cs[n] \subseteq cs[m]
      <3> SUFFICES ASSUME n # m, NEW f \in cs[n] PROVE f \in cs[m]
        OBVIOUS
      <3>1. m = Peer(n)
        BY Peers
      <3>2. Explained(n, m)
        BY <2>1, <3>1 DEF ConnInv, Live, Quiet, Connected, Agreeing
      <3>3. user[m].pc = "free" /\ net[n] = <<>>
        BY <2>1 DEF Quiet, At
      <3>4. \A S : ~Has(net[n], S)
        BY <3>3, HasEmpty
      <3> QED BY <3>2, <3>3, <3>4 DEF Explained, Granted, Telling
    <2> QED BY <2>1 DEF Agree
  <1> QED BY <1>1, <1>2, PTL

\* When nothing is on the way, a feed both are subscribed to has the same last
\* seq of its active head on both: the newest Root was broadcast to a connection
\* of the feed, or sent behind the Ok or after it (conn.go:247-268, 637-681;
\* feeds.go:380-390), and was not dropped before its feed was added
\* (conn.go:714-759; feeds.go:419-436).
THEOREM SubsNoRootMissed == Spec => []NoRootMissed
  <1>1. Spec => []ConnInv
    BY SubsConnInv
  <1>2. ConnInv => NoRootMissed
    <2> SUFFICES ASSUME ConnInv, Quiet, Uncrossed, ~past.early, NEW n \in Nodes, NEW m \in Nodes, n # m,
                        NEW f \in Feeds, f \in cs[n], f \in cs[m]
                 PROVE  db[m][f] >= db[n][f] /\ db[n][f] \in Nat /\ db[m][f] \in Nat
      <3>1. \A i, j \in Nat : i >= j /\ j >= i => i = j
        OBVIOUS
      <3> QED BY <3>1 DEF NoRootMissed
    <2>1. m = Peer(n)
      BY Peers
    <2>2. Coming(n, m, f)
      BY <2>1 DEF ConnInv, Live, Quiet, Connected, Supplied
    <2>3. user[n].pc = "free" /\ rcv[n].pc = "free" /\ net[m] = <<>> /\ queue[m] = <<>>
      BY DEF Quiet, At
    <2>4. \A S : ~Has(net[m], S) /\ ~Has(queue[m], S)
      BY <2>3, HasEmpty
    <2>5. db[n][f] \in Nat /\ db[m][f] \in Nat
      BY DEF ConnInv, TypeOK
    <2> QED BY <2>2, <2>3, <2>4, <2>5 DEF Coming, Granted
  <1> QED BY <1>1, <1>2, PTL

=============================================================================
