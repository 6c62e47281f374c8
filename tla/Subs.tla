-------------------------------- MODULE Subs --------------------------------
(***************************************************************************)
(* Subscriptions of two nodes over one connection (node/conn.go) and the   *)
(* feeds of each node (node/feeds.go, node/feed.go).                       *)
(*                                                                         *)
(* In every node run: the goroutine of the feeds, whose handlers are       *)
(* atomic; the goroutine that receives messages of the connection, one at  *)
(* a time; and a goroutine of the user.  They meet in the feeds and in     *)
(* the map of requests.  Messages of one direction keep their order.  A    *)
(* Root the feeds accept is filled at once (modules Head and Fill).        *)
(*                                                                         *)
(* A feed has one head, the active one: only its last Root is pushed after *)
(* Subscribe, and only it is cared about (conn.go:247-262, node.go:20-27). *)
(* A Root is its seq: of two Roots with one seq a node keeps its own.      *)
(***************************************************************************)
EXTENDS Integers, Sequences, FiniteSets, SequencesExt

CONSTANTS
  Nodes,      \* the two nodes
  Feeds,      \* public keys of feeds
  Shared,     \* feeds every node shares at the beginning
  Calls,      \* node -> calls its user makes, pairs of a method and a feed
  Callback,   \* what OnSubscribeRemote may do: "accept", "reject", "share"
  Public,     \* nodes that answer RqList
  MaxCalls,   \* bound of the calls of users
  MaxTimeouts \* bound of the requests that time out

\* what a user may call
Methods == {"Subscribe", "Share", "Unsubscribe", "DontShare", "Publish", "Feeds", "RemoteFeeds", "Preview", "Close"}

ASSUME NodesAssumption == IsFiniteSet(Nodes) /\ Cardinality(Nodes) = 2
ASSUME CallsAssumption == \A n \in Nodes : Calls[n] \subseteq Methods \X Feeds
ASSUME BoundsAssumption == {MaxCalls, MaxTimeouts} \subseteq Nat /\ Shared \subseteq Feeds

VARIABLES
  fs,     \* node -> feeds of nodeFeeds, without the blank one
  fl,     \* node -> the list of feeds kept for Feeds, or Nil
  cs,     \* node -> feeds that have the connection
  idle,   \* node -> the blank feed has the connection
  db,     \* node -> feed -> seq of the last full Root of the active head
  queue,  \* node -> Roots its connection has given to the feeds
  net,    \* node -> messages on the way to it
  user,   \* node -> the goroutine of its user
  rcv,    \* node -> the goroutine that receives
  alive,  \* the connection is not closed
  past    \* what has happened, for the bounds and the properties

vars == <<fs, fl, cs, idle, db, queue, net, user, rcv, alive, past>>

Nil == [list |-> {}, kept |-> FALSE]
Free == [pc |-> "free"]

Peer(n) == CHOOSE m \in Nodes : m # n

Init ==
  /\ fs = [n \in Nodes |-> Shared] /\ fl = [n \in Nodes |-> Nil]
  /\ cs = [n \in Nodes |-> {}] /\ idle = [n \in Nodes |-> FALSE]
  /\ db = [n \in Nodes |-> [f \in Feeds |-> 0]]
  /\ queue = [n \in Nodes |-> <<>>] /\ net = [n \in Nodes |-> <<>>]
  /\ user = [n \in Nodes |-> Free] /\ rcv = [n \in Nodes |-> Free]
  /\ alive = TRUE
  /\ past = [calls |-> 0, timeouts |-> 0, early |-> FALSE, crossed |-> FALSE, recreated |-> FALSE]

-----------------------------------------------------------------------------
(* Messages                                                                *)

\* sendMsg: nothing is sent when the connection is closed
Send(n, ms) == net' = IF alive THEN [net EXCEPT ![Peer(n)] = @ \o ms] ELSE net
Unsub(f) == [type |-> "Unsub", feed |-> f]
Root(f, s) == [type |-> "Root", feed |-> f, seq |-> s]
\* a response; id is the call that waits for it
Reply(what, id) == [type |-> "reply", what |-> what, id |-> id]
RootReply(id, f, s) == [type |-> "reply", what |-> "root", id |-> id, feed |-> f, seq |-> s]

\* sendLastRoot: the last Root of the active head, if it is not blank
LastRoot(n, f) == IF db[n][f] = 0 THEN <<>> ELSE <<Root(f, db[n][f])>>

-----------------------------------------------------------------------------
(* Handlers of the feeds                                                   *)

\* mutant: the kept list stays
handleAddFeedKept(n, f) == fs' = [fs EXCEPT ![n] = @ \cup {f}] /\ UNCHANGED fl

handleAddFeed(n, f) ==
  /\ fs' = [fs EXCEPT ![n] = @ \cup {f}]
  /\ fl' = IF f \in fs[n] THEN fl ELSE [fl EXCEPT ![n] = Nil]

\* mutant: the connection stays idle
handleAddConnFeedIdle(n, f) ==
  /\ fs' = [fs EXCEPT ![n] = @ \cup {f}]
  /\ cs' = [cs EXCEPT ![n] = @ \cup {f}]
  /\ UNCHANGED <<fl, idle>>

\* the feed is created if it is not there
handleAddConnFeed(n, f) ==
  /\ fs' = [fs EXCEPT ![n] = @ \cup {f}]
  /\ cs' = [cs EXCEPT ![n] = @ \cup {f}]
  /\ idle' = [idle EXCEPT ![n] = FALSE]
  /\ UNCHANGED fl

Recreated(n, f) == past' = [past EXCEPT !.recreated = @ \/ (f \notin fs[n] /\ fl[n].kept)]

handleDelConnFeed(n, f) ==
  /\ cs' = [cs EXCEPT ![n] = @ \ {f}]
  /\ idle' = [idle EXCEPT ![n] = @ \/ (f \in fs[n] /\ cs[n] \subseteq {f})]

\* mutant: the peers are not told
handleDelFeedSilent(n, f) ==
  /\ fs' = [fs EXCEPT ![n] = @ \ {f}]
  /\ cs' = [cs EXCEPT ![n] = @ \ {f}]
  /\ fl' = IF f \in fs[n] THEN [fl EXCEPT ![n] = Nil] ELSE fl
  /\ UNCHANGED net

\* nodeFeed.close sends Unsub to the connections of the feed
handleDelFeed(n, f) ==
  /\ fs' = [fs EXCEPT ![n] = @ \ {f}]
  /\ cs' = [cs EXCEPT ![n] = @ \ {f}]
  /\ fl' = IF f \in fs[n] THEN [fl EXCEPT ![n] = Nil] ELSE fl
  /\ Send(n, IF f \in cs[n] THEN <<Unsub(f)>> ELSE <<>>)

handleBroadcastRoot(n, f, s) == Send(n, IF f \in cs[n] THEN <<Root(f, s)>> ELSE <<>>)

handleList(n) ==
  IF fl[n].kept \/ fs[n] = {} THEN fl' = fl ELSE fl' = [fl EXCEPT ![n] = [list |-> fs[n], kept |-> TRUE]]

-----------------------------------------------------------------------------
(* Calls of the user.  A call is known by its number, which stands for the *)
(* seq of its request.                                                     *)

At(n, pc) == user[n].pc = pc
To(n, pc) == user' = [user EXCEPT ![n].pc = pc]
Done(n) == user' = [user EXCEPT ![n] = Free]

Call(n) ==
  /\ At(n, "free") /\ past.calls < MaxCalls
  /\ \E c \in Calls[n] :
       /\ c[1] = "Close" => alive
       /\ user' = [user EXCEPT ![n] = [pc |-> c[1], feed |-> c[2], id |-> past.calls + 1, reply |-> "none"]]
  /\ past' = [past EXCEPT !.calls = @ + 1]
  /\ UNCHANGED <<fs, fl, cs, idle, db, queue, net, rcv, alive>>

\* Subscribe begins with Share
Share(n) ==
  /\ At(n, "Subscribe") \/ At(n, "Share")
  /\ handleAddFeed(n, user[n].feed)
  /\ IF At(n, "Subscribe") THEN To(n, "request") ELSE Done(n)
  /\ UNCHANGED <<cs, idle, db, queue, net, rcv, alive, past>>

\* sendRequest of Subscribe, RemoteFeeds and Preview
sendRequest(n) ==
  LET type == CASE At(n, "request") -> "Sub" [] At(n, "RemoteFeeds") -> "RqList" [] At(n, "Preview") -> "RqPreview" [] OTHER -> "none"
  IN /\ type # "none"
     /\ Send(n, <<[type |-> type, feed |-> user[n].feed, id |-> user[n].id]>>)
     /\ To(n, "wait")
     /\ UNCHANGED <<fs, fl, cs, idle, db, queue, rcv, alive, past>>

\* the select of sendRequest; PreviewFunc may tell to subscribe
Replied(n) ==
  /\ At(n, "wait")
  /\ \/ user[n].reply = "ok" /\ To(n, "add")
     \/ user[n].reply \in {"err", "list", "root"} /\ Done(n)
     \/ /\ user[n].reply = "root"
        /\ user' = [user EXCEPT ![n] = [user[n] EXCEPT !.pc = "Subscribe", !.id = @ + MaxCalls, !.reply = "none"]]
  /\ UNCHANGED <<fs, fl, cs, idle, db, queue, net, rcv, alive, past>>

Unanswered(n) ==
  /\ At(n, "wait") /\ Done(n)
  /\ \/ ~alive /\ UNCHANGED past
     \/ alive /\ past.timeouts < MaxTimeouts /\ past' = [past EXCEPT !.timeouts = @ + 1]
  /\ UNCHANGED <<fs, fl, cs, idle, db, queue, net, rcv, alive>>

\* Subscribe after the answer
SubscribeAdd(n) ==
  /\ At(n, "add")
  /\ handleAddConnFeed(n, user[n].feed)
  /\ To(n, "push")
  /\ Recreated(n, user[n].feed)
  /\ UNCHANGED <<db, queue, net, rcv, alive>>

\* mutant: the last Root is not sent
SubscribePushNot(n) ==
  /\ At(n, "push") /\ Done(n)
  /\ UNCHANGED <<fs, fl, cs, idle, db, queue, net, rcv, alive, past>>

SubscribePush(n) ==
  /\ At(n, "push")
  /\ Send(n, LastRoot(n, user[n].feed))
  /\ Done(n)
  /\ UNCHANGED <<fs, fl, cs, idle, db, queue, rcv, alive, past>>

Unsubscribe(n) ==
  /\ At(n, "Unsubscribe")
  /\ handleDelConnFeed(n, user[n].feed)
  /\ To(n, "notify")
  /\ UNCHANGED <<fs, fl, db, queue, net, rcv, alive, past>>

Notify(n) ==
  /\ At(n, "notify")
  /\ Send(n, <<Unsub(user[n].feed)>>)
  /\ Done(n)
  /\ past' = [past EXCEPT !.crossed = @ \/ user[n].feed \in cs[n]]
  /\ UNCHANGED <<fs, fl, cs, idle, db, queue, rcv, alive>>

DontShare(n) ==
  /\ At(n, "DontShare")
  /\ handleDelFeed(n, user[n].feed)
  /\ Done(n)
  /\ UNCHANGED <<idle, db, queue, rcv, alive, past>>

\* a new Root is saved, then published
Save(n) ==
  /\ At(n, "Publish")
  /\ db' = [db EXCEPT ![n][user[n].feed] = @ + 1]
  /\ To(n, "broadcast")
  /\ UNCHANGED <<fs, fl, cs, idle, queue, net, rcv, alive, past>>

Publish(n) ==
  /\ At(n, "broadcast")
  /\ handleBroadcastRoot(n, user[n].feed, db[n][user[n].feed])
  /\ Done(n)
  /\ UNCHANGED <<fs, fl, cs, idle, db, queue, rcv, alive, past>>

List(n) ==
  /\ At(n, "Feeds")
  /\ handleList(n)
  /\ Done(n)
  /\ UNCHANGED <<fs, cs, idle, db, queue, net, rcv, alive, past>>

\* Close, once (module Conns); the feeds are not told
Close(n) ==
  /\ At(n, "Close") /\ Done(n)
  /\ alive' = FALSE
  /\ net' = [m \in Nodes |-> <<>>]
  /\ UNCHANGED <<fs, fl, cs, idle, db, queue, rcv, past>>

-----------------------------------------------------------------------------
(* Messages received                                                       *)

Got(n, type) == alive /\ rcv[n].pc = "free" /\ net[n] # <<>> /\ Head(net[n]).type = type
Next1(n) == net' = [net EXCEPT ![n] = Tail(@)]
Serve(n, pc) == rcv' = [rcv EXCEPT ![n].pc = pc]
Served(n) == rcv' = [rcv EXCEPT ![n] = Free]

Enqueue(n, f, q) == queue' = IF q > db[n][f] THEN [queue EXCEPT ![n] = Append(@, [feed |-> f, seq |-> q])] ELSE queue

\* a delayed response is ignored, but a Root is taken for a pushed one
Response(n) ==
  LET m == Head(net[n]) IN
  /\ Got(n, "reply") /\ Next1(n)
  /\ \/ At(n, "wait") /\ user[n].id = m.id /\ user' = [user EXCEPT ![n].reply = m.what] /\ UNCHANGED queue
     \/ /\ ~(At(n, "wait") /\ user[n].id = m.id)
        /\ IF m.what = "root" THEN Enqueue(n, m.feed, m.seq) ELSE UNCHANGED queue
        /\ UNCHANGED user
  /\ UNCHANGED <<fs, fl, cs, idle, db, rcv, alive, past>>

\* RqList: a node that is not public answers with an error
handleRqList(n) ==
  /\ Got(n, "RqList")
  /\ net' = [net EXCEPT ![n] = Tail(@), ![Peer(n)] = Append(@, Reply(IF n \in Public THEN "list" ELSE "err", Head(net[n]).id))]
  /\ IF n \in Public THEN handleList(n) ELSE UNCHANGED fl
  /\ UNCHANGED <<fs, cs, idle, db, queue, user, rcv, alive, past>>

\* RqPreview: the last Root is the response
handleRqPreview(n) ==
  LET m == Head(net[n])
      q == db[n][m.feed]
      reply == IF q = 0 THEN Reply("err", m.id) ELSE RootReply(m.id, m.feed, q)
  IN /\ Got(n, "RqPreview")
     /\ net' = [net EXCEPT ![n] = Tail(@), ![Peer(n)] = Append(@, reply)]
     /\ UNCHANGED <<fs, fl, cs, idle, db, queue, user, rcv, alive, past>>

handleSub(n) ==
  /\ Got(n, "Sub") /\ Next1(n)
  /\ rcv' = [rcv EXCEPT ![n] = [pc |-> IF Head(net[n]).feed \in cs[n] THEN "again" ELSE "callback",
                                feed |-> Head(net[n]).feed, id |-> Head(net[n]).id]]
  /\ UNCHANGED <<fs, fl, cs, idle, db, queue, user, alive, past>>

Answer(n, what) == Send(n, <<Reply(what, rcv[n].id)>>)

subAgain(n) ==
  /\ rcv[n].pc = "again" /\ Answer(n, "ok") /\ Served(n)
  /\ UNCHANGED <<fs, fl, cs, idle, db, queue, user, alive, past>>

subCallback(n) ==
  /\ rcv[n].pc = "callback"
  /\ \/ "accept" \in Callback /\ Serve(n, "has") /\ UNCHANGED <<fs, fl, net>>
     \/ "share" \in Callback /\ Serve(n, "has") /\ handleAddFeed(n, rcv[n].feed) /\ UNCHANGED net
     \/ "reject" \in Callback /\ Served(n) /\ Answer(n, "err") /\ UNCHANGED <<fs, fl>>
  /\ UNCHANGED <<cs, idle, db, queue, user, alive, past>>

subHas(n) ==
  /\ rcv[n].pc = "has"
  /\ \/ rcv[n].feed \in fs[n] /\ Serve(n, "add") /\ UNCHANGED net
     \/ rcv[n].feed \notin fs[n] /\ Served(n) /\ Answer(n, "err")
  /\ UNCHANGED <<fs, fl, cs, idle, db, queue, user, alive, past>>

subAdd(n) ==
  /\ rcv[n].pc = "add"
  /\ handleAddConnFeed(n, rcv[n].feed)
  /\ Serve(n, "push")
  /\ Recreated(n, rcv[n].feed)
  /\ UNCHANGED <<db, queue, net, user, alive>>

\* Ok, then the last Root
subPush(n) ==
  /\ rcv[n].pc = "push"
  /\ Send(n, <<Reply("ok", rcv[n].id)>> \o LastRoot(n, rcv[n].feed))
  /\ Served(n)
  /\ UNCHANGED <<fs, fl, cs, idle, db, queue, user, alive, past>>

handleUnsub(n) ==
  /\ Got(n, "Unsub") /\ Next1(n)
  /\ handleDelConnFeed(n, Head(net[n]).feed)
  /\ past' = [past EXCEPT !.crossed = @ \/ (user[n].pc \in {"wait", "add"} /\ user[n].feed = Head(net[n]).feed)]
  /\ UNCHANGED <<fs, fl, db, queue, user, rcv, alive>>

\* handleRoot: only a newer one
handleRoot(n) ==
  LET m == Head(net[n]) IN
  /\ Got(n, "Root") /\ Next1(n)
  /\ Enqueue(n, m.feed, m.seq)
  /\ UNCHANGED <<fs, fl, cs, idle, db, user, rcv, alive, past>>

\* the feeds drop a Root of a feed the connection is not subscribed to
receivedRoot(n) ==
  LET m == Head(queue[n]) IN
  /\ queue[n] # <<>> /\ queue' = [queue EXCEPT ![n] = Tail(@)]
  /\ db' = IF m.feed \in cs[n] /\ m.seq > db[n][m.feed] THEN [db EXCEPT ![n][m.feed] = m.seq] ELSE db
  /\ past' = [past EXCEPT !.early = @ \/ (m.feed \notin cs[n] /\ user[n].pc \in {"wait", "add"} /\ user[n].feed = m.feed)]
  /\ UNCHANGED <<fs, fl, cs, idle, net, user, rcv, alive>>

-----------------------------------------------------------------------------
UserStep(n) ==
  \/ Share(n) \/ sendRequest(n) \/ Replied(n) \/ Unanswered(n) \/ SubscribeAdd(n) \/ SubscribePush(n)
  \/ Unsubscribe(n) \/ Notify(n) \/ DontShare(n) \/ Save(n) \/ Publish(n) \/ List(n) \/ Close(n)

Receive(n) ==
  \/ Response(n) \/ handleSub(n) \/ subAgain(n) \/ subCallback(n) \/ subHas(n) \/ subAdd(n) \/ subPush(n)
  \/ handleUnsub(n) \/ handleRoot(n) \/ handleRqList(n) \/ handleRqPreview(n)

Next == \E n \in Nodes : Call(n) \/ UserStep(n) \/ Receive(n) \/ receivedRoot(n)

Fairness ==
  \A n \in Nodes : WF_vars(UserStep(n)) /\ WF_vars(Receive(n)) /\ WF_vars(receivedRoot(n))

Spec == Init /\ [][Next]_vars /\ Fairness

-----------------------------------------------------------------------------
(* Properties                                                              *)

\* nothing is on the way and nobody is at work
Quiet == alive /\ \A n \in Nodes : net[n] = <<>> /\ queue[n] = <<>> /\ At(n, "free") /\ rcv[n].pc = "free"

\* no request has timed out and no Unsub has crossed a Subscribe of its
\* receiver: the receiver took it before it took the Ok in its other goroutine,
\* or the sender had been subscribed again in between.
Uncrossed == ~past.crossed /\ past.timeouts = 0

\* Two nodes that are done with their calls agree who is subscribed, if nothing
\* crossed: each handler and each call change the feeds of both.
Agree == (Quiet /\ Uncrossed) => \A n, m \in Nodes : cs[n] = cs[m]

\* Two nodes subscribed to a feed have the same last seq of its active head
\* once nothing is on the way, whenever a Root was published: before, during or
\* after Subscribe.  It says nothing of earlier Roots, which may be skipped, nor
\* of two Roots the nodes saved themselves with one seq (conn.go:734 drops the
\* other's).  Excepted is the Root that comes right behind the Ok and is dropped
\* since the goroutine of Subscribe has not added the feed.
NoRootMissed ==
  (Quiet /\ Uncrossed /\ ~past.early) =>
     \A n, m \in Nodes, f \in Feeds : f \in cs[n] \cap cs[m] => db[n][f] = db[m][f]

\* The idle connection has no feed, and a feed with connections exists.
IdleIsFree == \A n \in Nodes : (idle[n] => cs[n] = {}) /\ cs[n] \subseteq fs[n]

\* The list kept for Feeds is the feeds, but for a feed that was deleted and is
\* created again by a subscription that had passed its check.
ListIsTrue == \A n \in Nodes : fl[n].kept => (fl[n].list = fs[n] \/ past.recreated)
=============================================================================
