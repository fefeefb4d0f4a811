--------------------------- MODULE MessageEndpoint ---------------------------
(***************************************************************************)
(* The endpoint server of lib/message_endpoint.js: connections and their   *)
(* Repliers, the topic table, publication fan-out and the replies, with    *)
(* the parent of lib/message_endpoint_as_child_with_ipc.js as one more     *)
(* connection.                                                             *)
(*                                                                         *)
(* A Replier is named by the socket it was made with, since add_connection *)
(* makes one per socket.  Stream connections deliver data, any number of   *)
(* whole messages at a time; the others (the parent process) deliver one   *)
(* object per event.  A message is known by its sender and its number.     *)
(***************************************************************************)
EXTENDS Naturals, Sequences, FiniteSets

CONSTANTS Conns,      \* sockets; each connects at most once
          Streams,    \* the connections that deliver data in chunks
          Names, NameOf, \* client_name of each socket
          NoConn,     \* an absent table entry
          Topics,
          Hooked,     \* the values app_can_block_and_respond may have
          OpsOf,      \* the operations each client asks for
          SendsOf     \* bound: how many messages each client sends

ASSUME EndpointAssumption ==
    /\ Streams \subseteq Conns
    /\ NameOf \in [Conns -> Names]
    /\ \A c, d \in Conns \ Streams : NameOf[c] = NameOf[d] => c = d
    /\ NoConn \notin Conns
    /\ Hooked \subseteq BOOLEAN
    /\ OpsOf \in [Conns -> SUBSET {"sub", "unsub", "pub", "app"}]
    /\ SendsOf \in [Conns -> Nat]

VARIABLES hooked,     \* app_can_block_and_respond
          phase,      \* of each socket: new, open, closing (not yet 'close'), closed
          table,      \* messenger_connections
          topics,     \* all_topics: the replier per topic and client name
          sent,       \* how many messages each client has sent
          inbound,    \* data on its way to the server
          queue,      \* message_queue of each replier
          handling,   \* messages inside app_message_handler, and publications
                      \* inside app_publication_pre_fan_response, with their replier
          blocked,    \* the publications the application has blocked
          replies,    \* responses written, with the socket they were written to
          updates,    \* publications written: socket, message, number of copies
          crashed     \* the process died of a TypeError

appVars == <<hooked, blocked>>
vars == <<phase, table, topics, sent, inbound, queue, handling, replies, updates, crashed,
          appVars>>

Ops == {"sub", "unsub", "pub", "app"}
Numbers == UNION {1 .. SendsOf[c] : c \in Conns}
Msgs == [op : Ops, topic : Topics, from : Conns, n : Numbers]
Written == [to : Conns, msg : Msgs]

TypeOK ==
    /\ hooked \in Hooked
    /\ blocked \subseteq Msgs
    /\ phase \in [Conns -> {"new", "open", "closing", "closed"}]
    /\ table \in [Names -> Conns \cup {NoConn}]
    /\ topics \in [Topics -> [Names -> Conns \cup {NoConn}]]
    /\ sent \in [Conns -> Nat]
    /\ inbound \in [Conns -> Seq(Msgs)]
    /\ queue \in [Conns -> Seq(Msgs)]
    /\ handling \subseteq Written
    /\ replies \subseteq Written
    /\ updates \subseteq [to : Conns, msg : Msgs, copies : 1 .. 2]
    /\ crashed \in BOOLEAN

Init ==
    /\ hooked \in Hooked
    /\ blocked = {}
    /\ phase = [c \in Conns |-> IF c \in Streams THEN "new" ELSE "open"]
    /\ table = [n \in Names |->
                  IF n \in {NameOf[c] : c \in Conns \ Streams}
                  THEN CHOOSE c \in Conns \ Streams : NameOf[c] = n
                  ELSE NoConn]
    /\ topics = [t \in Topics |-> [n \in Names |-> NoConn]]
    /\ sent = [c \in Conns |-> 0]
    /\ inbound = [c \in Conns |-> <<>>]
    /\ queue = [c \in Conns |-> <<>>]
    /\ handling = {}
    /\ replies = {}
    /\ updates = {}
    /\ crashed = FALSE

-----------------------------------------------------------------------------
(* The clients.                                                            *)

At(c, p) == ~crashed /\ phase[c] = p

ClientSend(c) ==
    /\ At(c, "open")
    /\ sent[c] < SendsOf[c]
    /\ \E op \in OpsOf[c], t \in Topics :
          inbound' = [inbound EXCEPT ![c] =
              Append(@, [op |-> op, topic |-> t, from |-> c, n |-> sent[c] + 1])]
    /\ sent' = [sent EXCEPT ![c] = @ + 1]
    /\ UNCHANGED <<phase, table, topics, queue, handling, replies, updates, crashed, appVars>>

(* The peer of a socket goes away; data not yet read is lost.  Until the   *)
(* 'close' event the tables still hold the connection.                     *)
ClientLeave(c) ==
    /\ c \in Streams
    /\ At(c, "open")
    /\ phase' = [phase EXCEPT ![c] = "closing"]
    /\ inbound' = [inbound EXCEPT ![c] = <<>>]
    /\ UNCHANGED <<table, topics, sent, queue, handling, replies, updates, crashed, appVars>>

-----------------------------------------------------------------------------
(* onClientConnected_func and the construction of the parent's replier.    *)
(* client_name is the peer's address and port, which the system gives to   *)
(* one connection at a time, and to another when it has closed.            *)
AddConnection(c) ==
    /\ At(c, "new")
    /\ \A d \in Conns : phase[d] \in {"open", "closing"} => NameOf[d] # NameOf[c]
    /\ phase' = [phase EXCEPT ![c] = "open"]
    /\ table' = [table EXCEPT ![NameOf[c]] = c]
    /\ UNCHANGED <<topics, sent, inbound, queue, handling, replies, updates, crashed, appVars>>

\* Mutant: remove_connection leaves the topics alone.
RemoveKeepsTopics(c) ==
    /\ At(c, "closing")
    /\ phase' = [phase EXCEPT ![c] = "closed"]
    /\ table' = [table EXCEPT ![NameOf[c]] = NoConn]
    /\ UNCHANGED <<topics, sent, inbound, queue, handling, replies, updates, crashed, appVars>>

(* The 'close' event: remove_connection and remove_from_all_topics.        *)
RemoveConnection(c) ==
    /\ At(c, "closing")
    /\ phase' = [phase EXCEPT ![c] = "closed"]
    /\ LET name == NameOf[c]
       IN  IF table[name] = NoConn
           THEN UNCHANGED <<table, topics>>
           ELSE /\ table' = [table EXCEPT ![name] = NoConn]
                /\ topics' = [t \in Topics |-> [topics[t] EXCEPT ![name] = NoConn]]
    /\ UNCHANGED <<sent, inbound, queue, handling, replies, updates, crashed, appVars>>

(* What is written to a socket that is no longer open is lost.             *)
Reply(r, m) ==
    replies' = IF phase[r] = "open" THEN replies \cup {[to |-> r, msg |-> m]} ELSE replies

\* Mutants: a publisher that is subscribed itself ends the loop; one send too
\* many for each of the others.
SendStopsAtPublisher(r, m) ==
    LET targets == {topics[m.topic][n] : n \in Names} \ {NoConn}
    IN  updates' = updates \cup
            {[to |-> q, msg |-> m, copies |-> 2] :
                q \in {q \in targets : phase[q] = "open" /\ r \notin targets}}

SendThrice(r, m) ==
    LET targets == {topics[m.topic][n] : n \in Names} \ {NoConn}
    IN  updates' = updates \cup
            {[to |-> q, msg |-> m, copies |-> IF q # r THEN 3 ELSE 1] :
                q \in {q \in targets : phase[q] = "open"}}

(* send_to_all: send_to_one for every subscriber, and once more for those  *)
(* whose writer is not the publisher's; send_to_one looks at readyState.   *)
SendToAll(r, m) ==
    LET targets == {topics[m.topic][n] : n \in Names} \ {NoConn}
    IN  updates' = updates \cup
            {[to |-> q, msg |-> m, copies |-> IF q # r THEN 2 ELSE 1] :
                q \in {q \in targets : phase[q] = "open"}}

(* What Replier.dequeue_messages does with the message m it has taken.     *)
Handle(r, m) ==
    \/ /\ m.op = "sub"
       /\ topics' = [topics EXCEPT ![m.topic][NameOf[r]] = r]
       /\ Reply(r, m)
       /\ UNCHANGED <<handling, updates>>
    \/ /\ m.op = "unsub"
       /\ topics' = [topics EXCEPT ![m.topic][NameOf[r]] = NoConn]
       /\ Reply(r, m)
       /\ UNCHANGED <<handling, updates>>
    \/ /\ m.op = "pub" /\ ~hooked
       /\ SendToAll(r, m)
       /\ Reply(r, m)
       /\ UNCHANGED <<topics, handling>>
    \/ /\ m.op = "app" \/ (m.op = "pub" /\ hooked)
       /\ handling' = handling \cup {[to |-> r, msg |-> m]}
       /\ UNCHANGED <<topics, replies, updates>>

\* Mutant: the messages behind the first one are thrown away.
DequeueClears(r, q) ==
    /\ queue' = [queue EXCEPT ![r] = <<>>]
    /\ IF q = <<>> THEN UNCHANGED <<topics, handling, replies, updates>> ELSE Handle(r, Head(q))

(* Replier.dequeue_messages: one message, whatever else is in the queue.   *)
(* q is the queue of replier r once the data is added.                     *)
Dequeue(r, q) ==
    IF q = <<>>
    THEN /\ queue' = [queue EXCEPT ![r] = q]
         /\ UNCHANGED <<topics, handling, replies, updates>>
    ELSE /\ queue' = [queue EXCEPT ![r] = Tail(q)]
         /\ Handle(r, Head(q))

\* Mutant: the 'data' handlers of all sockets share one client_name.
DataSharedName(c) ==
    /\ c \in Streams
    /\ At(c, "open")
    /\ inbound[c] # <<>>
    /\ inbound' = [inbound EXCEPT ![c] = Tail(@)]
    /\ \E r \in {table[n] : n \in Names} \ {NoConn} :
          Dequeue(r, Append(queue[r], Head(inbound[c])))
    /\ UNCHANGED <<phase, table, sent, crashed, appVars>>

(* add_data_and_react: a data event brings k whole messages (none when it  *)
(* ends inside the next one).  The replier is looked up by client name;    *)
(* without one the handler throws and nobody catches it.                   *)
Data(c) ==
    /\ c \in Streams
    /\ At(c, "open")
    /\ inbound[c] # <<>>
    /\ \E k \in 0 .. Len(inbound[c]) :
          LET r == table[NameOf[c]]
          IN  /\ inbound' = [inbound EXCEPT ![c] = SubSeq(@, k + 1, Len(@))]
              /\ IF r = NoConn
                 THEN crashed' = TRUE /\ UNCHANGED <<topics, queue, handling, replies, updates>>
                 ELSE /\ Dequeue(r, queue[r] \o SubSeq(inbound[c], 1, k))
                      /\ UNCHANGED crashed
    /\ UNCHANGED <<phase, table, sent, appVars>>

\* Mutant: the object is added to the queue after the queue is looked at.
ObjectAddedLate(c) ==
    /\ c \notin Streams
    /\ At(c, "open")
    /\ inbound[c] # <<>>
    /\ inbound' = [inbound EXCEPT ![c] = Tail(@)]
    /\ LET r == table[NameOf[c]]
           q == queue[r]
       IN  /\ queue' = [queue EXCEPT ![r] = Append(IF q = <<>> THEN q ELSE Tail(q), Head(inbound[c]))]
           /\ IF q = <<>> THEN UNCHANGED <<topics, handling, replies, updates>> ELSE Handle(r, Head(q))
    /\ UNCHANGED <<phase, table, sent, crashed, appVars>>

(* add_object_and_react: one object per event.                             *)
Object(c) ==
    /\ c \notin Streams
    /\ At(c, "open")
    /\ inbound[c] # <<>>
    /\ inbound' = [inbound EXCEPT ![c] = Tail(@)]
    /\ LET r == table[NameOf[c]] IN Dequeue(r, Append(queue[r], Head(inbound[c])))
    /\ UNCHANGED <<phase, table, sent, crashed, appVars>>

(* app_message_handler has resolved: its response is written.              *)
AppDone(h) ==
    /\ ~crashed
    /\ h \in handling
    /\ h.msg.op = "app"
    /\ handling' = handling \ {h}
    /\ Reply(h.to, h.msg)
    /\ UNCHANGED <<phase, table, topics, sent, inbound, queue, updates, crashed, appVars>>

(* app_publication_pre_fan_response has resolved: the publication goes to  *)
(* those subscribed by now, or is blocked; it is answered either way.      *)
PreFanDone(h) ==
    /\ ~crashed
    /\ h \in handling
    /\ h.msg.op = "pub"
    /\ handling' = handling \ {h}
    /\ \/ SendToAll(h.to, h.msg) /\ UNCHANGED blocked
       \/ blocked' = blocked \cup {h.msg} /\ UNCHANGED updates
    /\ Reply(h.to, h.msg)
    /\ UNCHANGED <<phase, table, topics, sent, inbound, queue, crashed, hooked>>

Next ==
    \/ \E c \in Conns : \/ ClientSend(c)
                        \/ ClientLeave(c)
                        \/ AddConnection(c)
                        \/ RemoveConnection(c)
                        \/ Data(c)
                        \/ Object(c)
    \/ \E h \in handling : AppDone(h) \/ PreFanDone(h)

Spec == Init /\ [][Next]_vars

(* Data that has arrived is delivered, and handlers of the application     *)
(* return.  Nobody has to send, connect or leave.                          *)
Fairness ==
    /\ \A c \in Conns : WF_vars(Data(c) \/ Object(c))
    /\ \A h \in Written : WF_vars(AppDone(h) \/ PreFanDone(h))

FairSpec == Spec /\ Fairness

-----------------------------------------------------------------------------
(* Every response goes to the socket its request came from: the writer of  *)
(* the replier found under client_name is that of the sender.              *)
ReplyToSender == \A w \in replies \cup handling : w.to = w.msg.from

Range(s) == {s[i] : i \in 1 .. Len(s)}

(* No request of a connection that is still open is ever dropped: it is on *)
(* its way, queued, being handled, or answered.                            *)
NothingLost ==
    \A c \in Conns : phase[c] = "open" =>
        \A n \in 1 .. sent[c] :
            \E m \in Range(inbound[c]) \cup Range(queue[c])
                        \cup {w.msg : w \in handling} \cup {w.msg : w \in replies} :
                m.from = c /\ m.n = n

(* While a client is connected it is subscribed exactly when its last      *)
(* answered sub or unsub of the topic was a sub, whatever the others did   *)
(* and whoever closed in between; the tables forget it when it closes.     *)
Asked(c, t) ==
    {w.msg : w \in {w \in replies : w.msg.from = c /\ w.msg.topic = t
                                        /\ w.msg.op \in {"sub", "unsub"}}}

Subscribed(c, t) ==
    \E m \in Asked(c, t) : m.op = "sub" /\ \A k \in Asked(c, t) : k.n <= m.n

TopicsFollowRequests ==
    \A c \in Conns, t \in Topics :
        /\ phase[c] = "open" => (topics[t][NameOf[c]] = c <=> Subscribed(c, t))
        /\ phase[c] \in {"new", "closed"} => topics[t][NameOf[c]] # c

(* Once a publication is answered that the application has not blocked,    *)
(* every client subscribed and connected at that moment, other than the    *)
(* publisher, has been written to - those too who subscribed while the     *)
(* application was asked.                                                  *)
PublicationReachesSubscribers ==
    [][\A w \in replies' \ replies : w.msg.op = "pub" /\ w.msg \notin blocked' =>
          \A c \in Conns :
              (c # w.to /\ phase[c] = "open" /\ Subscribed(c, w.msg.topic))
                  => \E u \in updates' : u.to = c /\ u.msg = w.msg]_vars

Answered(c, n) == \E w \in replies : w.msg.from = c /\ w.msg.n = n

(* A peer that delivers one object per event is always answered, because   *)
(* each event dequeues as much as it brings.                               *)
ObjectsAreAnswered ==
    \A c \in Conns \ Streams, n \in Numbers :
        sent[c] >= n ~> (Answered(c, n) \/ crashed)

(* README.md line 639: "This class always sends a response back to it      *)
(* connecting peer."                                                       *)
AlwaysResponds ==
    \A c \in Conns, n \in Numbers :
        sent[c] >= n ~> (Answered(c, n) \/ phase[c] # "open")
=============================================================================
