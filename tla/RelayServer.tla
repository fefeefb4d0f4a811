----------------------------- MODULE RelayServer -----------------------------
(***************************************************************************)
(* The relay server: the JsonMessageHandler of every client socket in      *)
(* lib/message_relay.js, and the PathHandlers of path-handler/             *)
(* path-handler.js it shares, each with its one client of an endpoint      *)
(* server.                                                                 *)
(*                                                                         *)
(* dequeue_and_forward is asynchronous: it runs until it awaits an answer  *)
(* from upstream, other events of any client come in between, and a data   *)
(* event of the same client starts it again beside the activation that     *)
(* waits.  "running" is the client whose loop has the thread; an await     *)
(* that nothing upstream delays does not give the thread away.  A message  *)
(* stands for the activation that awaits it, and a sub message also for    *)
(* the listener made for it.                                               *)
(***************************************************************************)
EXTENDS Naturals, Sequences, FiniteSets

CONSTANTS Conns,      \* client sockets; each connects once
          NoConn,     \* the thread is free
          NoMsg,      \* no message, no listener
          Paths,      \* the configured paths
          NoPath,     \* a path the server does not know
          Topics,
          OpsOf,      \* the operations each client asks for
          PathsOf,    \* the configured paths each client uses
          Leavers,    \* the clients that may close their socket
          SendsOf     \* bound: how many messages each client sends

Ops == {"sub", "unsub", "call", "bad", "pathless"}

ASSUME RelayAssumption ==
    /\ NoConn \notin Conns
    /\ NoPath \notin Paths
    /\ OpsOf \in [Conns -> SUBSET Ops]
    /\ PathsOf \in [Conns -> SUBSET Paths]
    /\ Leavers \subseteq Conns
    /\ SendsOf \in [Conns -> Nat]
    /\ IsFiniteSet(Topics)

VARIABLES phase,      \* of each socket: new, open, closing (not yet 'close'), closed
          sent,       \* how many messages each client has sent
          inbound,    \* data on its way to the server
          queue,      \* message_queue of each handler
          current,    \* current_message of each handler
          running,    \* the client whose dequeue_and_forward has the thread
          awaiting,   \* the messages whose activations wait for upstream
          handlers,   \* topic_handlers_by_path: client, path, topic to listener
          listeners,  \* topic_listeners: path, topic to listeners (none: undefined)
          upstream,   \* sub and unsub messages on their way to each endpoint
          subscribed, \* does the endpoint of a path hold a subscription to a topic?
          replies     \* the messages answered under their _response_id

vars == <<phase, sent, inbound, queue, current, running, awaiting, handlers, listeners,
          upstream, subscribed, replies>>

Numbers == UNION {1 .. SendsOf[c] : c \in Conns}
Msgs == [op : Ops, path : Paths \cup {NoPath}, topic : Topics, from : Conns, n : Numbers]
ASSUME NoMsgAssumption == NoMsg \notin Msgs

UpMsgs == [op : {"sub", "unsub"}, topic : Topics, waiter : Msgs \cup {NoMsg}]

TypeOK ==
    /\ phase \in [Conns -> {"new", "open", "closing", "closed"}]
    /\ sent \in [Conns -> Nat]
    /\ inbound \in [Conns -> Seq(Msgs)]
    /\ queue \in [Conns -> Seq(Msgs)]
    /\ current \in [Conns -> Msgs \cup {NoMsg}]
    /\ running \in Conns \cup {NoConn}
    /\ awaiting \subseteq Msgs
    /\ handlers \in [Conns -> [Paths -> [Topics -> Msgs \cup {NoMsg}]]]
    /\ listeners \in [Paths -> [Topics -> Seq(Msgs)]]
    /\ upstream \in [Paths -> Seq(UpMsgs)]
    /\ subscribed \in [Paths -> [Topics -> BOOLEAN]]
    /\ replies \subseteq Msgs

(* The table of listeners a new handler is made with; a fault: it has no   *)
(* entry for the paths of the server.                                      *)
NoTable == <<>>

EmptyTable == [p \in Paths |-> [t \in Topics |-> NoMsg]]

Init ==
    /\ phase = [c \in Conns |-> "new"]
    /\ sent = [c \in Conns |-> 0]
    /\ inbound = [c \in Conns |-> <<>>]
    /\ queue = [c \in Conns |-> <<>>]
    /\ current = [c \in Conns |-> NoMsg]
    /\ running = NoConn
    /\ awaiting = {}
    /\ handlers = [c \in Conns |-> EmptyTable]
    /\ listeners = [p \in Paths |-> [t \in Topics |-> <<>>]]
    /\ upstream = [p \in Paths |-> <<>>]
    /\ subscribed = [p \in Paths |-> [t \in Topics |-> FALSE]]
    /\ replies = {}

-----------------------------------------------------------------------------
(* The clients.  They are orderly: a client subscribes only when it is     *)
(* not subscribed, unsubscribes only when it is, and sends either only     *)
(* when everything it sent before has been answered.                       *)

Answered(c, n) == \E m \in replies : m.from = c /\ m.n = n

Asked(c, p, t) ==
    {m \in replies : m.from = c /\ m.path = p /\ m.topic = t /\ m.op \in {"sub", "unsub"}}

Subscribed(c, p, t) ==
    \E m \in Asked(c, p, t) : m.op = "sub" /\ \A k \in Asked(c, p, t) : k.n <= m.n

Orderly(c, op, p, t) ==
    op \in {"sub", "unsub"} =>
        /\ \A n \in 1 .. sent[c] : Answered(c, n)
        /\ (op = "unsub") = Subscribed(c, p, t)

ClientSend(c) ==
    /\ running = NoConn
    /\ phase[c] = "open"
    /\ sent[c] < SendsOf[c]
    /\ \E op \in OpsOf[c], p \in PathsOf[c], t \in Topics :
          /\ Orderly(c, op, p, t)
          /\ LET m == [op |-> op, topic |-> t, from |-> c, n |-> sent[c] + 1,
                       path |-> IF op \in {"bad", "pathless"} THEN NoPath ELSE p]
             IN  inbound' = [inbound EXCEPT ![c] = Append(@, m)]
    /\ sent' = [sent EXCEPT ![c] = @ + 1]
    /\ UNCHANGED <<phase, queue, current, running, awaiting, handlers, listeners, upstream,
                   subscribed, replies>>

(* The peer of a socket goes away; data not yet read is lost.              *)
ClientLeave(c) ==
    /\ running = NoConn
    /\ c \in Leavers
    /\ phase[c] = "open"
    /\ phase' = [phase EXCEPT ![c] = "closing"]
    /\ inbound' = [inbound EXCEPT ![c] = <<>>]
    /\ UNCHANGED <<sent, queue, current, running, awaiting, handlers, listeners, upstream,
                   subscribed, replies>>

-----------------------------------------------------------------------------
(* PathHandler.subscribe and unsubscribe, as functions of the listeners of *)
(* the topic.  Array.indexOf gives -1 for a listener that is not there,    *)
(* and splice(-1,1) takes away the last element.                           *)

(* A fault: the oldest listener is taken away, whoever unsubscribes.       *)
PositionFirst(ls, l) == 1

Position(ls, l) ==
    IF \E i \in 1 .. Len(ls) : ls[i] = l
    THEN CHOOSE i \in 1 .. Len(ls) : ls[i] = l /\ \A j \in 1 .. i - 1 : ls[j] # l
    ELSE Len(ls)

Without(ls, l) ==
    LET i == Position(ls, l) IN SubSeq(ls, 1, i - 1) \o SubSeq(ls, i + 1, Len(ls))

(* What is written to a socket that is no longer open is lost.             *)
Write(m) == replies' = IF phase[m.from] = "open" THEN replies \cup {m} ELSE replies

(* A fault: one message is forwarded each time, with no loop.              *)
ContinueNever(c, q) == running' = NoConn

(* The loop goes on with the next message, or returns when there is none.  *)
Continue(c, q) == running' = IF q = <<>> THEN NoConn ELSE c

Await(m) ==
    /\ awaiting' = awaiting \cup {m}
    /\ running' = NoConn
    /\ UNCHANGED replies

(* A sub message: the listener is noted for the socket, then added to the  *)
(* path; only the first listener of a topic subscribes upstream and waits. *)
Sub(c, m, q) ==
    LET ls == listeners[m.path][m.topic]
    IN  /\ handlers' = [handlers EXCEPT ![c][m.path][m.topic] = m]
        /\ listeners' = [listeners EXCEPT ![m.path][m.topic] = Append(@, m)]
        /\ IF ls = <<>>
           THEN /\ upstream' = [upstream EXCEPT ![m.path] =
                       Append(@, [op |-> "sub", topic |-> m.topic, waiter |-> m])]
                /\ Await(m)
           ELSE Write(m) /\ Continue(c, q) /\ UNCHANGED <<upstream, awaiting>>

(* A fault: the path stays subscribed upstream when its last listener goes. *)
UnsubKeepsUpstream(c, m, q) ==
    LET ls == listeners[m.path][m.topic]
        rest == Without(ls, handlers[c][m.path][m.topic])
    IN  /\ listeners' = [listeners EXCEPT ![m.path][m.topic] = IF ls = <<>> THEN @ ELSE rest]
        /\ handlers' = [handlers EXCEPT ![c][m.path][m.topic] = NoMsg]
        /\ Write(m) /\ Continue(c, q) /\ UNCHANGED <<upstream, awaiting>>

(* An unsub message: the listener noted for the socket is taken from the   *)
(* path; when it was the last the path unsubscribes upstream and waits.    *)
(* The note is deleted after the await.                                    *)
Unsub(c, m, q) ==
    LET ls == listeners[m.path][m.topic]
        rest == Without(ls, handlers[c][m.path][m.topic])
    IN  /\ listeners' = [listeners EXCEPT ![m.path][m.topic] = IF ls = <<>> THEN @ ELSE rest]
        /\ IF ls # <<>> /\ rest = <<>>
           THEN /\ upstream' = [upstream EXCEPT ![m.path] =
                       Append(@, [op |-> "unsub", topic |-> m.topic, waiter |-> m])]
                /\ Await(m)
                /\ UNCHANGED handlers
           ELSE /\ handlers' = [handlers EXCEPT ![c][m.path][m.topic] = NoMsg]
                /\ Write(m) /\ Continue(c, q) /\ UNCHANGED <<upstream, awaiting>>

(* One turn of the loop of dequeue_and_forward, up to its await.  A call   *)
(* is a get, a del, a publication or any other message sent on the path.   *)
Forward(c) ==
    /\ running = c
    /\ LET m == Head(queue[c])
           q == Tail(queue[c])
       IN  /\ queue' = [queue EXCEPT ![c] = q]
           /\ current' = [current EXCEPT ![c] = m]
           /\ \/ /\ m.op = "pathless"
                 /\ Continue(c, q)
                 /\ UNCHANGED <<awaiting, handlers, listeners, upstream, replies>>
              \/ /\ m.op = "bad"
                 /\ running' = NoConn
                 /\ UNCHANGED <<awaiting, handlers, listeners, upstream, replies>>
              \/ /\ m.op = "call"
                 /\ Await(m)
                 /\ UNCHANGED <<handlers, listeners, upstream>>
              \/ m.op = "sub" /\ Sub(c, m, q)
              \/ m.op = "unsub" /\ Unsub(c, m, q)
    /\ UNCHANGED <<phase, sent, inbound, subscribed>>

(* data_handler: k whole messages are queued (none when the data ends      *)
(* inside the next), and the loop starts if there is something to do.      *)
Data(c) ==
    /\ running = NoConn
    /\ phase[c] = "open"
    /\ inbound[c] # <<>>
    /\ \E k \in 0 .. Len(inbound[c]) :
          LET q == queue[c] \o SubSeq(inbound[c], 1, k)
          IN  /\ inbound' = [inbound EXCEPT ![c] = SubSeq(@, k + 1, Len(@))]
              /\ queue' = [queue EXCEPT ![c] = q]
              /\ Continue(c, q)
    /\ UNCHANGED <<phase, sent, current, awaiting, handlers, listeners, upstream, subscribed,
                   replies>>

(* The activation that awaits m resumes: the answer is written, the note   *)
(* of an unsubscribed listener deleted, and the loop goes on.              *)
Resume(m) ==
    /\ awaiting' = awaiting \ {m}
    /\ Write(m)
    /\ Continue(m.from, queue[m.from])
    /\ handlers' = IF m.op = "unsub"
                   THEN [handlers EXCEPT ![m.from][m.path][m.topic] = NoMsg]
                   ELSE handlers

(* The endpoint answers a call.                                            *)
CallAnswered(m) ==
    /\ running = NoConn
    /\ m \in awaiting
    /\ m.op = "call"
    /\ Resume(m)
    /\ UNCHANGED <<phase, sent, inbound, queue, current, listeners, upstream, subscribed>>

(* The endpoint answers some call of a client.                             *)
ClientAnswered(c) == \E m \in awaiting : m.from = c /\ CallAnswered(m)

(* The endpoint takes the next sub or unsub of a path, and answers it.     *)
UpstreamAnswered(p) ==
    /\ running = NoConn
    /\ upstream[p] # <<>>
    /\ LET u == Head(upstream[p])
       IN  /\ subscribed' = [subscribed EXCEPT ![p][u.topic] = (u.op = "sub")]
           /\ IF u.waiter \in awaiting
              THEN Resume(u.waiter)
              ELSE UNCHANGED <<awaiting, replies, running, handlers>>
    /\ upstream' = [upstream EXCEPT ![p] = Tail(@)]
    /\ UNCHANGED <<phase, sent, inbound, queue, current, listeners>>

-----------------------------------------------------------------------------
AddConnection(c) ==
    /\ running = NoConn
    /\ phase[c] = "new"
    /\ phase' = [phase EXCEPT ![c] = "open"]
    /\ UNCHANGED <<sent, inbound, queue, current, running, awaiting, handlers, listeners,
                   upstream, subscribed, replies>>

(* The 'close' event: cleanup unsubscribes, without waiting, what is noted *)
(* for the path of the last message dequeued, and of no other path.        *)
Close(c) ==
    /\ running = NoConn
    /\ phase[c] = "closing"
    /\ phase' = [phase EXCEPT ![c] = "closed"]
    /\ LET p == IF current[c] = NoMsg THEN NoPath ELSE current[c].path
           noted == {t \in Topics : p \in Paths /\ handlers[c][p][t] # NoMsg}
           Taken(t) == Without(listeners[p][t], handlers[c][p][t])
           emptied == {t \in noted : listeners[p][t] # <<>> /\ Taken(t) = <<>>}
       IN  IF noted = {}
           THEN UNCHANGED <<handlers, listeners, upstream>>
           ELSE /\ handlers' = [handlers EXCEPT ![c][p] = [t \in Topics |-> NoMsg]]
                /\ listeners' = [listeners EXCEPT ![p] =
                       [t \in Topics |-> IF t \in noted /\ @[t] # <<>> THEN Taken(t) ELSE @[t]]]
                /\ \E us \in [1 .. Cardinality(emptied) -> emptied] :
                      /\ \A t \in emptied : \E i \in DOMAIN us : us[i] = t
                      /\ upstream' = [upstream EXCEPT ![p] = @ \o
                             [i \in DOMAIN us |->
                                 [op |-> "unsub", topic |-> us[i], waiter |-> NoMsg]]]
    /\ UNCHANGED <<sent, inbound, queue, current, running, awaiting, subscribed, replies>>

Next ==
    \/ \E c \in Conns : \/ ClientSend(c)
                        \/ ClientLeave(c)
                        \/ AddConnection(c)
                        \/ Data(c)
                        \/ Forward(c)
                        \/ Close(c)
                        \/ ClientAnswered(c)
    \/ \E p \in Paths : UpstreamAnswered(p)

Spec == Init /\ [][Next]_vars

(* The loop runs on, arrived data is delivered, and endpoints answer (all  *)
(* calls of a client, since it has finitely many).                         *)
Fairness ==
    /\ WF_vars(\E c \in Conns : Forward(c))
    /\ \A c \in Conns : WF_vars(Data(c)) /\ WF_vars(ClientAnswered(c))
    /\ \A p \in Paths : WF_vars(UpstreamAnswered(p))

FairSpec == Spec /\ Fairness

-----------------------------------------------------------------------------
Mine(c, ls) == {i \in 1 .. Len(ls) : ls[i].from = c}

Settled(c) == \A n \in 1 .. sent[c] : Answered(c, n)

(* The table a path serves publications from agrees with what its clients  *)
(* were told: a client that waits for nothing has one listener where it    *)
(* is subscribed and none elsewhere, and one that has closed has none.     *)
ListenersMatchClients ==
    \A c \in Conns, p \in Paths, t \in Topics :
        LET mine == Mine(c, listeners[p][t])
        IN  /\ (phase[c] = "open" /\ Settled(c)) =>
                   Cardinality(mine) = IF Subscribed(c, p, t) THEN 1 ELSE 0
            /\ phase[c] = "closed" => mine = {}

(* Whatever subscribing, unsubscribing and closing overlap, once nothing   *)
(* is on its way the endpoint holds a subscription exactly for the topics  *)
(* that have listeners.                                                    *)
EndpointAgrees ==
    \A p \in Paths : upstream[p] = <<>> =>
        \A t \in Topics : subscribed[p][t] = (listeners[p][t] # <<>>)

(* Every message of a client that names only configured paths is answered, *)
(* however data events and answers from upstream interleave.               *)
EveryRequestAnswered ==
    \A c \in {k \in Conns : OpsOf[k] \subseteq {"sub", "unsub", "call"}} :
        \A n \in 1 .. SendsOf[c] :
            (sent[c] >= n) ~> (Answered(c, n) \/ phase[c] # "open")

(* The listener of a client is taken from its path only for that client:   *)
(* it unsubscribes or closes (README.md line 753 and lib/message_relay.js  *)
(* line 172).                                                              *)
OnlyOwnListenerRemoved ==
    [][\A p \in Paths, t \in Topics : \A i \in 1 .. Len(listeners[p][t]) :
          LET l == listeners[p][t][i]
          IN  \/ \E j \in 1 .. Len(listeners'[p][t]) : listeners'[p][t][j] = l
              \/ phase'[l.from] = "closed"
              \/ current'[l.from].op = "unsub"]_vars
=============================================================================
