----------------------------- MODULE UDPEndpoint -----------------------------
(***************************************************************************)
(* The datagram endpoint of lib/message_endpoint_udp.js: which clients it  *)
(* remembers, for how long, and to whom it publishes.                      *)
(*                                                                         *)
(* There are no connections: a client is the address and port a datagram   *)
(* comes from, and every datagram with _no_resp belongs to one client more *)
(* that is called "NO:RESPONSE".  Datagrams may overtake each other, and   *)
(* one that is lost is one that is never received.  A message brings one   *)
(* object and is dequeued at once, so a Replier's queue is always empty    *)
(* between events (compare module MessageEndpoint).                        *)
(***************************************************************************)
EXTENDS Integers, FiniteSets

CONSTANTS Clients,        \* the addresses and ports datagrams come from
          Quiet,          \* the clients that put _no_resp in their messages
          NoResponse,     \* the client name "NO:RESPONSE"
          Topics,
          OpsOf,          \* the operations each client asks for
          SendsOf,        \* bound: how many messages each client sends
          Configurations, \* the configurations an endpoint may be made with
          Period,         \* time_out_period
          MaxTime,        \* bound on the clock
          Never           \* no entry in time_out_table

Flags == [no_keeps : BOOLEAN,
          use_broadcast : BOOLEAN,
          child : BOOLEAN]      \* process.send is a function

Ops == {"sub", "unsub", "pub", "app"}

ASSUME UDPEndpointAssumption ==
    /\ Quiet \subseteq Clients
    /\ NoResponse \notin Clients
    /\ OpsOf \in [Clients -> SUBSET Ops]
    /\ SendsOf \in [Clients -> Nat]
    /\ Configurations \subseteq Flags
    /\ Period \in Nat \ {0}
    /\ MaxTime \in Nat
    /\ Never \notin Nat

VARIABLES conf,       \* the configuration
          clock,      \* Date.now()
          table,      \* the client names in messenger_connections
          topics,     \* all_topics: the client names subscribed to each topic
          known,      \* the topics that have an entry in all_topics
          access,     \* time_out_table
          sent,       \* how many messages each client has sent
          inbound,    \* datagrams on their way to the endpoint
          handling,   \* messages inside app_message_handler
          replies,    \* the responses written, and when
          updates,    \* publications written: to whom, and how often
          broadcasts, \* publications sent to the broadcast address
          failed      \* clients for whom app_message_handler has failed

clientVars == <<sent, inbound>>
connectionVars == <<table, topics, known, access>>
outVars == <<replies, updates, broadcasts>>
vars == <<conf, clock, clientVars, connectionVars, handling, outVars, failed>>

Names == Clients \cup {NoResponse}
Messages == [from : Clients, op : Ops, topic : Topics, n : Nat]

NameOf(d) == IF d.from \in Quiet THEN NoResponse ELSE d.from

TypeOK ==
    /\ conf \in Configurations
    /\ clock \in 0 .. MaxTime
    /\ table \subseteq Names
    /\ topics \in [Topics -> SUBSET Names]
    /\ known \subseteq Topics
    /\ access \in [Clients -> 0 .. MaxTime \cup {Never}]
    /\ sent \in [Clients -> Nat]
    /\ inbound \subseteq Messages
    /\ handling \subseteq Messages
    /\ replies \subseteq [msg : Messages, at : 0 .. MaxTime]
    /\ updates \subseteq [to : Clients, msg : Messages, copies : {1, 2}]
    /\ broadcasts \subseteq Messages
    /\ failed \subseteq Clients

Init ==
    /\ conf \in Configurations
    /\ clock = 0
    /\ table = {}
    /\ topics = [t \in Topics |-> {}]
    /\ known = {}
    /\ access = [c \in Clients |-> Never]
    /\ sent = [c \in Clients |-> 0]
    /\ inbound = {} /\ handling = {}
    /\ replies = {} /\ updates = {} /\ broadcasts = {}
    /\ failed = {}

-----------------------------------------------------------------------------
(* The clients, external to the endpoint.                                  *)

ClientSend(c) ==
    /\ sent[c] < SendsOf[c]
    /\ sent' = [sent EXCEPT ![c] = @ + 1]
    /\ \E op \in OpsOf[c], t \in Topics :
          inbound' = inbound \cup {[from |-> c, op |-> op, topic |-> t, n |-> sent[c] + 1]}
    /\ UNCHANGED <<conf, clock, connectionVars, handling, outVars, failed>>

-----------------------------------------------------------------------------
\* Mutant: remove_connection leaves the topics alone.
WithoutEntries(gone, subscribed) == subscribed

(* remove_connection and remove_from_all_topics.                           *)
Without(gone, subscribed) == [t \in Topics |-> subscribed[t] \ gone]

\* The messages after which their sender is remembered.
Keeps(d) == conf.no_keeps => d.op \in {"sub", "pub"}

(* The end of the 'message' handler: the time is noted, or the client      *)
(* forgotten with whatever it had subscribed to.  subscribed and connected *)
(* are the topics and the table as the message has left them.              *)
Remember(d, subscribed, connected) ==
    IF d.from \in Quiet
    THEN topics' = subscribed /\ table' = connected /\ UNCHANGED access
    ELSE IF Keeps(d)
    THEN /\ access' = [access EXCEPT ![d.from] = clock]
         /\ topics' = subscribed /\ table' = connected
    ELSE /\ table' = connected \ {d.from}
         /\ topics' = Without({d.from}, subscribed)
         /\ UNCHANGED access

(* The Replier's answer; the writer of "NO:RESPONSE" writes nothing.       *)
Reply(d) ==
    replies' = IF d.from \in Quiet THEN replies
               ELSE replies \cup {[msg |-> d, at |-> clock]}

\* Mutant: one send too many for each of the others.
SendThrice(d) ==
    /\ updates' = updates \cup
          {[to |-> c, msg |-> d, copies |-> IF c = NameOf(d) THEN 1 ELSE 3] :
              c \in topics[d.topic] \ {NoResponse}}
    /\ UNCHANGED broadcasts

(* send_to_all: one datagram to the broadcast address, or send_to_one for  *)
(* every subscriber and again for those whose writer is not the            *)
(* publisher's.  A UDPWriter counts as open only in a child process.       *)
SendToAll(d) ==
    /\ broadcasts' = IF conf.use_broadcast /\ d.topic \in known
                     THEN broadcasts \cup {d} ELSE broadcasts
    /\ updates' =
         IF conf.use_broadcast \/ ~conf.child THEN updates
         ELSE updates \cup
              {[to |-> c, msg |-> d, copies |-> IF c = NameOf(d) THEN 1 ELSE 2] :
                  c \in topics[d.topic] \ {NoResponse}}

Subscribe(d) ==
    /\ d.op = "sub"
    /\ known' = known \cup {d.topic}
    /\ Remember(d, [topics EXCEPT ![d.topic] = @ \cup {NameOf(d)}], table \cup {NameOf(d)})
    /\ Reply(d)
    /\ UNCHANGED <<handling, updates, broadcasts>>

Unsubscribe(d) ==
    /\ d.op = "unsub"
    /\ Remember(d, [topics EXCEPT ![d.topic] = @ \ {NameOf(d)}], table \cup {NameOf(d)})
    /\ Reply(d)
    /\ UNCHANGED <<known, handling, updates, broadcasts>>

Publish(d) ==
    /\ d.op = "pub"
    /\ SendToAll(d)
    /\ Remember(d, topics, table \cup {NameOf(d)})
    /\ Reply(d)
    /\ UNCHANGED <<known, handling>>

(* Any other message waits in app_message_handler.                         *)
Request(d) ==
    /\ d.op = "app"
    /\ table' = table \cup {NameOf(d)}
    /\ handling' = handling \cup {d}
    /\ UNCHANGED <<topics, known, access, outVars>>

(* The 'message' handler, as far as its first wait: the client gets a      *)
(* connection if it has none, and add_object_and_react takes the message.  *)
Receive(d) ==
    /\ inbound' = inbound \ {d}
    /\ Subscribe(d) \/ Unsubscribe(d) \/ Publish(d) \/ Request(d)
    /\ UNCHANGED <<conf, clock, sent, failed>>

\* Mutant: the handler ends without looking whether clients are kept.
AppDoneKeeps(d) ==
    /\ handling' = handling \ {d}
    /\ Reply(d)
    /\ UNCHANGED <<conf, clock, clientVars, connectionVars, updates, broadcasts, failed>>

(* app_message_handler has resolved; the tables are what they are by now.  *)
AppDone(d) ==
    /\ handling' = handling \ {d}
    /\ Reply(d)
    /\ Remember(d, topics, table)
    /\ UNCHANGED <<conf, clock, clientVars, known, updates, broadcasts, failed>>

(* It has failed: the catch of the handler skips the response and the rest. *)
AppFails(d) ==
    /\ handling' = handling \ {d}
    /\ failed' = failed \cup {d.from}
    /\ UNCHANGED <<conf, clock, clientVars, connectionVars, outVars>>

\* Mutant: a client is late after one period.
LateAfterOne(c) == access[c] # Never /\ clock - access[c] > Period

Late(c) == access[c] # Never /\ clock - access[c] > Period * 3

(* The interval: it was set before time_out_period was, and so fires all   *)
(* the time.  The entries of time_out_table stay.                          *)
Purge ==
    LET late == {c \in Clients : Late(c)}
    IN  /\ late \cap table # {}
        /\ table' = table \ late
        /\ topics' = Without(late \cap table, topics)
        /\ UNCHANGED <<conf, clock, clientVars, known, access, handling, outVars, failed>>

Tick ==
    /\ clock < MaxTime
    /\ clock' = clock + 1
    /\ UNCHANGED <<conf, clientVars, connectionVars, handling, outVars, failed>>

Next ==
    \/ \E c \in Clients : ClientSend(c)
    \/ \E d \in inbound : Receive(d)
    \/ \E d \in handling : AppDone(d) \/ AppFails(d)
    \/ Purge
    \/ Tick

Spec == Init /\ [][Next]_vars

-----------------------------------------------------------------------------
(* Whoever is in the topic table has a connection, however the waits of    *)
(* requests, the interval and the next datagrams of the same client come   *)
(* in between: nothing subscribes a client that has just been forgotten.   *)
TopicsWithinTable == \A t \in Topics : topics[t] \subseteq table

(* An endpoint that keeps no clients holds one only while it handles a     *)
(* message of it, or after a sub or pub - or for good, when the handler of *)
(* one of its messages has failed.                                         *)
ForgottenUnlessFailed ==
    conf.no_keeps =>
        \A c \in table \ {NoResponse} :
            access[c] # Never \/ c \in failed \/ \E d \in handling : d.from = c

(* From the answer to its sub, a client is written every publication of    *)
(* the topic for three periods at least, until it is answered an unsub of  *)
(* the topic or, at an endpoint that keeps no clients, anything that is    *)
(* not a sub or pub: no purge, no other order of its datagrams, no failed  *)
(* request and no other client takes that away.  Only in a child process,  *)
(* as the code is.                                                         *)
SubscribedUntilNow(c, t) ==
    /\ c \notin Quiet
    /\ \E r \in replies : /\ r.msg.from = c /\ r.msg.op = "sub" /\ r.msg.topic = t
                          /\ clock - r.at <= Period * 3
    /\ \A r \in replies : r.msg.from = c =>
          IF conf.no_keeps THEN r.msg.op \in {"sub", "pub"}
          ELSE r.msg.op # "unsub" \/ r.msg.topic # t

SubscriberIsServed ==
    [][conf.child /\ ~conf.use_broadcast =>
        \A d \in inbound \ inbound' : \A c \in Clients \ {d.from} :
            d.op = "pub" /\ SubscribedUntilNow(c, d.topic)
                => \E u \in updates' : u.to = c /\ u.msg = d]_vars
=============================================================================
