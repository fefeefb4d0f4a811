------------------------------ MODULE Multicast ------------------------------
(***************************************************************************)
(* Topics on multicast ports: subscribe and unsubscribe of                 *)
(* lib/message_relay_multicast.js and the topic servers of                 *)
(* lib/message_endpoint_multicast.js.  Every topic has a port; whoever     *)
(* binds it and joins the group hears the topic's publications, whatever   *)
(* the endpoint's table says, so the table is not modelled.                *)
(*                                                                         *)
(* A port is bound once per host: no socket here is made with reuseAddr.   *)
(* An attempt is one call of subscribe and the socket it makes.  Requests  *)
(* are datagrams: what has been sent may arrive at any time, in any order, *)
(* more than once or never.                                                *)
(***************************************************************************)
EXTENDS Naturals, FiniteSets

CONSTANTS Clients, Topics, Paths,
          Hosts,
          ServerHost,     \* the host of the endpoint
          MaxAttempts     \* bound on the sockets made by subscribe

Keys == Topics \X Paths   \* the names update-topic-path
ClientKeys == Clients \X Keys
Attempts == 1 .. MaxAttempts

ASSUME MulticastAssumption ==
    /\ ClientKeys # {}
    /\ ServerHost \in Hosts
    /\ MaxAttempts \in Nat

VARIABLES host,     \* the host each client runs on
          socket,   \* the socket of each attempt
          owner,    \* the client and the key of each attempt
          entry,    \* subcriptions of each client: the attempt noted, 0 for none
          requests, \* the requests sent to the endpoint so far
          server,   \* all_topic_servers: the endpoint's socket for each topic
          heard,    \* the attempts whose handler has been given a publication
          left,     \* history: keys whose last call was unsubscribe
          hasty,    \* history: keys unsubscribed from while a socket was binding
          crashed   \* the endpoint died of an 'error' nobody listens for

clientVars == <<host, socket, owner, entry, left, hasty>>
vars == <<clientVars, requests, server, heard, crashed>>

None == 0
Requests == [op : {"sub", "unsub", "pub"}, topic : Topics]

TypeOK ==
    /\ host \in [Clients -> Hosts]
    /\ socket \in [Attempts -> {"none", "binding", "member", "closed", "failed"}]
    /\ owner \in [Attempts -> ClientKeys]
    /\ entry \in [ClientKeys -> Attempts \cup {None}]
    /\ requests \subseteq Requests
    /\ server \in [Topics -> {"none", "binding", "bound"}]
    /\ heard \subseteq Attempts
    /\ left \subseteq ClientKeys
    /\ hasty \subseteq ClientKeys
    /\ crashed \in BOOLEAN

Init ==
    /\ host \in [Clients -> Hosts]
    /\ socket = [a \in Attempts |-> "none"]
    /\ owner = [a \in Attempts |-> CHOOSE ck \in ClientKeys : TRUE]
    /\ entry = [ck \in ClientKeys |-> None]
    /\ requests = {}
    /\ server = [t \in Topics |-> "none"]
    /\ heard = {}
    /\ left = {} /\ hasty = {}
    /\ crashed = FALSE

-----------------------------------------------------------------------------
Send(op, t) == requests' = requests \cup {[op |-> op, topic |-> t]}

(* subscribe: refused while the key has an entry, which comes only with    *)
(* 'listening'; else a socket is made and bound, and the endpoint asked.   *)
Subscribe(c, key) ==
    /\ entry[<<c, key>>] = None
    /\ \E a \in Attempts :
          /\ socket[a] = "none" /\ \A b \in 1 .. a - 1 : socket[b] # "none"
          /\ socket' = [socket EXCEPT ![a] = "binding"]
          /\ owner' = [owner EXCEPT ![a] = <<c, key>>]
    /\ Send("sub", key[1])
    /\ left' = left \ {<<c, key>>}
    /\ hasty' = hasty \ {<<c, key>>}
    /\ UNCHANGED <<host, entry, server, heard, crashed>>

HostOfAttempt(a) == host[owner[a][1]]
TopicOf(a) == owner[a][2][1]

\* Mutant: the sockets are made with reuseAddr.
NeverTaken(h, t) == FALSE

\* The port of topic t is bound on host h.
PortTaken(h, t) ==
    \/ \E a \in Attempts : socket[a] = "member" /\ HostOfAttempt(a) = h /\ TopicOf(a) = t
    \/ h = ServerHost /\ server[t] = "bound"

(* 'listening': the socket joins the group and is noted under its key; or  *)
(* 'error', because the port is bound already, and subscribe answers false. *)
Bind(a) ==
    /\ socket[a] = "binding"
    /\ IF PortTaken(HostOfAttempt(a), TopicOf(a))
       THEN socket' = [socket EXCEPT ![a] = "failed"] /\ entry' = entry
       ELSE /\ socket' = [socket EXCEPT ![a] = "member"]
            /\ entry' = [entry EXCEPT ![owner[a]] = a]
    /\ UNCHANGED <<host, owner, left, hasty, requests, server, heard, crashed>>

\* Mutant: the membership is dropped and the socket left open.
UnsubscribeKeepsSocket(c, key) ==
    /\ entry[<<c, key>>] # None => socket[entry[<<c, key>>]] = "member"
    /\ left' = left \cup {<<c, key>>}
    /\ Send("unsub", key[1])
    /\ UNCHANGED <<host, socket, hasty, owner, entry, server, heard, crashed>>

(* unsubscribe: the socket noted is closed, and the note stays for good -  *)
(* with a closed socket there, a later call throws and a later subscribe   *)
(* is refused.  A socket that still binds is not noted, and not closed.    *)
Unsubscribe(c, key) ==
    LET ck == <<c, key>>
        a == entry[ck]
    IN  /\ a # None => socket[a] = "member"
        /\ socket' = [b \in Attempts |-> IF b = a THEN "closed" ELSE socket[b]]
        /\ left' = left \cup {ck}
        /\ hasty' = IF \E b \in Attempts : socket[b] = "binding" /\ owner[b] = ck
                    THEN hasty \cup {ck} ELSE hasty
        /\ Send("unsub", key[1])
        /\ UNCHANGED <<host, owner, entry, server, heard, crashed>>

(* publish: anybody's request to the endpoint.                             *)
Publish(t) ==
    /\ Send("pub", t)
    /\ UNCHANGED <<clientVars, server, heard, crashed>>

-----------------------------------------------------------------------------
\* Mutant: every subscription makes a topic server.
ServerEachTime(r) ==
    /\ r.op = "sub"
    /\ IF server[r.topic] = "bound"
       THEN crashed' = TRUE /\ UNCHANGED server
       ELSE server' = [server EXCEPT ![r.topic] = "binding"] /\ UNCHANGED crashed
    /\ UNCHANGED heard

(* add_to_topic: the first subscription of a topic makes its server.       *)
AddToTopic(r) ==
    /\ r.op = "sub"
    /\ server' = IF server[r.topic] = "none"
                 THEN [server EXCEPT ![r.topic] = "binding"] ELSE server
    /\ UNCHANGED <<heard, crashed>>

(* unsub changes only the table that nothing here depends on.              *)
RemoveFromTopic(r) == r.op = "unsub" /\ UNCHANGED <<server, heard, crashed>>

(* send_to_all: one datagram to the group, which any of the members on any *)
(* path may hear or miss, the publisher's among them; none before there is *)
(* a topic server (one that still binds sends when it is bound).           *)
SendToAll(r) ==
    /\ r.op = "pub"
    /\ LET members == {a \in Attempts : socket[a] = "member" /\ TopicOf(a) = r.topic}
       IN  IF server[r.topic] = "none" THEN heard' = heard
           ELSE \E some \in SUBSET members : heard' = heard \cup some
    /\ UNCHANGED <<server, crashed>>

Receive(r) ==
    /\ AddToTopic(r) \/ RemoveFromTopic(r) \/ SendToAll(r)
    /\ UNCHANGED <<clientVars, requests>>

(* The topic server is bound, or its port is taken by a client on the same *)
(* host: the endpoint has no 'error' handler on it, and ends.              *)
BindServer(t) ==
    /\ server[t] = "binding"
    /\ IF PortTaken(ServerHost, t)
       THEN crashed' = TRUE /\ UNCHANGED server
       ELSE server' = [server EXCEPT ![t] = "bound"] /\ UNCHANGED crashed
    /\ UNCHANGED <<clientVars, requests, heard>>

Next ==
    \/ \E c \in Clients, key \in Keys : Subscribe(c, key) \/ Unsubscribe(c, key)
    \/ \E a \in Attempts : Bind(a)
    \/ \E t \in Topics : Publish(t)
    \/ ~crashed /\ \E r \in requests : Receive(r)
    \/ ~crashed /\ \E t \in Topics : BindServer(t)

Spec == Init /\ [][Next]_vars

-----------------------------------------------------------------------------
(* Every socket that is in the group can be found under its key, so that   *)
(* unsubscribe can close it: of calls of subscribe that overlap, for one   *)
(* key or for several paths of a topic, one gets the port.                 *)
MembersAreNoted ==
    \A a \in Attempts : socket[a] = "member" => entry[owner[a]] = a

(* After unsubscribe nothing more is heard under the key, unless a socket  *)
(* was still binding at the call, which then joins all the same.           *)
LeavesUnlessHasty ==
    \A a \in Attempts :
        socket[a] = "member" /\ owner[a] \in left => owner[a] \in hasty

(* Only a client on the endpoint's own host can bring the endpoint down by *)
(* subscribing, and it keeps the entry of that subscription.               *)
CrashOnlyOnSharedHost ==
    crashed => \E ck \in ClientKeys : host[ck[1]] = ServerHost /\ entry[ck] # None
=============================================================================
