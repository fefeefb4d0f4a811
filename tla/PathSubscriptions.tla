-------------------------- MODULE PathSubscriptions --------------------------
(***************************************************************************)
(* Publishing, subscribing and sending on paths, as an application sees    *)
(* it: class CommunicatorAPI of lib/common_communicator.js for a client    *)
(* with one connection, and lib/mutli_path_relay_client.js, which has a    *)
(* client of its own for every path.  The other end of each connection is  *)
(* an endpoint, which knows topics and no paths (module MessageEndpoint).  *)
(*                                                                         *)
(* subscribe_all is left out: it names variables that do not exist, and    *)
(* throws before it has done anything.                                     *)
(***************************************************************************)
EXTENDS Integers, Sequences, FiniteSets

CONSTANTS Paths, Topics,
          Kinds,     \* "single", one client for all paths, and "multi"
          MaxConns,  \* bound on the clients made
          MaxCalls   \* bound on the calls of the application

Conns == 1 .. MaxConns
Keys == Topics \X Paths   \* the names update-topic-path

ASSUME PathSubscriptionsAssumption ==
    /\ Paths # {}
    /\ Kinds \subseteq {"single", "multi"}
    /\ MaxConns \in Nat \ {0}
    /\ MaxCalls \in Nat

VARIABLES
    kind,
    connections, \* the client of each path, 0 for none
    subscribed,  \* the paths that have an entry in MultiPathRelayClient.subscriptions
    madeFor,     \* the path a client was made for
    sock,        \* the socket of each client
    awaiting,    \* the paths await_ready still waits for
    listeners,   \* how many handlers listen for each key at each client
    noted,       \* the keys in subcriptions of each client
    wire,        \* requests on their way to the endpoint
    served,      \* the topics each endpoint has the client in
    updates,     \* publications on their way back
    calls,       \* how many calls the application has made
    again,       \* history: keys subscribed to while they were noted
    lost         \* history: keys whose last sub was never written

multiVars == <<connections, subscribed, madeFor, awaiting>>
handlerVars == <<listeners, noted, again, lost>>
vars == <<kind, multiVars, sock, handlerVars, wire, served, updates, calls>>

Requests == [op : {"sub", "unsub", "pub", "app"}, key : Keys]

TypeOK ==
    /\ kind \in Kinds
    /\ connections \in [Paths -> 0 .. MaxConns]
    /\ subscribed \subseteq Paths
    /\ madeFor \in [Conns -> Paths]
    /\ awaiting \subseteq Paths
    /\ sock \in [Conns -> {"none", "connecting", "open", "closed"}]
    /\ listeners \in [Conns -> [Keys -> Nat]]
    /\ noted \in [Conns -> SUBSET Keys]
    /\ again \in [Conns -> SUBSET Keys]
    /\ lost \in [Conns -> SUBSET Keys]
    /\ wire \in [Conns -> Seq(Requests)]
    /\ served \in [Conns -> SUBSET Topics]
    /\ updates \in [Conns -> Seq(Keys)]
    /\ calls \in 0 .. MaxCalls

(* A single client is connecting; a MultiPathRelayClient has no paths yet. *)
Init ==
    /\ kind \in Kinds
    /\ connections = [p \in Paths |-> IF kind = "single" THEN 1 ELSE 0]
    /\ subscribed = IF kind = "single" THEN Paths ELSE {}
    /\ madeFor = [k \in Conns |-> CHOOSE p \in Paths : TRUE]
    /\ awaiting = {}
    /\ sock = [k \in Conns |-> IF kind = "single" /\ k = 1 THEN "connecting" ELSE "none"]
    /\ listeners = [k \in Conns |-> [key \in Keys |-> 0]]
    /\ noted = [k \in Conns |-> {}]
    /\ again = [k \in Conns |-> {}]
    /\ lost = [k \in Conns |-> {}]
    /\ wire = [k \in Conns |-> <<>>]
    /\ served = [k \in Conns |-> {}]
    /\ updates = [k \in Conns |-> <<>>]
    /\ calls = 0

Call == calls < MaxCalls /\ calls' = calls + 1

-----------------------------------------------------------------------------
(* Paths and their clients                                                 *)

(* add_relay_path.  Nothing ever sets "going", so a path that has a client *)
(* gets another, and the first is left open with nobody to refer to it.    *)
AddRelayPath(p) ==
    /\ kind = "multi"
    /\ Call
    /\ \E k \in Conns :
          /\ sock[k] = "none" /\ \A j \in 1 .. k - 1 : sock[j] # "none"
          /\ sock' = [sock EXCEPT ![k] = "connecting"]
          /\ connections' = [connections EXCEPT ![p] = k]
          /\ madeFor' = [madeFor EXCEPT ![k] = p]
    /\ subscribed' = subscribed \cup {p}
    /\ UNCHANGED <<kind, awaiting, handlerVars, wire, served, updates>>

(* 'client-ready' becomes 'path-ready-p' whichever client of p it is.      *)
Ready(k) ==
    /\ sock[k] = "connecting"
    /\ sock' = [sock EXCEPT ![k] = "open"]
    /\ awaiting' = awaiting \ {madeFor[k]}
    /\ UNCHANGED <<kind, connections, subscribed, madeFor, handlerVars, wire,
                   served, updates, calls>>

(* await_ready looks only at events to come: it waits, too, for a path     *)
(* that is ready already.                                                  *)
AwaitReady(p) ==
    /\ kind = "multi"
    /\ Call
    /\ awaiting' = awaiting \cup {p}
    /\ UNCHANGED <<kind, connections, subscribed, madeFor, sock, handlerVars,
                   wire, served, updates>>

(* The sockets of the clients in K are destroyed, or fail; the endpoints   *)
(* see that and forget them.                                               *)
Close(K) ==
    /\ sock' = [k \in Conns |-> IF k \in K THEN "closed" ELSE sock[k]]
    /\ wire' = [k \in Conns |-> IF k \in K THEN <<>> ELSE wire[k]]
    /\ served' = [k \in Conns |-> IF k \in K THEN {} ELSE served[k]]
    /\ updates' = [k \in Conns |-> IF k \in K THEN <<>> ELSE updates[k]]

(* remove_relay_path closes the client of the path, and leaves it in       *)
(* connections.                                                            *)
RemoveRelayPath(p) ==
    /\ kind = "multi"
    /\ Call
    /\ subscribed' = subscribed \ {p}
    /\ Close({connections[p]} \ {0})
    /\ UNCHANGED <<kind, connections, madeFor, awaiting, handlerVars>>

(* closeAll: clients that have been replaced are not among them.           *)
CloseAll ==
    /\ Call
    /\ Close({connections[p] : p \in Paths} \ {0})
    /\ UNCHANGED <<kind, multiVars, handlerVars>>

Fails(k) ==
    /\ sock[k] \in {"connecting", "open"}
    /\ Close({k})
    /\ UNCHANGED <<kind, multiVars, handlerVars, calls>>

-----------------------------------------------------------------------------
(* Calls on a path.  sendMessage writes to an open socket; before that and *)
(* after it the message goes nowhere, and the caller waits for good.       *)

\* The clients a call goes to, and the key it has there: the client of its path,
\* or those of all paths, each with its own.
Here(t, p) == [k \in {connections[p]} \ {0} |-> <<t, p>>]
Everywhere(t) == [k \in {connections[p] : p \in Paths} \ {0} |-> <<t, madeFor[k]>>]

Write(op, at) ==
    wire' = [k \in Conns |->
                IF k \in DOMAIN at /\ sock[k] = "open"
                THEN Append(wire[k], [op |-> op, key |-> at[k]]) ELSE wire[k]]

(* subscribe: the handler listens and is noted before anything is sent.    *)
(* MultiPathRelayClient throws for a path it has no entry for.             *)
Subscribe(t, p) ==
    /\ Call
    /\ p \in subscribed
    /\ LET k == connections[p]
           key == <<t, p>>
       IN  /\ listeners' = [listeners EXCEPT ![k][key] = @ + 1]
           /\ noted' = [noted EXCEPT ![k] = @ \cup {key}]
           /\ again' = IF key \in noted[k] THEN [again EXCEPT ![k] = @ \cup {key}] ELSE again
           /\ lost' = [lost EXCEPT ![k] = IF sock[k] = "open" THEN @ \ {key} ELSE @ \cup {key}]
    /\ Write("sub", Here(t, p))
    /\ UNCHANGED <<kind, multiVars, sock, served, updates>>

\* Mutants: the note of the key stays when its handler is removed; the note
\* goes and the handler stays; a handler is removed whether one is noted or not.
ForgetHandler(at) ==
    /\ listeners' = [k \in Conns |-> [key \in Keys |->
           IF k \in DOMAIN at /\ key = at[k] /\ key \in noted[k]
           THEN listeners[k][key] - 1 ELSE listeners[k][key]]]
    /\ UNCHANGED noted

ForgetNote(at) ==
    /\ noted' = [k \in Conns |-> IF k \in DOMAIN at THEN noted[k] \ {at[k]} ELSE noted[k]]
    /\ UNCHANGED listeners

ForgetUnnoted(at) ==
    /\ listeners' = [k \in Conns |-> [key \in Keys |->
           IF k \in DOMAIN at /\ key = at[k]
           THEN listeners[k][key] - 1 ELSE listeners[k][key]]]
    /\ noted' = [k \in Conns |-> IF k \in DOMAIN at THEN noted[k] \ {at[k]} ELSE noted[k]]

(* The head of unsubscribe: of all handlers of the key, the one noted last *)
(* is removed, and its note.                                               *)
Forget(at) ==
    /\ listeners' = [k \in Conns |-> [key \in Keys |->
           IF k \in DOMAIN at /\ key = at[k] /\ key \in noted[k]
           THEN listeners[k][key] - 1 ELSE listeners[k][key]]]
    /\ noted' = [k \in Conns |-> IF k \in DOMAIN at THEN noted[k] \ {at[k]} ELSE noted[k]]

UnsubscribeAt(at) ==
    /\ Call
    /\ DOMAIN at # {}
    /\ Forget(at)
    /\ Write("unsub", at)
    /\ UNCHANGED <<kind, multiVars, sock, served, updates, again, lost>>

Unsubscribe(t, p) == UnsubscribeAt(Here(t, p))
UnsubscribeAll(t) == kind = "multi" /\ UnsubscribeAt(Everywhere(t))

SendAt(op, at) ==
    /\ Call
    /\ DOMAIN at # {}
    /\ Write(op, at)
    /\ UNCHANGED <<kind, multiVars, sock, handlerVars, served, updates>>

Publish(t, p) == SendAt("pub", Here(t, p))
PublishAll(t) == kind = "multi" /\ SendAt("pub", Everywhere(t))

(* The send_on_path family, whose operations differ in _tx_op only; a path *)
(* without a client answers false.                                         *)
SendOnPath(t, p) == SendAt("app", Here(t, p))

-----------------------------------------------------------------------------
(* The endpoint takes the next request (module MessageEndpoint): topics    *)
(* only, and a publisher that is subscribed hears itself.                  *)
Serve(k) ==
    /\ wire[k] # <<>>
    /\ wire' = [wire EXCEPT ![k] = Tail(@)]
    /\ LET op == Head(wire[k]).op
           key == Head(wire[k]).key
       IN  /\ served' = [served EXCEPT ![k] = IF op = "sub" THEN @ \cup {key[1]}
                                             ELSE IF op = "unsub" THEN @ \ {key[1]} ELSE @]
           /\ updates' = IF op = "pub" /\ key[1] \in served[k]
                         THEN [updates EXCEPT ![k] = Append(@, key)] ELSE updates
    /\ UNCHANGED <<kind, multiVars, sock, handlerVars, calls>>

(* _handle_unsolicited: the update is emitted to whoever listens for its   *)
(* own topic and path.                                                     *)
HandleUnsolicited(k) ==
    /\ updates[k] # <<>>
    /\ updates' = [updates EXCEPT ![k] = Tail(@)]
    /\ UNCHANGED <<kind, multiVars, sock, handlerVars, wire, served, calls>>

Next ==
    \/ \E p \in Paths : AddRelayPath(p) \/ AwaitReady(p) \/ RemoveRelayPath(p)
    \/ CloseAll
    \/ \E k \in Conns : Ready(k) \/ Fails(k) \/ Serve(k) \/ HandleUnsolicited(k)
    \/ \E t \in Topics : UnsubscribeAll(t) \/ PublishAll(t)
    \/ \E t \in Topics, p \in Paths : \/ Subscribe(t, p)
                                      \/ Unsubscribe(t, p)
                                      \/ Publish(t, p)
                                      \/ SendOnPath(t, p)

Spec == Init /\ [][Next]_vars

-----------------------------------------------------------------------------
(* When nothing is on its way, client and endpoint agree: the endpoint     *)
(* serves a topic only for a handler that is noted; and with a client per  *)
(* path, it serves every topic that is noted - unless the sub was never    *)
(* written.  (One client for all paths loses all of a topic's paths with   *)
(* the first it unsubscribes from.)                                        *)
ServedAsNoted ==
    \A k \in Conns : (sock[k] = "open" /\ wire[k] = <<>>) =>
        /\ \A t \in served[k] : \E p \in Paths : <<t, p>> \in noted[k]
        /\ kind = "multi" =>
              \A key \in noted[k] : key[1] \in served[k] \/ key \in lost[k]

(* A noted key has a handler that hears its updates, and a handler whose   *)
(* key is no longer noted, which nothing can remove any more, is there     *)
(* only when its key was subscribed to twice - whatever was closed, added  *)
(* again or unsubscribed in between.                                       *)
HandlersFollowNotes ==
    \A k \in Conns, key \in Keys :
        /\ key \in noted[k] => listeners[k][key] > 0
        /\ listeners[k][key] > 0 => key \in noted[k] \cup again[k]
=============================================================================
