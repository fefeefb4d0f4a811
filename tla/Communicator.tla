---------------------------- MODULE Communicator ----------------------------
(***************************************************************************)
(* The request/response half of lib/common_communicator.js, the base of    *)
(* every client, with the ResponseVector that gives a request its          *)
(* _response_id.  One Communicator, one peer.  Each call is one invocation *)
(* of sendMessage; an index of waiting_for_response (a slot) holds the     *)
(* resolver of the call that locked it.                                    *)
(*                                                                         *)
(* JavaScript stores waiting_for_response[-1] as happily as any other      *)
(* index, and _message_and_response goes on after it has rejected, so the  *)
(* table modelled here has that entry too.                                 *)
(***************************************************************************)
EXTENDS Integers, FiniteSets

CONSTANTS Calls,          \* invocations of sendMessage
          NoCall,         \* an empty slot, or no answer yet
          Unencodable,    \* the calls whose message JSON.stringify refuses
          MaxUnanswered,  \* conf.max_pending_messages
          Droppable       \* the calls whose datagrams the link may lose

ASSUME CommunicatorAssumption ==
    /\ NoCall \notin Calls
    /\ Unencodable \subseteq Calls
    /\ MaxUnanswered \in Nat \ {0}
    /\ Droppable \subseteq Calls

VARIABLES waiting,    \* waiting_for_response
          promise,    \* the Promise each call returned
          answer,     \* the request whose answer resolved it
          writer,     \* this.writer: none yet, usable, or of a closed socket
          requests,   \* requests the peer has still to answer
          responses   \* answers on their way back

vars == <<waiting, promise, answer, writer, requests, responses>>

Slots == 0 .. MaxUnanswered - 1
Overflow == -1
Ids == Slots \cup {Overflow}
Messages == [call : Calls, id : Ids]

TypeOK ==
    /\ waiting \in [Ids -> Calls \cup {NoCall}]
    /\ promise \in [Calls -> {"idle", "pending", "resolved", "rejected"}]
    /\ answer \in [Calls -> Calls \cup {NoCall}]
    /\ writer \in {"none", "open", "closed"}
    /\ requests \subseteq Messages
    /\ responses \subseteq Messages

\* Mutant: setup_response_vector makes the array one slot short.
ShortVector ==
    /\ waiting = [i \in Ids \ {MaxUnanswered - 1} |-> NoCall]
    /\ promise = [c \in Calls |-> "idle"]
    /\ answer = [c \in Calls |-> NoCall]
    /\ writer = "none"
    /\ requests = {}
    /\ responses = {}

Init ==
    /\ waiting = [i \in Ids |-> NoCall]
    /\ promise = [c \in Calls |-> "idle"]
    /\ answer = [c \in Calls |-> NoCall]
    /\ writer = "none"
    /\ requests = {}
    /\ responses = {}

-----------------------------------------------------------------------------
(* ResponseVector.get_response_id: up from a random index, then from 0 up  *)
(* to that index, else -1.                                                 *)

\* Mutant: the scan does not look whether a slot is in use.
BusyToo(from, to) == {i \in Slots : from <= i /\ i <= to}

Free(from, to) == {i \in Slots : from <= i /\ i <= to /\ waiting[i] = NoCall}

IsFirst(i, S) == i \in S /\ \A j \in S : i <= j

\* Mutant: the scan never wraps around.
NoWrap(first, id) ==
    LET above == Free(first, MaxUnanswered - 1)
    IN  IsFirst(id, above) \/ (above = {} /\ id = Overflow)

GetResponseId(first, id) ==
    LET above == Free(first, MaxUnanswered - 1)
        below == Free(0, first - 1)
    IN  \/ IsFirst(id, above)
        \/ above = {} /\ IsFirst(id, below)
        \/ above = {} /\ below = {} /\ id = Overflow

(* The head of _message_and_response: an id is taken, an overflow rejects  *)
(* the promise and goes on.                                                *)
Pick(c, id) ==
    /\ promise[c] = "idle"
    /\ \E first \in Slots : GetResponseId(first, id)

\* Mutant: an overflow is not rejected.
NeverRejected(c, id) == [promise EXCEPT ![c] = "pending"]

AfterPick(c, id) ==
    [promise EXCEPT ![c] = IF id = Overflow THEN "rejected" ELSE "pending"]

(* encode_message throws inside the Promise executor: the promise is       *)
(* rejected, the slot stays locked, nothing is written.                    *)
SendUnencodable(c) ==
    /\ c \in Unencodable
    /\ \E id \in Ids : Pick(c, id) /\ waiting' = [waiting EXCEPT ![id] = c]
    /\ promise' = [promise EXCEPT ![c] = "rejected"]
    /\ UNCHANGED <<answer, writer, requests, responses>>

\* Mutant: the slot of a message that is written is never locked.
SendUnlocked(c) ==
    /\ c \notin Unencodable
    /\ writer = "open"
    /\ \E id \in Ids :
          /\ Pick(c, id)
          /\ promise' = AfterPick(c, id)
          /\ requests' = requests \cup {[call |-> c, id |-> id]}
    /\ UNCHANGED <<waiting, answer, writer, responses>>

(* The slot is locked and the message written to a usable writer.          *)
Send(c) ==
    /\ c \notin Unencodable
    /\ writer = "open"
    /\ \E id \in Ids :
          /\ Pick(c, id)
          /\ promise' = AfterPick(c, id)
          /\ waiting' = [waiting EXCEPT ![id] = c]
          /\ requests' = requests \cup {[call |-> c, id |-> id]}
    /\ UNCHANGED <<answer, writer, responses>>

(* No writer yet, or the socket of one has closed (a stream reports that   *)
(* after err_handler is removed): the slot is locked for a request that    *)
(* never leaves.                                                           *)
SendNowhere(c) ==
    /\ c \notin Unencodable
    /\ writer # "open"
    /\ \E id \in Ids :
          /\ Pick(c, id)
          /\ promise' = AfterPick(c, id)
          /\ waiting' = [waiting EXCEPT ![id] = c]
    /\ UNCHANGED <<answer, writer, requests, responses>>

(* A closed datagram socket throws from write: the slot is unlocked again, *)
(* and the promise is left as the overflow test left it.                   *)
SendThrows(c) ==
    /\ c \notin Unencodable
    /\ writer = "closed"
    /\ \E id \in Ids :
          /\ Pick(c, id)
          /\ promise' = AfterPick(c, id)
          /\ waiting' = [waiting EXCEPT ![id] = NoCall]
    /\ UNCHANGED <<answer, writer, requests, responses>>

\* Mutants: the resolver is called and its slot never unlocked; the slot is
\* unlocked before its resolver is looked up.
ReceiveKeepsSlot(m) ==
    /\ m \in responses
    /\ responses' = responses \ {m}
    /\ LET owner == waiting[m.id]
       IN  IF owner # NoCall /\ promise[owner] = "pending"
           THEN /\ promise' = [promise EXCEPT ![owner] = "resolved"]
                /\ answer' = [answer EXCEPT ![owner] = m.call]
           ELSE UNCHANGED <<promise, answer>>
    /\ UNCHANGED <<waiting, writer, requests>>

ReceiveUnlocksFirst(m) ==
    /\ m \in responses
    /\ responses' = responses \ {m}
    /\ waiting' = [waiting EXCEPT ![m.id] = NoCall]
    /\ UNCHANGED <<promise, answer, writer, requests>>

(* One turn of the while loop of client_add_data_and_react and of          *)
(* client_add_object_and_react: a resolver unlocks its slot, then resolves *)
(* its promise (which does nothing to one already settled).                *)
Receive(m) ==
    /\ m \in responses
    /\ responses' = responses \ {m}
    /\ LET owner == waiting[m.id]
       IN  /\ waiting' = [waiting EXCEPT ![m.id] = NoCall]
           /\ IF owner # NoCall /\ promise[owner] = "pending"
              THEN /\ promise' = [promise EXCEPT ![owner] = "resolved"]
                   /\ answer' = [answer EXCEPT ![owner] = m.call]
              ELSE UNCHANGED <<promise, answer>>
    /\ UNCHANGED <<writer, requests>>

(* A descendant sets this.writer when its transport is up.                 *)
Connect ==
    /\ writer # "open"
    /\ writer' = "open"
    /\ UNCHANGED <<waiting, promise, answer, requests, responses>>

(* The transport closes; nothing looks at waiting_for_response.            *)
Disconnect ==
    /\ writer = "open"
    /\ writer' = "closed"
    /\ requests' = {}
    /\ responses' = {}
    /\ UNCHANGED <<waiting, promise, answer>>

-----------------------------------------------------------------------------
(* The peer and the link: a request is answered once, under its own id, in *)
(* any order; a datagram of either direction may be lost.                  *)

Answer(m) ==
    /\ m \in requests
    /\ requests' = requests \ {m}
    /\ responses' = responses \cup {m}
    /\ UNCHANGED <<waiting, promise, answer, writer>>

Lose(m) ==
    /\ m.call \in Droppable
    /\ m \in requests \cup responses
    /\ requests' = requests \ {m}
    /\ responses' = responses \ {m}
    /\ UNCHANGED <<waiting, promise, answer, writer>>

-----------------------------------------------------------------------------
Next ==
    \/ \E c \in Calls : \/ SendUnencodable(c)
                        \/ Send(c)
                        \/ SendNowhere(c)
                        \/ SendThrows(c)
    \/ \E m \in responses : Receive(m)
    \/ Connect
    \/ Disconnect
    \/ \E m \in requests : Answer(m)
    \/ \E m \in requests \cup responses : Lose(m)

Spec == Init /\ [][Next]_vars

(* The event loop hands over data that has arrived, and the peer answers   *)
(* what it has received; nobody has to send, connect or stay connected.    *)
Fairness ==
    /\ \A m \in Messages : WF_vars(Receive(m)) /\ WF_vars(Answer(m))

FairSpec == Spec /\ Fairness

-----------------------------------------------------------------------------
InFlight == requests \cup responses

Holds(c, i) == i \in Slots /\ waiting[i] = c

(* No caller is ever handed the answer to somebody else's request, however *)
(* answers are reordered, lost with a connection, or outlived by it:       *)
(* the lookup of _response_id in client_add_data_and_react.                *)
AnswerMatch == \A c \in Calls : promise[c] = "resolved" => answer[c] = c

(* While a request or its answer is under way its slot is held by the call *)
(* that sent it, so get_response_id cannot give the slot to another call   *)
(* and the answer never finds a missing resolver.                          *)
SlotHeldByItsCall == \A m \in InFlight : m.id \in Slots => waiting[m.id] = m.call

(* A slot never outlives the settlement of its call: a locked slot belongs *)
(* to a call still pending, except for a message that could not be encoded *)
(* (its slot is lost to the vector for good).                              *)
NoSlotLeftBehind ==
    \A c \in Calls, i \in Slots :
        waiting[i] = c => promise[c] = "pending" \/ c \in Unencodable

(* get_response_id gives up only when no slot at all is free, whatever     *)
(* index its scan began at.                                                *)
RejectedOnlyWhenFull ==
    [][\A c \in Calls \ Unencodable :
          promise[c] = "idle" /\ promise'[c] = "rejected"
              => \A i \in Slots : waiting[i] # NoCall]_vars

(* A request under way on a link that does not lose it is in the end       *)
(* settled, or its connection goes down first: no order of answers, slot   *)
(* reuse or overflow leaves a caller waiting on a healthy connection.      *)
SettledWhileConnected ==
    \A c \in Calls \ Droppable :
        (\E m \in InFlight : m.call = c)
            ~> (promise[c] \in {"resolved", "rejected"} \/ writer # "open")

(* The abstract service: each call is settled at most once, never after a  *)
(* rejection, and with its own answer.                                     *)
Abstract == INSTANCE RequestReply WITH Calls <- Calls, NoCall <- NoCall,
                                      promise <- promise, answer <- answer
ImplementsRequestReply == Abstract!Spec
=============================================================================
