---------------------------- MODULE RequestReply ----------------------------
(***************************************************************************)
(* What sendMessage promises a caller, with no slots, wires or writers in  *)
(* sight: a call is refused at once or left pending, a pending call may be *)
(* resolved, and only with the answer to its own request.                  *)
(* Communicator is shown to implement this specification.                  *)
(***************************************************************************)

CONSTANTS Calls,   \* the invocations of sendMessage
          NoCall   \* the answer of a call that has none

VARIABLES promise, \* the state of the Promise each call returned
          answer   \* the request whose answer resolved it

vars == <<promise, answer>>

Init == /\ promise = [c \in Calls |-> "idle"]
        /\ answer = [c \in Calls |-> NoCall]

Issue(c) == /\ promise[c] = "idle"
            /\ promise' \in {[promise EXCEPT ![c] = s] : s \in {"pending", "rejected"}}
            /\ UNCHANGED answer

Settle(c) == /\ promise[c] = "pending"
             /\ promise' = [promise EXCEPT ![c] = "resolved"]
             /\ answer' = [answer EXCEPT ![c] = c]

Next == \E c \in Calls : Issue(c) \/ Settle(c)

Spec == Init /\ [][Next]_vars
=============================================================================
