--------------------------- MODULE ResponseTimeout ---------------------------
(***************************************************************************)
(* The client of lib/message_relay_udp.js: a Communicator over datagrams,  *)
(* whose response vector is response-vector/resp_timeout.js.  Requests,    *)
(* slots and answers are those of module Communicator; what is added is    *)
(* the age noted with every slot and the interval that looks at the ages.  *)
(*                                                                         *)
(* Handlers take no time: the clock waits for an interval that is due.     *)
(***************************************************************************)
EXTENDS Communicator

CONSTANTS MaxAge,     \* max_age, the longest wait for a response
          CheckEvery, \* rate_of_check
          MaxTime,    \* bound on the clock
          NoTime      \* no entry in aging_messages

ASSUME ResponseTimeoutAssumption ==
    /\ MaxAge \in Nat
    /\ CheckEvery \in Nat \ {0}
    /\ MaxTime \in Nat
    /\ NoTime \notin Nat

VARIABLES aging,   \* aging_messages
          clock,   \* Date.now()
          due,     \* when the interval fires next
          crashed  \* an exception left the interval's callback

timeVars == <<clock, due, crashed>>
timedVars == <<vars, aging, timeVars>>

TimedTypeOK ==
    /\ TypeOK
    /\ aging \in [Slots -> Nat \cup {NoTime}]
    /\ clock \in 0 .. MaxTime
    /\ due \in Nat
    /\ crashed \in BOOLEAN

TimedInit ==
    /\ Init
    /\ aging = [i \in Slots |-> NoTime]
    /\ clock = 0
    /\ due = CheckEvery
    /\ crashed = FALSE

-----------------------------------------------------------------------------
\* Mutant: the expiry is in the future wherever the slot is found.
ExpiriesAhead(id) == {clock + MaxAge}

(* What get_response_id notes for the slot it returns: the present when    *)
(* the slot is found on the way up, the present and max_age when it is     *)
(* found after the scan has wrapped.                                       *)
Expiries(id) ==
    {clock : f \in {f \in Slots : IsFirst(id, Free(f, MaxUnanswered - 1))}}
    \cup {clock + MaxAge : f \in {f \in Slots :
              Free(f, MaxUnanswered - 1) = {} /\ IsFirst(id, Free(0, f - 1))}}

NoteAge(c) ==
    \E id \in Ids :
        /\ waiting'[id] = c
        /\ IF id = Overflow THEN aging' = aging
           ELSE \E t \in Expiries(id) : aging' = [aging EXCEPT ![id] = t]

SendTimed(c) == Send(c) /\ NoteAge(c)
SendUnencodableTimed(c) == SendUnencodable(c) /\ NoteAge(c)
SendBeforeConnect(c) == writer = "none" /\ SendNowhere(c) /\ NoteAge(c)

(* A disconnected socket throws from send: the slot is unlocked at once,   *)
(* and its age with it.                                                    *)
SendDisconnected(c) == SendThrows(c) /\ UNCHANGED aging

\* Mutant: unlock_response_id leaves the age.
ForgetNothing(id) == aging' = aging

(* unlock_response_id: the age of the slot goes with its resolver.         *)
ForgetAge(id) == aging' = [i \in Slots |-> IF i = id THEN NoTime ELSE aging[i]]

ReceiveTimed(m) == Receive(m) /\ ForgetAge(m.id)

(* 'connect' of the datagram socket: a UPDWriter is made, once.            *)
ConnectDatagrams == writer = "none" /\ Connect /\ UNCHANGED aging

(* closeAll disconnects the socket, which still receives.                  *)
DisconnectDatagrams ==
    /\ writer = "open"
    /\ writer' = "closed"
    /\ UNCHANGED <<waiting, promise, answer, requests, responses, aging>>

Network(m) == (Answer(m) \/ Lose(m)) /\ UNCHANGED aging

(* The callback of setInterval.  It picks the ids whose time has NOT come; *)
(* for the first it takes a new id where it means to look up the resolver, *)
(* and calls that number: a TypeError that nobody catches.  Whatever it    *)
(* had changed by then goes down with the process.  No slot is ever freed  *)
(* here, so a request that is lost waits for good (README.md line 1109 has *)
(* it released).                                                           *)
CheckAges ==
    /\ clock = due
    /\ due' = due + CheckEvery
    /\ crashed' = (\E i \in Slots : aging[i] # NoTime /\ aging[i] > clock)
    /\ UNCHANGED <<vars, aging, clock>>

Tick ==
    /\ clock < due
    /\ clock < MaxTime
    /\ clock' = clock + 1
    /\ UNCHANGED <<vars, aging, due, crashed>>

Handlers ==
    \/ \E c \in Calls : \/ SendTimed(c)
                        \/ SendUnencodableTimed(c)
                        \/ SendBeforeConnect(c)
                        \/ SendDisconnected(c)
    \/ \E m \in responses : ReceiveTimed(m)
    \/ ConnectDatagrams
    \/ DisconnectDatagrams
    \/ \E m \in InFlight : Network(m)

TimedNext ==
    /\ ~crashed
    /\ \/ Handlers /\ UNCHANGED timeVars
       \/ CheckAges
       \/ Tick

TimedSpec == TimedInit /\ [][TimedNext]_timedVars

(* As in Communicator: what has arrived is handed over and answered, for   *)
(* as long as the process lives.                                           *)
TimedFairness ==
    \A m \in Messages :
        WF_timedVars(~crashed /\ (ReceiveTimed(m) \/ (Answer(m) /\ UNCHANGED aging))
                              /\ UNCHANGED timeVars)

TimedFairSpec == TimedSpec /\ TimedFairness

-----------------------------------------------------------------------------
(* The ages and the slots tell the same story: a slot has an age exactly   *)
(* while it is locked, through every reuse, late answer and failed send,   *)
(* so the interval sees every request that waits and none that does not.   *)
AgedWhileLocked == \A i \in Slots : aging[i] # NoTime <=> waiting[i] # NoCall

(* The interval ends the process only when a slot was found after a wrap,  *)
(* and that takes an earlier call that holds a higher slot: a client that  *)
(* has made a single request is never brought down by it.                  *)
CrashNeedsTwoCalls ==
    crashed => \E c, d \in Calls : c # d /\ promise[c] # "idle" /\ promise[d] # "idle"

(* The checks of the ages cost no answer: a request under way on a link    *)
(* that does not lose it is settled, unless the process goes down.         *)
SettledUnlessCrashed ==
    \A c \in Calls \ Droppable :
        (\E m \in InFlight : m.call = c)
            ~> (promise[c] \in {"resolved", "rejected"} \/ crashed)
=============================================================================
