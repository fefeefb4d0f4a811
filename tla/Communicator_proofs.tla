------------------------ MODULE Communicator_proofs -------------------------
(***************************************************************************)
(* Proofs about Communicator, for every set of calls and every size of the *)
(* response vector, and about ResponseTimeout, for any max_age as well.    *)
(* AnswerMatch is not inductive: an answer is handed to whoever holds its  *)
(* slot, so what has to be carried along is who can hold a slot while      *)
(* something is under way for it.  What is shown of a single step of       *)
(* Communicator is used again for ResponseTimeout, the second half of the  *)
(* module: all its steps but those of the clock are steps of Communicator, *)
(* save for a socket that is disconnected and still receives.              *)
(***************************************************************************)
EXTENDS ResponseTimeout, TLAPS

(* A call not yet made holds no slot and has nothing under way.            *)
IdleIsFresh ==
    \A c \in Calls : promise[c] = "idle" =>
        /\ \A i \in Ids : waiting[i] # c
        /\ \A m \in InFlight : m.call # c

(* No call holds two entries of waiting_for_response.                      *)
OneSlotEach ==
    \A i, j \in Ids : waiting[i] # NoCall /\ waiting[i] = waiting[j] => i = j

(* The entry -1 is only ever held by a call that has been rejected.        *)
OverflowIsRejected ==
    waiting[Overflow] # NoCall => promise[waiting[Overflow]] = "rejected"

(* A request is answered once: it is never under way in both directions.   *)
OneDirection == requests \cap responses = {}

IInv ==
    /\ TypeOK
    /\ IdleIsFresh
    /\ OneSlotEach
    /\ OverflowIsRejected
    /\ OneDirection
    /\ SlotHeldByItsCall
    /\ NoSlotLeftBehind
    /\ AnswerMatch

-----------------------------------------------------------------------------
(* What get_response_id may return: an id that is free, or -1 when every   *)
(* slot is taken.                                                          *)
LEMMA ResponseIdIsFree ==
    ASSUME TypeOK, NEW first \in Slots, NEW id \in Ids, GetResponseId(first, id)
    PROVE  /\ id \in Slots => waiting[id] = NoCall
           /\ id = Overflow => \A i \in Slots : waiting[i] # NoCall
<1>1. MaxUnanswered \in Nat \ {0}
  BY CommunicatorAssumption
<1>2. Overflow \notin Slots
  BY <1>1 DEF Overflow, Slots
<1>3. ASSUME id \in Slots PROVE waiting[id] = NoCall
  BY <1>2, <1>3 DEF GetResponseId, IsFirst, Free
<1>4. ASSUME id = Overflow, NEW i \in Slots PROVE waiting[i] # NoCall
  <2>1. Free(first, MaxUnanswered - 1) = {} /\ Free(0, first - 1) = {}
    BY <1>2, <1>4 DEF GetResponseId, IsFirst, Free
  <2>2. i \in first .. MaxUnanswered - 1 \/ i \in 0 .. first - 1
    BY <1>1 DEF Slots
  <2> QED
    BY <1>1, <2>1, <2>2 DEF Free, Slots
<1> QED
  BY <1>3, <1>4

LEMMA InitIInv == Init => IInv
  BY CommunicatorAssumption
     DEF Init, IInv, TypeOK, IdleIsFresh, OneSlotEach, OverflowIsRejected, OneDirection,
         SlotHeldByItsCall, NoSlotLeftBehind, AnswerMatch, InFlight, Ids, Slots, Overflow

LEMMA SendUnencodableIInv ==
    ASSUME IInv, NEW c \in Calls, SendUnencodable(c)
    PROVE  IInv'
<1>1. PICK id \in Ids : Pick(c, id) /\ waiting' = [waiting EXCEPT ![id] = c]
  BY DEF SendUnencodable
<1>2. /\ promise[c] = "idle"
      /\ promise' = [promise EXCEPT ![c] = "rejected"]
      /\ UNCHANGED <<answer, writer, requests, responses>>
      /\ c \in Unencodable
  BY <1>1 DEF SendUnencodable, Pick
<1>3. id \in Slots => waiting[id] = NoCall
  BY <1>1, ResponseIdIsFree DEF Pick, IInv
<1>4. c # NoCall
  BY CommunicatorAssumption
<1>5. TypeOK'
  BY <1>1, <1>2 DEF IInv, TypeOK
<1>6. IdleIsFresh'
  BY <1>1, <1>2 DEF IInv, TypeOK, IdleIsFresh, InFlight
<1>7. OneSlotEach'
  BY <1>1, <1>2, <1>4 DEF IInv, TypeOK, OneSlotEach, IdleIsFresh
<1>8. OverflowIsRejected'
  BY <1>1, <1>2, CommunicatorAssumption
     DEF IInv, TypeOK, OverflowIsRejected, Ids, Overflow
<1>9. OneDirection' /\ AnswerMatch'
  BY <1>1, <1>2 DEF IInv, TypeOK, OneDirection, AnswerMatch
<1>10. SlotHeldByItsCall'
  BY <1>1, <1>2, <1>3, CommunicatorAssumption
     DEF IInv, TypeOK, SlotHeldByItsCall, InFlight, Messages, Ids
<1>11. NoSlotLeftBehind'
  BY <1>1, <1>2 DEF IInv, TypeOK, NoSlotLeftBehind, Ids
<1> QED
  BY <1>5, <1>6, <1>7, <1>8, <1>9, <1>10, <1>11 DEF IInv

LEMMA SendIInv ==
    ASSUME IInv, NEW c \in Calls, Send(c)
    PROVE  IInv'
<1>1. PICK id \in Ids : /\ Pick(c, id)
                        /\ promise' = AfterPick(c, id)
                        /\ waiting' = [waiting EXCEPT ![id] = c]
                        /\ requests' = requests \cup {[call |-> c, id |-> id]}
  BY DEF Send
<1>2. promise[c] = "idle" /\ UNCHANGED <<answer, writer, responses>>
  BY <1>1 DEF Send, Pick
<1>3. id \in Slots => waiting[id] = NoCall
  BY <1>1, ResponseIdIsFree DEF Pick, IInv
<1>4. promise' = [promise EXCEPT ![c] = IF id = Overflow THEN "rejected" ELSE "pending"]
  BY <1>1 DEF AfterPick
<1>5. c # NoCall /\ [call |-> c, id |-> id] \in Messages
  BY CommunicatorAssumption DEF Messages
<1>6. TypeOK'
  BY <1>1, <1>2, <1>4, <1>5 DEF IInv, TypeOK
<1>7. IdleIsFresh'
  BY <1>1, <1>2, <1>4 DEF IInv, TypeOK, IdleIsFresh, InFlight
<1>8. OneSlotEach'
  BY <1>1, <1>2, <1>5 DEF IInv, TypeOK, OneSlotEach, IdleIsFresh
<1>9. OverflowIsRejected'
  <2>1. CASE id = Overflow
    BY <1>1, <1>4, <2>1 DEF IInv, TypeOK, OverflowIsRejected
  <2>2. CASE id # Overflow
    <3>1. waiting'[Overflow] = waiting[Overflow]
      BY <1>1, <2>2 DEF IInv, TypeOK, Ids
    <3>2. waiting[Overflow] # c
      BY <1>2 DEF IInv, IdleIsFresh, Ids
    <3> QED
      BY <1>4, <3>1, <3>2 DEF IInv, TypeOK, OverflowIsRejected, Ids
  <2> QED
    BY <2>1, <2>2
<1>10. OneDirection'
  BY <1>1, <1>2 DEF IInv, OneDirection, IdleIsFresh, InFlight
<1>11. SlotHeldByItsCall'
  <2> SUFFICES ASSUME NEW m \in InFlight', m.id \in Slots
               PROVE  waiting'[m.id] = m.call
    BY DEF SlotHeldByItsCall
  <2>1. CASE m = [call |-> c, id |-> id]
    BY <1>1, <2>1 DEF IInv, TypeOK
  <2>2. CASE m \in InFlight
    <3>1. waiting[m.id] = m.call /\ m.call \in Calls
      BY <2>2 DEF IInv, SlotHeldByItsCall, TypeOK, InFlight, Messages
    <3>2. m.id # id
      BY <1>3, <3>1, CommunicatorAssumption
    <3> QED
      BY <1>1, <3>1, <3>2 DEF IInv, TypeOK, Ids
  <2> QED
    BY <1>1, <1>2, <2>1, <2>2 DEF InFlight
<1>12. NoSlotLeftBehind'
  <2> SUFFICES ASSUME NEW d \in Calls, NEW i \in Slots, waiting'[i] = d
               PROVE  promise'[d] = "pending" \/ d \in Unencodable
    BY DEF NoSlotLeftBehind
  <2>1. CASE i = id
    <3>1. d = c /\ id # Overflow
      BY <1>1, <2>1, CommunicatorAssumption DEF IInv, TypeOK, Overflow, Slots, Ids
    <3> QED
      BY <1>4, <3>1 DEF IInv, TypeOK
  <2>2. CASE i # id
    <3>1. waiting[i] = d /\ d # c
      BY <1>1, <1>2, <2>2 DEF IInv, TypeOK, IdleIsFresh, Ids
    <3> QED
      BY <1>4, <3>1 DEF IInv, TypeOK, NoSlotLeftBehind
  <2> QED
    BY <2>1, <2>2
<1>13. AnswerMatch'
  BY <1>2, <1>4 DEF IInv, TypeOK, AnswerMatch
<1> QED
  BY <1>6, <1>7, <1>8, <1>9, <1>10, <1>11, <1>12, <1>13 DEF IInv

LEMMA SendNowhereIInv ==
    ASSUME IInv, NEW c \in Calls, SendNowhere(c)
    PROVE  IInv'
<1>1. PICK id \in Ids : /\ Pick(c, id)
                        /\ promise' = AfterPick(c, id)
                        /\ waiting' = [waiting EXCEPT ![id] = c]
  BY DEF SendNowhere
<1>2. promise[c] = "idle" /\ UNCHANGED <<answer, writer, requests, responses>>
  BY <1>1 DEF SendNowhere, Pick
<1>3. id \in Slots => waiting[id] = NoCall
  BY <1>1, ResponseIdIsFree DEF Pick, IInv
<1>4. promise' = [promise EXCEPT ![c] = IF id = Overflow THEN "rejected" ELSE "pending"]
  BY <1>1 DEF AfterPick
<1>5. c # NoCall
  BY CommunicatorAssumption
<1>6. TypeOK'
  BY <1>1, <1>2, <1>4 DEF IInv, TypeOK
<1>7. IdleIsFresh'
  BY <1>1, <1>2, <1>4 DEF IInv, TypeOK, IdleIsFresh, InFlight
<1>8. OneSlotEach'
  BY <1>1, <1>2, <1>5 DEF IInv, TypeOK, OneSlotEach, IdleIsFresh
<1>9. OverflowIsRejected'
  <2>1. CASE id = Overflow
    BY <1>1, <1>4, <2>1 DEF IInv, TypeOK, OverflowIsRejected
  <2>2. CASE id # Overflow
    BY <1>1, <1>2, <1>4, <2>2 DEF IInv, TypeOK, OverflowIsRejected, IdleIsFresh, Ids
  <2> QED
    BY <2>1, <2>2
<1>10. OneDirection' /\ AnswerMatch'
  BY <1>2, <1>4 DEF IInv, TypeOK, OneDirection, AnswerMatch
<1>11. SlotHeldByItsCall'
  BY <1>1, <1>2, <1>3, CommunicatorAssumption
     DEF IInv, TypeOK, SlotHeldByItsCall, InFlight, Messages, Ids
<1>12. NoSlotLeftBehind'
  <2> SUFFICES ASSUME NEW d \in Calls, NEW i \in Slots, waiting'[i] = d
               PROVE  promise'[d] = "pending" \/ d \in Unencodable
    BY DEF NoSlotLeftBehind
  <2>1. CASE i = id
    <3>1. d = c /\ id # Overflow
      BY <1>1, <2>1, CommunicatorAssumption DEF IInv, TypeOK, Overflow, Slots, Ids
    <3> QED
      BY <1>4, <3>1 DEF IInv, TypeOK
  <2>2. CASE i # id
    <3>1. waiting[i] = d /\ d # c
      BY <1>1, <1>2, <2>2 DEF IInv, TypeOK, IdleIsFresh, Ids
    <3> QED
      BY <1>4, <3>1 DEF IInv, TypeOK, NoSlotLeftBehind
  <2> QED
    BY <2>1, <2>2
<1> QED
  BY <1>6, <1>7, <1>8, <1>9, <1>10, <1>11, <1>12 DEF IInv

LEMMA SendThrowsIInv ==
    ASSUME IInv, NEW c \in Calls, SendThrows(c)
    PROVE  IInv'
<1>1. PICK id \in Ids : /\ Pick(c, id)
                        /\ promise' = AfterPick(c, id)
                        /\ waiting' = [waiting EXCEPT ![id] = NoCall]
  BY DEF SendThrows
<1>2. promise[c] = "idle" /\ UNCHANGED <<answer, writer, requests, responses>>
  BY <1>1 DEF SendThrows, Pick
<1>3. id \in Slots => waiting[id] = NoCall
  BY <1>1, ResponseIdIsFree DEF Pick, IInv
<1>4. promise' = [promise EXCEPT ![c] = IF id = Overflow THEN "rejected" ELSE "pending"]
  BY <1>1 DEF AfterPick
<1>5. TypeOK'
  BY <1>1, <1>2, <1>4 DEF IInv, TypeOK
<1>6. IdleIsFresh'
  BY <1>1, <1>2, <1>4, CommunicatorAssumption DEF IInv, TypeOK, IdleIsFresh, InFlight
<1>7. OneSlotEach'
  BY <1>1, <1>2 DEF IInv, TypeOK, OneSlotEach
<1>8. OverflowIsRejected'
  BY <1>1, <1>2, <1>4 DEF IInv, TypeOK, OverflowIsRejected, IdleIsFresh, Ids
<1>9. OneDirection' /\ AnswerMatch'
  BY <1>2, <1>4 DEF IInv, TypeOK, OneDirection, AnswerMatch
<1>10. SlotHeldByItsCall'
  BY <1>1, <1>2, <1>3, CommunicatorAssumption
     DEF IInv, TypeOK, SlotHeldByItsCall, InFlight, Messages, Ids
<1>11. NoSlotLeftBehind'
  BY <1>1, <1>2, <1>4, CommunicatorAssumption
     DEF IInv, TypeOK, NoSlotLeftBehind, IdleIsFresh, Ids
<1> QED
  BY <1>5, <1>6, <1>7, <1>8, <1>9, <1>10, <1>11 DEF IInv

(* The step that matters: a pending promise is only ever resolved by the   *)
(* answer to its own request.                                              *)
LEMMA ReceiveResolvesItsOwn ==
    ASSUME IInv, NEW m \in responses,
           waiting[m.id] # NoCall, promise[waiting[m.id]] = "pending"
    PROVE  waiting[m.id] = m.call /\ m.id \in Slots
<1>1. m \in InFlight /\ m.id \in Ids
  BY DEF InFlight, IInv, TypeOK, Messages
<1>2. m.id # Overflow
  BY DEF IInv, OverflowIsRejected
<1> QED
  BY <1>1, <1>2 DEF IInv, SlotHeldByItsCall, Ids

LEMMA ReceiveIInv ==
    ASSUME IInv, NEW m \in responses, Receive(m)
    PROVE  IInv'
<1> DEFINE owner == waiting[m.id]
           settles == owner # NoCall /\ promise[owner] = "pending"
<1>1. /\ m \in InFlight /\ m \in Messages /\ m.id \in Ids /\ m.call \in Calls
      /\ waiting' = [waiting EXCEPT ![m.id] = NoCall]
      /\ responses' = responses \ {m}
      /\ UNCHANGED <<writer, requests>>
  BY DEF Receive, InFlight, IInv, TypeOK, Messages
<1>2. settles => /\ owner = m.call /\ m.id \in Slots
                 /\ promise' = [promise EXCEPT ![owner] = "resolved"]
                 /\ answer' = [answer EXCEPT ![owner] = m.call]
  BY ReceiveResolvesItsOwn DEF Receive
<1>3. ~settles => UNCHANGED <<promise, answer>>
  BY DEF Receive
<1>4. TypeOK'
  BY <1>1, <1>2, <1>3, CommunicatorAssumption DEF IInv, TypeOK
<1>5. IdleIsFresh'
  BY <1>1, <1>2, <1>3, CommunicatorAssumption DEF IInv, TypeOK, IdleIsFresh, InFlight
<1>6. OneSlotEach'
  BY <1>1 DEF IInv, TypeOK, OneSlotEach
<1>7. OverflowIsRejected'
  BY <1>1, <1>2, <1>3 DEF IInv, TypeOK, OverflowIsRejected, Ids
<1>8. OneDirection'
  BY <1>1 DEF IInv, OneDirection
<1>9. SlotHeldByItsCall'
  <2> SUFFICES ASSUME NEW n \in InFlight', n.id \in Slots
               PROVE  waiting'[n.id] = n.call
    BY DEF SlotHeldByItsCall
  <2>1. n \in InFlight /\ n \in Messages /\ n # m
    BY <1>1 DEF IInv, TypeOK, InFlight, OneDirection
  <2>2. waiting[n.id] = n.call
    BY <2>1 DEF IInv, SlotHeldByItsCall
  <2>3. n.id # m.id
    BY <1>1, <2>1, <2>2 DEF IInv, SlotHeldByItsCall, Messages
  <2> QED
    BY <1>1, <2>2, <2>3 DEF IInv, TypeOK, Ids
<1>10. NoSlotLeftBehind'
  BY <1>1, <1>2, <1>3, CommunicatorAssumption
     DEF IInv, TypeOK, NoSlotLeftBehind, OneSlotEach, Ids
<1>11. AnswerMatch'
  BY <1>1, <1>2, <1>3 DEF IInv, TypeOK, AnswerMatch
<1> QED
  BY <1>4, <1>5, <1>6, <1>7, <1>8, <1>9, <1>10, <1>11 DEF IInv

(* Connecting, closing, answering and losing move messages and the writer; *)
(* nothing new is under way and nobody is settled.                         *)
LEMMA LinkIInv ==
    ASSUME IInv,
           Connect \/ Disconnect \/ (\E m \in requests : Answer(m))
                   \/ (\E m \in InFlight : Lose(m))
    PROVE  IInv'
<1>1. /\ UNCHANGED <<waiting, promise, answer>>
      /\ writer' \in {"none", "open", "closed"}
      /\ InFlight' \subseteq InFlight
      /\ requests' \subseteq requests
      /\ OneDirection'
  BY DEF Connect, Disconnect, Answer, Lose, IInv, TypeOK, OneDirection, InFlight
<1>2. TypeOK'
  BY <1>1 DEF IInv, TypeOK, InFlight
<1>3. IdleIsFresh' /\ OneSlotEach' /\ OverflowIsRejected' /\ NoSlotLeftBehind' /\ AnswerMatch'
  BY <1>1 DEF IInv, IdleIsFresh, OneSlotEach, OverflowIsRejected, NoSlotLeftBehind, AnswerMatch
<1>4. SlotHeldByItsCall'
  BY <1>1 DEF IInv, SlotHeldByItsCall
<1> QED
  BY <1>1, <1>2, <1>3, <1>4 DEF IInv

LEMMA NextIInv == IInv /\ [Next]_vars => IInv'
<1> SUFFICES ASSUME IInv, [Next]_vars PROVE IInv'
  OBVIOUS
<1>1. ASSUME NEW c \in Calls, SendUnencodable(c) PROVE IInv'
  BY <1>1, SendUnencodableIInv
<1>2. ASSUME NEW c \in Calls, Send(c) PROVE IInv'
  BY <1>2, SendIInv
<1>3. ASSUME NEW c \in Calls, SendNowhere(c) PROVE IInv'
  BY <1>3, SendNowhereIInv
<1>4. ASSUME NEW c \in Calls, SendThrows(c) PROVE IInv'
  BY <1>4, SendThrowsIInv
<1>5. ASSUME NEW m \in responses, Receive(m) PROVE IInv'
  BY <1>5, ReceiveIInv
<1>6. CASE Connect \/ Disconnect \/ (\E m \in requests : Answer(m))
                   \/ (\E m \in InFlight : Lose(m))
  BY <1>6, LinkIInv
<1>7. CASE UNCHANGED vars
  BY <1>7 DEF vars, IInv, TypeOK, IdleIsFresh, OneSlotEach, OverflowIsRejected, OneDirection,
              SlotHeldByItsCall, NoSlotLeftBehind, AnswerMatch, InFlight
<1> QED
  BY <1>1, <1>2, <1>3, <1>4, <1>5, <1>6, <1>7 DEF Next, InFlight

(* The strengthening of AnswerMatch is an invariant.                       *)
THEOREM Invariance == Spec => []IInv
  BY InitIInv, NextIInv, PTL DEF Spec

(* Every variable keeps its type, for every set of calls and vector size.  *)
THEOREM TypeCorrect == Spec => []TypeOK
<1>1. IInv => TypeOK
  BY DEF IInv
<1> QED
  BY <1>1, Invariance, PTL

(* A caller is only ever handed the answer to its own request: the lookup  *)
(* of _response_id in client_add_data_and_react never finds another call,  *)
(* because a slot stays with its call while anything is under way for it.  *)
THEOREM AnswersMatch == Spec => [](AnswerMatch /\ SlotHeldByItsCall)
<1>1. IInv => AnswerMatch /\ SlotHeldByItsCall
  BY DEF IInv
<1> QED
  BY <1>1, Invariance, PTL

(* A slot stays with its call for as long as its request or the answer is  *)
(* under way: nothing under way ever finds a missing or foreign resolver.  *)
THEOREM SlotsHeldByTheirCalls == Spec => []SlotHeldByItsCall
<1>1. IInv => SlotHeldByItsCall
  BY DEF IInv
<1> QED
  BY <1>1, Invariance, PTL

(* A slot is held only for a call still pending, except for those lost to  *)
(* messages that could not be encoded.                                     *)
THEOREM SlotsAreReturned == Spec => []NoSlotLeftBehind
<1>1. IInv => NoSlotLeftBehind
  BY DEF IInv
<1> QED
  BY <1>1, Invariance, PTL

-----------------------------------------------------------------------------
(* get_response_id rejects a message only when every slot is taken,        *)
(* wherever its scan began.                                                *)
THEOREM RejectionMeansFull == Spec => RejectedOnlyWhenFull
<1> DEFINE Refusal(c) == promise[c] = "idle" /\ promise'[c] = "rejected"
           Full == \A i \in Slots : waiting[i] # NoCall
<1>1. ASSUME IInv, Next, NEW c \in Calls \ Unencodable, Refusal(c) PROVE Full
  <2>1. ASSUME NEW d \in Calls, NEW id \in Ids, Pick(d, id), promise' = AfterPick(d, id)
        PROVE  Full
    <3>1. d = c /\ id = Overflow
      BY <1>1, <2>1 DEF AfterPick, IInv, TypeOK
    <3> QED
      BY <1>1, <2>1, <3>1, ResponseIdIsFree DEF Pick, IInv
  <2>2. ASSUME NEW d \in Calls, SendUnencodable(d) PROVE FALSE
    BY <1>1, <2>2 DEF SendUnencodable, IInv, TypeOK
  <2>3. ASSUME NEW m \in responses, Receive(m) PROVE FALSE
    BY <1>1, <2>3 DEF Receive, IInv, TypeOK
  <2>4. ASSUME UNCHANGED promise PROVE FALSE
    BY <1>1, <2>4
  <2>5. ASSUME NEW d \in Calls, Send(d) \/ SendNowhere(d) \/ SendThrows(d) PROVE Full
    BY <2>1, <2>5 DEF Send, SendNowhere, SendThrows
  <2> QED
    BY <1>1, <2>2, <2>3, <2>4, <2>5 DEF Next, Connect, Disconnect, Answer, Lose
<1>2. IInv /\ [Next]_vars => [\A c \in Calls \ Unencodable : Refusal(c) => Full]_vars
  BY <1>1
<1>3. Spec => [][\A c \in Calls \ Unencodable : Refusal(c) => Full]_vars
  BY <1>2, Invariance, PTL DEF Spec
<1> QED
  BY <1>3 DEF RejectedOnlyWhenFull

(* Every step is the issue of a call, the settling of one with its own     *)
(* answer, or no step of RequestReply at all.                              *)
LEMMA StepRefines ==
    ASSUME IInv, [Next]_vars
    PROVE  [Abstract!Next]_(Abstract!vars)
<1>1. ASSUME NEW c \in Calls, NEW id \in Ids, Pick(c, id), promise' = AfterPick(c, id),
             UNCHANGED answer
      PROVE  Abstract!Issue(c)
  BY <1>1 DEF Pick, AfterPick, Abstract!Issue
<1>2. ASSUME NEW c \in Calls, SendUnencodable(c) PROVE Abstract!Issue(c)
  BY <1>2 DEF SendUnencodable, Pick, Abstract!Issue
<1>3. ASSUME NEW c \in Calls, Send(c) \/ SendNowhere(c) \/ SendThrows(c)
      PROVE  Abstract!Issue(c)
  BY <1>1, <1>3 DEF Send, SendNowhere, SendThrows
<1>4. ASSUME NEW m \in responses, Receive(m)
      PROVE  Abstract!Settle(m.call) \/ UNCHANGED <<promise, answer>>
  <2>1. CASE waiting[m.id] # NoCall /\ promise[waiting[m.id]] = "pending"
    BY <1>4, <2>1, ReceiveResolvesItsOwn DEF Receive, Abstract!Settle
  <2>2. CASE ~(waiting[m.id] # NoCall /\ promise[waiting[m.id]] = "pending")
    BY <1>4, <2>2 DEF Receive
  <2> QED
    BY <2>1, <2>2
<1>5. ASSUME NEW m \in responses PROVE m.call \in Calls
  BY <1>5 DEF IInv, TypeOK, Messages
<1>6. CASE UNCHANGED vars
  BY <1>6 DEF vars, Abstract!vars
<1>7. CASE Next
  BY <1>2, <1>3, <1>4, <1>5, <1>7
     DEF Next, Abstract!Next, Abstract!vars, Connect, Disconnect, Answer, Lose
<1> QED
  BY <1>6, <1>7

(* Communicator implements RequestReply: every behaviour of it is one of  *)
(* the abstract service.                                                   *)
THEOREM Refinement == Spec => ImplementsRequestReply
<1>1. Init => Abstract!Init
  BY DEF Init, Abstract!Init
<1>2. IInv /\ [Next]_vars => [Abstract!Next]_(Abstract!vars)
  BY StepRefines
<1> QED
  BY <1>1, <1>2, Invariance, PTL DEF Spec, ImplementsRequestReply, Abstract!Spec

-----------------------------------------------------------------------------
(* ResponseTimeout: the vector whose slots have ages.                      *)

(* Two calls have been made.                                               *)
TwoCalls == \E c, d \in Calls : c # d /\ promise[c] # "idle" /\ promise[d] # "idle"

(* An age lies in the future only where a scan has wrapped, past a slot    *)
(* that another call holds.                                                *)
FutureNeedsTwoCalls ==
    \A i \in Slots : aging[i] # NoTime /\ aging[i] > clock => TwoCalls

TimedInv ==
    /\ TimedTypeOK
    /\ IInv
    /\ AgedWhileLocked
    /\ FutureNeedsTwoCalls
    /\ CrashNeedsTwoCalls

-----------------------------------------------------------------------------
(* All handlers but one are steps of Communicator, and that one only       *)
(* closes the writer.                                                      *)
LEMMA HandlersStep ==
    ASSUME IInv, Handlers
    PROVE  \/ Next
           \/ /\ writer' = "closed"
              /\ UNCHANGED <<waiting, promise, answer, requests, responses>>
<1>1. ASSUME NEW m \in InFlight, Network(m) PROVE Next
  <2>1. Answer(m) => m \in requests
    BY DEF Answer
  <2> QED
    BY <1>1, <2>1 DEF Network, InFlight, Next
<1>2. DisconnectDatagrams => /\ writer' = "closed"
                             /\ UNCHANGED <<waiting, promise, answer, requests, responses>>
  BY DEF DisconnectDatagrams
<1> QED
  BY <1>1, <1>2 DEF Handlers, SendTimed, SendUnencodableTimed, SendBeforeConnect,
     SendDisconnected, ReceiveTimed, ConnectDatagrams, Next

LEMMA HandlersIInv ==
    ASSUME IInv, Handlers
    PROVE  IInv'
<1>1. CASE Next
  BY <1>1, NextIInv
<1>2. CASE writer' = "closed" /\ UNCHANGED <<waiting, promise, answer, requests, responses>>
  BY <1>2 DEF IInv, TypeOK, IdleIsFresh, OneSlotEach, OverflowIsRejected, OneDirection,
              SlotHeldByItsCall, NoSlotLeftBehind, AnswerMatch, InFlight
<1> QED
  BY <1>1, <1>2, HandlersStep

(* No call is ever idle again.                                             *)
LEMMA NeverIdleAgain ==
    ASSUME IInv, Handlers, NEW c \in Calls, promise[c] # "idle"
    PROVE  promise'[c] # "idle"
<1>1. [Abstract!Next]_(Abstract!vars)
  BY HandlersStep, StepRefines DEF Abstract!vars
<1> QED
  BY <1>1 DEF Abstract!Next, Abstract!vars, Abstract!Issue, Abstract!Settle, IInv, TypeOK

(* An age is noted for a slot that was free, and it lies in the future     *)
(* only when the scan began at one that was not.                           *)
LEMMA ExpiriesOfFree ==
    ASSUME TimedTypeOK, NEW id \in Slots, NEW t \in Expiries(id)
    PROVE  /\ t \in Nat
           /\ t > clock => \E f \in Slots : waiting[f] # NoCall
<1>1. MaxUnanswered \in Nat \ {0} /\ MaxAge \in Nat /\ clock \in Nat
  BY CommunicatorAssumption, ResponseTimeoutAssumption DEF TimedTypeOK
<1>2. CASE t = clock
  BY <1>1, <1>2
<1>3. CASE t # clock
  <2>1. PICK f \in Slots : t = clock + MaxAge /\ Free(f, MaxUnanswered - 1) = {}
    BY <1>3 DEF Expiries
  <2>2. f <= f /\ f <= MaxUnanswered - 1
    BY <1>1 DEF Slots
  <2>3. waiting[f] # NoCall
    BY <2>1, <2>2 DEF Free
  <2> QED
    BY <1>1, <2>1, <2>3
<1> QED
  BY <1>2, <1>3

(* The call that locks a slot notes its age, and nobody else's.            *)
LEMMA LockingKeepsAges ==
    ASSUME TimedInv, NEW c \in Calls, NEW id \in Ids, promise[c] = "idle",
           waiting' = [waiting EXCEPT ![id] = c], NoteAge(c), promise'[c] # "idle",
           \A d \in Calls : promise[d] # "idle" => promise'[d] # "idle", clock' = clock
    PROVE  /\ aging' \in [Slots -> Nat \cup {NoTime}]
           /\ AgedWhileLocked'
           /\ FutureNeedsTwoCalls'
<1> USE DEF TimedInv
<1>1. /\ waiting \in [Ids -> Calls \cup {NoCall}] /\ Slots \subseteq Ids /\ c # NoCall
      /\ aging \in [Slots -> Nat \cup {NoTime}]
      /\ Overflow \notin Slots
  BY CommunicatorAssumption DEF TimedTypeOK, TypeOK, Ids, Slots, Overflow
<1>2. \A i \in Ids : waiting[i] # c
  BY DEF IInv, IdleIsFresh
<1>3. PICK j \in Ids : /\ waiting'[j] = c
                       /\ IF j = Overflow THEN aging' = aging
                          ELSE \E t \in Expiries(j) : aging' = [aging EXCEPT ![j] = t]
  BY DEF NoteAge
<1>4. j = id
  BY <1>1, <1>2, <1>3
<1>5. CASE id = Overflow
  <2>1. aging' = aging /\ \A i \in Slots : waiting'[i] = waiting[i]
    BY <1>1, <1>3, <1>4, <1>5
  <2>2. TwoCalls => TwoCalls'
    BY DEF TwoCalls
  <2> QED
    BY <1>1, <2>1, <2>2 DEF AgedWhileLocked, FutureNeedsTwoCalls
<1>6. CASE id # Overflow
  <2>1. id \in Slots
    BY <1>6 DEF Ids
  <2>2. PICK t \in Expiries(id) : aging' = [aging EXCEPT ![id] = t]
    BY <1>3, <1>4, <1>6
  <2>3. t \in Nat /\ t # NoTime /\ (t > clock => \E f \in Slots : waiting[f] # NoCall)
    BY <2>1, <2>2, ExpiriesOfFree, ResponseTimeoutAssumption
  <2>4. aging' \in [Slots -> Nat \cup {NoTime}]
    BY <1>1, <2>2, <2>3
  <2>5. AgedWhileLocked'
    BY <1>1, <2>1, <2>2, <2>3 DEF AgedWhileLocked
  <2>6. (\E f \in Slots : waiting[f] # NoCall) => TwoCalls'
    <3> SUFFICES ASSUME NEW f \in Slots, waiting[f] # NoCall PROVE TwoCalls'
      OBVIOUS
    <3>1. waiting[f] \in Calls /\ waiting[f] # c
      BY <1>1, <1>2
    <3>2. promise[waiting[f]] # "idle"
      BY <1>1, <3>1 DEF IInv, IdleIsFresh
    <3> QED
      BY <3>1, <3>2 DEF TwoCalls
  <2>7. TwoCalls => TwoCalls'
    BY DEF TwoCalls
  <2>8. FutureNeedsTwoCalls'
    <3> SUFFICES ASSUME NEW i \in Slots, aging'[i] # NoTime, aging'[i] > clock
                 PROVE  TwoCalls'
      BY DEF FutureNeedsTwoCalls
    <3>1. CASE i = id
      BY <1>1, <2>2, <2>3, <2>6, <3>1
    <3>2. CASE i # id
      BY <1>1, <2>2, <2>7, <3>2 DEF FutureNeedsTwoCalls
    <3> QED
      BY <3>1, <3>2
  <2> QED
    BY <2>4, <2>5, <2>8
<1> QED
  BY <1>5, <1>6

(* What the handlers do to the ages.                                       *)
LEMMA HandlersAges ==
    ASSUME TimedInv, Handlers, UNCHANGED timeVars
    PROVE  /\ aging' \in [Slots -> Nat \cup {NoTime}]
           /\ AgedWhileLocked'
           /\ FutureNeedsTwoCalls'
<1> USE DEF TimedInv
<1>1. clock' = clock
  BY DEF timeVars
<1>2. \A d \in Calls : promise[d] # "idle" => promise'[d] # "idle"
  BY NeverIdleAgain
<1>3. /\ waiting \in [Ids -> Calls \cup {NoCall}] /\ Slots \subseteq Ids
      /\ promise \in [Calls -> {"idle", "pending", "resolved", "rejected"}]
      /\ aging \in [Slots -> Nat \cup {NoTime}]
  BY DEF TimedTypeOK, TypeOK, Ids
<1>4. ASSUME NEW c \in Calls, SendTimed(c) \/ SendUnencodableTimed(c) \/ SendBeforeConnect(c)
      PROVE  /\ aging' \in [Slots -> Nat \cup {NoTime}]
             /\ AgedWhileLocked'
             /\ FutureNeedsTwoCalls'
  <2>1. NoteAge(c)
    BY <1>4 DEF SendTimed, SendUnencodableTimed, SendBeforeConnect
  <2>2. \E id \in Ids : /\ promise[c] = "idle" /\ waiting' = [waiting EXCEPT ![id] = c]
                        /\ promise'[c] # "idle"
    BY <1>3, <1>4 DEF SendTimed, SendUnencodableTimed, SendBeforeConnect, Send,
       SendUnencodable, SendNowhere, Pick, AfterPick
  <2> QED
    BY <1>1, <1>2, <2>1, <2>2, LockingKeepsAges
<1>5. ASSUME UNCHANGED aging, \A i \in Slots : waiting'[i] = waiting[i]
      PROVE  /\ aging' \in [Slots -> Nat \cup {NoTime}]
             /\ AgedWhileLocked'
             /\ FutureNeedsTwoCalls'
  <2>1. TwoCalls => TwoCalls'
    BY <1>2 DEF TwoCalls
  <2> QED
    BY <1>1, <1>3, <1>5, <2>1 DEF AgedWhileLocked, FutureNeedsTwoCalls
<1>6. ASSUME NEW c \in Calls, SendDisconnected(c)
      PROVE  UNCHANGED aging /\ \A i \in Slots : waiting'[i] = waiting[i]
  <2>1. PICK id \in Ids : Pick(c, id) /\ waiting' = [waiting EXCEPT ![id] = NoCall]
    BY <1>6 DEF SendDisconnected, SendThrows
  <2>2. id \in Slots => waiting[id] = NoCall
    BY <2>1, ResponseIdIsFree DEF Pick, IInv
  <2> QED
    BY <1>3, <1>6, <2>1, <2>2 DEF SendDisconnected
<1>7. ASSUME NEW m \in responses, ReceiveTimed(m)
      PROVE  /\ aging' \in [Slots -> Nat \cup {NoTime}]
             /\ AgedWhileLocked'
             /\ FutureNeedsTwoCalls'
  <2>1. /\ waiting' = [waiting EXCEPT ![m.id] = NoCall]
        /\ aging' = [i \in Slots |-> IF i = m.id THEN NoTime ELSE aging[i]]
    BY <1>7 DEF ReceiveTimed, Receive, ForgetAge
  <2>2. TwoCalls => TwoCalls'
    BY <1>2 DEF TwoCalls
  <2> QED
    BY <1>1, <1>3, <2>1, <2>2 DEF AgedWhileLocked, FutureNeedsTwoCalls
<1>8. CASE ConnectDatagrams \/ DisconnectDatagrams \/ (\E m \in InFlight : Network(m))
  <2>1. UNCHANGED <<aging, waiting>>
    BY <1>8 DEF ConnectDatagrams, DisconnectDatagrams, Network, Connect, Answer, Lose
  <2> QED
    BY <1>5, <2>1
<1> QED
  BY <1>4, <1>5, <1>6, <1>7, <1>8 DEF Handlers

LEMMA InitTimedInv == TimedInit => TimedInv
<1> SUFFICES ASSUME TimedInit PROVE TimedInv
  OBVIOUS
<1>1. IInv
  BY InitIInv DEF TimedInit
<1>2. \A i \in Slots : waiting[i] = NoCall /\ aging[i] = NoTime
  BY DEF TimedInit, Init, Ids
<1>3. TimedTypeOK
  <2>1. TypeOK /\ aging \in [Slots -> Nat \cup {NoTime}]
    BY <1>1 DEF TimedInit, IInv
  <2>2. clock \in 0 .. MaxTime /\ due \in Nat
    BY ResponseTimeoutAssumption DEF TimedInit
  <2>3. crashed \in BOOLEAN
    BY DEF TimedInit
  <2> QED
    BY <2>1, <2>2, <2>3 DEF TimedTypeOK
<1>4. AgedWhileLocked /\ FutureNeedsTwoCalls /\ CrashNeedsTwoCalls
  BY <1>2 DEF TimedInit, AgedWhileLocked, FutureNeedsTwoCalls, CrashNeedsTwoCalls
<1> QED
  BY <1>1, <1>3, <1>4 DEF TimedInv

LEMMA NextTimedInv == TimedInv /\ [TimedNext]_timedVars => TimedInv'
<1> SUFFICES ASSUME TimedInv, [TimedNext]_timedVars PROVE TimedInv'
  OBVIOUS
<1> USE DEF TimedInv
<1>1. CASE Handlers /\ UNCHANGED timeVars
  <2>1. IInv'
    BY <1>1, HandlersIInv
  <2>2. /\ aging' \in [Slots -> Nat \cup {NoTime}]
        /\ AgedWhileLocked'
        /\ FutureNeedsTwoCalls'
    BY <1>1, HandlersAges
  <2>3. TimedTypeOK'
    BY <1>1, <2>1, <2>2 DEF TimedTypeOK, IInv, timeVars
  <2>4. CrashNeedsTwoCalls'
    BY <1>1, NeverIdleAgain DEF CrashNeedsTwoCalls, timeVars
  <2> QED
    BY <2>1, <2>2, <2>3, <2>4
<1>2. ASSUME UNCHANGED <<vars, aging>> PROVE IInv' /\ AgedWhileLocked'
  <2>1. IInv'
    BY <1>2, NextIInv
  <2> QED
    BY <1>2, <2>1 DEF vars, AgedWhileLocked
<1>3. CASE CheckAges
  <2>1. /\ UNCHANGED <<vars, aging, clock>> /\ due' = due + CheckEvery
        /\ crashed' = (\E i \in Slots : aging[i] # NoTime /\ aging[i] > clock)
    BY <1>3 DEF CheckAges
  <2>2. TimedTypeOK'
    BY <1>2, <2>1, ResponseTimeoutAssumption DEF TimedTypeOK, IInv
  <2>3. FutureNeedsTwoCalls' /\ CrashNeedsTwoCalls'
    BY <2>1 DEF vars, FutureNeedsTwoCalls, CrashNeedsTwoCalls, TwoCalls
  <2> QED
    BY <1>2, <2>1, <2>2, <2>3
<1>4. CASE Tick
  <2>1. UNCHANGED <<vars, aging, due, crashed>> /\ clock' = clock + 1 /\ clock < MaxTime
    BY <1>4 DEF Tick
  <2>2. /\ clock \in Nat /\ clock' \in 0 .. MaxTime
        /\ \A i \in Slots : aging[i] # NoTime => aging[i] \in Nat
    BY <2>1, ResponseTimeoutAssumption DEF TimedTypeOK
  <2>3. TimedTypeOK'
    BY <1>2, <2>1, <2>2 DEF TimedTypeOK, IInv
  <2>4. FutureNeedsTwoCalls'
    BY <2>1, <2>2 DEF vars, FutureNeedsTwoCalls, TwoCalls
  <2>5. CrashNeedsTwoCalls'
    BY <2>1 DEF vars, CrashNeedsTwoCalls
  <2> QED
    BY <1>2, <2>1, <2>3, <2>4, <2>5
<1>5. CASE UNCHANGED timedVars
  BY <1>2, <1>5 DEF timedVars, timeVars, vars, TimedTypeOK, IInv, FutureNeedsTwoCalls,
     CrashNeedsTwoCalls, TwoCalls
<1> QED
  BY <1>1, <1>3, <1>4, <1>5 DEF TimedNext

(* TimedInv holds in every state of the client that requests, answers, its *)
(* socket, the clock and the checks of the ages can reach.                 *)
THEOREM TimedInvariance == TimedSpec => []TimedInv
<1>1. TimedInit => TimedInv
  BY InitTimedInv
<1>2. TimedInv /\ [TimedNext]_timedVars => TimedInv'
  BY NextTimedInv
<1> QED
  BY <1>1, <1>2, PTL DEF TimedSpec

(* Every variable of the client over datagrams keeps its type.             *)
THEOREM TimedTypeCorrect == TimedSpec => []TimedTypeOK
<1>1. TimedInv => TimedTypeOK
  BY DEF TimedInv
<1> QED
  BY <1>1, TimedInvariance, PTL

(* aging_messages has an entry for a slot exactly while it is locked.      *)
THEOREM AgesFollowLocks == TimedSpec => []AgedWhileLocked
<1>1. TimedInv => AgedWhileLocked
  BY DEF TimedInv
<1> QED
  BY <1>1, TimedInvariance, PTL

(* The callback of the interval throws only after two requests were made.  *)
THEOREM CrashesNeedTwoCalls == TimedSpec => []CrashNeedsTwoCalls
<1>1. TimedInv => CrashNeedsTwoCalls
  BY DEF TimedInv
<1> QED
  BY <1>1, TimedInvariance, PTL

(* Over datagrams, too, a caller is handed its own answer only, and a slot *)
(* stays with its call while anything is under way for it: no age, check   *)
(* or disconnected socket gives a slot away.                               *)
THEOREM TimedAnswersMatch ==
    TimedSpec => [](AnswerMatch /\ SlotHeldByItsCall /\ NoSlotLeftBehind)
<1>1. TimedInv => AnswerMatch /\ SlotHeldByItsCall /\ NoSlotLeftBehind
  BY DEF TimedInv, IInv
<1> QED
  BY <1>1, TimedInvariance, PTL

(* The client over datagrams implements RequestReply as well: each call is *)
(* settled at most once, never after a rejection, with its own answer.     *)
THEOREM TimedRefinement == TimedSpec => ImplementsRequestReply
<1>1. TimedInit => Abstract!Init
  BY DEF TimedInit, Init, Abstract!Init
<1>2. TimedInv /\ [TimedNext]_timedVars => [Abstract!Next]_(Abstract!vars)
  <2> SUFFICES ASSUME TimedInv, [TimedNext]_timedVars PROVE [Abstract!Next]_(Abstract!vars)
    OBVIOUS
  <2>1. CASE Handlers
    BY <2>1, HandlersStep, StepRefines DEF TimedInv, Abstract!vars
  <2>2. CASE CheckAges \/ Tick \/ UNCHANGED timedVars
    BY <2>2 DEF CheckAges, Tick, timedVars, vars, Abstract!vars
  <2> QED
    BY <2>1, <2>2 DEF TimedNext
<1> QED
  BY <1>1, <1>2, TimedInvariance, PTL DEF TimedSpec, ImplementsRequestReply, Abstract!Spec
=============================================================================
