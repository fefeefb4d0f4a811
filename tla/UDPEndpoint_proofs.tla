------------------------- MODULE UDPEndpoint_proofs -------------------------
(***************************************************************************)
(* Proofs about UDPEndpoint, for any clients, topics and configurations    *)
(* and any period.  That a subscriber is served until it is too late rests *)
(* on two things that the code keeps apart: the tables of subscriptions,   *)
(* and the time noted for the client, which must be at least that of its   *)
(* last sub.                                                               *)
(***************************************************************************)
EXTENDS UDPEndpoint, TLAPS

(* A client that puts _no_resp in its messages has no connection of its    *)
(* own.                                                                    *)
QuietUnnamed == table \cap Quiet = {}

(* Only requests of the application wait in app_message_handler.           *)
OnlyRequestsWait == \A d \in handling : d.op = "app"

(* The time noted for a client has come, and that of a reply too; and a    *)
(* client whose sub was answered has not been noted earlier than that.     *)
NotedInTime ==
    /\ \A c \in Clients : access[c] # Never => access[c] <= clock
    /\ \A r \in replies :
          /\ r.at <= clock
          /\ r.msg.op = "sub" => access[r.msg.from] # Never /\ r.at <= access[r.msg.from]

(* Who should be served is in the table of the topic.                      *)
SubscribersAreIn ==
    \A c \in Clients, t \in Topics : SubscribedUntilNow(c, t) => c \in topics[t]

IInv ==
    /\ TypeOK
    /\ TopicsWithinTable
    /\ QuietUnnamed
    /\ OnlyRequestsWait
    /\ ForgottenUnlessFailed
    /\ NotedInTime
    /\ SubscribersAreIn

-----------------------------------------------------------------------------
LEMMA InitIInv == Init => IInv
  BY UDPEndpointAssumption
     DEF Init, IInv, TypeOK, TopicsWithinTable, QuietUnnamed, OnlyRequestsWait,
         ForgottenUnlessFailed, NotedInTime, SubscribersAreIn, SubscribedUntilNow

LEMMA NameOfIsName ==
    ASSUME NEW d \in Messages
    PROVE  /\ NameOf(d) \in Names
           /\ NameOf(d) \notin Quiet
           /\ d.from \in Clients /\ d.topic \in Topics /\ d.op \in Ops
           /\ \A c \in Clients : c = NameOf(d) => c = d.from
  BY UDPEndpointAssumption DEF Messages, NameOf, Names

(* What the messages that are answered have in common: subscribed and      *)
(* connected are the tables as the message leaves them, before its sender  *)
(* is remembered or forgotten.                                             *)
Tabled(d, subscribed, connected) ==
    /\ subscribed \in [Topics -> SUBSET Names]
    /\ connected \subseteq table \cup {NameOf(d)}
    /\ \A t \in Topics : subscribed[t] \subseteq connected
    /\ \A t \in Topics, c \in Names \ {NameOf(d)} : c \in topics[t] => c \in subscribed[t]
    /\ \A t \in Topics :
          /\ NameOf(d) \in topics[t] /\ ~(d.op = "unsub" /\ d.topic = t)
                => NameOf(d) \in subscribed[t]
          /\ d.op = "sub" /\ d.topic = t => NameOf(d) \in subscribed[t]

(* The step that answers d, whatever else it does.                         *)
Answered(d) ==
    /\ Reply(d)
    /\ handling' = handling \/ (d \in handling /\ handling' = handling \ {d})
    /\ UNCHANGED <<conf, clock, failed>>

OthersTyped ==
    /\ known' \subseteq Topics
    /\ sent' \in [Clients -> Nat]
    /\ inbound' \subseteq Messages
    /\ updates' \subseteq [to : Clients, msg : Messages, copies : {1, 2}]
    /\ broadcasts' \subseteq Messages

(* The answer keeps the tables, the times and the promises in step.        *)
LEMMA AnswerIInv ==
    ASSUME IInv, NEW d \in Messages, NEW subscribed, NEW connected,
           Tabled(d, subscribed, connected), Remember(d, subscribed, connected),
           Answered(d), OthersTyped
    PROVE  IInv'
<1> DEFINE kept == d.from \in Quiet \/ Keeps(d)
           reply == [msg |-> d, at |-> clock]
<1> USE NameOfIsName DEF IInv
<1>1. /\ clock \in Nat /\ clock \in 0 .. MaxTime /\ clock # Never
      /\ conf' = conf /\ clock' = clock /\ failed' = failed
      /\ handling' \subseteq handling
      /\ \A e \in handling \ handling' : e = d
  BY UDPEndpointAssumption DEF TypeOK, Answered
<1>2. replies' = IF d.from \in Quiet THEN replies ELSE replies \cup {reply}
  BY DEF Answered, Reply
<1>3. access' = IF d.from \notin Quiet /\ Keeps(d)
                THEN [access EXCEPT ![d.from] = clock] ELSE access
  BY DEF Remember
<1>4. /\ table' = IF kept THEN connected ELSE connected \ {d.from}
      /\ topics' = IF kept THEN subscribed ELSE Without({d.from}, subscribed)
  BY DEF Remember
<1>5. d.from \notin Quiet => NameOf(d) = d.from
  BY DEF NameOf
<1>6. connected \in SUBSET Names /\ connected \cap Quiet = {}
  BY DEF Tabled, TypeOK, QuietUnnamed
<1>7. TypeOK'
  <2>1. topics' \in [Topics -> SUBSET Names] /\ table' \subseteq Names
    BY <1>4, <1>6 DEF Tabled, Without
  <2>2. access' \in [Clients -> 0 .. MaxTime \cup {Never}]
    BY <1>1, <1>3 DEF TypeOK
  <2>3. replies' \subseteq [msg : Messages, at : 0 .. MaxTime]
    BY <1>1, <1>2 DEF TypeOK
  <2> QED
    BY <1>1, <2>1, <2>2, <2>3 DEF TypeOK, OthersTyped
<1>8. TopicsWithinTable'
  BY <1>4 DEF Tabled, TopicsWithinTable, Without
<1>9. QuietUnnamed'
  BY <1>4, <1>6 DEF QuietUnnamed
<1>10. OnlyRequestsWait'
  BY <1>1 DEF OnlyRequestsWait
<1>11. ForgottenUnlessFailed'
  <2> SUFFICES ASSUME conf.no_keeps, NEW c \in table' \ {NoResponse}
               PROVE  access'[c] # Never \/ c \in failed \/ \E e \in handling' : e.from = c
    BY <1>1 DEF ForgottenUnlessFailed
  <2>1. c \in connected /\ c \in Clients /\ c \notin Quiet
    BY <1>4, <1>6 DEF Names
  <2>2. CASE c = d.from
    BY <1>1, <1>3, <1>4, <2>1, <2>2 DEF TypeOK
  <2>3. CASE c # d.from
    <3>1. c \in table
      BY <2>1, <2>3 DEF Tabled
    <3>2. access[c] # Never \/ c \in failed \/ \E e \in handling : e.from = c
      BY <2>1, <3>1 DEF ForgottenUnlessFailed
    <3>3. access'[c] = access[c]
      BY <1>3, <2>1, <2>3 DEF TypeOK
    <3> QED
      BY <1>1, <2>3, <3>2, <3>3
  <2> QED
    BY <2>2, <2>3
<1>12. \A c \in Clients : access[c] # Never => access'[c] # Never /\ access[c] <= access'[c]
  BY <1>1, <1>3, UDPEndpointAssumption DEF TypeOK, NotedInTime
<1>13. NotedInTime'
  <2>1. ASSUME NEW c \in Clients, access'[c] # Never PROVE access'[c] <= clock
    BY <1>1, <1>3, <2>1 DEF TypeOK, NotedInTime
  <2>2. ASSUME NEW r \in replies'
        PROVE  /\ r.at <= clock
               /\ r.msg.op = "sub" =>
                     access'[r.msg.from] # Never /\ r.at <= access'[r.msg.from]
    <3>1. CASE r \in replies
      <4>1. r.msg \in Messages /\ r.at \in Nat
        BY <3>1, UDPEndpointAssumption DEF TypeOK
      <4>2. r.msg.from \in Clients
        BY <4>1
      <4>3. /\ access[r.msg.from] \in Nat \cup {Never}
            /\ access'[r.msg.from] \in Nat \cup {Never}
        BY <1>7, <4>2, UDPEndpointAssumption DEF TypeOK
      <4> QED
        BY <1>12, <3>1, <4>1, <4>2, <4>3 DEF NotedInTime
    <3>2. CASE r \notin replies
      <4>1. r = reply /\ d.from \notin Quiet
        BY <1>2, <3>2
      <4>2. r.msg.op = "sub" => Keeps(d)
        BY <4>1 DEF Keeps
      <4> QED
        BY <1>1, <1>3, <4>1, <4>2 DEF TypeOK
    <3> QED
      BY <3>1, <3>2
  <2> QED
    BY <1>1, <2>1, <2>2 DEF NotedInTime
<1>14. SubscribersAreIn'
  <2> SUFFICES ASSUME NEW c \in Clients, NEW t \in Topics, SubscribedUntilNow(c, t)'
               PROVE  c \in topics'[t]
    BY DEF SubscribersAreIn
  <2>1. /\ c \notin Quiet /\ c \in Names
        /\ \A r \in replies' : r.msg.from = c =>
              IF conf.no_keeps THEN r.msg.op \in {"sub", "pub"}
              ELSE r.msg.op # "unsub" \/ r.msg.topic # t
    BY <1>1 DEF SubscribedUntilNow, Names
  <2>2. PICK r \in replies' : /\ r.msg.from = c /\ r.msg.op = "sub" /\ r.msg.topic = t
                              /\ clock - r.at <= Period * 3
    BY <1>1 DEF SubscribedUntilNow
  <2>3. r \in replies => c \in topics[t]
    <3> SUFFICES ASSUME r \in replies PROVE SubscribedUntilNow(c, t)
      BY DEF SubscribersAreIn
    <3>1. replies \subseteq replies'
      BY <1>2
    <3> QED
      BY <2>1, <2>2, <3>1 DEF SubscribedUntilNow
  <2>4. CASE d.from = c
    <3>1. reply \in replies' /\ NameOf(d) = c
      BY <1>2, <1>5, <2>1, <2>4
    <3>2. IF conf.no_keeps THEN d.op \in {"sub", "pub"} ELSE d.op # "unsub" \/ d.topic # t
      BY <2>1, <2>4, <3>1
    <3>3. kept /\ ~(d.op = "unsub" /\ d.topic = t)
      BY <3>2 DEF Keeps
    <3>4. r \notin replies => d.op = "sub" /\ d.topic = t
      BY <1>2, <2>2
    <3> QED
      BY <1>4, <2>3, <3>1, <3>3, <3>4 DEF Tabled
  <2>5. CASE d.from # c
    <3>1. r \in replies
      BY <1>2, <2>2, <2>5
    <3>2. c \in subscribed[t]
      BY <2>1, <2>3, <2>5, <3>1 DEF Tabled
    <3> QED
      BY <1>4, <2>5, <3>2 DEF Without
  <2> QED
    BY <2>4, <2>5
<1> QED
  BY <1>7, <1>8, <1>9, <1>10, <1>11, <1>13, <1>14

(* A message that is handled at once leaves the tables in one of three     *)
(* ways, each of them a Tabled one; a request only waits.                  *)
LEMMA ReceiveIInv ==
    ASSUME IInv, NEW d \in inbound, Receive(d)
    PROVE  IInv'
<1> DEFINE connected == table \cup {NameOf(d)}
<1> USE DEF IInv
<1>1. d \in Messages
  BY DEF TypeOK
<1>2. /\ inbound' \subseteq Messages
      /\ sent' \in [Clients -> Nat]
      /\ UNCHANGED <<conf, clock, sent, failed>>
  BY DEF Receive, TypeOK
<1>3. NameOf(d) \in Names /\ d.topic \in Topics
  BY <1>1, NameOfIsName
<1>4. ASSUME Subscribe(d) PROVE IInv'
  <2> DEFINE subscribed == [topics EXCEPT ![d.topic] = @ \cup {NameOf(d)}]
  <2>1. Tabled(d, subscribed, connected)
    BY <1>3, <1>4 DEF Tabled, TypeOK, TopicsWithinTable, Subscribe
  <2>2. Remember(d, subscribed, connected) /\ Answered(d)
    BY <1>2, <1>4 DEF Subscribe, Answered
  <2>3. OthersTyped
    BY <1>2, <1>3, <1>4 DEF Subscribe, OthersTyped, TypeOK
  <2> HIDE DEF subscribed, connected
  <2> QED
    BY <1>1, <2>1, <2>2, <2>3, AnswerIInv
<1>5. ASSUME Unsubscribe(d) PROVE IInv'
  <2> DEFINE subscribed == [topics EXCEPT ![d.topic] = @ \ {NameOf(d)}]
  <2>1. Tabled(d, subscribed, connected)
    BY <1>3, <1>5 DEF Tabled, TypeOK, TopicsWithinTable, Unsubscribe
  <2>2. Remember(d, subscribed, connected) /\ Answered(d)
    BY <1>2, <1>5 DEF Unsubscribe, Answered
  <2>3. OthersTyped
    BY <1>2, <1>5 DEF Unsubscribe, OthersTyped, TypeOK
  <2> HIDE DEF subscribed, connected
  <2> QED
    BY <1>1, <2>1, <2>2, <2>3, AnswerIInv
<1>6. ASSUME Publish(d) PROVE IInv'
  <2>1. Tabled(d, topics, connected)
    BY <1>3, <1>6 DEF Tabled, TypeOK, TopicsWithinTable, Publish
  <2>2. Remember(d, topics, connected) /\ Answered(d)
    BY <1>2, <1>6 DEF Publish, Answered
  <2>3. updates' \subseteq [to : Clients, msg : Messages, copies : {1, 2}]
    BY <1>1, <1>3, <1>6 DEF Publish, SendToAll, TypeOK, Names
  <2>4. broadcasts' \subseteq Messages
    BY <1>1, <1>6 DEF Publish, SendToAll, TypeOK
  <2>5. OthersTyped
    BY <1>2, <1>6, <2>3, <2>4 DEF Publish, OthersTyped, TypeOK
  <2> HIDE DEF connected
  <2> QED
    BY <1>1, <2>1, <2>2, <2>5, AnswerIInv
<1>7. ASSUME Request(d) PROVE IInv'
  <2>1. /\ table' = connected
        /\ handling' = handling \cup {d}
        /\ d.op = "app"
        /\ UNCHANGED <<conf, clock, failed, topics, known, access,
                       replies, updates, broadcasts>>
    BY <1>2, <1>7 DEF Request, outVars
  <2>2. TypeOK'
    BY <1>1, <1>2, <1>3, <2>1 DEF TypeOK
  <2>3. TopicsWithinTable' /\ OnlyRequestsWait'
    BY <2>1 DEF TopicsWithinTable, OnlyRequestsWait
  <2>4. QuietUnnamed'
    BY <1>1, <2>1, NameOfIsName DEF QuietUnnamed
  <2>5. ForgottenUnlessFailed'
    BY <2>1, NameOfIsName DEF ForgottenUnlessFailed, NameOf
  <2>6. NotedInTime' /\ SubscribersAreIn'
    BY <2>1 DEF NotedInTime, SubscribersAreIn, SubscribedUntilNow
  <2> QED
    BY <2>2, <2>3, <2>4, <2>5, <2>6
<1> QED
  BY <1>4, <1>5, <1>6, <1>7 DEF Receive

LEMMA AppDoneIInv ==
    ASSUME IInv, NEW d \in handling, AppDone(d)
    PROVE  IInv'
<1> USE DEF IInv
<1>1. d \in Messages /\ d.op = "app"
  BY DEF TypeOK, OnlyRequestsWait
<1>2. Tabled(d, topics, table)
  BY <1>1 DEF Tabled, TypeOK, TopicsWithinTable
<1>3. Remember(d, topics, table) /\ Answered(d)
  BY DEF AppDone, Answered
<1>4. OthersTyped
  BY DEF AppDone, clientVars, OthersTyped, TypeOK
<1> QED
  BY <1>1, <1>2, <1>3, <1>4, AnswerIInv

LEMMA AppFailsIInv ==
    ASSUME IInv, NEW d \in handling, AppFails(d)
    PROVE  IInv'
<1> USE DEF IInv
<1>1. /\ handling' = handling \ {d}
      /\ failed' = failed \cup {d.from}
      /\ UNCHANGED <<conf, clock, sent, inbound, table, topics, known, access,
                     replies, updates, broadcasts>>
  BY DEF AppFails, clientVars, connectionVars, outVars
<1>2. d.from \in Clients
  BY NameOfIsName DEF TypeOK
<1>3. TypeOK'
  BY <1>1, <1>2 DEF TypeOK
<1>4. ForgottenUnlessFailed'
  BY <1>1 DEF ForgottenUnlessFailed
<1>5. NotedInTime' /\ SubscribersAreIn'
  BY <1>1 DEF NotedInTime, SubscribersAreIn, SubscribedUntilNow
<1> QED
  BY <1>1, <1>3, <1>4, <1>5 DEF TopicsWithinTable, QuietUnnamed, OnlyRequestsWait

(* Whoever should be served is not late: the time noted for it is not      *)
(* before that of the answer to its sub.                                   *)
LEMMA PurgeIInv ==
    ASSUME IInv, Purge
    PROVE  IInv'
<1> DEFINE late == {c \in Clients : Late(c)}
<1> USE DEF IInv
<1>1. /\ table' = table \ late
      /\ topics' = Without(late \cap table, topics)
      /\ UNCHANGED <<conf, clock, sent, inbound, known, access, handling,
                     replies, updates, broadcasts, failed>>
  BY DEF Purge, clientVars, outVars
<1>2. TypeOK'
  BY <1>1 DEF TypeOK, Without
<1>3. TopicsWithinTable' /\ QuietUnnamed' /\ OnlyRequestsWait'
  BY <1>1 DEF TopicsWithinTable, QuietUnnamed, OnlyRequestsWait, Without
<1>4. ForgottenUnlessFailed' /\ NotedInTime'
  BY <1>1 DEF ForgottenUnlessFailed, NotedInTime
<1>5. SubscribersAreIn'
  <2> SUFFICES ASSUME NEW c \in Clients, NEW t \in Topics, SubscribedUntilNow(c, t)'
               PROVE  c \in topics'[t]
    BY DEF SubscribersAreIn
  <2>1. SubscribedUntilNow(c, t)
    BY <1>1 DEF SubscribedUntilNow
  <2>2. PICK r \in replies : r.msg.from = c /\ r.msg.op = "sub" /\ clock - r.at <= Period * 3
    BY <2>1 DEF SubscribedUntilNow
  <2>3. access[c] # Never /\ r.at <= access[c]
    BY <2>2 DEF NotedInTime
  <2>4. clock \in Nat /\ r.at \in Nat /\ access[c] \in Nat /\ Period * 3 \in Nat
    BY <2>3, UDPEndpointAssumption DEF TypeOK
  <2>5. ~Late(c)
    BY <2>2, <2>3, <2>4 DEF Late
  <2> QED
    BY <1>1, <2>1, <2>5 DEF SubscribersAreIn, Without
<1> QED
  BY <1>2, <1>3, <1>4, <1>5

(* Time only makes fewer clients those that should be served.              *)
LEMMA TickIInv ==
    ASSUME IInv, Tick
    PROVE  IInv'
<1> USE DEF IInv
<1>1. /\ clock' = clock + 1 /\ clock < MaxTime
      /\ UNCHANGED <<conf, sent, inbound, table, topics, known, access, handling,
                     replies, updates, broadcasts, failed>>
  BY DEF Tick, clientVars, connectionVars, outVars
<1>2. clock \in Nat /\ MaxTime \in Nat /\ Period * 3 \in Nat
  BY UDPEndpointAssumption DEF TypeOK
<1>3. TypeOK'
  <2>1. clock' \in 0 .. MaxTime
    BY <1>1, <1>2
  <2> QED
    BY <1>1, <2>1 DEF TypeOK
<1>4. /\ \A c \in Clients : access[c] # Never => access[c] \in Nat
      /\ \A r \in replies : r.at \in Nat
  BY UDPEndpointAssumption DEF TypeOK
<1>5. NotedInTime'
  BY <1>1, <1>2, <1>4 DEF NotedInTime
<1>6. SubscribersAreIn'
  <2> SUFFICES ASSUME NEW c \in Clients, NEW t \in Topics, SubscribedUntilNow(c, t)'
               PROVE  SubscribedUntilNow(c, t)
    BY <1>1 DEF SubscribersAreIn
  <2>1. PICK r \in replies : /\ r.msg.from = c /\ r.msg.op = "sub" /\ r.msg.topic = t
                              /\ (clock + 1) - r.at <= Period * 3
    BY <1>1 DEF SubscribedUntilNow
  <2>2. clock - r.at <= Period * 3
    BY <1>2, <1>4, <2>1
  <2> QED
    BY <1>1, <2>1, <2>2 DEF SubscribedUntilNow
<1> QED
  BY <1>1, <1>3, <1>5, <1>6
     DEF TopicsWithinTable, QuietUnnamed, OnlyRequestsWait, ForgottenUnlessFailed

LEMMA NextIInv == IInv /\ [Next]_vars => IInv'
<1> SUFFICES ASSUME IInv, [Next]_vars PROVE IInv'
  OBVIOUS
<1>1. ASSUME NEW c \in Clients, ClientSend(c) PROVE IInv'
  <2> USE DEF IInv
  <2>1. UNCHANGED <<conf, clock, table, topics, known, access, handling,
                    replies, updates, broadcasts, failed>>
    BY <1>1 DEF ClientSend, connectionVars, outVars
  <2>2. sent' \in [Clients -> Nat]
    BY <1>1 DEF ClientSend, TypeOK
  <2>3. inbound' \subseteq Messages
    <3>1. PICK op \in OpsOf[c], t \in Topics :
              inbound' = inbound \cup {[from |-> c, op |-> op, topic |-> t, n |-> sent[c] + 1]}
      BY <1>1 DEF ClientSend
    <3>2. op \in Ops /\ sent[c] + 1 \in Nat
      BY UDPEndpointAssumption DEF TypeOK
    <3> QED
      BY <3>1, <3>2 DEF TypeOK, Messages
  <2>4. TypeOK'
    BY <2>1, <2>2, <2>3 DEF TypeOK
  <2> QED
    BY <2>1, <2>4 DEF TopicsWithinTable, QuietUnnamed, OnlyRequestsWait,
          ForgottenUnlessFailed, NotedInTime, SubscribersAreIn, SubscribedUntilNow
<1>2. ASSUME NEW d \in inbound, Receive(d) PROVE IInv'
  BY <1>2, ReceiveIInv
<1>3. ASSUME NEW d \in handling, AppDone(d) \/ AppFails(d) PROVE IInv'
  BY <1>3, AppDoneIInv, AppFailsIInv
<1>4. CASE Purge \/ Tick
  BY <1>4, PurgeIInv, TickIInv
<1>5. CASE UNCHANGED vars
  BY <1>5 DEF vars, clientVars, connectionVars, outVars, IInv, TypeOK, TopicsWithinTable,
        QuietUnnamed, OnlyRequestsWait, ForgottenUnlessFailed, NotedInTime,
        SubscribersAreIn, SubscribedUntilNow
<1> QED
  BY <1>1, <1>2, <1>3, <1>4, <1>5 DEF Next

(* IInv holds in every state that datagrams, handlers that end or fail,    *)
(* the interval and time can reach.                                        *)
THEOREM Invariance == Spec => []IInv
<1>1. Init => IInv
  BY InitIInv
<1>2. IInv /\ [Next]_vars => IInv'
  BY NextIInv
<1> QED
  BY <1>1, <1>2, PTL DEF Spec

(* Every variable of the endpoint keeps its type.                          *)
THEOREM TypeCorrect == Spec => []TypeOK
<1>1. IInv => TypeOK
  BY DEF IInv
<1> QED
  BY <1>1, Invariance, PTL

(* all_topics never names a client that messenger_connections has lost.    *)
THEOREM TopicsAlwaysWithinTable == Spec => []TopicsWithinTable
<1>1. IInv => TopicsWithinTable
  BY DEF IInv
<1> QED
  BY <1>1, Invariance, PTL

(* An endpoint with no_keeps holds on to a client only while it handles a  *)
(* message of it, after a sub or pub, or when a handler has failed.        *)
THEOREM ClientsAreForgotten == Spec => []ForgottenUnlessFailed
<1>1. IInv => ForgottenUnlessFailed
  BY DEF IInv
<1> QED
  BY <1>1, Invariance, PTL

(* Every step that takes a publication writes it to each client whose sub  *)
(* has been answered, was not undone, and is at most three periods old.    *)
THEOREM SubscribersAreServed == Spec => SubscriberIsServed
<1>1. ASSUME IInv, [Next]_vars, conf.child, ~conf.use_broadcast,
             NEW d \in inbound \ inbound', NEW c \in Clients \ {d.from},
             d.op = "pub", SubscribedUntilNow(c, d.topic)
      PROVE  \E u \in updates' : u.to = c /\ u.msg = d
  <2>1. d \in Messages /\ d.topic \in Topics
    BY <1>1, NameOfIsName DEF IInv, TypeOK
  <2>2. Receive(d)
    <3>1. CASE \E e \in inbound : Receive(e)
      BY <3>1 DEF Receive
    <3>2. ASSUME NEW e \in Clients, ClientSend(e) PROVE FALSE
      BY <3>2 DEF ClientSend
    <3>3. ASSUME NEW e \in handling, AppDone(e) \/ AppFails(e) PROVE FALSE
      BY <3>3 DEF AppDone, AppFails, clientVars
    <3>4. CASE Purge \/ Tick
      BY <3>4 DEF Purge, Tick, clientVars
    <3>5. CASE UNCHANGED vars
      BY <3>5 DEF vars, clientVars
    <3> QED
      BY <1>1, <3>1, <3>2, <3>3, <3>4, <3>5 DEF Next
  <2>3. SendToAll(d)
    BY <1>1, <2>2 DEF Receive, Subscribe, Unsubscribe, Publish, Request
  <2>4. c \in topics[d.topic] \ {NoResponse}
    BY <1>1, <2>1, UDPEndpointAssumption DEF IInv, SubscribersAreIn
  <2> DEFINE written == {[to |-> e, msg |-> d, copies |-> IF e = NameOf(d) THEN 1 ELSE 2] :
                            e \in topics[d.topic] \ {NoResponse}}
  <2>5. updates' = updates \cup written
    BY <1>1, <2>3 DEF SendToAll
  <2>6. [to |-> c, msg |-> d, copies |-> IF c = NameOf(d) THEN 1 ELSE 2] \in updates'
    BY <2>4, <2>5
  <2> QED
    BY <2>6
<1>2. IInv /\ [Next]_vars =>
        [conf.child /\ ~conf.use_broadcast =>
           \A d \in inbound \ inbound' : \A c \in Clients \ {d.from} :
              d.op = "pub" /\ SubscribedUntilNow(c, d.topic)
                 => \E u \in updates' : u.to = c /\ u.msg = d]_vars
  BY <1>1
<1> QED
  BY <1>2, Invariance, PTL DEF Spec, SubscriberIsServed
=============================================================================
