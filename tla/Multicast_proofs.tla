-------------------------- MODULE Multicast_proofs --------------------------
(***************************************************************************)
(* Proofs about Multicast, for any clients, topics, paths and hosts and    *)
(* any number of sockets.  That a member is noted needs its port to be its *)
(* own on its host; that leaving works needs every member to be noted; and *)
(* both have to be carried along for sockets that still bind.              *)
(***************************************************************************)
EXTENDS Multicast, TLAPS

(* A socket that binds joins a key that has been left only if unsubscribe  *)
(* was called while a socket of the key was binding.                       *)
JoinsUnlessHasty ==
    \A a \in Attempts :
        socket[a] = "binding" /\ owner[a] \in left => owner[a] \in hasty

IInv ==
    /\ TypeOK
    /\ MembersAreNoted
    /\ LeavesUnlessHasty
    /\ JoinsUnlessHasty
    /\ CrashOnlyOnSharedHost

-----------------------------------------------------------------------------
LEMMA InitIInv == Init => IInv
<1> SUFFICES ASSUME Init PROVE IInv
  OBVIOUS
<1>1. (CHOOSE ck \in ClientKeys : TRUE) \in ClientKeys
  BY MulticastAssumption
<1> QED
  BY <1>1 DEF Init, IInv, TypeOK, MembersAreNoted, LeavesUnlessHasty, JoinsUnlessHasty,
              CrashOnlyOnSharedHost, None

LEMMA NoneIsNoAttempt == None \notin Attempts
  BY MulticastAssumption DEF None, Attempts

(* The socket that subscribe makes is new, and its key has just been taken *)
(* out of the keys left.                                                   *)
LEMMA SubscribeIInv ==
    ASSUME IInv, NEW c \in Clients, NEW key \in Keys, Subscribe(c, key)
    PROVE  IInv'
<1> DEFINE ck == <<c, key>>
<1> USE DEF IInv
<1>1. PICK a \in Attempts : /\ socket[a] = "none"
                            /\ socket' = [socket EXCEPT ![a] = "binding"]
                            /\ owner' = [owner EXCEPT ![a] = ck]
  BY DEF Subscribe
<1>2. /\ ck \in ClientKeys
      /\ entry[ck] = None
      /\ left' = left \ {ck} /\ hasty' = hasty \ {ck}
      /\ UNCHANGED <<host, entry, server, heard, crashed>>
      /\ requests' = requests \cup {[op |-> "sub", topic |-> key[1]]}
  BY DEF Subscribe, Send, ClientKeys
<1>3. TypeOK'
  <2>1. key[1] \in Topics
    BY DEF Keys
  <2>2. [op |-> "sub", topic |-> key[1]] \in Requests
    BY <2>1 DEF Requests
  <2> QED
    BY <1>1, <1>2, <2>2 DEF TypeOK
<1>4. MembersAreNoted'
  BY <1>1, <1>2 DEF TypeOK, MembersAreNoted
<1>5. LeavesUnlessHasty' /\ JoinsUnlessHasty'
  BY <1>1, <1>2 DEF TypeOK, LeavesUnlessHasty, JoinsUnlessHasty
<1>6. CrashOnlyOnSharedHost'
  BY <1>2 DEF CrashOnlyOnSharedHost
<1> QED
  BY <1>3, <1>4, <1>5, <1>6

(* A second member of a key would have the topic's port on the same host.  *)
LEMMA BindIInv ==
    ASSUME IInv, NEW a \in Attempts, Bind(a)
    PROVE  IInv'
<1> USE DEF IInv
<1>1. /\ socket[a] = "binding"
      /\ UNCHANGED <<host, owner, left, hasty, requests, server, heard, crashed>>
  BY DEF Bind
<1>2. CASE PortTaken(HostOfAttempt(a), TopicOf(a))
  <2>1. socket' = [socket EXCEPT ![a] = "failed"] /\ entry' = entry
    BY <1>2 DEF Bind
  <2> QED
    BY <1>1, <2>1 DEF TypeOK, MembersAreNoted, LeavesUnlessHasty, JoinsUnlessHasty,
                      CrashOnlyOnSharedHost
<1>3. CASE ~PortTaken(HostOfAttempt(a), TopicOf(a))
  <2>1. /\ socket' = [socket EXCEPT ![a] = "member"]
        /\ entry' = [entry EXCEPT ![owner[a]] = a]
    BY <1>3 DEF Bind
  <2>2. owner[a] \in ClientKeys
    BY DEF TypeOK
  <2>3. TypeOK'
    BY <1>1, <2>1, <2>2 DEF TypeOK
  <2>4. MembersAreNoted'
    <3> SUFFICES ASSUME NEW b \in Attempts, socket'[b] = "member"
                 PROVE  entry'[owner[b]] = b
      BY <1>1 DEF MembersAreNoted
    <3>1. CASE b = a
      BY <2>1, <2>2, <3>1 DEF TypeOK
    <3>2. CASE b # a
      <4>1. socket[b] = "member" /\ entry[owner[b]] = b
        BY <2>1, <3>2 DEF TypeOK, MembersAreNoted
      <4>2. owner[b] # owner[a]
        BY <1>3, <4>1 DEF PortTaken, HostOfAttempt, TopicOf
      <4> QED
        BY <2>1, <4>1, <4>2 DEF TypeOK
    <3> QED
      BY <3>1, <3>2
  <2>5. LeavesUnlessHasty' /\ JoinsUnlessHasty'
    BY <1>1, <2>1 DEF TypeOK, LeavesUnlessHasty, JoinsUnlessHasty
  <2>6. CrashOnlyOnSharedHost'
    BY <1>1, <2>1, <2>2, NoneIsNoAttempt DEF TypeOK, CrashOnlyOnSharedHost
  <2> QED
    BY <2>3, <2>4, <2>5, <2>6
<1> QED
  BY <1>2, <1>3

(* Whatever is a member of the key is its entry, and that is closed.       *)
LEMMA UnsubscribeIInv ==
    ASSUME IInv, NEW c \in Clients, NEW key \in Keys, Unsubscribe(c, key)
    PROVE  IInv'
<1> DEFINE ck == <<c, key>>
           binding == \E b \in Attempts : socket[b] = "binding" /\ owner[b] = ck
<1> USE DEF IInv
<1>1. /\ ck \in ClientKeys
      /\ socket' = [b \in Attempts |-> IF b = entry[ck] THEN "closed" ELSE socket[b]]
      /\ left' = left \cup {ck}
      /\ hasty' = IF binding THEN hasty \cup {ck} ELSE hasty
      /\ UNCHANGED <<host, owner, entry, server, heard, crashed>>
      /\ requests' = requests \cup {[op |-> "unsub", topic |-> key[1]]}
  BY DEF Unsubscribe, Send, ClientKeys
<1>2. TypeOK'
  <2>1. key[1] \in Topics
    BY DEF Keys
  <2>2. [op |-> "unsub", topic |-> key[1]] \in Requests
    BY <2>1 DEF Requests
  <2> QED
    BY <1>1, <2>2 DEF TypeOK
<1>3. MembersAreNoted'
  BY <1>1 DEF TypeOK, MembersAreNoted
<1>4. \A b \in Attempts : socket'[b] = "member" => socket[b] = "member" /\ owner[b] # ck
  BY <1>1 DEF TypeOK, MembersAreNoted
<1>5. LeavesUnlessHasty'
  BY <1>1, <1>4 DEF LeavesUnlessHasty
<1>6. JoinsUnlessHasty'
  BY <1>1 DEF TypeOK, JoinsUnlessHasty
<1>7. CrashOnlyOnSharedHost'
  BY <1>1 DEF CrashOnlyOnSharedHost
<1> QED
  BY <1>2, <1>3, <1>5, <1>6, <1>7

(* What arrives at the endpoint concerns no client's socket.               *)
LEMMA ReceiveIInv ==
    ASSUME IInv, NEW r \in requests, Receive(r)
    PROVE  IInv'
<1> USE DEF IInv
<1>1. r \in Requests
  BY DEF TypeOK
<1>2. UNCHANGED <<host, socket, owner, entry, left, hasty, requests, crashed>>
  BY DEF Receive, clientVars, AddToTopic, RemoveFromTopic, SendToAll
<1>3. heard' \subseteq Attempts
  BY DEF TypeOK, Receive, AddToTopic, RemoveFromTopic, SendToAll
<1>4. server' \in [Topics -> {"none", "binding", "bound"}]
  BY <1>1 DEF TypeOK, Receive, AddToTopic, RemoveFromTopic, SendToAll, Requests
<1>5. TypeOK'
  BY <1>2, <1>3, <1>4 DEF TypeOK
<1> QED
  BY <1>2, <1>5 DEF MembersAreNoted, LeavesUnlessHasty, JoinsUnlessHasty, CrashOnlyOnSharedHost

(* The topic server finds its port taken only by a member on its own host, *)
(* which is noted.                                                         *)
LEMMA BindServerIInv ==
    ASSUME IInv, NEW t \in Topics, BindServer(t)
    PROVE  IInv'
<1> USE DEF IInv
<1>1. /\ server[t] = "binding"
      /\ UNCHANGED <<host, socket, owner, entry, left, hasty, requests, heard>>
  BY DEF BindServer, clientVars
<1>2. TypeOK'
  BY <1>1 DEF TypeOK, BindServer
<1>3. CrashOnlyOnSharedHost'
  <2>1. CASE PortTaken(ServerHost, t)
    <3>1. PICK a \in Attempts : socket[a] = "member" /\ HostOfAttempt(a) = ServerHost
      BY <1>1, <2>1 DEF PortTaken
    <3>2. owner[a] \in ClientKeys /\ host[owner[a][1]] = ServerHost /\ entry[owner[a]] = a
      BY <3>1 DEF TypeOK, HostOfAttempt, MembersAreNoted
    <3> QED
      BY <1>1, <3>2, NoneIsNoAttempt DEF CrashOnlyOnSharedHost
  <2>2. CASE ~PortTaken(ServerHost, t)
    BY <1>1, <2>2 DEF BindServer, CrashOnlyOnSharedHost
  <2> QED
    BY <2>1, <2>2
<1> QED
  BY <1>1, <1>2, <1>3 DEF MembersAreNoted, LeavesUnlessHasty, JoinsUnlessHasty

LEMMA NextIInv == IInv /\ [Next]_vars => IInv'
<1> SUFFICES ASSUME IInv, [Next]_vars PROVE IInv'
  OBVIOUS
<1>1. ASSUME NEW c \in Clients, NEW key \in Keys, Subscribe(c, key) \/ Unsubscribe(c, key)
      PROVE  IInv'
  BY <1>1, SubscribeIInv, UnsubscribeIInv
<1>2. ASSUME NEW a \in Attempts, Bind(a) PROVE IInv'
  BY <1>2, BindIInv
<1>3. ASSUME NEW t \in Topics, Publish(t) PROVE IInv'
  <2>1. [op |-> "pub", topic |-> t] \in Requests
    BY DEF Requests
  <2>2. /\ requests' = requests \cup {[op |-> "pub", topic |-> t]}
        /\ UNCHANGED <<host, socket, owner, entry, left, hasty, server, heard, crashed>>
    BY <1>3 DEF Publish, Send, clientVars
  <2> QED
    BY <2>1, <2>2 DEF IInv, TypeOK, MembersAreNoted, LeavesUnlessHasty, JoinsUnlessHasty,
                      CrashOnlyOnSharedHost
<1>4. ASSUME NEW r \in requests, Receive(r) PROVE IInv'
  BY <1>4, ReceiveIInv
<1>5. ASSUME NEW t \in Topics, BindServer(t) PROVE IInv'
  BY <1>5, BindServerIInv
<1>6. CASE UNCHANGED vars
  BY <1>6 DEF vars, clientVars, IInv, TypeOK, MembersAreNoted, LeavesUnlessHasty,
              JoinsUnlessHasty, CrashOnlyOnSharedHost
<1> QED
  BY <1>1, <1>2, <1>3, <1>4, <1>5, <1>6 DEF Next

(* IInv holds in every state that subscribing, leaving, publishing and the *)
(* endpoint's topic servers can reach.                                     *)
THEOREM Invariance == Spec => []IInv
<1>1. Init => IInv
  BY InitIInv
<1>2. IInv /\ [Next]_vars => IInv'
  BY NextIInv
<1> QED
  BY <1>1, <1>2, PTL DEF Spec

(* Every variable of the multicast model keeps its type.                   *)
THEOREM TypeCorrect == Spec => []TypeOK
<1>1. IInv => TypeOK
  BY DEF IInv
<1> QED
  BY <1>1, Invariance, PTL

(* A socket in the group is always found under its key by unsubscribe, in  *)
(* whatever order overlapping calls of subscribe get to bind their ports.  *)
THEOREM MembersAlwaysNoted == Spec => []MembersAreNoted
<1>1. IInv => MembersAreNoted
  BY DEF IInv
<1> QED
  BY <1>1, Invariance, PTL

(* After unsubscribe no socket of the key is in the group, unless one was  *)
(* binding during the call.                                                *)
THEOREM LeavingWorksUnlessHasty == Spec => []LeavesUnlessHasty
<1>1. IInv => LeavesUnlessHasty
  BY DEF IInv
<1> QED
  BY <1>1, Invariance, PTL

(* The 'error' of a topic server, which nobody listens for, comes only     *)
(* with a client on the endpoint's host that has had the topic's port.     *)
THEOREM CrashOnSharedHost == Spec => []CrashOnlyOnSharedHost
<1>1. IInv => CrashOnlyOnSharedHost
  BY DEF IInv, CrashOnlyOnSharedHost
<1> QED
  BY <1>1, Invariance, PTL
=============================================================================
