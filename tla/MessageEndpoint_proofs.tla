----------------------- MODULE MessageEndpoint_proofs -----------------------
(***************************************************************************)
(* Proofs about MessageEndpoint, for any sockets, topics and requests, and *)
(* for names that are used again when their socket has closed.  The tables *)
(* are keyed by name: what is proved first is that a name stands for one   *)
(* live connection.  What has become of a client's requests is counted:    *)
(* those with a number up to Taken are handled or answered, and those      *)
(* above it wait in order, in the queue and behind it.                     *)
(***************************************************************************)
EXTENDS MessageEndpoint, Integers, TLAPS

Live == {"open", "closing"}

\* The requests of a client the server has not taken from its queue, in order.
Pending(c) == queue[c] \o inbound[c]
Taken(c) == sent[c] - Len(Pending(c))

NamesApart ==
    \A c, d \in Conns :
        phase[c] \in Live /\ phase[d] \in Live /\ NameOf[c] = NameOf[d] => c = d

(* The table finds every live connection under its name, and the topics    *)
(* hold live connections only.                                             *)
TableHoldsLive == \A c \in Conns : phase[c] \in Live => table[NameOf[c]] = c

TopicsHoldLive ==
    \A t \in Topics, n \in Names :
        topics[t][n] # NoConn => NameOf[topics[t][n]] = n /\ phase[topics[t][n]] \in Live

(* The numbers of the requests that wait follow those taken.               *)
PendingInOrder ==
    \A c \in Conns : phase[c] = "open" =>
        /\ Taken(c) \in Nat
        /\ \A i \in 1 .. Len(Pending(c)) :
              Pending(c)[i].from = c /\ Pending(c)[i].n = Taken(c) + i

TakenAreKept ==
    \A c \in Conns : phase[c] = "open" =>
        /\ \A w \in replies \cup handling : w.msg.from = c => w.msg.n <= Taken(c)
        /\ \A n \in 1 .. Taken(c) : \E w \in replies \cup handling :
              w.msg.from = c /\ w.msg.n = n

(* The application is asked about its own messages and publications only.  *)
OnlyAppIsAsked == \A h \in handling : h.msg.op \in {"app", "pub"}

(* TopicsFollowRequests of the connections that are open; of the others it *)
(* follows from TopicsHoldLive.                                            *)
OpenFollowRequests ==
    \A c \in Conns, t \in Topics :
        phase[c] = "open" => (topics[t][NameOf[c]] = c <=> Subscribed(c, t))

NewIsFresh ==
    \A c \in Conns : phase[c] = "new" =>
        /\ sent[c] = 0 /\ queue[c] = <<>> /\ inbound[c] = <<>>
        /\ \A w \in replies \cup handling : w.msg.from # c

IInv ==
    /\ TypeOK
    /\ ~crashed
    /\ NamesApart
    /\ TableHoldsLive
    /\ TopicsHoldLive
    /\ PendingInOrder
    /\ TakenAreKept
    /\ OnlyAppIsAsked
    /\ NewIsFresh
    /\ ReplyToSender
    /\ OpenFollowRequests

-----------------------------------------------------------------------------
LEMMA ConcatElements ==
    ASSUME NEW S, NEW s \in Seq(S), NEW u \in Seq(S)
    PROVE  /\ s \o u \in Seq(S) /\ Len(s \o u) = Len(s) + Len(u)
           /\ Len(s) \in Nat /\ Len(u) \in Nat
           /\ \A i \in 1 .. Len(s) + Len(u) :
                 (s \o u)[i] = IF i <= Len(s) THEN s[i] ELSE u[i - Len(s)]
  OBVIOUS

(* Moving the first k of one sequence to the end of another leaves the two *)
(* together as they were; so does moving the first.                        *)
LEMMA MovedConcat ==
    ASSUME NEW S, NEW s \in Seq(S), NEW u \in Seq(S), NEW k \in 0 .. Len(u)
    PROVE  /\ s \o SubSeq(u, 1, k) \in Seq(S)
           /\ SubSeq(u, k + 1, Len(u)) \in Seq(S)
           /\ (s \o SubSeq(u, 1, k)) \o SubSeq(u, k + 1, Len(u)) = s \o u
<1> DEFINE a == SubSeq(u, 1, k)
           b == SubSeq(u, k + 1, Len(u))
<1>1. /\ a \in Seq(S) /\ Len(a) = k /\ \A i \in 1 .. k : a[i] = u[i]
      /\ b \in Seq(S) /\ Len(b) = Len(u) - k
      /\ \A i \in 1 .. Len(u) - k : b[i] = u[k + i]
  OBVIOUS
<1>2. Len(u) \in Nat /\ Len(s) \in Nat /\ k \in Nat /\ k <= Len(u)
  OBVIOUS
<1> HIDE DEF a, b
<1> DEFINE sa == s \o a
<1>3. /\ sa \in Seq(S) /\ Len(sa) = Len(s) + k
      /\ \A i \in 1 .. Len(s) + k : sa[i] = IF i <= Len(s) THEN s[i] ELSE a[i - Len(s)]
  <2>1. /\ sa \in Seq(S) /\ Len(sa) = Len(s) + Len(a)
        /\ \A i \in 1 .. Len(s) + Len(a) :
              sa[i] = IF i <= Len(s) THEN s[i] ELSE a[i - Len(s)]
    BY <1>1, ConcatElements
  <2> HIDE DEF sa
  <2> QED
    BY <1>1, <2>1
<1> HIDE DEF sa
<1>4. /\ sa \o b \in Seq(S) /\ Len(sa \o b) = Len(s) + Len(u)
      /\ \A i \in 1 .. Len(s) + Len(u) :
            (sa \o b)[i] = IF i <= Len(s) + k THEN sa[i] ELSE b[i - (Len(s) + k)]
  <2>1. sa \in Seq(S) /\ b \in Seq(S)
    BY <1>1, <1>3
  <2>2. /\ sa \o b \in Seq(S) /\ Len(sa \o b) = Len(sa) + Len(b)
        /\ \A i \in 1 .. Len(sa) + Len(b) :
              (sa \o b)[i] = IF i <= Len(sa) THEN sa[i] ELSE b[i - Len(sa)]
    BY <2>1, ConcatElements
  <2>3. Len(sa) + Len(b) = Len(s) + Len(u) /\ Len(sa) = Len(s) + k
    BY <1>1, <1>2, <1>3
  <2> QED
    BY <2>2, <2>3
<1>5. /\ s \o u \in Seq(S) /\ Len(s \o u) = Len(s) + Len(u)
      /\ \A i \in 1 .. Len(s) + Len(u) :
            (s \o u)[i] = IF i <= Len(s) THEN s[i] ELSE u[i - Len(s)]
  BY <1>2
<1>6. ASSUME NEW i \in 1 .. Len(s) + Len(u) PROVE (sa \o b)[i] = (s \o u)[i]
  <2>1. CASE i <= Len(s)
    BY <1>2, <1>3, <1>4, <1>5, <2>1
  <2>2. CASE Len(s) < i /\ i <= Len(s) + k
    <3>1. i - Len(s) \in 1 .. k /\ i \in 1 .. Len(s) + k /\ ~(i <= Len(s))
      BY <1>2, <2>2
    <3> QED
      BY <1>1, <1>3, <1>4, <1>5, <2>2, <3>1
  <2>3. CASE Len(s) + k < i
    <3>1. /\ i - (Len(s) + k) \in 1 .. Len(u) - k /\ ~(i <= Len(s) + k) /\ ~(i <= Len(s))
          /\ k + (i - (Len(s) + k)) = i - Len(s)
      BY <1>2, <2>3
    <3> QED
      BY <1>1, <1>4, <1>5, <3>1
  <2>4. i <= Len(s) \/ (Len(s) < i /\ i <= Len(s) + k) \/ Len(s) + k < i
    BY <1>2
  <2> QED
    BY <2>1, <2>2, <2>3, <2>4
<1>7. sa \o b = s \o u
  BY <1>4, <1>5, <1>6
<1> QED
  BY <1>1, <1>3, <1>7 DEF sa, a, b

LEMMA MovedHead ==
    ASSUME NEW S, NEW s \in Seq(S), NEW u \in Seq(S), u # <<>>
    PROVE  /\ Append(s, Head(u)) \in Seq(S) /\ Tail(u) \in Seq(S)
           /\ Append(s, Head(u)) \o Tail(u) = s \o u
<1>1. /\ Len(u) \in Nat \ {0} /\ Len(s) \in Nat /\ Head(u) = u[1] /\ Head(u) \in S
      /\ Tail(u) \in Seq(S) /\ Len(Tail(u)) = Len(u) - 1
      /\ \A i \in 1 .. Len(u) - 1 : Tail(u)[i] = u[i + 1]
  OBVIOUS
<1> DEFINE a == Append(s, Head(u))
           b == Tail(u)
<1>2. /\ a \in Seq(S) /\ Len(a) = Len(s) + 1 /\ a[Len(s) + 1] = u[1]
      /\ \A i \in 1 .. Len(s) : a[i] = s[i]
  BY <1>1
<1> HIDE DEF a, b
<1>3. /\ a \o b \in Seq(S) /\ Len(a \o b) = Len(s) + Len(u)
      /\ \A i \in 1 .. Len(s) + Len(u) :
            (a \o b)[i] = IF i <= Len(s) + 1 THEN a[i] ELSE b[i - (Len(s) + 1)]
  BY <1>1, <1>2 DEF b
<1>4. /\ s \o u \in Seq(S) /\ Len(s \o u) = Len(s) + Len(u)
      /\ \A i \in 1 .. Len(s) + Len(u) :
            (s \o u)[i] = IF i <= Len(s) THEN s[i] ELSE u[i - Len(s)]
  BY <1>1
<1>5. ASSUME NEW i \in 1 .. Len(s) + Len(u) PROVE (a \o b)[i] = (s \o u)[i]
  <2>1. CASE i <= Len(s)
    BY <1>1, <1>2, <1>3, <1>4, <2>1
  <2>2. CASE i = Len(s) + 1
    BY <1>1, <1>2, <1>3, <1>4, <2>2
  <2>3. CASE Len(s) + 1 < i
    <3>1. /\ i - (Len(s) + 1) \in 1 .. Len(u) - 1 /\ ~(i <= Len(s) + 1) /\ ~(i <= Len(s))
          /\ (i - (Len(s) + 1)) + 1 = i - Len(s)
      BY <1>1, <2>3
    <3> QED
      BY <1>1, <1>3, <1>4, <3>1 DEF b
  <2>4. i <= Len(s) \/ i = Len(s) + 1 \/ Len(s) + 1 < i
    BY <1>1
  <2> QED
    BY <2>1, <2>2, <2>3, <2>4
<1> QED
  BY <1>1, <1>2, <1>3, <1>4, <1>5 DEF a, b

(* The head of a sequence that is followed by another.                     *)
LEMMA HeadOfConcat ==
    ASSUME NEW S, NEW s \in Seq(S), NEW u \in Seq(S), s # <<>>
    PROVE  /\ Head(s) = (s \o u)[1] /\ Head(s) \in S
           /\ Tail(s) \in Seq(S) /\ Tail(s) \o u \in Seq(S)
           /\ Len(Tail(s) \o u) = Len(s \o u) - 1 /\ Len(s \o u) \in Nat \ {0}
           /\ \A i \in 1 .. Len(s \o u) - 1 : (Tail(s) \o u)[i] = (s \o u)[i + 1]
<1>1. /\ Len(s) \in Nat \ {0} /\ Len(u) \in Nat /\ Head(s) = s[1] /\ Head(s) \in S
      /\ Tail(s) \in Seq(S) /\ Len(Tail(s)) = Len(s) - 1
      /\ \A i \in 1 .. Len(s) - 1 : Tail(s)[i] = s[i + 1]
  OBVIOUS
<1> DEFINE b == Tail(s)
<1> HIDE DEF b
<1>2. /\ b \o u \in Seq(S) /\ Len(b \o u) = (Len(s) - 1) + Len(u)
      /\ \A i \in 1 .. (Len(s) - 1) + Len(u) :
            (b \o u)[i] = IF i <= Len(s) - 1 THEN b[i] ELSE u[i - (Len(s) - 1)]
  BY <1>1 DEF b
<1>3. /\ s \o u \in Seq(S) /\ Len(s \o u) = Len(s) + Len(u)
      /\ \A i \in 1 .. Len(s) + Len(u) :
            (s \o u)[i] = IF i <= Len(s) THEN s[i] ELSE u[i - Len(s)]
  BY <1>1
<1>4. ASSUME NEW i \in 1 .. Len(s \o u) - 1 PROVE (b \o u)[i] = (s \o u)[i + 1]
  <2>1. i \in 1 .. (Len(s) - 1) + Len(u) /\ i + 1 \in 1 .. Len(s) + Len(u)
    BY <1>1, <1>3
  <2>2. CASE i <= Len(s) - 1
    BY <1>1, <1>2, <1>3, <2>1, <2>2 DEF b
  <2>3. CASE ~(i <= Len(s) - 1)
    <3>1. ~(i + 1 <= Len(s)) /\ i - (Len(s) - 1) = (i + 1) - Len(s)
      BY <1>1, <2>1, <2>3
    <3> QED
      BY <1>2, <1>3, <2>1, <2>3, <3>1
  <2> QED
    BY <2>2, <2>3
<1> QED
  BY <1>1, <1>2, <1>3, <1>4 DEF b

(* A request that is sent joins the end of those that wait.                *)
LEMMA AppendedConcat ==
    ASSUME NEW S, NEW s \in Seq(S), NEW u \in Seq(S), NEW a \in Seq(S),
           Len(a) = Len(u) + 1, \A i \in 1 .. Len(u) : a[i] = u[i]
    PROVE  /\ Len(s \o a) = Len(s \o u) + 1 /\ Len(s \o u) \in Nat
           /\ \A i \in 1 .. Len(s \o u) : (s \o a)[i] = (s \o u)[i]
           /\ (s \o a)[Len(s \o u) + 1] = a[Len(u) + 1]
<1>1. Len(s) \in Nat /\ Len(u) \in Nat
  OBVIOUS
<1>2. /\ s \o a \in Seq(S) /\ Len(s \o a) = Len(s) + (Len(u) + 1)
      /\ \A i \in 1 .. Len(s) + (Len(u) + 1) :
            (s \o a)[i] = IF i <= Len(s) THEN s[i] ELSE a[i - Len(s)]
  BY <1>1
<1>3. /\ Len(s \o u) = Len(s) + Len(u)
      /\ \A i \in 1 .. Len(s) + Len(u) :
            (s \o u)[i] = IF i <= Len(s) THEN s[i] ELSE u[i - Len(s)]
  BY <1>1
<1>4. ASSUME NEW i \in 1 .. Len(s) + Len(u) PROVE (s \o a)[i] = (s \o u)[i]
  <2>1. CASE i <= Len(s)
    BY <1>1, <1>2, <1>3, <2>1
  <2>2. CASE ~(i <= Len(s))
    <3>1. i - Len(s) \in 1 .. Len(u) /\ i \in 1 .. Len(s) + (Len(u) + 1)
      BY <1>1, <2>2
    <3> QED
      BY <1>1, <1>2, <1>3, <2>2, <3>1
  <2> QED
    BY <2>1, <2>2
<1>5. (s \o a)[Len(s) + Len(u) + 1] = a[Len(u) + 1]
  <2>1. /\ (Len(s) + Len(u) + 1) - Len(s) = Len(u) + 1
        /\ Len(s) + Len(u) + 1 \in 1 .. Len(s) + (Len(u) + 1)
        /\ ~(Len(s) + Len(u) + 1 <= Len(s))
    BY <1>1
  <2> QED
    BY <1>1, <1>2, <2>1
<1> QED
  BY <1>1, <1>2, <1>3, <1>4, <1>5

-----------------------------------------------------------------------------
LEMMA NumbersArePositive == Numbers \subseteq Nat \ {0}
<1> SUFFICES ASSUME NEW c \in Conns, NEW n \in 1 .. SendsOf[c] PROVE n \in Nat \ {0}
  BY DEF Numbers
<1>1. SendsOf[c] \in Nat
  BY EndpointAssumption
<1> QED
  BY <1>1

LEMMA MsgParts ==
    ASSUME NEW m \in Msgs
    PROVE  /\ m.op \in Ops /\ m.topic \in Topics /\ m.from \in Conns /\ m.n \in Nat \ {0}
           /\ \A c \in Conns : [to |-> c, msg |-> m] \in Written
  BY NumbersArePositive DEF Msgs, Written

LEMMA InitIInv == Init => IInv
<1> SUFFICES ASSUME Init PROVE IInv
  OBVIOUS
<1>1. \A n \in Names : n \in {NameOf[c] : c \in Conns \ Streams} =>
         /\ table[n] \in Conns \ Streams
         /\ NameOf[table[n]] = n
  BY DEF Init
<1>2. table \in [Names -> Conns \cup {NoConn}]
  BY <1>1 DEF Init
<1>3. TypeOK
  <2>1. phase \in [Conns -> {"new", "open", "closing", "closed"}]
    BY DEF Init
  <2>2. topics \in [Topics -> [Names -> Conns \cup {NoConn}]]
    BY DEF Init
  <2>3. /\ sent \in [Conns -> Nat] /\ inbound \in [Conns -> Seq(Msgs)]
        /\ queue \in [Conns -> Seq(Msgs)]
    BY DEF Init
  <2>4. crashed \in BOOLEAN /\ hooked \in Hooked
    BY DEF Init
  <2> QED
    BY <1>2, <2>1, <2>2, <2>3, <2>4 DEF Init, TypeOK
<1>4. \A c \in Conns : phase[c] = IF c \in Streams THEN "new" ELSE "open"
  BY DEF Init
<1>5. NamesApart /\ TableHoldsLive
  BY <1>1, <1>4, EndpointAssumption DEF NamesApart, TableHoldsLive, Live
<1>6. TopicsHoldLive
  BY DEF Init, TopicsHoldLive
<1>7. \A c \in Conns : /\ sent[c] = 0 /\ queue[c] = <<>> /\ inbound[c] = <<>>
                       /\ Pending(c) = <<>> /\ Len(Pending(c)) = 0 /\ Taken(c) = 0
  BY DEF Init, Pending, Taken
<1>8. PendingInOrder /\ TakenAreKept /\ NewIsFresh
  <2>1. replies = {} /\ handling = {}
    BY DEF Init
  <2>2. 1 .. 0 = {}
    OBVIOUS
  <2> QED
    BY <1>7, <2>1, <2>2 DEF PendingInOrder, TakenAreKept, NewIsFresh
<1>9. OpenFollowRequests
  BY EndpointAssumption DEF Init, OpenFollowRequests, Subscribed, Asked
<1> QED
  BY <1>3, <1>5, <1>6, <1>8, <1>9 DEF Init, IInv, OnlyAppIsAsked, ReplyToSender

-----------------------------------------------------------------------------
(* Sending, connecting and closing.                                        *)

LEMMA ClientSendIInv ==
    ASSUME IInv, NEW c \in Conns, ClientSend(c)
    PROVE  IInv'
<1> USE DEF IInv
<1>1. PICK op \in OpsOf[c], t \in Topics :
          inbound' = [inbound EXCEPT ![c] =
              Append(@, [op |-> op, topic |-> t, from |-> c, n |-> sent[c] + 1])]
  BY DEF ClientSend
<1> DEFINE e == [op |-> op, topic |-> t, from |-> c, n |-> sent[c] + 1]
<1>2. /\ phase[c] = "open"
      /\ sent[c] < SendsOf[c]
      /\ sent' = [sent EXCEPT ![c] = @ + 1]
      /\ UNCHANGED <<phase, table, topics, queue, handling, replies, updates, crashed,
                     hooked, blocked>>
  BY DEF ClientSend, At, appVars
<1>3. sent[c] \in Nat /\ SendsOf[c] \in Nat
  BY EndpointAssumption DEF TypeOK
<1>4. e \in Msgs /\ e.from = c /\ e.n = sent[c] + 1
  <2>1. sent[c] + 1 \in 1 .. SendsOf[c]
    BY <1>2, <1>3
  <2>2. op \in Ops
    BY EndpointAssumption DEF Ops
  <2> QED
    BY <2>1, <2>2 DEF Msgs, Numbers
<1> HIDE DEF e
<1>5. /\ queue[c] \in Seq(Msgs) /\ inbound[c] \in Seq(Msgs)
      /\ inbound'[c] = Append(inbound[c], e) /\ queue'[c] = queue[c]
      /\ \A d \in Conns \ {c} : inbound'[d] = inbound[d] /\ queue'[d] = queue[d]
      /\ \A d \in Conns \ {c} : sent'[d] = sent[d]
      /\ sent'[c] = sent[c] + 1
  BY <1>1, <1>2 DEF TypeOK, e
<1>6. TypeOK'
  <2>1. inbound' \in [Conns -> Seq(Msgs)]
    BY <1>1, <1>4, <1>5 DEF TypeOK, e
  <2>2. sent' \in [Conns -> Nat]
    BY <1>2, <1>3 DEF TypeOK
  <2> QED
    BY <1>2, <2>1, <2>2 DEF TypeOK
<1>7. \A d \in Conns \ {c} : Pending(d)' = Pending(d) /\ Taken(d)' = Taken(d)
  BY <1>5 DEF Pending, Taken
<1> DEFINE p == Pending(c)
<1>8. /\ Len(Pending(c)') = Len(p) + 1 /\ Len(p) \in Nat
      /\ \A i \in 1 .. Len(p) : (Pending(c)')[i] = p[i]
      /\ (Pending(c)')[Len(p) + 1] = e
  <2> DEFINE a == inbound'[c]
  <2>1. /\ a \in Seq(Msgs) /\ Len(a) = Len(inbound[c]) + 1 /\ a[Len(inbound[c]) + 1] = e
        /\ \A i \in 1 .. Len(inbound[c]) : a[i] = inbound[c][i]
    BY <1>4, <1>5
  <2>2. Pending(c)' = queue[c] \o a /\ p = queue[c] \o inbound[c]
    BY <1>5 DEF Pending
  <2> HIDE DEF a
  <2>3. queue[c] \in Seq(Msgs) /\ inbound[c] \in Seq(Msgs)
    BY <1>5
  <2> DEFINE q == queue[c]
             u == inbound[c]
  <2>4. q \in Seq(Msgs) /\ u \in Seq(Msgs) /\ Len(a) = Len(u) + 1 /\ a[Len(u) + 1] = e
        /\ \A i \in 1 .. Len(u) : a[i] = u[i]
    BY <2>1, <2>3
  <2> HIDE DEF q, u
  <2>5. /\ Len(q \o a) = Len(q \o u) + 1 /\ Len(q \o u) \in Nat
        /\ \A i \in 1 .. Len(q \o u) : (q \o a)[i] = (q \o u)[i]
        /\ (q \o a)[Len(q \o u) + 1] = e
    BY <2>1, <2>4, AppendedConcat
  <2> QED
    BY <2>2, <2>5 DEF q, u
<1> HIDE DEF p
<1>9. Taken(c)' = Taken(c) /\ Taken(c) = sent[c] - Len(p) /\ Taken(c) \in Nat
  BY <1>2, <1>3, <1>5, <1>8 DEF Taken, PendingInOrder, p
<1>10. PendingInOrder'
  <2>1. ASSUME NEW i \in 1 .. Len(Pending(c)')
        PROVE  (Pending(c)')[i].from = c /\ (Pending(c)')[i].n = Taken(c) + i
    <3>1. CASE i \in 1 .. Len(p)
      BY <1>2, <1>8, <3>1 DEF PendingInOrder, p
    <3>2. CASE i = Len(p) + 1
      BY <1>3, <1>4, <1>8, <1>9, <3>2
    <3>3. i \in 1 .. Len(p) \/ i = Len(p) + 1
      BY <1>8
    <3> QED
      BY <3>1, <3>2, <3>3
  <2> SUFFICES ASSUME NEW d \in Conns, phase'[d] = "open"
               PROVE  /\ Taken(d)' \in Nat
                      /\ \A i \in 1 .. Len(Pending(d)') :
                            (Pending(d)')[i].from = d /\ (Pending(d)')[i].n = Taken(d)' + i
    BY DEF PendingInOrder
  <2>2. CASE d = c
    BY <1>9, <2>1, <2>2
  <2>3. CASE d # c
    BY <1>2, <1>7, <2>3 DEF PendingInOrder
  <2> QED
    BY <2>2, <2>3
<1>11. TakenAreKept'
  BY <1>2, <1>7, <1>9 DEF TakenAreKept
<1>12. NewIsFresh'
  BY <1>2, <1>5 DEF NewIsFresh
<1> QED
  BY <1>2, <1>6, <1>10, <1>11, <1>12
     DEF NamesApart, TableHoldsLive, TopicsHoldLive, OnlyAppIsAsked, ReplyToSender,
         OpenFollowRequests, Subscribed, Asked

LEMMA ClientLeaveIInv ==
    ASSUME IInv, NEW c \in Conns, ClientLeave(c)
    PROVE  IInv'
<1> USE DEF IInv
<1>1. /\ phase[c] = "open"
      /\ phase' = [phase EXCEPT ![c] = "closing"]
      /\ inbound' = [inbound EXCEPT ![c] = <<>>]
      /\ UNCHANGED <<table, topics, sent, queue, handling, replies, updates, crashed,
                     hooked, blocked>>
  BY DEF ClientLeave, At, appVars
<1>2. TypeOK'
  BY <1>1 DEF TypeOK
<1>3. \A d \in Conns : /\ phase'[d] \in Live <=> phase[d] \in Live
                       /\ phase'[d] = "open" <=> d # c /\ phase[d] = "open"
                       /\ phase'[d] = "new" <=> phase[d] = "new"
                       /\ d # c => inbound'[d] = inbound[d]
  BY <1>1 DEF TypeOK, Live
<1>4. NamesApart' /\ TableHoldsLive'
  BY <1>1, <1>3 DEF NamesApart, TableHoldsLive
<1>5. TopicsHoldLive'
  BY <1>1, <1>3 DEF TypeOK, TopicsHoldLive
<1>6. \A d \in Conns \ {c} : Pending(d)' = Pending(d) /\ Taken(d)' = Taken(d)
  BY <1>1, <1>3 DEF Pending, Taken
<1>7. PendingInOrder' /\ TakenAreKept'
  BY <1>1, <1>3, <1>6 DEF PendingInOrder, TakenAreKept
<1>8. NewIsFresh'
  BY <1>1, <1>3 DEF NewIsFresh
<1>9. OpenFollowRequests'
  BY <1>1, <1>3 DEF OpenFollowRequests, Subscribed, Asked
<1> QED
  BY <1>1, <1>2, <1>4, <1>5, <1>7, <1>8, <1>9 DEF OnlyAppIsAsked, ReplyToSender

(* A new connection has subscribed to nothing and is owed nothing.         *)
LEMMA AddConnectionIInv ==
    ASSUME IInv, NEW c \in Conns, AddConnection(c)
    PROVE  IInv'
<1> USE DEF IInv
<1>1. /\ phase[c] = "new"
      /\ \A d \in Conns : phase[d] \in Live => NameOf[d] # NameOf[c]
      /\ phase' = [phase EXCEPT ![c] = "open"]
      /\ table' = [table EXCEPT ![NameOf[c]] = c]
      /\ UNCHANGED <<topics, sent, inbound, queue, handling, replies, updates, crashed,
                     hooked, blocked>>
  BY DEF AddConnection, At, appVars, Live
<1>2. \A d \in Conns : NameOf[d] \in Names
  BY EndpointAssumption
<1>3. TypeOK'
  BY <1>1, <1>2 DEF TypeOK
<1>4. \A d \in Conns : /\ phase'[d] \in Live <=> d = c \/ phase[d] \in Live
                       /\ phase'[d] = "open" <=> d = c \/ phase[d] = "open"
                       /\ phase'[d] = "new" => phase[d] = "new"
  BY <1>1 DEF TypeOK, Live
<1>5. NamesApart' /\ TableHoldsLive'
  BY <1>1, <1>2, <1>4 DEF TypeOK, NamesApart, TableHoldsLive
<1>6. TopicsHoldLive'
  BY <1>1, <1>4 DEF TypeOK, TopicsHoldLive
<1>7. \A d \in Conns : Pending(d)' = Pending(d) /\ Taken(d)' = Taken(d)
  BY <1>1 DEF Pending, Taken
<1>8. Len(Pending(c)) = 0 /\ Taken(c) = 0 /\ \A w \in replies \cup handling : w.msg.from # c
  <2>1. /\ queue[c] = <<>> /\ inbound[c] = <<>> /\ sent[c] = 0
        /\ \A w \in replies \cup handling : w.msg.from # c
    BY <1>1 DEF NewIsFresh
  <2>2. Len(<<>> \o <<>>) = 0
    OBVIOUS
  <2>3. Len(Pending(c)) = 0
    BY <2>1, <2>2 DEF Pending
  <2> QED
    BY <2>1, <2>3 DEF Taken
<1>9. PendingInOrder' /\ TakenAreKept'
  <2>1. 1 .. 0 = {}
    OBVIOUS
  <2> QED
    BY <1>1, <1>4, <1>7, <1>8, <2>1 DEF PendingInOrder, TakenAreKept
<1>10. NewIsFresh'
  BY <1>1, <1>4 DEF NewIsFresh
<1>11. OpenFollowRequests'
  <2>1. \A t \in Topics : topics[t][NameOf[c]] # c /\ ~Subscribed(c, t)
    BY <1>1, <1>2, <1>8, EndpointAssumption DEF TopicsHoldLive, Live, Subscribed, Asked
  <2>2. \A d \in Conns, t \in Topics : Subscribed(d, t)' <=> Subscribed(d, t)
    BY <1>1 DEF Subscribed, Asked
  <2> QED
    BY <1>1, <1>4, <2>1, <2>2 DEF OpenFollowRequests
<1> QED
  BY <1>1, <1>3, <1>5, <1>6, <1>9, <1>10, <1>11 DEF OnlyAppIsAsked, ReplyToSender

(* What a name stood for goes with its connection.                         *)
LEMMA RemoveConnectionIInv ==
    ASSUME IInv, NEW c \in Conns, RemoveConnection(c)
    PROVE  IInv'
<1> DEFINE name == NameOf[c]
<1> USE DEF IInv
<1>1. phase[c] = "closing" /\ table[name] = c /\ c # NoConn
  BY EndpointAssumption DEF RemoveConnection, At, TableHoldsLive, Live
<1>2. /\ phase' = [phase EXCEPT ![c] = "closed"]
      /\ table' = [table EXCEPT ![name] = NoConn]
      /\ topics' = [t \in Topics |-> [topics[t] EXCEPT ![name] = NoConn]]
      /\ UNCHANGED <<sent, inbound, queue, handling, replies, updates, crashed, hooked, blocked>>
  BY <1>1 DEF RemoveConnection, appVars
<1>3. \A d \in Conns : NameOf[d] \in Names
  BY EndpointAssumption
<1>4. TypeOK'
  <2>1. topics' \in [Topics -> [Names -> Conns \cup {NoConn}]]
    BY <1>2, <1>3 DEF TypeOK
  <2> QED
    BY <1>2, <1>3, <2>1 DEF TypeOK
<1>5. \A d \in Conns : /\ phase'[d] \in Live <=> d # c /\ phase[d] \in Live
                       /\ phase'[d] = "open" <=> phase[d] = "open"
                       /\ phase'[d] = "new" <=> phase[d] = "new"
  BY <1>1, <1>2 DEF TypeOK, Live
<1>6. \A d \in Conns \ {c} : phase[d] \in Live => NameOf[d] # name
  BY <1>1 DEF NamesApart, Live
<1>7. NamesApart' /\ TableHoldsLive'
  BY <1>2, <1>3, <1>5, <1>6 DEF TypeOK, NamesApart, TableHoldsLive
<1>8. \A t \in Topics, n \in Names :
         topics'[t][n] = IF n = name THEN NoConn ELSE topics[t][n]
  BY <1>2, <1>3 DEF TypeOK
<1>9. TopicsHoldLive'
  BY <1>2, <1>5, <1>8 DEF TypeOK, TopicsHoldLive
<1>10. \A d \in Conns : Pending(d)' = Pending(d) /\ Taken(d)' = Taken(d)
  BY <1>2 DEF Pending, Taken
<1>11. PendingInOrder' /\ TakenAreKept' /\ NewIsFresh'
  BY <1>2, <1>5, <1>10 DEF PendingInOrder, TakenAreKept, NewIsFresh
<1>12. OpenFollowRequests'
  <2>1. \A d \in Conns, t \in Topics : Subscribed(d, t)' <=> Subscribed(d, t)
    BY <1>2 DEF Subscribed, Asked
  <2>2. \A d \in Conns : phase[d] = "open" => d # c /\ NameOf[d] # name
    BY <1>1, <1>6 DEF Live
  <2> QED
    BY <1>3, <1>5, <1>8, <2>1, <2>2 DEF OpenFollowRequests
<1> QED
  BY <1>2, <1>4, <1>7, <1>9, <1>11, <1>12 DEF OnlyAppIsAsked, ReplyToSender

-----------------------------------------------------------------------------
(* Messages: one is taken from the queue, or its handler returns.          *)

LEMMA SendToAllTyped ==
    ASSUME TypeOK, NEW r, NEW m \in Msgs, SendToAll(r, m)
    PROVE  updates' \subseteq [to : Conns, msg : Msgs, copies : 1 .. 2]
<1> DEFINE targets == {topics[m.topic][n] : n \in Names} \ {NoConn}
<1>1. m.topic \in Topics
  BY MsgParts
<1>2. targets \subseteq Conns
  BY <1>1 DEF TypeOK
<1>3. \A q \in targets :
         [to |-> q, msg |-> m, copies |-> IF q # r THEN 2 ELSE 1]
            \in [to : Conns, msg : Msgs, copies : 1 .. 2]
  BY <1>2
<1> QED
  BY <1>3 DEF SendToAll, TypeOK

(* What was written when the publication was sent: something to every      *)
(* subscriber that is connected.                                           *)
LEMMA SendToAllReaches ==
    ASSUME IInv, NEW r, NEW m \in Msgs, SendToAll(r, m),
           NEW c \in Conns, phase[c] = "open", Subscribed(c, m.topic)
    PROVE  \E u \in updates' : u.to = c /\ u.msg = m
<1> DEFINE u == [to |-> c, msg |-> m, copies |-> IF c # r THEN 2 ELSE 1]
<1>1. m.topic \in Topics /\ NameOf[c] \in Names /\ c # NoConn
  BY MsgParts, EndpointAssumption
<1>2. topics[m.topic][NameOf[c]] = c
  BY <1>1 DEF IInv, OpenFollowRequests
<1>3. u \in updates'
  BY <1>1, <1>2 DEF SendToAll
<1> QED
  BY <1>3

LEMMA TakenIInv ==
    ASSUME IInv, NEW c \in Conns, phase[c] = "open",
           NEW m \in Msgs, m.from = c, m.n = Taken(c) + 1, Taken(c)' = Taken(c) + 1,
           \A i \in 1 .. Len(Pending(c)') :
               (Pending(c)')[i].from = c /\ (Pending(c)')[i].n = Taken(c)' + i,
           \A d \in Conns \ {c} : Pending(d)' = Pending(d) /\ Taken(d)' = Taken(d),
           queue' \in [Conns -> Seq(Msgs)], inbound' \in [Conns -> Seq(Msgs)],
           \A d \in Conns \ {c} : queue'[d] = queue[d] /\ inbound'[d] = inbound[d],
           Handle(c, m), UNCHANGED <<phase, table, sent, crashed, hooked, blocked>>
    PROVE  IInv'
<1> DEFINE w == [to |-> c, msg |-> m]
<1> USE DEF IInv
<1>1. /\ m.op \in Ops /\ m.topic \in Topics /\ m.n \in Nat \ {0} /\ w \in Written
      /\ w.to = c /\ w.msg = m
  BY MsgParts
<1>2. c # NoConn /\ \A d \in Conns : NameOf[d] \in Names
  BY EndpointAssumption
<1>3. Taken(c) \in Nat /\ Taken(c)' \in Nat
  BY DEF PendingInOrder
<1>4. \/ /\ m.op = "sub" /\ topics' = [topics EXCEPT ![m.topic][NameOf[c]] = c]
         /\ replies' = replies \cup {w} /\ handling' = handling /\ updates' = updates
      \/ /\ m.op = "unsub" /\ topics' = [topics EXCEPT ![m.topic][NameOf[c]] = NoConn]
         /\ replies' = replies \cup {w} /\ handling' = handling /\ updates' = updates
      \/ /\ m.op = "pub" /\ topics' = topics
         /\ replies' = replies \cup {w} /\ handling' = handling /\ SendToAll(c, m)
      \/ /\ m.op \in {"app", "pub"} /\ topics' = topics
         /\ replies' = replies /\ handling' = handling \cup {w} /\ updates' = updates
  BY DEF Handle, Reply
<1>5. /\ replies' \cup handling' = replies \cup handling \cup {w}
      /\ replies' \subseteq replies \cup {w} /\ handling' \subseteq handling \cup {w}
  BY <1>4
<1>6. \A t \in Topics, n \in Names :
         topics'[t][n] = IF t = m.topic /\ n = NameOf[c] /\ m.op = "sub" THEN c
                         ELSE IF t = m.topic /\ n = NameOf[c] /\ m.op = "unsub" THEN NoConn
                         ELSE topics[t][n]
  BY <1>1, <1>2, <1>4 DEF TypeOK
<1>7. TypeOK'
  <2>1. topics' \in [Topics -> [Names -> Conns \cup {NoConn}]]
    <3>1. ASSUME NEW r \in Conns \cup {NoConn}
          PROVE  [topics EXCEPT ![m.topic][NameOf[c]] = r]
                    \in [Topics -> [Names -> Conns \cup {NoConn}]]
      BY <1>1, <1>2 DEF TypeOK
    <3>2. topics \in [Topics -> [Names -> Conns \cup {NoConn}]]
      BY DEF TypeOK
    <3>3. \/ topics' = [topics EXCEPT ![m.topic][NameOf[c]] = c]
          \/ topics' = [topics EXCEPT ![m.topic][NameOf[c]] = NoConn]
          \/ topics' = topics
      BY <1>4
    <3> QED
      BY <3>1, <3>2, <3>3
  <2>2. replies' \subseteq Written /\ handling' \subseteq Written
    BY <1>1, <1>5 DEF TypeOK
  <2>3. updates' \subseteq [to : Conns, msg : Msgs, copies : 1 .. 2]
    BY <1>4, SendToAllTyped DEF TypeOK
  <2> QED
    BY <2>1, <2>2, <2>3 DEF TypeOK
<1>8. NamesApart' /\ TableHoldsLive'
  BY DEF NamesApart, TableHoldsLive
<1>9. TopicsHoldLive'
  <2> SUFFICES ASSUME NEW t \in Topics, NEW n \in Names, topics'[t][n] # NoConn
               PROVE  NameOf[topics'[t][n]] = n /\ phase'[topics'[t][n]] \in Live
    BY DEF TopicsHoldLive
  <2>1. (topics'[t][n] = c /\ n = NameOf[c]) \/ topics'[t][n] = topics[t][n]
    BY <1>6
  <2>2. CASE topics'[t][n] = c /\ n = NameOf[c]
    BY <2>2 DEF Live
  <2>3. CASE topics'[t][n] = topics[t][n]
    BY <2>3 DEF TopicsHoldLive
  <2> QED
    BY <2>1, <2>2, <2>3
<1>10. PendingInOrder'
  <2> SUFFICES ASSUME NEW d \in Conns, phase'[d] = "open"
               PROVE  /\ Taken(d)' \in Nat
                      /\ \A i \in 1 .. Len(Pending(d)') :
                            (Pending(d)')[i].from = d /\ (Pending(d)')[i].n = Taken(d)' + i
    BY DEF PendingInOrder
  <2>1. CASE d = c
    BY <1>3, <2>1
  <2>2. CASE d # c
    BY <2>2 DEF PendingInOrder
  <2> QED
    BY <2>1, <2>2
<1>11. TakenAreKept'
  <2> SUFFICES ASSUME NEW d \in Conns, phase'[d] = "open"
               PROVE  /\ \A v \in replies' \cup handling' :
                            v.msg.from = d => v.msg.n <= Taken(d)'
                      /\ \A n \in 1 .. Taken(d)' : \E v \in replies' \cup handling' :
                            v.msg.from = d /\ v.msg.n = n
    BY DEF TakenAreKept
  <2>1. CASE d # c
    <3>1. w.msg.from # d /\ Taken(d)' = Taken(d)
      BY <1>1, <2>1
    <3> QED
      BY <1>5, <3>1 DEF TakenAreKept
  <2>2. CASE d = c
    <3>1. \A v \in replies \cup handling : v.msg.from = c => v.msg.n <= Taken(c)
      BY DEF TakenAreKept
    <3>2. \A v \in replies \cup handling : v.msg.n \in Nat
      BY MsgParts DEF TypeOK, Written
    <3>3. ASSUME NEW v \in replies' \cup handling', v.msg.from = c
          PROVE  v.msg.n <= Taken(c)'
      <4>1. v = w \/ v \in replies \cup handling
        BY <1>5
      <4> QED
        BY <1>1, <1>3, <3>1, <3>2, <3>3, <4>1
    <3>4. ASSUME NEW n \in 1 .. Taken(c)'
          PROVE  \E v \in replies' \cup handling' : v.msg.from = c /\ v.msg.n = n
      <4>1. n = Taken(c) + 1 \/ n \in 1 .. Taken(c)
        BY <1>3
      <4>2. CASE n = Taken(c) + 1
        BY <1>1, <1>5, <4>2
      <4>3. CASE n \in 1 .. Taken(c)
        BY <1>5, <4>3 DEF TakenAreKept
      <4> QED
        BY <4>1, <4>2, <4>3
    <3> QED
      BY <2>2, <3>3, <3>4
  <2> QED
    BY <2>1, <2>2
<1>12. OnlyAppIsAsked'
  BY <1>1, <1>4 DEF OnlyAppIsAsked
<1>13. NewIsFresh'
  <2>1. \A d \in Conns : phase[d] = "new" => d # c
    OBVIOUS
  <2>2. w.msg.from = c
    BY <1>1
  <2> QED
    BY <1>5, <2>1, <2>2 DEF NewIsFresh
<1>14. ReplyToSender'
  BY <1>1, <1>5 DEF ReplyToSender
<1>15. OpenFollowRequests'
  <2> SUFFICES ASSUME NEW d \in Conns, NEW t \in Topics, phase[d] = "open"
               PROVE  topics'[t][NameOf[d]] = d <=> Subscribed(d, t)'
    BY DEF OpenFollowRequests
  <2>1. topics[t][NameOf[d]] = d <=> Subscribed(d, t)
    BY DEF OpenFollowRequests
  <2>2. CASE d = c /\ t = m.topic /\ m.op \in {"sub", "unsub"}
    <3>1. Asked(d, t)' = Asked(d, t) \cup {m}
      <4>1. replies' = replies \cup {w}
        BY <1>4, <2>2
      <4>2. /\ w.msg = m /\ m.from = d /\ m.topic = t /\ m.op \in {"sub", "unsub"}
        BY <1>1, <2>2
      <4> HIDE DEF w
      <4> QED
        BY ONLY <4>1, <4>2 DEF Asked
    <3>2. \A k \in Asked(d, t) : k.n \in Nat /\ k.n <= Taken(c)
      <4>1. \A v \in replies : v.msg.n \in Nat
        BY MsgParts DEF TypeOK, Written
      <4> QED
        BY <2>2, <4>1 DEF Asked, TakenAreKept
    <3>3. \A k \in Asked(d, t)' : k = m \/ k.n < m.n
      BY <1>1, <1>3, <3>1, <3>2
    <3>4. \A k \in Asked(d, t)' : k.n <= m.n /\ k.n \in Nat
      BY <1>1, <3>1, <3>2, <3>3
    <3>5. Subscribed(d, t)' <=> m.op = "sub"
      <4>1. ASSUME m.op = "sub" PROVE Subscribed(d, t)'
        BY <3>1, <3>4, <4>1 DEF Subscribed
      <4>2. ASSUME Subscribed(d, t)' PROVE m.op = "sub"
        <5>1. PICK k \in Asked(d, t)' : k.op = "sub" /\ m.n <= k.n
          BY <3>1, <4>2 DEF Subscribed
        <5>2. k = m
          BY <1>1, <3>3, <3>4, <5>1
        <5> QED
          BY <5>1, <5>2
      <4> QED
        BY <4>1, <4>2
    <3>6. topics'[t][NameOf[d]] = d <=> m.op = "sub"
      BY <1>2, <1>6, <2>2
    <3> QED
      BY <3>5, <3>6
  <2>3. CASE ~(d = c /\ t = m.topic /\ m.op \in {"sub", "unsub"})
    <3>1. Asked(d, t)' = Asked(d, t)
      BY <1>1, <1>4, <2>3 DEF Asked
    <3>2. NameOf[d] = NameOf[c] => d = c
      BY DEF NamesApart, Live
    <3>3. topics'[t][NameOf[d]] = topics[t][NameOf[d]]
      BY <1>2, <1>6, <2>3, <3>2
    <3> QED
      BY <2>1, <3>1, <3>3 DEF Subscribed
  <2> QED
    BY <2>2, <2>3
<1> QED
  BY <1>7, <1>8, <1>9, <1>10, <1>11, <1>12, <1>13, <1>14, <1>15

(* Whatever arrives behind the queue, the head of what waits is taken.     *)
LEMMA DequeueIInv ==
    ASSUME IInv, NEW c \in Conns, phase[c] = "open",
           NEW q \in Seq(Msgs), NEW rest \in Seq(Msgs), q \o rest = Pending(c),
           inbound' = [inbound EXCEPT ![c] = rest], Dequeue(c, q),
           UNCHANGED <<phase, table, sent, crashed, hooked, blocked>>
    PROVE  IInv'
<1>1. inbound \in [Conns -> Seq(Msgs)] /\ queue \in [Conns -> Seq(Msgs)] /\ sent[c] \in Nat
  BY DEF IInv, TypeOK
<1>2. CASE q = <<>>
  <2>1. queue' = [queue EXCEPT ![c] = q]
    BY <1>2 DEF Dequeue
  <2>2. UNCHANGED <<topics, handling, replies, updates>>
    BY <1>2 DEF Dequeue
  <2>3. /\ queue' \in [Conns -> Seq(Msgs)] /\ inbound' \in [Conns -> Seq(Msgs)]
        /\ queue'[c] = q /\ inbound'[c] = rest
        /\ \A d \in Conns \ {c} : queue'[d] = queue[d] /\ inbound'[d] = inbound[d]
    BY <1>1, <2>1
  <2>4. \A d \in Conns : Pending(d)' = Pending(d)
    BY <2>3 DEF Pending
  <2>5. \A d \in Conns : Taken(d)' = Taken(d)
    BY <2>4 DEF Taken
  <2>6. PendingInOrder' /\ TakenAreKept'
    BY <2>2, <2>4, <2>5 DEF IInv, PendingInOrder, TakenAreKept
  <2>7. NewIsFresh'
    BY <2>2, <2>3 DEF IInv, NewIsFresh
  <2>8. TypeOK'
    BY <2>2, <2>3 DEF IInv, TypeOK
  <2>9. OpenFollowRequests'
    BY <2>2 DEF IInv, OpenFollowRequests, Subscribed, Asked
  <2> QED
    BY <2>2, <2>6, <2>7, <2>8, <2>9
       DEF IInv, NamesApart, TableHoldsLive, TopicsHoldLive, OnlyAppIsAsked, ReplyToSender
<1>3. CASE q # <<>>
  <2> DEFINE m == Head(q)
             p == q \o rest
             z == Tail(q) \o rest
  <2>1. /\ m = p[1] /\ m \in Msgs /\ Tail(q) \in Seq(Msgs)
        /\ Len(z) = Len(p) - 1 /\ Len(p) \in Nat \ {0}
        /\ \A i \in 1 .. Len(p) - 1 : z[i] = p[i + 1]
    BY <1>3, HeadOfConcat
  <2>2. queue' = [queue EXCEPT ![c] = Tail(q)] /\ Handle(c, m)
    BY <1>3 DEF Dequeue
  <2>3. /\ queue' \in [Conns -> Seq(Msgs)] /\ inbound' \in [Conns -> Seq(Msgs)]
        /\ queue'[c] = Tail(q) /\ inbound'[c] = rest
        /\ \A d \in Conns \ {c} : queue'[d] = queue[d] /\ inbound'[d] = inbound[d]
    BY <1>1, <2>1, <2>2
  <2>4. Pending(c)' = z /\ Pending(c) = p
    BY <2>3 DEF Pending
  <2>5. \A d \in Conns \ {c} : Pending(d)' = Pending(d) /\ Taken(d)' = Taken(d)
    BY <2>3 DEF Pending, Taken
  <2> HIDE DEF m, p, z
  <2>6. /\ Taken(c) \in Nat /\ \A i \in 1 .. Len(p) : p[i].from = c /\ p[i].n = Taken(c) + i
    BY <2>4 DEF IInv, PendingInOrder
  <2>7. Taken(c)' = Taken(c) + 1
    <3>1. Taken(c)' = sent[c] - Len(z) /\ Taken(c) = sent[c] - Len(p)
      BY <2>4 DEF Taken
    <3> QED
      BY <1>1, <2>1, <3>1
  <2>8. m.from = c /\ m.n = Taken(c) + 1
    BY <2>1, <2>6
  <2>9. \A i \in 1 .. Len(z) : z[i].from = c /\ z[i].n = Taken(c)' + i
    <3> SUFFICES ASSUME NEW i \in 1 .. Len(z) PROVE z[i].from = c /\ z[i].n = Taken(c)' + i
      OBVIOUS
    <3>1. i \in 1 .. Len(p) - 1 /\ i + 1 \in 1 .. Len(p) /\ i \in Nat
      BY <2>1
    <3>2. z[i] = p[i + 1] /\ p[i + 1].from = c /\ p[i + 1].n = Taken(c) + (i + 1)
      BY <2>1, <2>6, <3>1
    <3> QED
      BY <2>6, <2>7, <3>1, <3>2
  <2>10. \A i \in 1 .. Len(Pending(c)') :
            (Pending(c)')[i].from = c /\ (Pending(c)')[i].n = Taken(c)' + i
    BY <2>4, <2>9
  <2> QED
    BY <2>1, <2>2, <2>3, <2>5, <2>7, <2>8, <2>10, TakenIInv
<1> QED
  BY <1>2, <1>3

LEMMA DataIInv ==
    ASSUME IInv, NEW c \in Conns, Data(c)
    PROVE  IInv'
<1>1. table[NameOf[c]] = c /\ c # NoConn /\ phase[c] = "open"
  BY EndpointAssumption DEF Data, At, IInv, TableHoldsLive, Live
<1>2. PICK k \in 0 .. Len(inbound[c]) :
         /\ inbound' = [inbound EXCEPT ![c] = SubSeq(@, k + 1, Len(@))]
         /\ Dequeue(c, queue[c] \o SubSeq(inbound[c], 1, k))
         /\ UNCHANGED crashed
  BY <1>1 DEF Data
<1> DEFINE s == queue[c]
           u == inbound[c]
           q == s \o SubSeq(u, 1, k)
           rest == SubSeq(u, k + 1, Len(u))
<1>3. s \in Seq(Msgs) /\ u \in Seq(Msgs) /\ k \in 0 .. Len(u)
  BY DEF IInv, TypeOK
<1>4. /\ inbound' = [inbound EXCEPT ![c] = rest] /\ Dequeue(c, q)
      /\ UNCHANGED <<phase, table, sent, crashed, hooked, blocked>>
  BY <1>2 DEF Data, appVars
<1>5. s \o u = Pending(c)
  BY DEF Pending
<1> HIDE DEF s, u
<1>6. q \in Seq(Msgs) /\ rest \in Seq(Msgs) /\ q \o rest = s \o u
  BY <1>3, MovedConcat
<1> HIDE DEF q, rest
<1> QED
  BY <1>1, <1>4, <1>5, <1>6, DequeueIInv

LEMMA ObjectIInv ==
    ASSUME IInv, NEW c \in Conns, Object(c)
    PROVE  IInv'
<1>1. table[NameOf[c]] = c /\ phase[c] = "open"
  BY DEF Object, At, IInv, TableHoldsLive, Live
<1> DEFINE s == queue[c]
           u == inbound[c]
           q == Append(s, Head(u))
           rest == Tail(u)
<1>2. s \in Seq(Msgs) /\ u \in Seq(Msgs) /\ u # <<>>
  BY DEF IInv, TypeOK, Object
<1>3. /\ inbound' = [inbound EXCEPT ![c] = rest] /\ Dequeue(c, q)
      /\ UNCHANGED <<phase, table, sent, crashed, hooked, blocked>>
  BY <1>1 DEF Object, appVars
<1>4. s \o u = Pending(c)
  BY DEF Pending
<1> HIDE DEF s, u
<1>5. q \in Seq(Msgs) /\ rest \in Seq(Msgs) /\ q \o rest = s \o u
  BY <1>2, MovedHead
<1> HIDE DEF q, rest
<1> QED
  BY <1>1, <1>3, <1>4, <1>5, DequeueIInv

(* The application has returned: its message is answered, or its           *)
(* connection has gone.  It was neither a sub nor an unsub.                *)
LEMMA AnsweredIInv ==
    ASSUME IInv, NEW h \in handling, handling' = handling \ {h}, Reply(h.to, h.msg),
           updates' \subseteq [to : Conns, msg : Msgs, copies : 1 .. 2],
           blocked' \subseteq Msgs,
           UNCHANGED <<phase, table, topics, sent, inbound, queue, crashed, hooked>>
    PROVE  IInv'
<1> USE DEF IInv
<1>1. /\ h \in Written /\ h.msg.op \in {"app", "pub"} /\ h.to = h.msg.from
      /\ [to |-> h.to, msg |-> h.msg] = h
  BY DEF TypeOK, Written, OnlyAppIsAsked, ReplyToSender
<1>2. replies' = IF phase[h.to] = "open" THEN replies \cup {h} ELSE replies
  BY <1>1 DEF Reply
<1>3. replies' \cup handling' \subseteq replies \cup handling
  BY <1>2
<1>4. \A w \in replies \cup handling :
         phase[w.msg.from] = "open" => w \in replies' \cup handling'
  BY <1>1, <1>2
<1>5. TypeOK'
  BY <1>1, <1>2 DEF TypeOK
<1>6. \A d \in Conns : Pending(d)' = Pending(d) /\ Taken(d)' = Taken(d)
  BY DEF Pending, Taken
<1>7. PendingInOrder'
  BY <1>6 DEF PendingInOrder
<1>8. TakenAreKept'
  <2> SUFFICES ASSUME NEW d \in Conns, phase[d] = "open"
               PROVE  /\ \A v \in replies' \cup handling' :
                            v.msg.from = d => v.msg.n <= Taken(d)
                      /\ \A n \in 1 .. Taken(d) : \E v \in replies' \cup handling' :
                            v.msg.from = d /\ v.msg.n = n
    BY <1>6 DEF TakenAreKept
  <2>1. \A v \in replies' \cup handling' : v.msg.from = d => v.msg.n <= Taken(d)
    BY <1>3 DEF TakenAreKept
  <2>2. ASSUME NEW n \in 1 .. Taken(d)
        PROVE  \E v \in replies' \cup handling' : v.msg.from = d /\ v.msg.n = n
    <3>1. PICK v \in replies \cup handling : v.msg.from = d /\ v.msg.n = n
      BY DEF TakenAreKept
    <3> QED
      BY <1>4, <3>1
  <2> QED
    BY <2>1, <2>2
<1>9. OnlyAppIsAsked' /\ ReplyToSender'
  BY <1>1, <1>2 DEF OnlyAppIsAsked, ReplyToSender
<1>10. NewIsFresh'
  BY <1>3 DEF NewIsFresh
<1>11. OpenFollowRequests'
  <2>1. \A d \in Conns, t \in Topics : Asked(d, t)' = Asked(d, t)
    BY <1>1, <1>2 DEF Asked
  <2> QED
    BY <2>1 DEF OpenFollowRequests, Subscribed
<1> QED
  BY <1>5, <1>7, <1>8, <1>9, <1>10, <1>11 DEF NamesApart, TableHoldsLive, TopicsHoldLive

LEMMA AppDoneIInv ==
    ASSUME IInv, NEW h \in handling, AppDone(h)
    PROVE  IInv'
<1>1. /\ updates \subseteq [to : Conns, msg : Msgs, copies : 1 .. 2]
      /\ blocked \subseteq Msgs
  BY DEF IInv, TypeOK
<1>2. /\ handling' = handling \ {h} /\ Reply(h.to, h.msg)
      /\ UNCHANGED <<phase, table, topics, sent, inbound, queue, crashed, hooked>>
      /\ UNCHANGED <<updates, blocked>>
  BY DEF AppDone, appVars
<1> QED
  BY <1>1, <1>2, AnsweredIInv

LEMMA PreFanDoneIInv ==
    ASSUME IInv, NEW h \in handling, PreFanDone(h)
    PROVE  IInv'
<1>1. TypeOK /\ h.msg \in Msgs
  BY DEF IInv, TypeOK, Written
<1>2. \/ SendToAll(h.to, h.msg) /\ UNCHANGED blocked
      \/ blocked' = blocked \cup {h.msg} /\ UNCHANGED updates
  BY DEF PreFanDone
<1>3. updates' \subseteq [to : Conns, msg : Msgs, copies : 1 .. 2]
  BY <1>1, <1>2, SendToAllTyped DEF TypeOK
<1>4. blocked' \subseteq Msgs
  BY <1>1, <1>2 DEF TypeOK
<1>5. /\ handling' = handling \ {h} /\ Reply(h.to, h.msg)
      /\ UNCHANGED <<phase, table, topics, sent, inbound, queue, crashed, hooked>>
  BY DEF PreFanDone
<1> QED
  BY <1>3, <1>4, <1>5, AnsweredIInv

LEMMA NextIInv == IInv /\ [Next]_vars => IInv'
<1> SUFFICES ASSUME IInv, [Next]_vars PROVE IInv'
  OBVIOUS
<1>1. ASSUME NEW c \in Conns, ClientSend(c) PROVE IInv'
  BY <1>1, ClientSendIInv
<1>2. ASSUME NEW c \in Conns, ClientLeave(c) PROVE IInv'
  BY <1>2, ClientLeaveIInv
<1>3. ASSUME NEW c \in Conns, AddConnection(c) PROVE IInv'
  BY <1>3, AddConnectionIInv
<1>4. ASSUME NEW c \in Conns, RemoveConnection(c) PROVE IInv'
  BY <1>4, RemoveConnectionIInv
<1>5. ASSUME NEW c \in Conns, Data(c) PROVE IInv'
  BY <1>5, DataIInv
<1>6. ASSUME NEW c \in Conns, Object(c) PROVE IInv'
  BY <1>6, ObjectIInv
<1>7. ASSUME NEW h \in handling, AppDone(h) PROVE IInv'
  BY <1>7, AppDoneIInv
<1>8. ASSUME NEW h \in handling, PreFanDone(h) PROVE IInv'
  BY <1>8, PreFanDoneIInv
<1>9. CASE UNCHANGED vars
  BY <1>9 DEF vars, appVars, IInv, TypeOK, NamesApart, TableHoldsLive, TopicsHoldLive,
              PendingInOrder, TakenAreKept, OnlyAppIsAsked, NewIsFresh, ReplyToSender,
              OpenFollowRequests, Subscribed, Asked, Pending, Taken
<1> QED
  BY <1>1, <1>2, <1>3, <1>4, <1>5, <1>6, <1>7, <1>8, <1>9 DEF Next

-----------------------------------------------------------------------------
(* IInv holds in every state: no interleaving of chunks of data, closes,   *)
(* new connections under an old name and answers of the application        *)
(* disturbs what the server keeps of a client that is connected.           *)
THEOREM Invariance == Spec => []IInv
<1> QED
  BY InitIInv, NextIInv, PTL DEF Spec

(* The state has its type in every behaviour.                              *)
THEOREM TypeCorrect == Spec => []TypeOK
<1>1. IInv => TypeOK
  BY DEF IInv
<1> QED
  BY <1>1, Invariance, PTL

(* add_data_and_react always finds the replier of a socket that is still   *)
(* open, so the look-up without a check never throws.                      *)
THEOREM LookUpNeverThrows == Spec => []~crashed
<1>1. IInv => ~crashed
  BY DEF IInv
<1> QED
  BY <1>1, Invariance, PTL

(* Every response is written to the socket its request came from.          *)
THEOREM RepliesReachSender == Spec => []ReplyToSender
<1>1. IInv => ReplyToSender
  BY DEF IInv
<1> QED
  BY <1>1, Invariance, PTL

(* No request of a connection that is open is dropped, however its data is *)
(* cut into chunks.                                                        *)
THEOREM NoRequestIsLost == Spec => []NothingLost
<1>1. IInv => NothingLost
  <2> SUFFICES ASSUME IInv, NEW c \in Conns, phase[c] = "open", NEW n \in 1 .. sent[c]
               PROVE  \E m \in Range(inbound[c]) \cup Range(queue[c])
                               \cup {w.msg : w \in handling} \cup {w.msg : w \in replies} :
                         m.from = c /\ m.n = n
    BY DEF NothingLost
  <2> DEFINE q == queue[c]
             u == inbound[c]
             p == q \o u
  <2>1. q \in Seq(Msgs) /\ u \in Seq(Msgs) /\ sent[c] \in Nat
    BY DEF IInv, TypeOK
  <2>2. Taken(c) = sent[c] - Len(p)
    BY DEF Taken, Pending
  <2>3. /\ Taken(c) \in Nat
        /\ \A i \in 1 .. Len(p) : p[i].from = c /\ p[i].n = Taken(c) + i
    BY DEF IInv, PendingInOrder, Pending
  <2>4. Range(inbound[c]) = {u[i] : i \in 1 .. Len(u)} /\ Range(queue[c]) = {q[i] : i \in 1 .. Len(q)}
    BY DEF Range
  <2> HIDE DEF q, u
  <2>5. /\ Len(p) = Len(q) + Len(u) /\ Len(q) \in Nat /\ Len(u) \in Nat
        /\ \A i \in 1 .. Len(q) + Len(u) : p[i] = IF i <= Len(q) THEN q[i] ELSE u[i - Len(q)]
    BY <2>1, ConcatElements
  <2> HIDE DEF p
  <2>6. CASE n <= Taken(c)
    <3>1. n \in 1 .. Taken(c)
      BY <2>1, <2>3, <2>6
    <3>2. PICK w \in replies \cup handling : w.msg.from = c /\ w.msg.n = n
      BY <3>1 DEF IInv, TakenAreKept
    <3> QED
      BY <3>2
  <2>7. CASE ~(n <= Taken(c))
    <3> DEFINE i == n - Taken(c)
    <3>1. i \in 1 .. Len(p) /\ Taken(c) + i = n
      BY <2>1, <2>2, <2>3, <2>5, <2>7
    <3>2. p[i].from = c /\ p[i].n = n
      BY <2>3, <3>1
    <3>3. p[i] \in Range(inbound[c]) \cup Range(queue[c])
      <4>1. CASE i <= Len(q)
        <5>1. i \in 1 .. Len(q) /\ p[i] = q[i]
          BY <2>5, <3>1, <4>1
        <5> QED
          BY <2>4, <5>1
      <4>2. CASE ~(i <= Len(q))
        <5>1. i - Len(q) \in 1 .. Len(u) /\ p[i] = u[i - Len(q)]
          BY <2>5, <3>1, <4>2
        <5> QED
          BY <2>4, <5>1
      <4> QED
        BY <4>1, <4>2
    <3> QED
      BY <3>2, <3>3
  <2> QED
    BY <2>6, <2>7
<1> QED
  BY <1>1, Invariance, PTL

(* A client that is connected is subscribed exactly when its last answered *)
(* sub or unsub was a sub, and one that is not is in no topic - also when  *)
(* another connection has taken over its name.                             *)
THEOREM TopicsAlwaysFollow == Spec => []TopicsFollowRequests
<1>1. IInv => TopicsFollowRequests
  <2> SUFFICES ASSUME IInv, NEW c \in Conns, NEW t \in Topics
               PROVE  /\ phase[c] = "open" => (topics[t][NameOf[c]] = c <=> Subscribed(c, t))
                      /\ phase[c] \in {"new", "closed"} => topics[t][NameOf[c]] # c
    BY DEF TopicsFollowRequests
  <2>1. phase[c] = "open" => (topics[t][NameOf[c]] = c <=> Subscribed(c, t))
    BY DEF IInv, OpenFollowRequests
  <2>2. phase[c] \in {"new", "closed"} => topics[t][NameOf[c]] # c
    BY EndpointAssumption DEF IInv, TopicsHoldLive, Live
  <2> QED
    BY <2>1, <2>2
<1> QED
  BY <1>1, Invariance, PTL

(* A publication that is answered and not blocked has been written to      *)
(* every other client subscribed and connected at that moment.             *)
THEOREM PublicationsReachSubscribers == Spec => PublicationReachesSubscribers
<1> DEFINE Reached ==
      \A w \in replies' \ replies : w.msg.op = "pub" /\ w.msg \notin blocked' =>
          \A c \in Conns :
              (c # w.to /\ phase[c] = "open" /\ Subscribed(c, w.msg.topic))
                  => \E u \in updates' : u.to = c /\ u.msg = w.msg
<1>1. ASSUME IInv, NEW r \in Conns, NEW q \in Seq(Msgs), Dequeue(r, q)
      PROVE  Reached
  <2>1. CASE q = <<>>
    BY <1>1, <2>1 DEF Dequeue
  <2>2. CASE q # <<>>
    <3>1. Handle(r, Head(q)) /\ Head(q) \in Msgs
      BY <1>1, <2>2 DEF Dequeue
    <3> SUFFICES ASSUME NEW w \in replies' \ replies, w.msg.op = "pub",
                        NEW c \in Conns, phase[c] = "open", Subscribed(c, w.msg.topic)
                 PROVE  \E u \in updates' : u.to = c /\ u.msg = w.msg
      OBVIOUS
    <3>2. w = [to |-> r, msg |-> Head(q)]
      BY <3>1 DEF Handle, Reply
    <3>3. w.msg = Head(q)
      BY <3>2
    <3>4. SendToAll(r, Head(q))
      BY <3>1, <3>3 DEF Handle
    <3> QED
      BY <1>1, <3>1, <3>3, <3>4, SendToAllReaches
  <2> QED
    BY <2>1, <2>2
<1>2. ASSUME IInv, NEW h \in handling, PreFanDone(h)
      PROVE  Reached
  <2>1. h.msg \in Msgs
    BY <1>2 DEF IInv, TypeOK, Written
  <2> SUFFICES ASSUME NEW w \in replies' \ replies, w.msg \notin blocked',
                      NEW c \in Conns, phase[c] = "open", Subscribed(c, w.msg.topic)
               PROVE  \E u \in updates' : u.to = c /\ u.msg = w.msg
    OBVIOUS
  <2>2. w = [to |-> h.to, msg |-> h.msg]
    BY <1>2 DEF PreFanDone, Reply
  <2>3. w.msg = h.msg
    BY <2>2
  <2>4. SendToAll(h.to, h.msg)
    BY <1>2, <2>3 DEF PreFanDone
  <2> QED
    BY <1>2, <2>1, <2>3, <2>4, SendToAllReaches
<1>3. ASSUME IInv, [Next]_vars
      PROVE  [Reached]_vars
  <2>1. ASSUME NEW c \in Conns, Data(c) PROVE Reached
    <3>1. table[NameOf[c]] = c /\ c # NoConn
      BY <1>3, <2>1, EndpointAssumption DEF Data, At, IInv, TableHoldsLive, Live
    <3>2. PICK k \in 0 .. Len(inbound[c]) : Dequeue(c, queue[c] \o SubSeq(inbound[c], 1, k))
      BY <2>1, <3>1 DEF Data
    <3> DEFINE s == queue[c]
               u == inbound[c]
               q == s \o SubSeq(u, 1, k)
    <3>3. s \in Seq(Msgs) /\ u \in Seq(Msgs) /\ k \in 0 .. Len(u) /\ Dequeue(c, q)
      BY <1>3, <3>2 DEF IInv, TypeOK
    <3> HIDE DEF s, u
    <3>4. q \in Seq(Msgs)
      BY <3>3, MovedConcat
    <3> HIDE DEF q
    <3> QED
      BY <1>1, <1>3, <3>3, <3>4
  <2>2. ASSUME NEW c \in Conns, Object(c) PROVE Reached
    <3> DEFINE q == Append(queue[c], Head(inbound[c]))
    <3>1. table[NameOf[c]] = c
      BY <1>3, <2>2 DEF Object, At, IInv, TableHoldsLive, Live
    <3>2. q \in Seq(Msgs)
      BY <1>3, <2>2 DEF IInv, TypeOK, Object
    <3>3. Dequeue(c, q)
      BY <2>2, <3>1 DEF Object
    <3> HIDE DEF q
    <3> QED
      BY <1>1, <1>3, <3>2, <3>3
  <2>3. ASSUME NEW h \in handling, AppDone(h) PROVE Reached
    <3>1. \A w \in replies' \ replies : w.msg = h.msg
      BY <2>3 DEF AppDone, Reply
    <3> QED
      BY <2>3, <3>1 DEF AppDone
  <2>4. ASSUME NEW h \in handling, PreFanDone(h) PROVE Reached
    BY <1>2, <1>3, <2>4
  <2>5. CASE UNCHANGED replies
    BY <2>5
  <2>6. CASE UNCHANGED vars
    BY <2>6 DEF vars
  <2>7. ASSUME NEW c \in Conns,
               ClientSend(c) \/ ClientLeave(c) \/ AddConnection(c) \/ RemoveConnection(c)
        PROVE  UNCHANGED replies
    BY <2>7 DEF ClientSend, ClientLeave, AddConnection, RemoveConnection
  <2> HIDE DEF Reached
  <2> QED
    BY <1>3, <2>1, <2>2, <2>3, <2>4, <2>5, <2>6, <2>7 DEF Next
<1> QED
  BY <1>3, Invariance, PTL DEF Spec, PublicationReachesSubscribers
=============================================================================
