-------------------------- MODULE RelayServer_proofs --------------------------
(***************************************************************************)
(* Proofs about RelayServer, for any clients, paths, topics and messages.  *)
(* They come in three parts.  BaseInv holds of every relay: who a message, *)
(* a note and a listener come from, and what the endpoint has been told of *)
(* the topics with listeners.  ClientInv holds of a relay whose leaving    *)
(* clients keep to one path and do not unsubscribe: the note of a client   *)
(* and its listener go together, and follow what the client was told.      *)
(* FlowInv holds of every relay again: where a message that was sent is,   *)
(* and that something there will carry it on.                              *)
(***************************************************************************)
EXTENDS RelayServer, FiniteSetTheorems, TLAPS

Requests == {"sub", "unsub", "call"}
Changes == {"sub", "unsub"}

(* What a client may send, and the listeners a path may have for a topic.  *)
SentBy(c) ==
    {m \in Msgs : /\ m.from = c
                  /\ m.op \in OpsOf[c]
                  /\ m.path \in IF m.op \in Requests THEN PathsOf[c] ELSE {NoPath}}

Listener(p, t) ==
    {m \in Msgs : m.op = "sub" /\ m.path = p /\ m.topic = t /\ m \in SentBy(m.from)}

Origins ==
    /\ \A c \in Conns : inbound[c] \in Seq(SentBy(c)) /\ queue[c] \in Seq(SentBy(c))
    /\ \A c \in Conns : current[c] \in SentBy(c) \cup {NoMsg}
    /\ \A m \in awaiting \cup replies : m \in SentBy(m.from) /\ m.op \in Requests
    /\ \A c \in Conns, p \in Paths, t \in Topics :
          handlers[c][p][t] \in {m \in Listener(p, t) : m.from = c} \cup {NoMsg}
    /\ \A p \in Paths, t \in Topics : listeners[p][t] \in Seq(Listener(p, t))

RunnerHasWork == running # NoConn => queue[running] # <<>>

(* The last message about a topic on its way to an endpoint.               *)
NoneOf(us, t) == \A i \in 1 .. Len(us) : us[i].topic # t

LastOf(us, t, i) ==
    /\ i \in 1 .. Len(us) /\ us[i].topic = t
    /\ \A j \in 1 .. Len(us) : us[j].topic = t => j <= i

(* It subscribes exactly when the topic has listeners, and so has the      *)
(* endpoint when nothing about the topic is on its way.                    *)
UpstreamAgrees ==
    \A p \in Paths, t \in Topics :
        /\ NoneOf(upstream[p], t) => (subscribed[p][t] <=> listeners[p][t] # <<>>)
        /\ \A i \in 1 .. Len(upstream[p]) : LastOf(upstream[p], t, i) =>
              (upstream[p][i].op = "sub" <=> listeners[p][t] # <<>>)

BaseInv ==
    /\ TypeOK
    /\ Origins
    /\ RunnerHasWork
    /\ UpstreamAgrees

-----------------------------------------------------------------------------
(* Lists of listeners.                                                     *)

LEMMA ConcatElements ==
    ASSUME NEW S, NEW s \in Seq(S), NEW u \in Seq(S)
    PROVE  /\ s \o u \in Seq(S) /\ Len(s \o u) = Len(s) + Len(u)
           /\ Len(s) \in Nat /\ Len(u) \in Nat
           /\ \A i \in 1 .. Len(s) + Len(u) :
                 (s \o u)[i] = IF i <= Len(s) THEN s[i] ELSE u[i - Len(s)]
  OBVIOUS

(* Moving the first k of one sequence to the end of another leaves the two *)
(* together as they were.                                                  *)
LEMMA MovedConcat ==
    ASSUME NEW S, NEW s \in Seq(S), NEW u \in Seq(S), NEW k \in 0 .. Len(u)
    PROVE  /\ s \o SubSeq(u, 1, k) \in Seq(S)
           /\ SubSeq(u, k + 1, Len(u)) \in Seq(S)
           /\ (s \o SubSeq(u, 1, k)) \o SubSeq(u, k + 1, Len(u)) = s \o u
<1> DEFINE a == SubSeq(u, 1, k)
           b == SubSeq(u, k + 1, Len(u))
<1>1. /\ a \in Seq(S) /\ Len(a) = k /\ \A i \in 1 .. k : a[i] = u[i]
      /\ b \in Seq(S) /\ Len(b) = Len(u) - k
      /\ \A i \in 1 .. Len(u) - k : b[i] = u[k + i]
  OBVIOUS
<1>2. Len(u) \in Nat /\ Len(s) \in Nat /\ k \in Nat /\ k <= Len(u)
  OBVIOUS
<1> HIDE DEF a, b
<1> DEFINE sa == s \o a
<1>3. /\ sa \in Seq(S) /\ Len(sa) = Len(s) + k
      /\ \A i \in 1 .. Len(s) + k : sa[i] = IF i <= Len(s) THEN s[i] ELSE a[i - Len(s)]
  <2>1. /\ sa \in Seq(S) /\ Len(sa) = Len(s) + Len(a)
        /\ \A i \in 1 .. Len(s) + Len(a) :
              sa[i] = IF i <= Len(s) THEN s[i] ELSE a[i - Len(s)]
    BY <1>1, ConcatElements
  <2> HIDE DEF sa
  <2> QED
    BY <1>1, <2>1
<1> HIDE DEF sa
<1>4. /\ sa \o b \in Seq(S) /\ Len(sa \o b) = Len(s) + Len(u)
      /\ \A i \in 1 .. Len(s) + Len(u) :
            (sa \o b)[i] = IF i <= Len(s) + k THEN sa[i] ELSE b[i - (Len(s) + k)]
  <2>1. sa \in Seq(S) /\ b \in Seq(S)
    BY <1>1, <1>3
  <2>2. /\ sa \o b \in Seq(S) /\ Len(sa \o b) = Len(sa) + Len(b)
        /\ \A i \in 1 .. Len(sa) + Len(b) :
              (sa \o b)[i] = IF i <= Len(sa) THEN sa[i] ELSE b[i - Len(sa)]
    BY <2>1, ConcatElements
  <2>3. Len(sa) + Len(b) = Len(s) + Len(u) /\ Len(sa) = Len(s) + k
    BY <1>1, <1>2, <1>3
  <2> QED
    BY <2>2, <2>3
<1>5. /\ s \o u \in Seq(S) /\ Len(s \o u) = Len(s) + Len(u)
      /\ \A i \in 1 .. Len(s) + Len(u) :
            (s \o u)[i] = IF i <= Len(s) THEN s[i] ELSE u[i - Len(s)]
  BY <1>2
<1>6. ASSUME NEW i \in 1 .. Len(s) + Len(u) PROVE (sa \o b)[i] = (s \o u)[i]
  <2>1. CASE i <= Len(s)
    BY <1>2, <1>3, <1>4, <1>5, <2>1
  <2>2. CASE Len(s) < i /\ i <= Len(s) + k
    <3>1. i - Len(s) \in 1 .. k /\ i \in 1 .. Len(s) + k /\ ~(i <= Len(s))
      BY <1>2, <2>2
    <3> QED
      BY <1>1, <1>3, <1>4, <1>5, <2>2, <3>1
  <2>3. CASE Len(s) + k < i
    <3>1. /\ i - (Len(s) + k) \in 1 .. Len(u) - k /\ ~(i <= Len(s) + k) /\ ~(i <= Len(s))
          /\ k + (i - (Len(s) + k)) = i - Len(s)
      BY <1>2, <2>3
    <3> QED
      BY <1>1, <1>4, <1>5, <3>1
  <2>4. i <= Len(s) \/ (Len(s) < i /\ i <= Len(s) + k) \/ Len(s) + k < i
    BY <1>2
  <2> QED
    BY <2>1, <2>2, <2>3, <2>4
<1>7. sa \o b = s \o u
  BY SMTT(30), <1>4, <1>5, <1>6
<1> QED
  BY <1>1, <1>3, <1>7 DEF sa, a, b

LEMMA PositionInRange ==
    ASSUME NEW S, NEW ls \in Seq(S), ls # <<>>, NEW l
    PROVE  Position(ls, l) \in 1 .. Len(ls)
<1>1. CASE \E i \in 1 .. Len(ls) : ls[i] = l
  <2> DEFINE T == {i \in 1 .. Len(ls) : ls[i] = l}
  <2>1. T \subseteq Nat /\ T # {}
    BY <1>1
  <2>2. PICK i \in T : \A j \in T : ~(<<j, i>> \in OpToRel(<, Nat))
    BY <2>1, NatLessThanWellFounded, WFMin
  <2>3. \A j \in T : ~(j < i)
    BY <2>1, <2>2 DEF OpToRel
  <2>4. i \in 1 .. Len(ls) /\ ls[i] = l /\ \A j \in 1 .. i - 1 : ls[j] # l
    BY <2>3
  <2> QED
    BY <1>1, <2>4 DEF Position
<1>2. CASE ~(\E i \in 1 .. Len(ls) : ls[i] = l)
  BY <1>2 DEF Position
<1> QED
  BY <1>1, <1>2

(* What splice leaves when the element at i is taken away.                 *)
LEMMA CutOut ==
    ASSUME NEW S, NEW ls \in Seq(S), NEW i \in 1 .. Len(ls)
    PROVE  LET z == SubSeq(ls, 1, i - 1) \o SubSeq(ls, i + 1, Len(ls))
           IN  /\ z \in Seq(S) /\ Len(z) = Len(ls) - 1
               /\ \A j \in 1 .. Len(ls) - 1 : z[j] = IF j < i THEN ls[j] ELSE ls[j + 1]
<1> DEFINE a == SubSeq(ls, 1, i - 1)
           b == SubSeq(ls, i + 1, Len(ls))
<1>1. Len(ls) \in Nat /\ i \in Nat /\ 1 <= i /\ i <= Len(ls)
  OBVIOUS
<1>2. /\ a \in Seq(S) /\ Len(a) = i - 1 /\ \A j \in 1 .. i - 1 : a[j] = ls[j]
  BY <1>1
<1>3. /\ b \in Seq(S) /\ Len(b) = Len(ls) - i
      /\ \A j \in 1 .. Len(ls) - i : b[j] = ls[i + j]
  BY <1>1
<1> HIDE DEF a, b
<1>4. /\ a \o b \in Seq(S) /\ Len(a \o b) = Len(ls) - 1
      /\ \A j \in 1 .. Len(ls) - 1 : (a \o b)[j] = IF j <= i - 1 THEN a[j] ELSE b[j - (i - 1)]
  <2>1. /\ a \o b \in Seq(S) /\ Len(a \o b) = Len(a) + Len(b)
        /\ \A j \in 1 .. Len(a) + Len(b) :
              (a \o b)[j] = IF j <= Len(a) THEN a[j] ELSE b[j - Len(a)]
    BY <1>2, <1>3, ConcatElements
  <2>2. Len(a) + Len(b) = Len(ls) - 1 /\ Len(a) = i - 1
    BY <1>1, <1>2, <1>3
  <2> QED
    BY <2>1, <2>2
<1>5. ASSUME NEW j \in 1 .. Len(ls) - 1
      PROVE  (a \o b)[j] = IF j < i THEN ls[j] ELSE ls[j + 1]
  <2>1. CASE j < i
    BY <1>1, <1>2, <1>4, <2>1
  <2>2. CASE ~(j < i)
    <3>1. j - (i - 1) \in 1 .. Len(ls) - i /\ ~(j <= i - 1) /\ i + (j - (i - 1)) = j + 1
      BY <1>1, <2>2
    <3> QED
      BY <1>3, <1>4, <2>2, <3>1
  <2> QED
    BY <2>1, <2>2
<1> QED
  BY <1>4, <1>5 DEF a, b

LEMMA WithoutIsSeq ==
    ASSUME NEW S, NEW ls \in Seq(S), ls # <<>>, NEW l
    PROVE  Without(ls, l) \in Seq(S)
<1> DEFINE i == Position(ls, l)
<1>1. i \in 1 .. Len(ls)
  BY PositionInRange
<1> HIDE DEF i
<1>2. SubSeq(ls, 1, i - 1) \o SubSeq(ls, i + 1, Len(ls)) \in Seq(S)
  BY <1>1, CutOut
<1> QED
  BY <1>2 DEF Without, i

(* A listener that is in the list once is the one taken away.              *)
LEMMA WithoutOne ==
    ASSUME NEW S, NEW ls \in Seq(S), NEW l, NEW i \in 1 .. Len(ls), ls[i] = l,
           \A j \in 1 .. Len(ls) : ls[j] = l => j = i
    PROVE  /\ Without(ls, l) \in Seq(S) /\ Len(Without(ls, l)) = Len(ls) - 1
           /\ \A j \in 1 .. Len(ls) - 1 :
                 Without(ls, l)[j] = IF j < i THEN ls[j] ELSE ls[j + 1]
<1>1. Position(ls, l) = i
  <2>1. i \in 1 .. Len(ls) /\ ls[i] = l /\ \A j \in 1 .. i - 1 : ls[j] # l
    OBVIOUS
  <2> QED
    BY <2>1 DEF Position
<1>2. Without(ls, l) = SubSeq(ls, 1, i - 1) \o SubSeq(ls, i + 1, Len(ls))
  BY <1>1 DEF Without
<1> DEFINE z == SubSeq(ls, 1, i - 1) \o SubSeq(ls, i + 1, Len(ls))
<1>3. /\ z \in Seq(S) /\ Len(z) = Len(ls) - 1
      /\ \A j \in 1 .. Len(ls) - 1 : z[j] = IF j < i THEN ls[j] ELSE ls[j + 1]
  BY ONLY ZenonT(40), ls \in Seq(S), i \in 1 .. Len(ls), CutOut
<1>4. Without(ls, l) = z
  BY <1>2
<1> HIDE DEF z
<1> QED
  BY <1>3, <1>4

-----------------------------------------------------------------------------
(* Messages on their way to an endpoint: one joins them, some join them,   *)
(* the first is taken.                                                     *)

LEMMA OneJoins ==
    ASSUME NEW S, NEW us \in Seq(S), NEW u \in S, NEW vs \in Seq(S), Len(vs) = Len(us) + 1,
           \A i \in 1 .. Len(us) : vs[i] = us[i], vs[Len(us) + 1] = u, NEW t
    PROVE  /\ NoneOf(vs, t) => NoneOf(us, t) /\ u.topic # t
           /\ u.topic # t =>
                 \A i \in 1 .. Len(vs) : LastOf(vs, t, i) => LastOf(us, t, i)
<1>1. Len(us) \in Nat
  OBVIOUS
<1>2. \A i \in 1 .. Len(us) : i \in 1 .. Len(vs) /\ vs[i] = us[i]
  BY <1>1
<1>3. Len(us) + 1 \in 1 .. Len(vs)
  BY <1>1
<1>4. \A i \in 1 .. Len(vs) : i \in 1 .. Len(us) \/ i = Len(us) + 1
  BY <1>1
<1>5. NoneOf(vs, t) => NoneOf(us, t) /\ u.topic # t
  BY <1>2, <1>3 DEF NoneOf
<1>6. ASSUME u.topic # t, NEW i \in 1 .. Len(vs), LastOf(vs, t, i) PROVE LastOf(us, t, i)
  <2>1. i \in 1 .. Len(us)
    BY <1>4, <1>6 DEF LastOf
  <2> QED
    BY <1>2, <1>6, <2>1 DEF LastOf
<1> QED
  BY <1>5, <1>6

LEMMA OneIsLast ==
    ASSUME NEW S, NEW vs \in Seq(S), NEW n \in Nat, Len(vs) = n + 1,
           NEW i \in 1 .. Len(vs), LastOf(vs, vs[n + 1].topic, i)
    PROVE  i = n + 1
<1>1. n + 1 \in 1 .. Len(vs)
  OBVIOUS
<1>2. n + 1 <= i
  BY <1>1 DEF LastOf
<1> QED
  BY <1>2

LEMMA SomeJoin ==
    ASSUME NEW S, NEW us \in Seq(S), NEW ws \in Seq(S), NEW t
    PROVE  /\ NoneOf(us \o ws, t) => NoneOf(us, t) /\ NoneOf(ws, t)
           /\ NoneOf(ws, t) => \A i \in 1 .. Len(us \o ws) : LastOf(us \o ws, t, i) =>
                                  LastOf(us, t, i) /\ (us \o ws)[i] = us[i]
           /\ ~NoneOf(ws, t) => \A i \in 1 .. Len(us \o ws) : LastOf(us \o ws, t, i) =>
                                  \E j \in 1 .. Len(ws) : (us \o ws)[i] = ws[j]
<1> DEFINE vs == us \o ws
<1>1. /\ Len(us) \in Nat /\ Len(ws) \in Nat /\ Len(vs) = Len(us) + Len(ws)
      /\ \A i \in 1 .. Len(us) + Len(ws) :
            vs[i] = IF i <= Len(us) THEN us[i] ELSE ws[i - Len(us)]
  OBVIOUS
<1> HIDE DEF vs
<1>2. \A i \in 1 .. Len(us) : i \in 1 .. Len(vs) /\ vs[i] = us[i]
  BY <1>1
<1>3. \A j \in 1 .. Len(ws) : Len(us) + j \in 1 .. Len(vs) /\ vs[Len(us) + j] = ws[j]
  <2> SUFFICES ASSUME NEW j \in 1 .. Len(ws)
               PROVE  Len(us) + j \in 1 .. Len(vs) /\ vs[Len(us) + j] = ws[j]
    OBVIOUS
  <2>1. /\ Len(us) + j \in 1 .. Len(us) + Len(ws) /\ ~(Len(us) + j <= Len(us))
        /\ (Len(us) + j) - Len(us) = j
    BY <1>1
  <2> QED
    BY <1>1, <2>1
<1>4. \A i \in 1 .. Len(vs) : i \in 1 .. Len(us) \/ \E j \in 1 .. Len(ws) : i = Len(us) + j
  <2> SUFFICES ASSUME NEW i \in 1 .. Len(vs), i \notin 1 .. Len(us)
               PROVE  \E j \in 1 .. Len(ws) : i = Len(us) + j
    OBVIOUS
  <2>1. i - Len(us) \in 1 .. Len(ws) /\ i = Len(us) + (i - Len(us))
    BY <1>1
  <2> QED
    BY <2>1
<1>5. NoneOf(vs, t) => NoneOf(us, t) /\ NoneOf(ws, t)
  BY <1>2, <1>3 DEF NoneOf
<1>6. ASSUME NoneOf(ws, t), NEW i, LastOf(vs, t, i) PROVE LastOf(us, t, i) /\ vs[i] = us[i]
  <2>1. i \in 1 .. Len(us)
    BY <1>3, <1>4, <1>6 DEF LastOf, NoneOf
  <2> QED
    BY <1>2, <1>6, <2>1 DEF LastOf
<1>7. ASSUME ~NoneOf(ws, t), NEW i, LastOf(vs, t, i)
      PROVE  \E j \in 1 .. Len(ws) : vs[i] = ws[j]
  <2>1. PICK k \in 1 .. Len(ws) : ws[k].topic = t
    BY <1>7 DEF NoneOf
  <2>2. Len(us) + k <= i /\ i \in 1 .. Len(vs)
    BY <1>3, <1>7, <2>1 DEF LastOf
  <2>3. i \notin 1 .. Len(us)
    BY <1>1, <2>2
  <2> QED
    BY <1>3, <1>4, <2>2, <2>3
<1> QED
  BY <1>5, <1>6, <1>7 DEF vs

LEMMA FirstIsTaken ==
    ASSUME NEW S, NEW us \in Seq(S), us # <<>>, NEW t
    PROVE  /\ Head(us).topic # t /\ NoneOf(Tail(us), t) => NoneOf(us, t)
           /\ Head(us).topic = t /\ NoneOf(Tail(us), t) => LastOf(us, t, 1)
           /\ us[1] = Head(us) /\ 1 \in 1 .. Len(us)
           /\ \A i \in 1 .. Len(Tail(us)) : LastOf(Tail(us), t, i) =>
                 /\ i + 1 \in 1 .. Len(us) /\ LastOf(us, t, i + 1)
                 /\ Tail(us)[i] = us[i + 1]
<1> DEFINE vs == Tail(us)
<1>1. /\ Len(us) \in Nat \ {0} /\ Head(us) = us[1] /\ Len(vs) = Len(us) - 1
      /\ \A i \in 1 .. Len(us) - 1 : vs[i] = us[i + 1]
  OBVIOUS
<1> HIDE DEF vs
<1>2. \A i \in 1 .. Len(vs) : i + 1 \in 1 .. Len(us) /\ vs[i] = us[i + 1] /\ i \in Nat
  BY <1>1
<1>3. \A i \in 1 .. Len(us) : i = 1 \/ \E j \in 1 .. Len(vs) : i = j + 1
  <2> SUFFICES ASSUME NEW i \in 1 .. Len(us), i # 1 PROVE \E j \in 1 .. Len(vs) : i = j + 1
    OBVIOUS
  <2>1. i - 1 \in 1 .. Len(vs) /\ i = (i - 1) + 1
    BY <1>1
  <2> QED
    BY <2>1
<1>4. 1 \in 1 .. Len(us)
  BY <1>1
<1>5. us[1].topic # t /\ NoneOf(vs, t) => NoneOf(us, t)
  BY <1>2, <1>3 DEF NoneOf
<1>6. us[1].topic = t /\ NoneOf(vs, t) => LastOf(us, t, 1)
  <2> SUFFICES ASSUME us[1].topic = t, NoneOf(vs, t), NEW j \in 1 .. Len(us), us[j].topic = t
               PROVE  j <= 1
    BY <1>4 DEF LastOf
  <2>1. j = 1
    BY <1>2, <1>3 DEF NoneOf
  <2> QED
    BY <2>1
<1>7. ASSUME NEW i, LastOf(vs, t, i)
      PROVE  i + 1 \in 1 .. Len(us) /\ LastOf(us, t, i + 1) /\ vs[i] = us[i + 1]
  <2>1. /\ i \in 1 .. Len(vs) /\ i + 1 \in 1 .. Len(us) /\ vs[i] = us[i + 1] /\ us[i + 1].topic = t
    BY <1>2, <1>7 DEF LastOf
  <2>2. ASSUME NEW j \in 1 .. Len(us), us[j].topic = t PROVE j <= i + 1
    <3>1. CASE j = 1
      BY <2>1, <3>1
    <3>2. CASE \E k \in 1 .. Len(vs) : j = k + 1
      <4>1. PICK k \in 1 .. Len(vs) : j = k + 1
        BY <3>2
      <4>2. k <= i
        BY <1>2, <1>7, <2>2, <4>1 DEF LastOf
      <4> QED
        BY <2>1, <4>1, <4>2
    <3> QED
      BY <1>3, <3>1, <3>2
  <2> QED
    BY <2>1, <2>2 DEF LastOf
<1> QED
  BY <1>1, <1>4, <1>5, <1>6, <1>7 DEF vs

-----------------------------------------------------------------------------
(* The parts of a message, and tables changed in one place.                *)

LEMMA NumbersArePositive == Numbers \subseteq Nat \ {0}
<1> SUFFICES ASSUME NEW c \in Conns, NEW n \in 1 .. SendsOf[c] PROVE n \in Nat \ {0}
  BY DEF Numbers
<1>1. SendsOf[c] \in Nat
  BY RelayAssumption
<1> QED
  BY <1>1

LEMMA MessageParts ==
    ASSUME NEW c \in Conns, NEW m \in SentBy(c)
    PROVE  /\ m \in Msgs /\ m # NoMsg
           /\ m.op \in Ops /\ m.op \in OpsOf[c] /\ m.topic \in Topics
           /\ m.from = c /\ m.n \in Nat
           /\ m \in SentBy(m.from)
           /\ m.op \in Requests => m.path \in Paths /\ m.path \in PathsOf[c]
  BY NumbersArePositive, RelayAssumption, NoMsgAssumption DEF SentBy, Msgs

LEMMA HandlersSet ==
    ASSUME TypeOK, NEW c \in Conns, NEW p \in Paths, NEW t \in Topics,
           NEW v \in Msgs \cup {NoMsg},
           handlers' = [handlers EXCEPT ![c][p][t] = v]
    PROVE  /\ handlers' \in [Conns -> [Paths -> [Topics -> Msgs \cup {NoMsg}]]]
           /\ \A d \in Conns, q \in Paths, s \in Topics :
                 handlers'[d][q][s] = IF d = c /\ q = p /\ s = t THEN v ELSE handlers[d][q][s]
  BY SMTT(30) DEF TypeOK

LEMMA ListenersSet ==
    ASSUME TypeOK, NEW p \in Paths, NEW t \in Topics, NEW v \in Seq(Msgs),
           listeners' = [listeners EXCEPT ![p][t] = v]
    PROVE  /\ listeners' \in [Paths -> [Topics -> Seq(Msgs)]]
           /\ \A q \in Paths, s \in Topics :
                 listeners'[q][s] = IF q = p /\ s = t THEN v ELSE listeners[q][s]
  BY DEF TypeOK

LEMMA ListenersAreMsgs ==
    ASSUME NEW p, NEW t
    PROVE  Listener(p, t) \subseteq Msgs /\ Seq(Listener(p, t)) \subseteq Seq(Msgs)
  BY DEF Listener

-----------------------------------------------------------------------------
(* The first layer.                                                        *)

LEMMA InitBase == Init => BaseInv
<1> SUFFICES ASSUME Init PROVE BaseInv
  OBVIOUS
<1>1. TypeOK
  <2>1. handlers \in [Conns -> [Paths -> [Topics -> Msgs \cup {NoMsg}]]]
    BY DEF Init, EmptyTable
  <2>2. listeners \in [Paths -> [Topics -> Seq(Msgs)]]
    BY DEF Init
  <2>3. subscribed \in [Paths -> [Topics -> BOOLEAN]]
    BY DEF Init
  <2> QED
    BY <2>1, <2>2, <2>3 DEF Init, TypeOK
<1>2. Origins
  BY DEF Init, Origins, EmptyTable
<1>3. RunnerHasWork
  BY DEF Init, RunnerHasWork
<1>4. UpstreamAgrees
  <2> SUFFICES ASSUME NEW p \in Paths, NEW t \in Topics
               PROVE  /\ NoneOf(upstream[p], t) => (subscribed[p][t] <=> listeners[p][t] # <<>>)
                      /\ \A i \in 1 .. Len(upstream[p]) : LastOf(upstream[p], t, i) =>
                            (upstream[p][i].op = "sub" <=> listeners[p][t] # <<>>)
    BY DEF UpstreamAgrees
  <2>1. upstream[p] = <<>> /\ ~subscribed[p][t] /\ listeners[p][t] = <<>>
    BY DEF Init
  <2>2. 1 .. Len(<<>>) = {}
    OBVIOUS
  <2> QED
    BY <2>1, <2>2
<1> QED
  BY <1>1, <1>2, <1>3, <1>4 DEF BaseInv

LEMMA ClientSendBase ==
    ASSUME BaseInv, NEW c \in Conns, ClientSend(c)
    PROVE  BaseInv'
<1> USE DEF BaseInv
<1>1. PICK op \in OpsOf[c], p \in PathsOf[c], t \in Topics :
         inbound' = [inbound EXCEPT ![c] = Append(@,
             [op |-> op, topic |-> t, from |-> c, n |-> sent[c] + 1,
              path |-> IF op \in {"bad", "pathless"} THEN NoPath ELSE p])]
  BY DEF ClientSend
<1> DEFINE m == [op |-> op, topic |-> t, from |-> c, n |-> sent[c] + 1,
                 path |-> IF op \in {"bad", "pathless"} THEN NoPath ELSE p]
<1>2. /\ sent[c] < SendsOf[c] /\ sent' = [sent EXCEPT ![c] = @ + 1]
      /\ UNCHANGED <<phase, queue, current, running, awaiting, handlers, listeners, upstream,
                     subscribed, replies>>
  BY DEF ClientSend
<1>3. sent[c] \in Nat /\ SendsOf[c] \in Nat
  BY RelayAssumption DEF TypeOK
<1>4. m \in SentBy(c) /\ m \in Msgs
  <2>1. sent[c] + 1 \in Numbers
    <3>1. sent[c] + 1 \in 1 .. SendsOf[c]
      BY <1>2, <1>3
    <3> QED
      BY <3>1 DEF Numbers
  <2>2. op \in Ops /\ p \in Paths
    BY RelayAssumption
  <2>3. (op \in Requests) <=> ~(op \in {"bad", "pathless"})
    BY <2>2 DEF Ops, Requests
  <2> QED
    BY <2>1, <2>2, <2>3 DEF SentBy, Msgs
<1>5. inbound' = [inbound EXCEPT ![c] = Append(@, m)]
  BY <1>1
<1> HIDE DEF m
<1>6. TypeOK'
  <2>1. inbound' \in [Conns -> Seq(Msgs)]
    BY <1>4, <1>5 DEF TypeOK
  <2>2. sent' \in [Conns -> Nat]
    BY <1>2, <1>3 DEF TypeOK
  <2> QED
    BY <1>2, <2>1, <2>2 DEF TypeOK
<1>7. Origins'
  <2>1. \A d \in Conns : inbound'[d] = IF d = c THEN Append(inbound[d], m) ELSE inbound[d]
    BY <1>5 DEF TypeOK
  <2>2. inbound[c] \in Seq(SentBy(c))
    BY DEF Origins
  <2>3. Append(inbound[c], m) \in Seq(SentBy(c))
    BY <1>4, <2>2
  <2>4. \A d \in Conns : inbound'[d] \in Seq(SentBy(d))
    BY <2>1, <2>3 DEF Origins
  <2> QED
    BY <1>2, <2>4 DEF Origins
<1> QED
  BY <1>2, <1>6, <1>7 DEF RunnerHasWork, UpstreamAgrees

LEMMA ClientLeaveBase ==
    ASSUME BaseInv, NEW c \in Conns, ClientLeave(c)
    PROVE  BaseInv'
<1> USE DEF BaseInv
<1>1. /\ phase' = [phase EXCEPT ![c] = "closing"] /\ inbound' = [inbound EXCEPT ![c] = <<>>]
      /\ UNCHANGED <<sent, queue, current, running, awaiting, handlers, listeners, upstream,
                     subscribed, replies>>
  BY DEF ClientLeave
<1>2. TypeOK'
  BY <1>1 DEF TypeOK
<1>3. Origins'
  BY <1>1 DEF TypeOK, Origins
<1> QED
  BY <1>1, <1>2, <1>3 DEF RunnerHasWork, UpstreamAgrees

LEMMA AddConnectionBase ==
    ASSUME BaseInv, NEW c \in Conns, AddConnection(c)
    PROVE  BaseInv'
<1> USE DEF BaseInv
<1>1. /\ phase' = [phase EXCEPT ![c] = "open"]
      /\ UNCHANGED <<sent, inbound, queue, current, running, awaiting, handlers, listeners,
                     upstream, subscribed, replies>>
  BY DEF AddConnection
<1>2. TypeOK'
  BY <1>1 DEF TypeOK
<1>3. Origins'
  BY <1>1 DEF Origins
<1> QED
  BY <1>1, <1>2, <1>3 DEF RunnerHasWork, UpstreamAgrees

(* What data_handler does to the queue, whose messages it leaves as they   *)
(* are.                                                                    *)
LEMMA DataParts ==
    ASSUME BaseInv, NEW c \in Conns, Data(c)
    PROVE  \E q, rest \in Seq(SentBy(c)) :
              /\ q \o rest = queue[c] \o inbound[c]
              /\ inbound' = [inbound EXCEPT ![c] = rest]
              /\ queue' = [queue EXCEPT ![c] = q]
              /\ running' = IF q = <<>> THEN NoConn ELSE c
<1>1. PICK k \in 0 .. Len(inbound[c]) :
         /\ inbound' = [inbound EXCEPT ![c] = SubSeq(@, k + 1, Len(@))]
         /\ queue' = [queue EXCEPT ![c] = queue[c] \o SubSeq(inbound[c], 1, k)]
         /\ Continue(c, queue[c] \o SubSeq(inbound[c], 1, k))
  BY DEF Data
<1> DEFINE s == queue[c]
           u == inbound[c]
           q == s \o SubSeq(u, 1, k)
           rest == SubSeq(u, k + 1, Len(u))
<1>2. s \in Seq(SentBy(c)) /\ u \in Seq(SentBy(c)) /\ k \in 0 .. Len(u)
  BY DEF BaseInv, Origins
<1>3. /\ inbound' = [inbound EXCEPT ![c] = rest] /\ queue' = [queue EXCEPT ![c] = q]
      /\ running' = IF q = <<>> THEN NoConn ELSE c
  BY <1>1 DEF Continue
<1>4. s \o u = queue[c] \o inbound[c]
  OBVIOUS
<1> HIDE DEF s, u
<1>5. q \in Seq(SentBy(c)) /\ rest \in Seq(SentBy(c)) /\ q \o rest = s \o u
  BY ONLY ZenonT(40), <1>2, MovedConcat
<1> HIDE DEF q, rest
<1> QED
  BY <1>3, <1>4, <1>5

LEMMA DataBase ==
    ASSUME BaseInv, NEW c \in Conns, Data(c)
    PROVE  BaseInv'
<1> USE DEF BaseInv
<1>1. PICK q, rest \in Seq(SentBy(c)) :
         /\ inbound' = [inbound EXCEPT ![c] = rest]
         /\ queue' = [queue EXCEPT ![c] = q]
         /\ running' = IF q = <<>> THEN NoConn ELSE c
  BY DataParts
<1>2. UNCHANGED <<phase, sent, current, awaiting, handlers, listeners, upstream, subscribed,
                  replies>>
  BY DEF Data
<1>3. q \in Seq(Msgs) /\ rest \in Seq(Msgs)
  BY DEF SentBy
<1>4. TypeOK'
  BY <1>1, <1>2, <1>3 DEF TypeOK
<1>5. Origins'
  <2>1. \A d \in Conns : /\ inbound'[d] = IF d = c THEN rest ELSE inbound[d]
                         /\ queue'[d] = IF d = c THEN q ELSE queue[d]
    BY <1>1 DEF TypeOK
  <2>2. \A d \in Conns : inbound'[d] \in Seq(SentBy(d)) /\ queue'[d] \in Seq(SentBy(d))
    BY <2>1 DEF Origins
  <2> QED
    BY <1>2, <2>2 DEF Origins
<1>6. RunnerHasWork'
  BY <1>1 DEF TypeOK, RunnerHasWork
<1> QED
  BY <1>2, <1>4, <1>5, <1>6 DEF UpstreamAgrees

(* UpstreamAgrees through a step that changes listeners: either no topic   *)
(* gets its first or loses its last, or one does and is sent upstream.     *)
LEMMA AgreesKept ==
    ASSUME UpstreamAgrees, UNCHANGED <<upstream, subscribed>>,
           \A q \in Paths, s \in Topics : listeners'[q][s] # <<>> <=> listeners[q][s] # <<>>
    PROVE  UpstreamAgrees'
  BY DEF UpstreamAgrees

LEMMA AgreesAppended ==
    ASSUME TypeOK, UpstreamAgrees, NEW p \in Paths, NEW t \in Topics, NEW op \in Changes,
           NEW w \in Msgs,
           upstream' = [upstream EXCEPT ![p] = Append(@, [op |-> op, topic |-> t, waiter |-> w])],
           subscribed' = subscribed,
           \A q \in Paths, s \in Topics : ~(q = p /\ s = t) =>
               (listeners'[q][s] # <<>> <=> listeners[q][s] # <<>>),
           op = "sub" <=> listeners'[p][t] # <<>>
    PROVE  upstream' \in [Paths -> Seq(UpMsgs)] /\ UpstreamAgrees'
<1> DEFINE u == [op |-> op, topic |-> t, waiter |-> w]
           us == upstream[p]
           vs == upstream'[p]
<1>1. u \in UpMsgs /\ u.topic = t /\ u.op = op
  BY DEF UpMsgs, Changes
<1>2. upstream' \in [Paths -> Seq(UpMsgs)] /\ \A q \in Paths : q # p => upstream'[q] = upstream[q]
  BY <1>1 DEF TypeOK
<1>3. /\ us \in Seq(UpMsgs) /\ vs \in Seq(UpMsgs) /\ Len(vs) = Len(us) + 1 /\ vs[Len(us) + 1] = u
      /\ \A i \in 1 .. Len(us) : vs[i] = us[i]
  <2>1. us \in Seq(UpMsgs) /\ vs = Append(us, u)
    BY DEF TypeOK
  <2> HIDE DEF us, vs, u
  <2> QED
    BY <1>1, <2>1
<1> SUFFICES ASSUME NEW q \in Paths, NEW s \in Topics
             PROVE  /\ NoneOf(upstream'[q], s) => (subscribed'[q][s] <=> listeners'[q][s] # <<>>)
                    /\ \A i \in 1 .. Len(upstream'[q]) : LastOf(upstream'[q], s, i) =>
                          (upstream'[q][i].op = "sub" <=> listeners'[q][s] # <<>>)
  BY <1>2 DEF UpstreamAgrees
<1>4. /\ NoneOf(upstream[q], s) => (subscribed[q][s] <=> listeners[q][s] # <<>>)
      /\ \A i : LastOf(upstream[q], s, i) =>
            (upstream[q][i].op = "sub" <=> listeners[q][s] # <<>>)
  BY DEF UpstreamAgrees, LastOf
<1>5. CASE q # p
  BY <1>2, <1>4, <1>5
<1>6. CASE q = p
  <2> HIDE DEF us, vs, u
  <2>1. /\ NoneOf(vs, s) => NoneOf(us, s) /\ u.topic # s
        /\ u.topic # s =>
              \A i \in 1 .. Len(vs) : LastOf(vs, s, i) => LastOf(us, s, i) /\ vs[i] = us[i]
        /\ u.topic = s => \A i \in 1 .. Len(vs) : LastOf(vs, s, i) => vs[i] = u
    <3>1. /\ us \in Seq(UpMsgs) /\ vs \in Seq(UpMsgs) /\ u \in UpMsgs /\ Len(vs) = Len(us) + 1
          /\ \A i \in 1 .. Len(us) : vs[i] = us[i]
          /\ vs[Len(us) + 1] = u
      BY <1>1, <1>3
    <3>2. NoneOf(vs, s) => NoneOf(us, s) /\ u.topic # s
      BY <3>1, OneJoins
    <3>3. u.topic # s => \A i \in 1 .. Len(vs) : LastOf(vs, s, i) => LastOf(us, s, i)
      BY <3>1, OneJoins
    <3>4. ASSUME u.topic = s, NEW i \in 1 .. Len(vs), LastOf(vs, s, i) PROVE i = Len(us) + 1
      <4> DEFINE n == Len(us)
      <4>1. n \in Nat /\ Len(vs) = n + 1 /\ vs[n + 1].topic = s
        BY <3>1, <3>4
      <4> HIDE DEF n
      <4>2. LastOf(vs, vs[n + 1].topic, i)
        BY <3>4, <4>1
      <4> QED
        BY <3>1, <4>1, <4>2, OneIsLast DEF n
    <3>5. \A i : LastOf(us, s, i) => i \in 1 .. Len(us)
      BY DEF LastOf
    <3> QED
      BY <3>1, <3>2, <3>3, <3>4, <3>5
  <2>2. CASE s = t
    BY <1>1, <1>6, <2>1, <2>2 DEF vs
  <2>3. CASE s # t
    BY <1>1, <1>4, <1>6, <2>1, <2>3 DEF us, vs
  <2> QED
    BY <2>2, <2>3
<1> QED
  BY <1>5, <1>6

(* What one turn of the loop does, whatever it takes.                      *)
LEMMA ForwardParts ==
    ASSUME BaseInv, NEW c \in Conns, Forward(c)
    PROVE  LET m == Head(queue[c])
               q == Tail(queue[c])
           IN  /\ queue[c] \in Seq(SentBy(c)) /\ queue[c] # <<>>
               /\ m \in SentBy(c) /\ q \in Seq(SentBy(c))
               /\ running = c
               /\ queue' = [queue EXCEPT ![c] = q] /\ current' = [current EXCEPT ![c] = m]
               /\ UNCHANGED <<phase, sent, inbound, subscribed>>
               /\ running' = NoConn \/ (running' = c /\ q # <<>>)
               /\ \/ m.op \notin Requests /\ UNCHANGED <<awaiting, handlers, listeners, upstream, replies>>
                  \/ /\ m.op = "call" /\ awaiting' = awaiting \cup {m}
                     /\ running' = NoConn /\ UNCHANGED <<handlers, listeners, upstream, replies>>
                  \/ m.op = "sub" /\ Sub(c, m, q)
                  \/ m.op = "unsub" /\ Unsub(c, m, q)
<1> DEFINE m == Head(queue[c])
           q == Tail(queue[c])
<1>1. queue[c] \in Seq(SentBy(c)) /\ running = c /\ queue[c] # <<>>
  BY RelayAssumption DEF BaseInv, Origins, Forward, RunnerHasWork
<1>2. m \in SentBy(c) /\ q \in Seq(SentBy(c))
  BY <1>1
<1>3. /\ queue' = [queue EXCEPT ![c] = q] /\ current' = [current EXCEPT ![c] = m]
      /\ UNCHANGED <<phase, sent, inbound, subscribed>>
      /\ \/ /\ m.op = "pathless" /\ Continue(c, q)
            /\ UNCHANGED <<awaiting, handlers, listeners, upstream, replies>>
         \/ /\ m.op = "bad" /\ running' = NoConn
            /\ UNCHANGED <<awaiting, handlers, listeners, upstream, replies>>
         \/ m.op = "call" /\ Await(m) /\ UNCHANGED <<handlers, listeners, upstream>>
         \/ m.op = "sub" /\ Sub(c, m, q)
         \/ m.op = "unsub" /\ Unsub(c, m, q)
  BY DEF Forward
<1> HIDE DEF m, q
<1>4. running' = NoConn \/ (running' = c /\ q # <<>>)
  BY <1>3 DEF Continue, Await, Sub, Unsub
<1>5. \/ m.op \notin Requests /\ UNCHANGED <<awaiting, handlers, listeners, upstream, replies>>
      \/ /\ m.op = "call" /\ awaiting' = awaiting \cup {m}
         /\ running' = NoConn /\ UNCHANGED <<handlers, listeners, upstream, replies>>
      \/ m.op = "sub" /\ Sub(c, m, q)
      \/ m.op = "unsub" /\ Unsub(c, m, q)
  BY <1>3 DEF Await, Requests
<1> QED
  BY <1>1, <1>2, <1>3, <1>4, <1>5 DEF m, q

(* The tables after a sub: the note is made and the listener added; either *)
(* the activation waits, or the answer is written.                         *)
LEMMA SubParts ==
    ASSUME BaseInv, NEW c \in Conns, NEW m \in SentBy(c), m.op = "sub",
           NEW q, Sub(c, m, q)
    PROVE  LET p == m.path
               t == m.topic
           IN  /\ p \in Paths /\ t \in Topics
               /\ handlers' \in [Conns -> [Paths -> [Topics -> Msgs \cup {NoMsg}]]]
               /\ \A d \in Conns, o \in Paths, s \in Topics :
                     handlers'[d][o][s] = IF d = c /\ o = p /\ s = t THEN m ELSE handlers[d][o][s]
               /\ listeners' \in [Paths -> [Topics -> Seq(Msgs)]]
               /\ \A o \in Paths, s \in Topics :
                     listeners'[o][s] = IF o = p /\ s = t THEN Append(listeners[o][s], m)
                                        ELSE listeners[o][s]
               /\ \/ /\ listeners[p][t] = <<>>
                     /\ upstream' = [upstream EXCEPT ![p] =
                           Append(@, [op |-> "sub", topic |-> t, waiter |-> m])]
                     /\ awaiting' = awaiting \cup {m} /\ replies' = replies
                  \/ /\ listeners[p][t] # <<>>
                     /\ UNCHANGED <<upstream, awaiting>>
                     /\ replies' = IF phase[c] = "open" THEN replies \cup {m} ELSE replies
<1> DEFINE p == m.path
           t == m.topic
<1>1. p \in Paths /\ t \in Topics /\ m \in Msgs /\ m.from = c
  BY MessageParts DEF Requests
<1>2. /\ handlers' = [handlers EXCEPT ![c][p][t] = m]
      /\ listeners' = [listeners EXCEPT ![p][t] = Append(@, m)]
  BY DEF Sub
<1>3. listeners[p][t] \in Seq(Msgs) /\ Append(listeners[p][t], m) \in Seq(Msgs)
  BY <1>1 DEF BaseInv, TypeOK
<1>4. listeners' = [listeners EXCEPT ![p][t] = Append(listeners[p][t], m)]
  BY <1>1, <1>2 DEF BaseInv, TypeOK
<1>5. \/ /\ listeners[p][t] = <<>>
         /\ upstream' = [upstream EXCEPT ![p] =
               Append(@, [op |-> "sub", topic |-> t, waiter |-> m])]
         /\ awaiting' = awaiting \cup {m} /\ replies' = replies
      \/ /\ listeners[p][t] # <<>>
         /\ UNCHANGED <<upstream, awaiting>>
         /\ replies' = IF phase[c] = "open" THEN replies \cup {m} ELSE replies
  BY <1>1 DEF Sub, Await, Write
<1> HIDE DEF p, t
<1>6. TypeOK
  BY DEF BaseInv
<1>7. /\ handlers' \in [Conns -> [Paths -> [Topics -> Msgs \cup {NoMsg}]]]
      /\ \A d \in Conns, o \in Paths, s \in Topics :
            handlers'[d][o][s] = IF d = c /\ o = p /\ s = t THEN m ELSE handlers[d][o][s]
  BY SMTT(30), <1>1, <1>2, <1>6 DEF TypeOK
<1> DEFINE v == Append(listeners[p][t], m)
<1>8. listeners' = [listeners EXCEPT ![p][t] = v] /\ v \in Seq(Msgs)
  BY <1>3, <1>4
<1> HIDE DEF v
<1>9. /\ listeners' \in [Paths -> [Topics -> Seq(Msgs)]]
      /\ \A o \in Paths, s \in Topics :
            listeners'[o][s] = IF o = p /\ s = t THEN v ELSE listeners[o][s]
  BY ONLY ZenonT(40), <1>1, <1>6, <1>8, ListenersSet
<1> QED
  BY <1>1, <1>5, <1>7, <1>9 DEF p, t, v

LEMMA UnsubParts ==
    ASSUME BaseInv, NEW c \in Conns, NEW m \in SentBy(c), m.op = "unsub",
           NEW q, Unsub(c, m, q)
    PROVE  LET p == m.path
               t == m.topic
               ls == listeners[p][t]
               rest == Without(ls, handlers[c][p][t])
           IN  /\ p \in Paths /\ t \in Topics
               /\ listeners' \in [Paths -> [Topics -> Seq(Msgs)]]
               /\ \A o \in Paths, s \in Topics :
                     listeners'[o][s] = IF o = p /\ s = t THEN IF ls = <<>> THEN ls ELSE rest
                                        ELSE listeners[o][s]
               /\ ls # <<>> => rest \in Seq(Listener(p, t))
               /\ \/ /\ ls # <<>> /\ rest = <<>>
                     /\ upstream' = [upstream EXCEPT ![p] =
                           Append(@, [op |-> "unsub", topic |-> t, waiter |-> m])]
                     /\ awaiting' = awaiting \cup {m} /\ UNCHANGED <<handlers, replies>>
                  \/ /\ ~(ls # <<>> /\ rest = <<>>)
                     /\ UNCHANGED <<upstream, awaiting>>
                     /\ handlers' \in [Conns -> [Paths -> [Topics -> Msgs \cup {NoMsg}]]]
                     /\ \A d \in Conns, o \in Paths, s \in Topics :
                           handlers'[d][o][s] = IF d = c /\ o = p /\ s = t THEN NoMsg
                                                ELSE handlers[d][o][s]
                     /\ replies' = IF phase[c] = "open" THEN replies \cup {m} ELSE replies
<1> DEFINE p == m.path
           t == m.topic
           ls == listeners[p][t]
           rest == Without(ls, handlers[c][p][t])
           v == IF ls = <<>> THEN ls ELSE rest
<1>1. p \in Paths /\ t \in Topics /\ m \in Msgs /\ m.from = c
  BY MessageParts DEF Requests
<1>2. listeners' = [listeners EXCEPT ![p][t] = IF ls = <<>> THEN @ ELSE rest]
  BY DEF Unsub
<1>3. ls \in Seq(Listener(p, t)) /\ TypeOK
  BY <1>1 DEF BaseInv, Origins
<1>4. ls # <<>> => rest \in Seq(Listener(p, t))
  <2> HIDE DEF ls
  <2> QED
    BY <1>3, WithoutIsSeq
<1>5. listeners' = [listeners EXCEPT ![p][t] = v] /\ v \in Seq(Msgs)
  <2>1. v \in Seq(Msgs)
    BY <1>3, <1>4, ListenersAreMsgs
  <2> QED
    BY <1>1, <1>2, <1>3, <2>1 DEF TypeOK
<1>6. \/ /\ ls # <<>> /\ rest = <<>>
         /\ upstream' = [upstream EXCEPT ![p] =
               Append(@, [op |-> "unsub", topic |-> t, waiter |-> m])]
         /\ awaiting' = awaiting \cup {m} /\ UNCHANGED <<handlers, replies>>
      \/ /\ ~(ls # <<>> /\ rest = <<>>)
         /\ UNCHANGED <<upstream, awaiting>>
         /\ handlers' = [handlers EXCEPT ![c][p][t] = NoMsg]
         /\ replies' = IF phase[c] = "open" THEN replies \cup {m} ELSE replies
  BY <1>1 DEF Unsub, Await, Write
<1> HIDE DEF p, t, ls, rest, v
<1>7. /\ listeners' \in [Paths -> [Topics -> Seq(Msgs)]]
      /\ \A o \in Paths, s \in Topics :
            listeners'[o][s] = IF o = p /\ s = t THEN v ELSE listeners[o][s]
  BY ONLY ZenonT(40), <1>1, <1>3, <1>5, ListenersSet
<1>8. handlers' = [handlers EXCEPT ![c][p][t] = NoMsg] =>
         /\ handlers' \in [Conns -> [Paths -> [Topics -> Msgs \cup {NoMsg}]]]
         /\ \A d \in Conns, o \in Paths, s \in Topics :
               handlers'[d][o][s] = IF d = c /\ o = p /\ s = t THEN NoMsg ELSE handlers[d][o][s]
  BY SMTT(30), <1>1, <1>3 DEF TypeOK
<1> QED
  BY <1>1, <1>4, <1>6, <1>7, <1>8 DEF p, t, ls, rest, v

(* The tables of the paths, and what is answered and awaited.              *)
Tables ==
    /\ awaiting \subseteq Msgs /\ replies \subseteq Msgs
    /\ \A m \in awaiting \cup replies : m \in SentBy(m.from) /\ m.op \in Requests
    /\ handlers \in [Conns -> [Paths -> [Topics -> Msgs \cup {NoMsg}]]]
    /\ \A c \in Conns, p \in Paths, t \in Topics :
          handlers[c][p][t] \in {m \in Listener(p, t) : m.from = c} \cup {NoMsg}
    /\ listeners \in [Paths -> [Topics -> Seq(Msgs)]]
    /\ \A p \in Paths, t \in Topics : listeners[p][t] \in Seq(Listener(p, t))
    /\ upstream \in [Paths -> Seq(UpMsgs)]
    /\ UpstreamAgrees

LEMMA BaseHasTables ==
    ASSUME BaseInv
    PROVE  Tables
  BY DEF BaseInv, TypeOK, Origins, Tables

(* A message taken joins what is awaited or answered.                      *)
LEMMA OneIsTaken ==
    ASSUME BaseInv, NEW c \in Conns, NEW m \in SentBy(c), m.op \in Requests,
           awaiting' \subseteq awaiting \cup {m}, replies' \subseteq replies \cup {m}
    PROVE  /\ awaiting' \subseteq Msgs /\ replies' \subseteq Msgs
           /\ \A k \in awaiting' \cup replies' : k \in SentBy(k.from) /\ k.op \in Requests
<1>1. m \in Msgs /\ m \in SentBy(m.from)
  BY MessageParts
<1> QED
  BY <1>1 DEF BaseInv, TypeOK, Origins

LEMMA SubTables ==
    ASSUME BaseInv, NEW c \in Conns, NEW m \in SentBy(c), m.op = "sub",
           NEW q, Sub(c, m, q), subscribed' = subscribed
    PROVE  Tables'
<1> DEFINE p == m.path
           t == m.topic
           ls == listeners[p][t]
<1>1. /\ p \in Paths /\ t \in Topics
      /\ handlers' \in [Conns -> [Paths -> [Topics -> Msgs \cup {NoMsg}]]]
      /\ \A d \in Conns, o \in Paths, s \in Topics :
            handlers'[d][o][s] = IF d = c /\ o = p /\ s = t THEN m ELSE handlers[d][o][s]
      /\ listeners' \in [Paths -> [Topics -> Seq(Msgs)]]
      /\ \A o \in Paths, s \in Topics :
            listeners'[o][s] = IF o = p /\ s = t THEN Append(listeners[o][s], m)
                               ELSE listeners[o][s]
      /\ \/ /\ ls = <<>>
            /\ upstream' = [upstream EXCEPT ![p] =
                  Append(@, [op |-> "sub", topic |-> t, waiter |-> m])]
            /\ awaiting' = awaiting \cup {m} /\ replies' = replies
         \/ /\ ls # <<>>
            /\ UNCHANGED <<upstream, awaiting>>
            /\ replies' = IF phase[c] = "open" THEN replies \cup {m} ELSE replies
  BY SubParts
<1>2. /\ m \in Msgs /\ m.from = c /\ m.op \in Requests /\ m \in SentBy(m.from)
  BY MessageParts DEF Requests
<1>3. m \in Listener(p, t)
  BY <1>2 DEF Listener
<1>4. ls \in Seq(Listener(p, t)) /\ \A o \in Paths, s \in Topics : listeners[o][s] \in Seq(Listener(o, s))
  BY <1>1 DEF BaseInv, Origins
<1>5. /\ Append(ls, m) \in Seq(Listener(p, t)) /\ Append(ls, m) # <<>>
  <2> HIDE DEF ls
  <2> QED
    BY <1>3, <1>4
<1>6. /\ awaiting' \subseteq Msgs /\ replies' \subseteq Msgs
      /\ \A k \in awaiting' \cup replies' : k \in SentBy(k.from) /\ k.op \in Requests
  <2>1. awaiting' \subseteq awaiting \cup {m} /\ replies' \subseteq replies \cup {m}
    BY <1>1
  <2> QED
    BY <1>2, <2>1, OneIsTaken
<1>7. \A d \in Conns, o \in Paths, s \in Topics :
         handlers'[d][o][s] \in {k \in Listener(o, s) : k.from = d} \cup {NoMsg}
  <2>1. \A d \in Conns, o \in Paths, s \in Topics :
           handlers[d][o][s] \in {k \in Listener(o, s) : k.from = d} \cup {NoMsg}
    BY DEF BaseInv, Origins
  <2>2. \A d \in Conns, o \in Paths, s \in Topics :
           handlers'[d][o][s] = IF d = c /\ o = p /\ s = t THEN m ELSE handlers[d][o][s]
    BY <1>1
  <2> HIDE DEF p, t
  <2> SUFFICES ASSUME NEW d \in Conns, NEW o \in Paths, NEW s \in Topics
               PROVE  handlers'[d][o][s] \in {k \in Listener(o, s) : k.from = d} \cup {NoMsg}
    OBVIOUS
  <2>3. CASE d = c /\ o = p /\ s = t
    BY <1>2, <1>3, <2>2, <2>3
  <2>4. CASE ~(d = c /\ o = p /\ s = t)
    <3>1. handlers'[d][o][s] = handlers[d][o][s]
      BY <2>2, <2>4
    <3> QED
      BY <2>1, <3>1
  <2> QED
    BY <2>3, <2>4
<1> DEFINE v == Append(ls, m)
<1>8. \A o \in Paths, s \in Topics :
         listeners'[o][s] = IF o = p /\ s = t THEN v ELSE listeners[o][s]
  BY <1>1
<1> HIDE DEF v
<1>9. \A o \in Paths, s \in Topics : listeners'[o][s] \in Seq(Listener(o, s))
  <2> HIDE DEF p, t, ls
  <2> QED
    BY <1>4, <1>5, <1>8 DEF v
<1>10. upstream' \in [Paths -> Seq(UpMsgs)] /\ UpstreamAgrees'
  <2>1. CASE ls = <<>>
    <3>1. /\ TypeOK /\ UpstreamAgrees /\ "sub" \in Changes
          /\ upstream' = [upstream EXCEPT ![p] =
                Append(@, [op |-> "sub", topic |-> t, waiter |-> m])]
      BY <1>1, <2>1 DEF BaseInv, Changes
    <3>2. listeners'[p][t] # <<>>
      BY <1>1, <1>5, <1>8 DEF v
    <3>3. \A o \in Paths, s \in Topics : ~(o = p /\ s = t) =>
             (listeners'[o][s] # <<>> <=> listeners[o][s] # <<>>)
      BY <1>8
    <3> HIDE DEF p, t
    <3> QED
      BY <1>1, <1>2, <3>1, <3>2, <3>3, AgreesAppended
  <2>2. CASE ls # <<>>
    <3>1. v # <<>>
      BY <1>5 DEF v
    <3>2. \A o \in Paths, s \in Topics : listeners'[o][s] # <<>> <=> listeners[o][s] # <<>>
      BY <1>8, <2>2, <3>1
    <3>3. UNCHANGED <<upstream, subscribed>> /\ UpstreamAgrees
      BY <1>1, <2>2 DEF BaseInv
    <3>4. UpstreamAgrees'
      BY <3>2, <3>3, AgreesKept
    <3> QED
      BY <3>3, <3>4 DEF BaseInv, TypeOK
  <2> QED
    BY <2>1, <2>2
<1> QED
  BY <1>1, <1>6, <1>7, <1>9, <1>10 DEF Tables

LEMMA UnsubTables ==
    ASSUME BaseInv, NEW c \in Conns, NEW m \in SentBy(c), m.op = "unsub",
           NEW q, Unsub(c, m, q), subscribed' = subscribed
    PROVE  Tables'
<1> DEFINE p == m.path
           t == m.topic
           ls == listeners[p][t]
           rest == Without(ls, handlers[c][p][t])
           v == IF ls = <<>> THEN ls ELSE rest
<1>1. /\ p \in Paths /\ t \in Topics
      /\ listeners' \in [Paths -> [Topics -> Seq(Msgs)]]
      /\ \A o \in Paths, s \in Topics :
            listeners'[o][s] = IF o = p /\ s = t THEN v ELSE listeners[o][s]
      /\ ls # <<>> => rest \in Seq(Listener(p, t))
      /\ \/ /\ ls # <<>> /\ rest = <<>>
            /\ upstream' = [upstream EXCEPT ![p] =
                  Append(@, [op |-> "unsub", topic |-> t, waiter |-> m])]
            /\ awaiting' = awaiting \cup {m} /\ UNCHANGED <<handlers, replies>>
         \/ /\ ~(ls # <<>> /\ rest = <<>>)
            /\ UNCHANGED <<upstream, awaiting>>
            /\ handlers' \in [Conns -> [Paths -> [Topics -> Msgs \cup {NoMsg}]]]
            /\ \A d \in Conns, o \in Paths, s \in Topics :
                  handlers'[d][o][s] = IF d = c /\ o = p /\ s = t THEN NoMsg
                                       ELSE handlers[d][o][s]
            /\ replies' = IF phase[c] = "open" THEN replies \cup {m} ELSE replies
  BY UnsubParts
<1>2. /\ m \in Msgs /\ m.from = c /\ m.op \in Requests
  BY MessageParts DEF Requests
<1>3. \A o \in Paths, s \in Topics : listeners[o][s] \in Seq(Listener(o, s))
  BY DEF BaseInv, Origins
<1> HIDE DEF p, t, rest
<1>4. \A o \in Paths, s \in Topics : listeners'[o][s] \in Seq(Listener(o, s))
  BY <1>1, <1>3
<1>5. /\ awaiting' \subseteq Msgs /\ replies' \subseteq Msgs
      /\ \A k \in awaiting' \cup replies' : k \in SentBy(k.from) /\ k.op \in Requests
  <2>1. awaiting' \subseteq awaiting \cup {m} /\ replies' \subseteq replies \cup {m}
    BY <1>1
  <2> QED
    BY <1>2, <2>1, OneIsTaken
<1>6. /\ handlers' \in [Conns -> [Paths -> [Topics -> Msgs \cup {NoMsg}]]]
      /\ \A d \in Conns, o \in Paths, s \in Topics :
            handlers'[d][o][s] \in {k \in Listener(o, s) : k.from = d} \cup {NoMsg}
  <2>1. /\ handlers \in [Conns -> [Paths -> [Topics -> Msgs \cup {NoMsg}]]]
        /\ \A d \in Conns, o \in Paths, s \in Topics :
              handlers[d][o][s] \in {k \in Listener(o, s) : k.from = d} \cup {NoMsg}
    BY DEF BaseInv, TypeOK, Origins
  <2>2. handlers' = handlers \/ /\ handlers' \in [Conns -> [Paths -> [Topics -> Msgs \cup {NoMsg}]]]
                                /\ \A d \in Conns, o \in Paths, s \in Topics :
                                      handlers'[d][o][s] \in {NoMsg, handlers[d][o][s]}
    BY <1>1
  <2> QED
    BY <2>1, <2>2
<1>7. upstream' \in [Paths -> Seq(UpMsgs)] /\ UpstreamAgrees'
  <2>1. CASE ls # <<>> /\ rest = <<>>
    <3>1. /\ TypeOK /\ UpstreamAgrees /\ "unsub" \in Changes /\ "unsub" # "sub"
          /\ upstream' = [upstream EXCEPT ![p] =
                Append(@, [op |-> "unsub", topic |-> t, waiter |-> m])]
      BY <1>1, <2>1 DEF BaseInv, Changes
    <3>2. listeners'[p][t] = <<>>
      BY <1>1, <2>1
    <3>3. \A o \in Paths, s \in Topics : ~(o = p /\ s = t) =>
             (listeners'[o][s] # <<>> <=> listeners[o][s] # <<>>)
      BY <1>1
    <3>4. p \in Paths /\ t \in Topics /\ m \in Msgs
      BY <1>1, <1>2
    <3>5. "unsub" = "sub" <=> listeners'[p][t] # <<>>
      BY <3>2
    <3> QED
      BY <3>1, <3>3, <3>4, <3>5, AgreesAppended
  <2>2. CASE ~(ls # <<>> /\ rest = <<>>)
    <3>1. \A o \in Paths, s \in Topics : listeners'[o][s] # <<>> <=> listeners[o][s] # <<>>
      BY <1>1, <2>2
    <3>2. UNCHANGED <<upstream, subscribed>> /\ UpstreamAgrees
      BY <1>1, <2>2 DEF BaseInv
    <3>3. UpstreamAgrees'
      BY <3>1, <3>2, AgreesKept
    <3> QED
      BY <3>2, <3>3 DEF BaseInv, TypeOK
  <2> QED
    BY <2>1, <2>2
<1> QED
  BY <1>1, <1>4, <1>5, <1>6, <1>7 DEF Tables

LEMMA ForwardBase ==
    ASSUME BaseInv, NEW c \in Conns, Forward(c)
    PROVE  BaseInv'
<1> DEFINE m == Head(queue[c])
           q == Tail(queue[c])
<1>1. /\ m \in SentBy(c) /\ q \in Seq(SentBy(c))
      /\ queue' = [queue EXCEPT ![c] = q] /\ current' = [current EXCEPT ![c] = m]
      /\ UNCHANGED <<phase, sent, inbound, subscribed>>
      /\ running' = NoConn \/ (running' = c /\ q # <<>>)
      /\ \/ m.op \notin Requests /\ UNCHANGED <<awaiting, handlers, listeners, upstream, replies>>
         \/ /\ m.op = "call" /\ awaiting' = awaiting \cup {m}
            /\ running' = NoConn /\ UNCHANGED <<handlers, listeners, upstream, replies>>
         \/ m.op = "sub" /\ Sub(c, m, q)
         \/ m.op = "unsub" /\ Unsub(c, m, q)
  BY ForwardParts
<1> HIDE DEF m, q
<1>2. m \in Msgs
  BY <1>1 DEF SentBy
<1>3. Tables'
  <2>1. CASE m.op \notin Requests /\ UNCHANGED <<awaiting, handlers, listeners, upstream, replies>>
    BY <1>1, <2>1, BaseHasTables DEF Tables, UpstreamAgrees
  <2>2. CASE /\ m.op = "call" /\ awaiting' = awaiting \cup {m}
             /\ running' = NoConn /\ UNCHANGED <<handlers, listeners, upstream, replies>>
    <3>1. m.op \in Requests
      BY <2>2 DEF Requests
    <3>2. /\ awaiting' \subseteq Msgs /\ replies' \subseteq Msgs
          /\ \A k \in awaiting' \cup replies' : k \in SentBy(k.from) /\ k.op \in Requests
      BY <1>1, <2>2, <3>1, OneIsTaken
    <3> QED
      BY <1>1, <2>2, <3>2, BaseHasTables DEF Tables, UpstreamAgrees
  <2>3. CASE m.op = "sub" /\ Sub(c, m, q)
    BY <1>1, <2>3, SubTables
  <2>4. CASE m.op = "unsub" /\ Unsub(c, m, q)
    BY <1>1, <2>4, UnsubTables
  <2> QED
    BY <1>1, <2>1, <2>2, <2>3, <2>4
<1>4. /\ queue' \in [Conns -> Seq(Msgs)] /\ current' \in [Conns -> Msgs \cup {NoMsg}]
      /\ running' \in Conns \cup {NoConn}
  <2>1. q \in Seq(Msgs)
    BY <1>1 DEF SentBy
  <2> QED
    BY <1>1, <1>2, <2>1 DEF BaseInv, TypeOK
<1>5. TypeOK'
  BY <1>1, <1>3, <1>4 DEF BaseInv, TypeOK, Tables
<1>6. \A d \in Conns : /\ queue'[d] = IF d = c THEN q ELSE queue[d]
                       /\ current'[d] = IF d = c THEN m ELSE current[d]
  BY <1>1 DEF BaseInv, TypeOK
<1>7. Origins'
  <2>1. \A d \in Conns : queue'[d] \in Seq(SentBy(d)) /\ current'[d] \in SentBy(d) \cup {NoMsg}
    BY <1>1, <1>6 DEF BaseInv, Origins
  <2> QED
    BY <1>1, <1>3, <2>1 DEF BaseInv, Origins, Tables
<1>8. RunnerHasWork'
  BY <1>1, <1>6 DEF RunnerHasWork
<1> QED
  BY <1>3, <1>5, <1>7, <1>8 DEF BaseInv, Tables

(* The activation that awaits m resumes.                                   *)
LEMMA ResumeParts ==
    ASSUME BaseInv, NEW m \in awaiting, Resume(m)
    PROVE  LET c == m.from
           IN  /\ c \in Conns /\ m \in SentBy(c) /\ m.op \in Requests
               /\ m.path \in Paths /\ m.topic \in Topics
               /\ awaiting' = awaiting \ {m}
               /\ replies' = IF phase[c] = "open" THEN replies \cup {m} ELSE replies
               /\ running' = IF queue[c] = <<>> THEN NoConn ELSE c
               /\ handlers' \in [Conns -> [Paths -> [Topics -> Msgs \cup {NoMsg}]]]
               /\ \A d \in Conns, p \in Paths, t \in Topics :
                     handlers'[d][p][t] = IF m.op = "unsub" /\ d = c /\ p = m.path /\ t = m.topic
                                          THEN NoMsg ELSE handlers[d][p][t]
<1> DEFINE c == m.from
<1>1. m \in Msgs /\ m \in SentBy(c) /\ m.op \in Requests
  BY DEF BaseInv, TypeOK, Origins
<1>2. c \in Conns /\ m.path \in Paths /\ m.topic \in Topics
  <2>1. c \in Conns
    BY <1>1 DEF Msgs
  <2> HIDE DEF c
  <2> QED
    BY <1>1, <2>1, MessageParts
<1>3. /\ awaiting' = awaiting \ {m}
      /\ replies' = IF phase[c] = "open" THEN replies \cup {m} ELSE replies
      /\ running' = IF queue[c] = <<>> THEN NoConn ELSE c
      /\ handlers' = IF m.op = "unsub" THEN [handlers EXCEPT ![c][m.path][m.topic] = NoMsg]
                     ELSE handlers
  BY DEF Resume, Write, Continue
<1>4. TypeOK
  BY DEF BaseInv
<1> HIDE DEF c
<1>5. CASE m.op = "unsub"
  <2> DEFINE o == m.path
             s == m.topic
  <2>1. handlers' = [handlers EXCEPT ![c][o][s] = NoMsg] /\ o \in Paths /\ s \in Topics
    BY <1>2, <1>3, <1>5
  <2> HIDE DEF o, s
  <2>2. /\ handlers' \in [Conns -> [Paths -> [Topics -> Msgs \cup {NoMsg}]]]
        /\ \A d \in Conns, p \in Paths, t \in Topics :
              handlers'[d][p][t] = IF d = c /\ p = o /\ t = s THEN NoMsg ELSE handlers[d][p][t]
    BY SMTT(30), <1>2, <1>4, <2>1 DEF TypeOK
  <2> QED
    BY <1>1, <1>2, <1>3, <1>5, <2>2 DEF c, o, s
<1>6. CASE m.op # "unsub"
  BY <1>1, <1>2, <1>3, <1>4, <1>6 DEF c, TypeOK
<1> QED
  BY <1>5, <1>6

(* It leaves the tables as they should be, but for what is upstream.       *)
LEMMA ResumeTables ==
    ASSUME BaseInv, NEW m \in awaiting, Resume(m), UNCHANGED <<queue, listeners>>
    PROVE  /\ awaiting' \subseteq Msgs /\ replies' \subseteq Msgs
           /\ \A k \in awaiting' \cup replies' : k \in SentBy(k.from) /\ k.op \in Requests
           /\ handlers' \in [Conns -> [Paths -> [Topics -> Msgs \cup {NoMsg}]]]
           /\ \A c \in Conns, p \in Paths, t \in Topics :
                 handlers'[c][p][t] \in {k \in Listener(p, t) : k.from = c} \cup {NoMsg}
           /\ running' \in Conns \cup {NoConn} /\ RunnerHasWork'
<1> DEFINE c == m.from
<1>1. /\ c \in Conns /\ m \in SentBy(c) /\ m.op \in Requests
      /\ awaiting' \subseteq awaiting \cup {m} /\ replies' \subseteq replies \cup {m}
      /\ running' = IF queue[c] = <<>> THEN NoConn ELSE c
      /\ handlers' \in [Conns -> [Paths -> [Topics -> Msgs \cup {NoMsg}]]]
      /\ \A d \in Conns, p \in Paths, t \in Topics :
            handlers'[d][p][t] \in {NoMsg, handlers[d][p][t]}
  BY ResumeParts
<1> HIDE DEF c
<1>2. \A d \in Conns, p \in Paths, t \in Topics :
         handlers[d][p][t] \in {k \in Listener(p, t) : k.from = d} \cup {NoMsg}
  BY DEF BaseInv, Origins
<1>3. /\ awaiting' \subseteq Msgs /\ replies' \subseteq Msgs
      /\ \A k \in awaiting' \cup replies' : k \in SentBy(k.from) /\ k.op \in Requests
  BY <1>1, OneIsTaken
<1>4. \A d \in Conns, p \in Paths, t \in Topics :
         handlers'[d][p][t] \in {k \in Listener(p, t) : k.from = d} \cup {NoMsg}
  <2> SUFFICES ASSUME NEW d \in Conns, NEW p \in Paths, NEW t \in Topics
               PROVE  handlers'[d][p][t] \in {k \in Listener(p, t) : k.from = d} \cup {NoMsg}
    OBVIOUS
  <2>1. handlers'[d][p][t] = NoMsg \/ handlers'[d][p][t] = handlers[d][p][t]
    BY <1>1
  <2> QED
    BY <1>2, <2>1
<1>5. running' \in Conns \cup {NoConn} /\ RunnerHasWork'
  BY <1>1 DEF RunnerHasWork
<1> QED
  BY <1>1, <1>3, <1>4, <1>5

LEMMA ClientAnsweredBase ==
    ASSUME BaseInv, NEW c \in Conns, ClientAnswered(c)
    PROVE  BaseInv'
<1>1. PICK m \in awaiting : CallAnswered(m)
  BY DEF ClientAnswered
<1>2. /\ Resume(m)
      /\ UNCHANGED <<phase, sent, inbound, queue, current, listeners, upstream, subscribed>>
  BY <1>1 DEF CallAnswered
<1>3. /\ awaiting' \subseteq Msgs /\ replies' \subseteq Msgs
      /\ \A k \in awaiting' \cup replies' : k \in SentBy(k.from) /\ k.op \in Requests
      /\ handlers' \in [Conns -> [Paths -> [Topics -> Msgs \cup {NoMsg}]]]
      /\ \A d \in Conns, p \in Paths, t \in Topics :
            handlers'[d][p][t] \in {k \in Listener(p, t) : k.from = d} \cup {NoMsg}
      /\ running' \in Conns \cup {NoConn} /\ RunnerHasWork'
  BY <1>2, ResumeTables
<1>4. TypeOK'
  BY <1>2, <1>3 DEF BaseInv, TypeOK
<1>5. Origins'
  BY <1>2, <1>3 DEF BaseInv, Origins
<1>6. UpstreamAgrees'
  BY <1>2 DEF BaseInv, UpstreamAgrees
<1> QED
  BY <1>3, <1>4, <1>5, <1>6 DEF BaseInv

LEMMA UpstreamAnsweredBase ==
    ASSUME BaseInv, NEW p \in Paths, UpstreamAnswered(p)
    PROVE  BaseInv'
<1> DEFINE us == upstream[p]
           u == Head(us)
<1>1. /\ running = NoConn /\ us # <<>>
      /\ subscribed' = [subscribed EXCEPT ![p][u.topic] = (u.op = "sub")]
      /\ \/ u.waiter \in awaiting /\ Resume(u.waiter)
         \/ UNCHANGED <<awaiting, replies, running, handlers>>
      /\ upstream' = [upstream EXCEPT ![p] = Tail(us)]
      /\ UNCHANGED <<phase, sent, inbound, queue, current, listeners>>
  BY DEF UpstreamAnswered
<1>2. us \in Seq(UpMsgs) /\ upstream \in [Paths -> Seq(UpMsgs)]
  BY DEF BaseInv, TypeOK
<1>3. u \in UpMsgs /\ Tail(us) \in Seq(UpMsgs)
  <2> HIDE DEF us
  <2> QED
    BY <1>1, <1>2
<1>4. u.topic \in Topics /\ u.op \in {"sub", "unsub"}
  BY <1>3 DEF UpMsgs
<1> DEFINE vs == Tail(us)
<1>5. /\ upstream' \in [Paths -> Seq(UpMsgs)]
      /\ \A q \in Paths : upstream'[q] = IF q = p THEN vs ELSE upstream[q]
  BY <1>1, <1>2, <1>3
<1> HIDE DEF vs
<1>6. /\ awaiting' \subseteq Msgs /\ replies' \subseteq Msgs
      /\ \A k \in awaiting' \cup replies' : k \in SentBy(k.from) /\ k.op \in Requests
      /\ handlers' \in [Conns -> [Paths -> [Topics -> Msgs \cup {NoMsg}]]]
      /\ \A d \in Conns, q \in Paths, t \in Topics :
            handlers'[d][q][t] \in {k \in Listener(q, t) : k.from = d} \cup {NoMsg}
      /\ running' \in Conns \cup {NoConn} /\ RunnerHasWork'
  <2>1. CASE u.waiter \in awaiting /\ Resume(u.waiter)
    <3> HIDE DEF u
    <3> QED
      BY <1>1, <2>1, ResumeTables
  <2>2. CASE UNCHANGED <<awaiting, replies, running, handlers>>
    BY <1>1, <2>2, BaseHasTables DEF Tables, BaseInv, TypeOK, RunnerHasWork
  <2> QED
    BY <1>1, <2>1, <2>2
<1> DEFINE s == u.topic
           b == (u.op = "sub")
<1>7. /\ subscribed' \in [Paths -> [Topics -> BOOLEAN]]
      /\ \A q \in Paths, t \in Topics :
            subscribed'[q][t] <=> IF q = p /\ t = s THEN b ELSE subscribed[q][t]
  <2>1. /\ subscribed \in [Paths -> [Topics -> BOOLEAN]] /\ s \in Topics /\ b \in BOOLEAN
        /\ subscribed' = [subscribed EXCEPT ![p][s] = b]
    BY <1>1, <1>4 DEF BaseInv, TypeOK
  <2> HIDE DEF s, b
  <2> QED
    BY <2>1
<1>8. TypeOK'
  BY <1>1, <1>5, <1>6, <1>7 DEF BaseInv, TypeOK
<1>9. Origins'
  BY <1>1, <1>6 DEF BaseInv, Origins
<1>10. UpstreamAgrees'
  <2> SUFFICES ASSUME NEW q \in Paths, NEW t \in Topics
               PROVE  /\ NoneOf(upstream'[q], t) => (subscribed'[q][t] <=> listeners'[q][t] # <<>>)
                      /\ \A i \in 1 .. Len(upstream'[q]) : LastOf(upstream'[q], t, i) =>
                            (upstream'[q][i].op = "sub" <=> listeners'[q][t] # <<>>)
    BY <1>5 DEF UpstreamAgrees
  <2>1. /\ NoneOf(upstream[q], t) => (subscribed[q][t] <=> listeners[q][t] # <<>>)
        /\ \A i \in 1 .. Len(upstream[q]) : LastOf(upstream[q], t, i) =>
              (upstream[q][i].op = "sub" <=> listeners[q][t] # <<>>)
    BY DEF BaseInv, UpstreamAgrees
  <2>2. CASE q # p
    BY <1>1, <1>5, <1>7, <2>1, <2>2
  <2>3. CASE q = p
    <3> HIDE DEF us
    <3>1. /\ Head(us).topic # t /\ NoneOf(Tail(us), t) => NoneOf(us, t)
          /\ Head(us).topic = t /\ NoneOf(Tail(us), t) => LastOf(us, t, 1)
          /\ us[1] = Head(us) /\ 1 \in 1 .. Len(us)
          /\ \A i \in 1 .. Len(Tail(us)) : LastOf(Tail(us), t, i) =>
                /\ i + 1 \in 1 .. Len(us) /\ LastOf(us, t, i + 1)
                /\ Tail(us)[i] = us[i + 1]
      BY <1>1, <1>2, FirstIsTaken
    <3>2. /\ s # t /\ NoneOf(vs, t) => NoneOf(us, t)
          /\ s = t /\ NoneOf(vs, t) => LastOf(us, t, 1)
          /\ us[1] = u /\ 1 \in 1 .. Len(us)
          /\ \A i \in 1 .. Len(vs) : LastOf(vs, t, i) =>
                /\ i + 1 \in 1 .. Len(us) /\ LastOf(us, t, i + 1) /\ vs[i] = us[i + 1]
      BY <3>1 DEF vs
    <3>3. /\ NoneOf(us, t) => (subscribed[p][t] <=> listeners[p][t] # <<>>)
          /\ \A i \in 1 .. Len(us) : LastOf(us, t, i) =>
                (us[i].op = "sub" <=> listeners[p][t] # <<>>)
      BY <2>1, <2>3 DEF us
    <3>4. upstream'[q] = vs /\ listeners'[q][t] = listeners[p][t]
      BY <1>1, <1>5, <2>3
    <3>5. subscribed'[q][t] <=> IF t = s THEN u.op = "sub" ELSE subscribed[p][t]
      BY <1>7, <2>3
    <3> HIDE DEF u, vs, s
    <3>6. NoneOf(vs, t) => (subscribed'[q][t] <=> listeners[p][t] # <<>>)
      BY <3>2, <3>3, <3>5
    <3>7. ASSUME NEW i \in 1 .. Len(vs), LastOf(vs, t, i)
          PROVE  vs[i].op = "sub" <=> listeners[p][t] # <<>>
      BY <3>2, <3>3, <3>7
    <3> QED
      BY <3>4, <3>6, <3>7
  <2> QED
    BY <2>2, <2>3
<1> QED
  BY <1>6, <1>8, <1>9, <1>10 DEF BaseInv

(* The socket c gives up what is noted for path p, and ws goes upstream.   *)
GivesUp(c, p, ws) ==
    /\ current[c] # NoMsg /\ p = current[c].path
    /\ handlers' \in [Conns -> [Paths -> [Topics -> Msgs \cup {NoMsg}]]]
    /\ \A d \in Conns, q \in Paths, t \in Topics :
          handlers'[d][q][t] = IF d = c /\ q = p THEN NoMsg ELSE handlers[d][q][t]
    /\ listeners' \in [Paths -> [Topics -> Seq(Msgs)]]
    /\ \A q \in Paths, t \in Topics :
          listeners'[q][t] = IF q = p /\ handlers[c][p][t] # NoMsg /\ listeners[p][t] # <<>>
                             THEN Without(listeners[p][t], handlers[c][p][t])
                             ELSE listeners[q][t]
    /\ upstream' = [upstream EXCEPT ![p] = @ \o ws]
    /\ \A i \in 1 .. Len(ws) : ws[i].op = "unsub"
    /\ \A t \in Topics : NoneOf(ws, t) <=>
          ~(/\ handlers[c][p][t] # NoMsg /\ listeners[p][t] # <<>>
            /\ Without(listeners[p][t], handlers[c][p][t]) = <<>>)

(* The 'close' event changes nothing, or gives up what is noted for one    *)
(* path, and unsubscribes the topics that lose their last listener.        *)
LEMMA CloseParts ==
    ASSUME BaseInv, NEW c \in Conns, Close(c)
    PROVE  /\ phase[c] = "closing" /\ phase' = [phase EXCEPT ![c] = "closed"]
           /\ UNCHANGED <<sent, inbound, queue, current, running, awaiting, subscribed, replies>>
           /\ \/ /\ \A t \in Topics : current[c] # NoMsg /\ current[c].path \in Paths =>
                       handlers[c][current[c].path][t] = NoMsg
                 /\ UNCHANGED <<handlers, listeners, upstream>>
              \/ \E p \in Paths : \E ws \in Seq(UpMsgs) : GivesUp(c, p, ws)
<1> DEFINE p == IF current[c] = NoMsg THEN NoPath ELSE current[c].path
           noted == {t \in Topics : p \in Paths /\ handlers[c][p][t] # NoMsg}
           Taken(t) == Without(listeners[p][t], handlers[c][p][t])
           emptied == {t \in noted : listeners[p][t] # <<>> /\ Taken(t) = <<>>}
<1>1. /\ phase[c] = "closing" /\ phase' = [phase EXCEPT ![c] = "closed"]
      /\ UNCHANGED <<sent, inbound, queue, current, running, awaiting, subscribed, replies>>
  BY DEF Close
<1>2. CASE noted = {}
  <2>1. UNCHANGED <<handlers, listeners, upstream>>
    BY <1>2 DEF Close
  <2>2. \A t \in Topics : current[c] # NoMsg /\ current[c].path \in Paths =>
           handlers[c][current[c].path][t] = NoMsg
    BY <1>2
  <2> QED
    BY <1>1, <2>1, <2>2
<1>3. CASE noted # {}
  <2>1. PICK us \in [1 .. Cardinality(emptied) -> emptied] :
           /\ \A t \in emptied : \E i \in DOMAIN us : us[i] = t
           /\ upstream' = [upstream EXCEPT ![p] = @ \o
                  [i \in DOMAIN us |-> [op |-> "unsub", topic |-> us[i], waiter |-> NoMsg]]]
    BY <1>3 DEF Close
  <2>2. /\ handlers' = [handlers EXCEPT ![c][p] = [t \in Topics |-> NoMsg]]
        /\ listeners' = [listeners EXCEPT ![p] =
              [t \in Topics |-> IF t \in noted /\ @[t] # <<>> THEN Taken(t) ELSE @[t]]]
    BY <1>3 DEF Close
  <2>3. p \in Paths /\ current[c] # NoMsg /\ p = current[c].path
    BY <1>3, RelayAssumption
  <2>4. emptied \subseteq Topics /\ Cardinality(emptied) \in Nat
    <3>1. emptied \subseteq Topics
      OBVIOUS
    <3> HIDE DEF emptied
    <3> QED
      BY <3>1, RelayAssumption, FS_Subset, FS_CardinalityType
  <2>5. \A t \in Topics : /\ t \in noted <=> handlers[c][p][t] # NoMsg
                          /\ t \in emptied <=> /\ handlers[c][p][t] # NoMsg
                                               /\ listeners[p][t] # <<>> /\ Taken(t) = <<>>
    BY <2>3
  <2> DEFINE ws == [i \in DOMAIN us |-> [op |-> "unsub", topic |-> us[i], waiter |-> NoMsg]]
  <2>6. /\ ws \in Seq(UpMsgs) /\ \A i \in 1 .. Len(ws) : ws[i].op = "unsub"
        /\ \A t \in Topics : NoneOf(ws, t) <=> t \notin emptied
    <3> DEFINE n == Cardinality(emptied)
    <3> HIDE DEF emptied
    <3>1. /\ n \in Nat /\ DOMAIN us = 1 .. n /\ \A i \in 1 .. n : us[i] \in emptied /\ us[i] \in Topics
      BY <2>1, <2>4
    <3> HIDE DEF n
    <3>2. \A i \in 1 .. n : [op |-> "unsub", topic |-> us[i], waiter |-> NoMsg] \in UpMsgs
      BY <3>1 DEF UpMsgs
    <3>3. ws = [i \in 1 .. n |-> [op |-> "unsub", topic |-> us[i], waiter |-> NoMsg]]
      BY <3>1
    <3>4. ws \in [1 .. n -> UpMsgs]
      BY <3>2, <3>3
    <3>5. ws \in Seq(UpMsgs) /\ Len(ws) = n
      <4> HIDE DEF ws
      <4> QED
        BY <3>1, <3>4
    <3>6. \A i \in 1 .. n : ws[i].op = "unsub" /\ ws[i].topic = us[i]
      BY <3>3
    <3> HIDE DEF ws
    <3>7. ASSUME NEW t \in Topics PROVE NoneOf(ws, t) <=> t \notin emptied
      BY <2>1, <3>1, <3>5, <3>6 DEF NoneOf
    <3> QED
      BY <3>5, <3>6, <3>7
  <2>7. upstream' = [upstream EXCEPT ![p] = @ \o ws]
    BY <2>1
  <2>8. /\ handlers' \in [Conns -> [Paths -> [Topics -> Msgs \cup {NoMsg}]]]
        /\ \A d \in Conns, q \in Paths, t \in Topics :
              handlers'[d][q][t] = IF d = c /\ q = p THEN NoMsg ELSE handlers[d][q][t]
    <3> HIDE DEF p
    <3> QED
      BY <2>2, <2>3 DEF BaseInv, TypeOK
  <2>9. /\ listeners \in [Paths -> [Topics -> Seq(Msgs)]]
        /\ \A t \in Topics : listeners[p][t] # <<>> => Taken(t) \in Seq(Msgs)
    <3>1. \A t \in Topics : listeners[p][t] \in Seq(Msgs)
      BY <2>3 DEF BaseInv, TypeOK
    <3> QED
      BY <3>1, WithoutIsSeq DEF BaseInv, TypeOK
  <2>10. \A t \in Topics : /\ t \in noted <=> handlers[c][p][t] # NoMsg
    BY <2>5
  <2> DEFINE New(t) == IF t \in noted /\ listeners[p][t] # <<>> THEN Taken(t) ELSE listeners[p][t]
  <2>11. listeners' = [listeners EXCEPT ![p] = [t \in Topics |-> New(t)]]
    BY <2>2, <2>3, <2>9
  <2>12. \A t \in Topics : New(t) \in Seq(Msgs)
    BY <2>3, <2>9
  <2>13. /\ listeners' \in [Paths -> [Topics -> Seq(Msgs)]]
         /\ \A q \in Paths, t \in Topics :
              listeners'[q][t] = IF q = p THEN New(t) ELSE listeners[q][t]
    <3> HIDE DEF New, p
    <3> QED
      BY <2>3, <2>9, <2>11, <2>12
  <2>14. \A q \in Paths, t \in Topics :
            listeners'[q][t] = IF q = p /\ handlers[c][p][t] # NoMsg /\ listeners[p][t] # <<>>
                               THEN Taken(t) ELSE listeners[q][t]
    <3> HIDE DEF noted, p, Taken
    <3> QED
      BY <2>10, <2>13
  <2> HIDE DEF ws, emptied, noted, p
  <2>15. \A t \in Topics : NoneOf(ws, t) <=>
            ~(/\ handlers[c][p][t] # NoMsg /\ listeners[p][t] # <<>> /\ Taken(t) = <<>>)
    BY <2>5, <2>6
  <2> QED
    <3>1. GivesUp(c, p, ws)
      BY <2>3, <2>6, <2>7, <2>8, <2>13, <2>14, <2>15 DEF GivesUp
    <3> QED
      BY <1>1, <2>3, <2>6, <3>1
<1> QED
  BY <1>2, <1>3

LEMMA CloseBase ==
    ASSUME BaseInv, NEW c \in Conns, Close(c)
    PROVE  BaseInv'
<1>1. /\ phase' = [phase EXCEPT ![c] = "closed"]
      /\ UNCHANGED <<sent, inbound, queue, current, running, awaiting, subscribed, replies>>
  BY DEF Close
<1>2. phase' \in [Conns -> {"new", "open", "closing", "closed"}]
  BY <1>1 DEF BaseInv, TypeOK
<1>3. RunnerHasWork'
  BY <1>1 DEF BaseInv, RunnerHasWork
<1>4. CASE UNCHANGED <<handlers, listeners, upstream>>
  <2>1. TypeOK'
    BY <1>1, <1>2, <1>4 DEF BaseInv, TypeOK
  <2>2. Origins'
    BY <1>1, <1>4 DEF BaseInv, Origins
  <2> QED
    BY <1>1, <1>3, <1>4, <2>1, <2>2 DEF BaseInv, UpstreamAgrees
<1>5. ASSUME NEW p \in Paths, NEW ws \in Seq(UpMsgs), GivesUp(c, p, ws)
      PROVE  BaseInv'
  <2>0. /\ handlers' \in [Conns -> [Paths -> [Topics -> Msgs \cup {NoMsg}]]]
        /\ \A d \in Conns, q \in Paths, t \in Topics :
              handlers'[d][q][t] = IF d = c /\ q = p THEN NoMsg ELSE handlers[d][q][t]
        /\ listeners' \in [Paths -> [Topics -> Seq(Msgs)]]
        /\ \A q \in Paths, t \in Topics :
              listeners'[q][t] = IF q = p /\ handlers[c][p][t] # NoMsg /\ listeners[p][t] # <<>>
                                 THEN Without(listeners[p][t], handlers[c][p][t])
                                 ELSE listeners[q][t]
        /\ upstream' = [upstream EXCEPT ![p] = @ \o ws]
        /\ \A i \in 1 .. Len(ws) : ws[i].op = "unsub"
        /\ \A t \in Topics : NoneOf(ws, t) <=>
              ~(/\ handlers[c][p][t] # NoMsg /\ listeners[p][t] # <<>>
                /\ Without(listeners[p][t], handlers[c][p][t]) = <<>>)
    BY <1>5 DEF GivesUp
  <2> DEFINE us == upstream[p]
             vs == us \o ws
  <2>1. us \in Seq(UpMsgs) /\ upstream \in [Paths -> Seq(UpMsgs)]
    BY DEF BaseInv, TypeOK
  <2>2. vs \in Seq(UpMsgs)
    <3> HIDE DEF us
    <3> QED
      BY <2>1
  <2>3. /\ upstream' \in [Paths -> Seq(UpMsgs)]
        /\ \A q \in Paths : upstream'[q] = IF q = p THEN vs ELSE upstream[q]
    <3>1. upstream' = [upstream EXCEPT ![p] = vs]
      BY <2>0, <2>1
    <3> HIDE DEF vs
    <3> QED
      BY <2>1, <2>2, <3>1
  <2>4. TypeOK'
    BY <1>1, <1>2, <2>0, <2>3 DEF BaseInv, TypeOK
  <2>5. Origins'
    <3>1. \A q \in Paths, t \in Topics : listeners'[q][t] \in Seq(Listener(q, t))
      <4> SUFFICES ASSUME NEW q \in Paths, NEW t \in Topics
                   PROVE  listeners'[q][t] \in Seq(Listener(q, t))
        OBVIOUS
      <4>1. listeners[q][t] \in Seq(Listener(q, t)) /\ listeners[p][t] \in Seq(Listener(p, t))
        BY DEF BaseInv, Origins
      <4>2. listeners[p][t] # <<>> =>
               Without(listeners[p][t], handlers[c][p][t]) \in Seq(Listener(p, t))
        BY <4>1, WithoutIsSeq
      <4>3. CASE q = p /\ handlers[c][p][t] # NoMsg /\ listeners[p][t] # <<>>
        BY <2>0, <4>2, <4>3
      <4>4. CASE ~(q = p /\ handlers[c][p][t] # NoMsg /\ listeners[p][t] # <<>>)
        BY <2>0, <4>1, <4>4
      <4> QED
        BY <4>3, <4>4
    <3>2. \A d \in Conns, q \in Paths, t \in Topics :
             handlers'[d][q][t] \in {m \in Listener(q, t) : m.from = d} \cup {NoMsg}
      <4> SUFFICES ASSUME NEW d \in Conns, NEW q \in Paths, NEW t \in Topics
                   PROVE  handlers'[d][q][t] \in {m \in Listener(q, t) : m.from = d} \cup {NoMsg}
        OBVIOUS
      <4>1. handlers'[d][q][t] = NoMsg \/ handlers'[d][q][t] = handlers[d][q][t]
        BY <2>0
      <4>2. handlers[d][q][t] \in {m \in Listener(q, t) : m.from = d} \cup {NoMsg}
        BY DEF BaseInv, Origins
      <4> QED
        BY <4>1, <4>2
    <3> QED
      BY <1>1, <3>1, <3>2 DEF BaseInv, Origins
  <2>6. UpstreamAgrees'
    <3> SUFFICES ASSUME NEW q \in Paths, NEW t \in Topics
                 PROVE  /\ NoneOf(upstream'[q], t) => (subscribed'[q][t] <=> listeners'[q][t] # <<>>)
                        /\ \A i \in 1 .. Len(upstream'[q]) : LastOf(upstream'[q], t, i) =>
                              (upstream'[q][i].op = "sub" <=> listeners'[q][t] # <<>>)
      BY <2>3 DEF UpstreamAgrees
    <3>1. /\ NoneOf(upstream[q], t) => (subscribed[q][t] <=> listeners[q][t] # <<>>)
          /\ \A i \in 1 .. Len(upstream[q]) : LastOf(upstream[q], t, i) =>
                (upstream[q][i].op = "sub" <=> listeners[q][t] # <<>>)
      BY DEF BaseInv, UpstreamAgrees
    <3>2. CASE q # p
      <4>1. upstream'[q] = upstream[q] /\ listeners'[q][t] = listeners[q][t]
        BY <2>0, <2>3, <3>2
      <4> QED
        BY <1>1, <3>1, <4>1
    <3>3. CASE q = p
      <4>1. /\ NoneOf(us, t) => (subscribed[p][t] <=> listeners[p][t] # <<>>)
            /\ \A i \in 1 .. Len(us) : LastOf(us, t, i) =>
                  (us[i].op = "sub" <=> listeners[p][t] # <<>>)
        BY <3>1, <3>3
      <4>2. upstream'[q] = vs /\ subscribed'[q][t] = subscribed[p][t]
        BY <1>1, <2>3, <3>3
      <4> HIDE DEF us
      <4>3. /\ NoneOf(us \o ws, t) => NoneOf(us, t) /\ NoneOf(ws, t)
            /\ NoneOf(ws, t) => \A i \in 1 .. Len(us \o ws) : LastOf(us \o ws, t, i) =>
                                   LastOf(us, t, i) /\ (us \o ws)[i] = us[i]
            /\ ~NoneOf(ws, t) => \A i \in 1 .. Len(us \o ws) : LastOf(us \o ws, t, i) =>
                                   \E j \in 1 .. Len(ws) : (us \o ws)[i] = ws[j]
        BY <2>1, SomeJoin
      <4>4. /\ NoneOf(vs, t) => NoneOf(us, t) /\ NoneOf(ws, t)
            /\ NoneOf(ws, t) => \A i \in 1 .. Len(vs) : LastOf(vs, t, i) =>
                                   LastOf(us, t, i) /\ vs[i] = us[i]
            /\ ~NoneOf(ws, t) => \A i \in 1 .. Len(vs) : LastOf(vs, t, i) =>
                                   \E j \in 1 .. Len(ws) : vs[i] = ws[j]
        BY <4>3 DEF vs
      <4> HIDE DEF vs
      <4>5. CASE NoneOf(ws, t)
        <5>1. listeners'[q][t] # <<>> <=> listeners[p][t] # <<>>
          BY <2>0, <3>3, <4>5
        <5>2. \A i : LastOf(us, t, i) => i \in 1 .. Len(us)
          BY DEF LastOf
        <5>3. NoneOf(vs, t) => (subscribed'[q][t] <=> listeners'[q][t] # <<>>)
          BY <4>1, <4>2, <4>4, <5>1
        <5>4. ASSUME NEW i \in 1 .. Len(vs), LastOf(vs, t, i)
              PROVE  vs[i].op = "sub" <=> listeners'[q][t] # <<>>
          <6>1. LastOf(us, t, i) /\ vs[i] = us[i] /\ i \in 1 .. Len(us)
            BY <4>4, <4>5, <5>2, <5>4
          <6> QED
            BY <4>1, <5>1, <6>1
        <5> QED
          BY <4>2, <5>3, <5>4
      <4>6. CASE ~NoneOf(ws, t)
        <5>1. listeners'[q][t] = <<>>
          BY <2>0, <3>3, <4>6
        <5>2. ASSUME NEW i \in 1 .. Len(vs), LastOf(vs, t, i) PROVE vs[i].op # "sub"
          <6>1. PICK j \in 1 .. Len(ws) : vs[i] = ws[j]
            BY <4>4, <4>6, <5>2
          <6>2. ws[j].op = "unsub"
            BY <2>0
          <6> QED
            BY <6>1, <6>2
        <5>3. ~NoneOf(vs, t)
          BY <4>4, <4>6
        <5> QED
          BY <4>2, <5>1, <5>2, <5>3
      <4> QED
        BY <4>5, <4>6
    <3> QED
      BY <3>2, <3>3
  <2> QED
    BY <1>3, <2>4, <2>5, <2>6 DEF BaseInv
<1> QED
  BY <1>4, <1>5, CloseParts

LEMMA NextBase == BaseInv /\ [Next]_vars => BaseInv'
<1> SUFFICES ASSUME BaseInv, [Next]_vars PROVE BaseInv'
  OBVIOUS
<1>1. ASSUME NEW c \in Conns, ClientSend(c) PROVE BaseInv'
  BY <1>1, ClientSendBase
<1>2. ASSUME NEW c \in Conns, ClientLeave(c) PROVE BaseInv'
  BY <1>2, ClientLeaveBase
<1>3. ASSUME NEW c \in Conns, AddConnection(c) PROVE BaseInv'
  BY <1>3, AddConnectionBase
<1>4. ASSUME NEW c \in Conns, Data(c) PROVE BaseInv'
  BY <1>4, DataBase
<1>5. ASSUME NEW c \in Conns, Forward(c) PROVE BaseInv'
  BY <1>5, ForwardBase
<1>6. ASSUME NEW c \in Conns, Close(c) PROVE BaseInv'
  BY <1>6, CloseBase
<1>7. ASSUME NEW c \in Conns, ClientAnswered(c) PROVE BaseInv'
  BY <1>7, ClientAnsweredBase
<1>8. ASSUME NEW p \in Paths, UpstreamAnswered(p) PROVE BaseInv'
  BY <1>8, UpstreamAnsweredBase
<1>9. CASE UNCHANGED vars
  BY <1>9 DEF vars, BaseInv, TypeOK, Origins, RunnerHasWork, UpstreamAgrees
<1> QED
  BY <1>1, <1>2, <1>3, <1>4, <1>5, <1>6, <1>7, <1>8, <1>9 DEF Next

(* The invariant of every relay, whatever its clients do: BaseInv holds in *)
(* every state.                                                            *)
THEOREM BaseInvariance == Spec => []BaseInv
  BY InitBase, NextBase, PTL DEF Spec

(* Every variable of the relay keeps its type (lib/message_relay.js and    *)
(* path-handler/path-handler.js).                                          *)
THEOREM TypeCorrect == Spec => []TypeOK
<1>1. BaseInv => TypeOK
  BY DEF BaseInv
<1> QED
  BY <1>1, BaseInvariance, PTL

(* Once nothing is on its way to the endpoint of a path, it holds a        *)
(* subscription exactly for the topics that have listeners: for any number *)
(* of clients subscribing, unsubscribing and closing in any order, any of  *)
(* them on several paths (PathHandler.subscribe, unsubscribe and cleanup). *)
THEOREM EndpointAlwaysAgrees == Spec => []EndpointAgrees
<1>1. BaseInv => EndpointAgrees
  <2> SUFFICES ASSUME BaseInv, NEW p \in Paths, upstream[p] = <<>>, NEW t \in Topics
               PROVE  subscribed[p][t] = (listeners[p][t] # <<>>)
    BY DEF EndpointAgrees
  <2>1. 1 .. Len(<<>>) = {}
    OBVIOUS
  <2>2. NoneOf(upstream[p], t)
    BY <2>1 DEF NoneOf
  <2>3. subscribed[p][t] <=> listeners[p][t] # <<>>
    BY <2>2 DEF BaseInv, UpstreamAgrees
  <2>4. subscribed[p][t] \in BOOLEAN
    BY DEF BaseInv, TypeOK
  <2> QED
    BY <2>3, <2>4
<1> QED
  BY <1>1, BaseInvariance, PTL

-----------------------------------------------------------------------------
(* The second layer: what a client was told, its note and its listener.    *)
(* A leaving client keeps to one path, as cleanup looks at one, and does   *)
(* not unsubscribe; whoever does not leave may do anything.                *)
LeaversKeepOnePath ==
    \A c \in Leavers : OpsOf[c] \subseteq {"sub", "call"} /\ \A p, q \in PathsOf[c] : p = q

None(ls, c) == \A i \in 1 .. Len(ls) : ls[i].from # c

(* The listener l is in the list, once, and nothing else of c's.           *)
One(ls, c, l) ==
    \E i \in 1 .. Len(ls) : /\ ls[i] = l
                            /\ \A j \in 1 .. Len(ls) : ls[j].from = c => j = i

Pend(c) == queue[c] \o inbound[c]
Taken(c) == sent[c] - Len(Pend(c))
Waits(c) == {m \in awaiting : m.from = c}
Told(c) == {m \in replies : m.from = c}

(* What is sent and not yet taken is numbered on from what was taken.      *)
PendingInOrder(c) ==
    /\ Taken(c) \in Nat
    /\ \A i \in 1 .. Len(Pend(c)) : Pend(c)[i].n = Taken(c) + i

(* What was taken waits or is answered, not both.                          *)
TakenOnce(c) ==
    /\ \A m \in Waits(c) \cup Told(c) : m.n <= Taken(c)
    /\ \A m \in Waits(c), k \in Told(c) : m.n # k.n
    /\ \A m, k \in Waits(c) : m.n = k.n => m = k

(* A sub or unsub follows what was told before it was sent, and nothing    *)
(* sent earlier is still under way.                                        *)
ChangesAlone(c) ==
    /\ \A i \in 1 .. Len(Pend(c)) : Pend(c)[i].op \in Changes =>
          /\ i = 1 /\ Waits(c) = {}
          /\ Pend(c)[i].op = "unsub" <=> Subscribed(c, Pend(c)[i].path, Pend(c)[i].topic)
    /\ \A m \in Waits(c) : m.op \in Changes =>
          /\ \A k \in Waits(c) : k.op \in Changes => k = m
          /\ \A k \in Told(c) : k.op \in Changes => k.n < m.n

Waiting(c, op, p, t) == \E m \in Waits(c) : m.op = op /\ m.path = p /\ m.topic = t

ToldMatch(c) ==
    \A p \in Paths, t \in Topics :
        /\ Waiting(c, "sub", p, t) => ~None(listeners[p][t], c)
        /\ Waiting(c, "unsub", p, t) => None(listeners[p][t], c)
        /\ ~Waiting(c, "sub", p, t) /\ ~Waiting(c, "unsub", p, t) =>
              (Subscribed(c, p, t) <=> ~None(listeners[p][t], c))

(* A queued change is forwarded before anything else happens.              *)
QueuedChangesRun(c) ==
    \A i \in 1 .. Len(queue[c]) :
        queue[c][i].op \in Changes => running = c /\ phase[c] = "open"

NotesMatch(c) ==
    \A p \in Paths, t \in Topics :
        /\ phase[c] \in {"open", "closing"} =>
              \/ One(listeners[p][t], c, handlers[c][p][t])
              \/ /\ None(listeners[p][t], c)
                 /\ handlers[c][p][t] = NoMsg \/ Waiting(c, "unsub", p, t)
        /\ phase[c] \in {"new", "closed"} =>
              None(listeners[p][t], c) /\ handlers[c][p][t] = NoMsg

NewIsFresh(c) ==
    phase[c] = "new" =>
        /\ sent[c] = 0 /\ queue[c] = <<>> /\ inbound[c] = <<>>
        /\ Waits(c) = {} /\ Told(c) = {}

LeaversClose(c) == phase[c] \in {"closing", "closed"} => c \in Leavers

NotedAfterFirst(c) ==
    \A p \in Paths, t \in Topics : handlers[c][p][t] # NoMsg => current[c] # NoMsg

OpenInv(c) ==
    phase[c] = "open" =>
        PendingInOrder(c) /\ TakenOnce(c) /\ ChangesAlone(c) /\ ToldMatch(c)

ClientInv(c) ==
    /\ OpenInv(c)
    /\ QueuedChangesRun(c)
    /\ NotesMatch(c)
    /\ NewIsFresh(c)
    /\ LeaversClose(c)
    /\ NotedAfterFirst(c)

IInv == BaseInv /\ \A c \in Conns : ClientInv(c)

-----------------------------------------------------------------------------
(* One listener joins a list, or a client's one listener is cut out of it. *)

LEMMA JoinKeeps ==
    ASSUME NEW S, NEW ls \in Seq(S), NEW vs \in Seq(S), Len(vs) = Len(ls) + 1,
           \A i \in 1 .. Len(ls) : vs[i] = ls[i], NEW c, vs[Len(ls) + 1].from # c, NEW l
    PROVE  /\ None(vs, c) <=> None(ls, c)
           /\ One(ls, c, l) => One(vs, c, l)
<1>1. /\ \A i \in 1 .. Len(ls) : i \in 1 .. Len(vs) /\ vs[i] = ls[i]
      /\ \A i \in 1 .. Len(vs) : vs[i].from = c => i \in 1 .. Len(ls)
  OBVIOUS
<1>2. None(vs, c) <=> None(ls, c)
  BY <1>1 DEF None
<1>3. ASSUME One(ls, c, l) PROVE One(vs, c, l)
  <2>1. PICK i \in 1 .. Len(ls) : /\ ls[i] = l
                                  /\ \A j \in 1 .. Len(ls) : ls[j].from = c => j = i
    BY <1>3 DEF One
  <2>2. i \in 1 .. Len(vs) /\ vs[i] = l
    BY <1>1, <2>1
  <2>3. \A j \in 1 .. Len(vs) : vs[j].from = c => j = i
    BY <1>1, <2>1
  <2> QED
    BY <2>2, <2>3 DEF One
<1> QED
  BY <1>2, <1>3

LEMMA JoinMakesOne ==
    ASSUME NEW S, NEW ls \in Seq(S), NEW vs \in Seq(S), Len(vs) = Len(ls) + 1,
           \A i \in 1 .. Len(ls) : vs[i] = ls[i], NEW c, None(ls, c),
           NEW m, vs[Len(ls) + 1] = m, m.from = c
    PROVE  One(vs, c, m) /\ ~None(vs, c)
<1> DEFINE n == Len(ls) + 1
<1>1. n \in 1 .. Len(vs) /\ vs[n] = m
  OBVIOUS
<1>2. \A j \in 1 .. Len(vs) : j # n => j \in 1 .. Len(ls)
  OBVIOUS
<1> HIDE DEF n
<1>3. \A j \in 1 .. Len(vs) : vs[j].from = c => j = n
  BY <1>2 DEF None
<1> QED
  BY <1>1, <1>3 DEF One, None

LEMMA CutKeeps ==
    ASSUME NEW S, NEW ls \in Seq(S), NEW c, NEW l, l.from = c, One(ls, c, l)
    PROVE  /\ None(Without(ls, l), c)
           /\ \A d : d # c => (None(Without(ls, l), d) <=> None(ls, d))
           /\ \A d : \A k \in S : d # c /\ k.from = d /\ One(ls, d, k) => One(Without(ls, l), d, k)
<1> DEFINE vs == Without(ls, l)
<1>1. PICK i \in 1 .. Len(ls) : ls[i] = l /\ \A j \in 1 .. Len(ls) : ls[j].from = c => j = i
  BY DEF One
<1>2. /\ vs \in Seq(S) /\ Len(vs) = Len(ls) - 1
      /\ \A j \in 1 .. Len(ls) - 1 : vs[j] = IF j < i THEN ls[j] ELSE ls[j + 1]
  <2>1. \A j \in 1 .. Len(ls) : ls[j] = l => j = i
    BY <1>1
  <2> QED
    BY <1>1, <2>1, WithoutOne
<1> HIDE DEF vs
<1>3. Len(ls) \in Nat /\ i \in Nat /\ 1 <= i /\ i <= Len(ls)
  OBVIOUS
<1>4. ASSUME NEW j \in 1 .. Len(vs)
      PROVE  \E o \in 1 .. Len(ls) : /\ o # i /\ vs[j] = ls[o]
                                     /\ o = IF j < i THEN j ELSE j + 1
  <2>1. CASE j < i
    BY <1>2, <1>3, <2>1
  <2>2. CASE ~(j < i)
    <3>1. j + 1 \in 1 .. Len(ls) /\ j + 1 # i
      BY <1>2, <1>3, <2>2
    <3> QED
      BY <1>2, <2>2, <3>1
  <2> QED
    BY <2>1, <2>2
<1>5. ASSUME NEW o \in 1 .. Len(ls), o # i
      PROVE  \E j \in 1 .. Len(vs) : vs[j] = ls[o] /\ j = IF o < i THEN o ELSE o - 1
  <2>1. CASE o < i
    BY <1>2, <1>3, <2>1
  <2>2. CASE ~(o < i)
    <3>1. o - 1 \in 1 .. Len(vs) /\ ~(o - 1 < i) /\ (o - 1) + 1 = o
      BY <1>2, <1>3, <1>5, <2>2
    <3> QED
      BY <1>2, <2>2, <3>1
  <2> QED
    BY <2>1, <2>2
<1>6. None(vs, c)
  BY <1>1, <1>4 DEF None
<1>7. ASSUME NEW d, d # c PROVE None(vs, d) <=> None(ls, d)
  <2>1. None(ls, d) => None(vs, d)
    BY <1>4 DEF None
  <2>2. None(vs, d) => None(ls, d)
    <3> SUFFICES ASSUME None(vs, d), NEW o \in 1 .. Len(ls) PROVE ls[o].from # d
      BY DEF None
    <3>1. CASE o = i
      BY <1>1, <1>7, <3>1
    <3>2. CASE o # i
      BY <1>5, <3>2 DEF None
    <3> QED
      BY <3>1, <3>2
  <2> QED
    BY <2>1, <2>2
<1>8. ASSUME NEW d, NEW k \in S, d # c, k.from = d, One(ls, d, k) PROVE One(vs, d, k)
  <2>1. PICK o \in 1 .. Len(ls) : ls[o] = k /\ \A j \in 1 .. Len(ls) : ls[j].from = d => j = o
    BY <1>8 DEF One
  <2>2. o # i
    BY <1>1, <1>8, <2>1
  <2>3. PICK j \in 1 .. Len(vs) : vs[j] = ls[o] /\ j = IF o < i THEN o ELSE o - 1
    BY <1>5, <2>2
  <2>4. ASSUME NEW h \in 1 .. Len(vs), vs[h].from = d PROVE h = j
    <3>1. PICK g \in 1 .. Len(ls) : /\ g # i /\ vs[h] = ls[g]
                                    /\ g = IF h < i THEN h ELSE h + 1
      BY <1>4
    <3>2. g = o
      BY <2>1, <2>4, <3>1
    <3>3. h \in Nat
      BY <1>2
    <3> QED
      BY <1>3, <2>2, <2>3, <3>1, <3>2, <3>3
  <2> QED
    BY <2>1, <2>3, <2>4 DEF One
<1> QED
  BY <1>6, <1>7, <1>8 DEF vs

-----------------------------------------------------------------------------
(* What is pending, waits or was told is the client's own.                 *)

LEMMA PendParts ==
    ASSUME BaseInv, NEW c \in Conns
    PROVE  /\ Pend(c) \in Seq(SentBy(c)) /\ Len(Pend(c)) \in Nat
           /\ Len(queue[c]) \in Nat /\ Len(inbound[c]) \in Nat /\ sent[c] \in Nat
           /\ Len(Pend(c)) = Len(queue[c]) + Len(inbound[c])
           /\ \A i \in 1 .. Len(queue[c]) : i \in 1 .. Len(Pend(c)) /\ Pend(c)[i] = queue[c][i]
<1> DEFINE s == queue[c]
           u == inbound[c]
<1>1. s \in Seq(SentBy(c)) /\ u \in Seq(SentBy(c)) /\ sent[c] \in Nat
  BY DEF BaseInv, TypeOK, Origins
<1>2. Pend(c) = s \o u
  BY DEF Pend
<1> HIDE DEF s, u
<1>3. /\ s \o u \in Seq(SentBy(c)) /\ Len(s \o u) = Len(s) + Len(u)
      /\ Len(s) \in Nat /\ Len(u) \in Nat
      /\ \A i \in 1 .. Len(s) + Len(u) :
            (s \o u)[i] = IF i <= Len(s) THEN s[i] ELSE u[i - Len(s)]
  BY <1>1, ConcatElements
<1> DEFINE z == s \o u
<1> HIDE DEF z
<1>4. /\ z \in Seq(SentBy(c)) /\ Len(z) = Len(s) + Len(u)
      /\ \A i \in 1 .. Len(s) + Len(u) : z[i] = IF i <= Len(s) THEN s[i] ELSE u[i - Len(s)]
  BY <1>3 DEF z
<1>5. \A i \in 1 .. Len(s) : i \in 1 .. Len(z) /\ z[i] = s[i]
  BY <1>3, <1>4
<1>6. Len(z) \in Nat /\ Pend(c) = z
  BY <1>2, <1>3, <1>4 DEF z
<1> QED
  BY <1>1, <1>3, <1>4, <1>5, <1>6 DEF s, u

LEMMA OwnParts ==
    ASSUME BaseInv, NEW c \in Conns, NEW m \in Waits(c) \cup Told(c)
    PROVE  /\ m \in SentBy(c) /\ m \in Msgs /\ m.from = c
           /\ m.op \in Requests /\ m.op \in OpsOf[c]
           /\ m.path \in Paths /\ m.path \in PathsOf[c] /\ m.topic \in Topics
           /\ m.n \in Nat \ {0}
<1>1. m \in awaiting \cup replies /\ m.from = c
  BY DEF Waits, Told
<1>2. m \in SentBy(c) /\ m.op \in Requests
  BY <1>1 DEF BaseInv, Origins
<1>3. m \in Msgs
  BY <1>2 DEF SentBy
<1>4. m.n \in Nat \ {0}
  BY <1>3, NumbersArePositive DEF Msgs
<1> QED
  BY <1>1, <1>2, <1>3, <1>4, MessageParts

(* What a client was told changes only with its own answers.               *)
LEMMA SubscribedKept ==
    ASSUME NEW c \in Conns, Told(c)' = Told(c), NEW p, NEW t
    PROVE  Subscribed(c, p, t)' <=> Subscribed(c, p, t)
<1>1. Asked(c, p, t) = {m \in Told(c) : m.path = p /\ m.topic = t /\ m.op \in {"sub", "unsub"}}
  BY DEF Asked, Told
<1>2. Asked(c, p, t)' = {m \in Told(c)' : m.path = p /\ m.topic = t /\ m.op \in {"sub", "unsub"}}
  BY DEF Asked, Told
<1> QED
  BY <1>1, <1>2 DEF Subscribed

LEMMA CallAnswer ==
    ASSUME NEW c \in Conns, NEW m, m.op = "call", Told(c)' = Told(c) \cup {m}, NEW p, NEW t
    PROVE  Subscribed(c, p, t)' <=> Subscribed(c, p, t)
<1>1. Asked(c, p, t) = {k \in Told(c) : k.path = p /\ k.topic = t /\ k.op \in {"sub", "unsub"}}
  BY DEF Asked, Told
<1>2. Asked(c, p, t)' = {k \in Told(c)' : k.path = p /\ k.topic = t /\ k.op \in {"sub", "unsub"}}
  BY DEF Asked, Told
<1>3. Asked(c, p, t)' = Asked(c, p, t)
  BY <1>1, <1>2
<1> QED
  BY <1>3 DEF Subscribed

(* The answer to the last sub or unsub decides for its path and topic.     *)
LEMMA ChangeAnswer ==
    ASSUME NEW c \in Conns, NEW m, m.op \in Changes, m.n \in Nat,
           Told(c)' = Told(c) \cup {m},
           \A k \in Told(c) : k.op \in Changes => k.n \in Nat /\ k.n < m.n,
           NEW p, NEW t
    PROVE  /\ m.path = p /\ m.topic = t => (Subscribed(c, p, t)' <=> m.op = "sub")
           /\ ~(m.path = p /\ m.topic = t) => (Subscribed(c, p, t)' <=> Subscribed(c, p, t))
<1>1. Asked(c, p, t) = {k \in Told(c) : k.path = p /\ k.topic = t /\ k.op \in Changes}
  BY DEF Asked, Told, Changes
<1>2. Asked(c, p, t)' = {k \in Told(c)' : k.path = p /\ k.topic = t /\ k.op \in Changes}
  BY DEF Asked, Told, Changes
<1>3. ASSUME ~(m.path = p /\ m.topic = t) PROVE Subscribed(c, p, t)' <=> Subscribed(c, p, t)
  <2>1. Asked(c, p, t)' = Asked(c, p, t)
    BY <1>1, <1>2, <1>3
  <2> QED
    BY <2>1 DEF Subscribed
<1>4. ASSUME m.path = p, m.topic = t PROVE Subscribed(c, p, t)' <=> m.op = "sub"
  <2>1. m \in Asked(c, p, t)' /\ \A k \in Asked(c, p, t)' : k = m \/ (k.n \in Nat /\ k.n < m.n)
    BY <1>1, <1>2, <1>4
  <2>2. ASSUME m.op = "sub" PROVE Subscribed(c, p, t)'
    BY <2>1, <2>2 DEF Subscribed
  <2>3. ASSUME Subscribed(c, p, t)' PROVE m.op = "sub"
    <3>1. PICK k \in Asked(c, p, t)' : k.op = "sub" /\ \A j \in Asked(c, p, t)' : j.n <= k.n
      BY <2>3 DEF Subscribed
    <3>2. m.n <= k.n
      BY <2>1, <3>1
    <3>3. k = m
      BY <2>1, <3>2
    <3> QED
      BY <3>1, <3>3
  <2> QED
    BY <2>2, <2>3
<1> QED
  BY <1>3, <1>4

-----------------------------------------------------------------------------
(* A step of others, as a client sees it.                                  *)
ListsKept(d) ==
    \A p \in Paths, t \in Topics :
        /\ None(listeners'[p][t], d) <=> None(listeners[p][t], d)
        /\ One(listeners[p][t], d, handlers[d][p][t]) =>
              One(listeners'[p][t], d, handlers[d][p][t])

Unmoved(d) ==
    /\ phase'[d] = phase[d] /\ sent'[d] = sent[d]
    /\ queue'[d] = queue[d] /\ inbound'[d] = inbound[d] /\ current'[d] = current[d]
    /\ \A p \in Paths, t \in Topics : handlers'[d][p][t] = handlers[d][p][t]
    /\ Waits(d)' = Waits(d) /\ Told(d)' = Told(d)
    /\ running = d => running' = d

LEMMA OthersKept ==
    ASSUME NEW d \in Conns, ClientInv(d), Unmoved(d), ListsKept(d)
    PROVE  ClientInv(d)'
<1> USE DEF ClientInv
<1>1. Pend(d)' = Pend(d) /\ Taken(d)' = Taken(d)
  BY DEF Unmoved, Pend, Taken
<1>2. \A p, t : Subscribed(d, p, t)' <=> Subscribed(d, p, t)
  BY SubscribedKept DEF Unmoved
<1>3. \A op, p, t : Waiting(d, op, p, t)' <=> Waiting(d, op, p, t)
  BY DEF Unmoved, Waiting
<1>4. OpenInv(d)'
  <2> SUFFICES ASSUME phase'[d] = "open"
               PROVE  (PendingInOrder(d) /\ TakenOnce(d) /\ ChangesAlone(d) /\ ToldMatch(d))'
    BY DEF OpenInv
  <2>1. PendingInOrder(d) /\ TakenOnce(d) /\ ChangesAlone(d) /\ ToldMatch(d)
    BY DEF OpenInv, Unmoved
  <2>2. PendingInOrder(d)'
    BY <1>1, <2>1 DEF PendingInOrder
  <2>3. TakenOnce(d)'
    BY <1>1, <2>1 DEF TakenOnce, Unmoved
  <2>4. ChangesAlone(d)'
    <3>1. Waits(d)' = Waits(d) /\ Told(d)' = Told(d)
      BY DEF Unmoved
    <3> QED
      BY <1>1, <1>2, <2>1, <3>1 DEF ChangesAlone
  <2>5. ToldMatch(d)'
    BY <1>2, <1>3, <2>1 DEF ToldMatch, ListsKept
  <2> QED
    BY <2>2, <2>3, <2>4, <2>5
<1>5. QueuedChangesRun(d)'
  BY DEF QueuedChangesRun, Unmoved
<1>6. NotesMatch(d)'
  BY <1>3 DEF NotesMatch, Unmoved, ListsKept
<1>7. NewIsFresh(d)'
  BY DEF NewIsFresh, Unmoved
<1>8. LeaversClose(d)'
  BY DEF LeaversClose, Unmoved
<1>9. NotedAfterFirst(d)'
  BY DEF NotedAfterFirst, Unmoved
<1> QED
  BY <1>4, <1>5, <1>6, <1>7, <1>8, <1>9

LEMMA SameLists ==
    ASSUME listeners' = listeners, NEW d \in Conns
    PROVE  ListsKept(d)
  BY DEF ListsKept

-----------------------------------------------------------------------------
(* Each step, for the client that takes it and for the others.             *)

LEMMA SendParts ==
    ASSUME BaseInv, NEW c \in Conns, ClientSend(c)
    PROVE  \E m \in SentBy(c) :
              /\ m.n = sent[c] + 1
              /\ m.op \in Changes =>
                    /\ \A n \in 1 .. sent[c] : Answered(c, n)
                    /\ m.op = "unsub" <=> Subscribed(c, m.path, m.topic)
              /\ inbound' = [inbound EXCEPT ![c] = Append(@, m)]
<1>1. PICK op \in OpsOf[c], p \in PathsOf[c], t \in Topics :
         /\ Orderly(c, op, p, t)
         /\ inbound' = [inbound EXCEPT ![c] = Append(@,
                [op |-> op, topic |-> t, from |-> c, n |-> sent[c] + 1,
                 path |-> IF op \in {"bad", "pathless"} THEN NoPath ELSE p])]
  BY DEF ClientSend
<1> DEFINE m == [op |-> op, topic |-> t, from |-> c, n |-> sent[c] + 1,
                 path |-> IF op \in {"bad", "pathless"} THEN NoPath ELSE p]
<1>2. sent[c] < SendsOf[c] /\ sent[c] \in Nat /\ SendsOf[c] \in Nat
  BY RelayAssumption DEF ClientSend, BaseInv, TypeOK
<1>3. m \in SentBy(c)
  <2>1. sent[c] + 1 \in Numbers
    <3>1. sent[c] + 1 \in 1 .. SendsOf[c]
      BY <1>2
    <3> QED
      BY <3>1 DEF Numbers
  <2>2. op \in Ops /\ p \in Paths
    BY RelayAssumption
  <2>3. (op \in Requests) <=> ~(op \in {"bad", "pathless"})
    BY <2>2 DEF Ops, Requests
  <2> QED
    BY <2>1, <2>2, <2>3 DEF SentBy, Msgs
<1>4. m.op \in Changes =>
         /\ \A n \in 1 .. sent[c] : Answered(c, n)
         /\ m.op = "unsub" <=> Subscribed(c, m.path, m.topic)
  <2> SUFFICES ASSUME op \in Changes
               PROVE  /\ \A n \in 1 .. sent[c] : Answered(c, n)
                      /\ op = "unsub" <=> Subscribed(c, p, t)
    BY DEF Changes
  <2>1. Subscribed(c, p, t) \in BOOLEAN
    BY DEF Subscribed
  <2>2. /\ \A n \in 1 .. sent[c] : Answered(c, n)
        /\ (op = "unsub") = Subscribed(c, p, t)
    BY <1>1 DEF Orderly, Changes
  <2> QED
    BY <2>1, <2>2
<1>5. m.n = sent[c] + 1 /\ inbound' = [inbound EXCEPT ![c] = Append(@, m)]
  BY <1>1
<1> HIDE DEF m
<1> QED
  BY <1>3, <1>4, <1>5

(* A client whose messages are all answered has none pending or waiting.   *)
LEMMA SettledHasNone ==
    ASSUME BaseInv, NEW c \in Conns, PendingInOrder(c), TakenOnce(c),
           \A n \in 1 .. sent[c] : Answered(c, n)
    PROVE  Len(Pend(c)) = 0 /\ Waits(c) = {}
<1>1. /\ Len(Pend(c)) \in Nat /\ sent[c] \in Nat /\ Taken(c) \in Nat
      /\ Taken(c) = sent[c] - Len(Pend(c))
  BY PendParts DEF PendingInOrder, Taken
<1>2. \A n \in 1 .. sent[c] : \E k \in Told(c) : k.n = n /\ k.n <= Taken(c)
  BY DEF Answered, Told, TakenOnce
<1>3. Len(Pend(c)) = 0
  <2> SUFFICES ASSUME Len(Pend(c)) # 0 PROVE FALSE
    OBVIOUS
  <2>1. Taken(c) + 1 \in 1 .. sent[c] /\ ~(Taken(c) + 1 <= Taken(c))
    BY <1>1
  <2> QED
    BY <1>2, <2>1
<1>4. ASSUME NEW m \in Waits(c) PROVE FALSE
  <2>1. m.n \in Nat \ {0} /\ m.n <= Taken(c)
    BY OwnParts DEF TakenOnce
  <2>2. m.n \in 1 .. sent[c]
    BY <1>1, <2>1
  <2>3. PICK k \in Told(c) : k.n = m.n
    BY <1>2, <2>2
  <2> QED
    BY <2>3 DEF TakenOnce
<1> QED
  BY <1>3, <1>4

LEMMA ClientSendClients ==
    ASSUME IInv, NEW c \in Conns, ClientSend(c), NEW d \in Conns
    PROVE  ClientInv(d)'
<1> USE DEF IInv
<1>1. PICK m \in SentBy(c) :
         /\ m.n = sent[c] + 1
         /\ m.op \in Changes =>
               /\ \A n \in 1 .. sent[c] : Answered(c, n)
               /\ m.op = "unsub" <=> Subscribed(c, m.path, m.topic)
         /\ inbound' = [inbound EXCEPT ![c] = Append(@, m)]
  BY SendParts
<1>2. /\ phase[c] = "open" /\ sent' = [sent EXCEPT ![c] = @ + 1]
      /\ UNCHANGED <<phase, queue, current, running, awaiting, handlers, listeners, upstream,
                     subscribed, replies>>
  BY DEF ClientSend
<1>3. Waits(d)' = Waits(d) /\ Told(d)' = Told(d) /\ ListsKept(d)
  BY <1>2, SameLists DEF Waits, Told
<1>4. CASE d # c
  <2>1. inbound'[d] = inbound[d] /\ sent'[d] = sent[d]
    BY <1>1, <1>2, <1>4 DEF BaseInv, TypeOK
  <2>2. Unmoved(d)
    BY <1>2, <1>3, <2>1 DEF Unmoved
  <2> QED
    BY <1>3, <2>2, OthersKept
<1>5. CASE d = c
  <2>1. ClientInv(c)
    OBVIOUS
  <2>2. PendingInOrder(c) /\ TakenOnce(c) /\ ChangesAlone(c) /\ ToldMatch(c)
    BY <1>2, <2>1 DEF ClientInv, OpenInv
  <2>3. /\ Len(Pend(c)) \in Nat /\ sent[c] \in Nat /\ sent'[c] = sent[c] + 1
        /\ Len(Pend(c)') = Len(Pend(c)) + 1
        /\ \A i \in 1 .. Len(Pend(c)) : Pend(c)'[i] = Pend(c)[i]
        /\ Pend(c)'[Len(Pend(c)) + 1] = m
    <3> DEFINE s == queue[c]
               u == inbound[c]
               v == Append(u, m)
    <3>1. s \in Seq(SentBy(c)) /\ u \in Seq(SentBy(c)) /\ sent[c] \in Nat /\ sent'[c] = sent[c] + 1
      BY <1>2 DEF BaseInv, TypeOK, Origins
    <3>2. Pend(c) = s \o u /\ Pend(c)' = s \o v
      BY <1>1, <1>2 DEF Pend, BaseInv, TypeOK
    <3> HIDE DEF u
    <3>3. /\ v \in Seq(SentBy(c)) /\ Len(v) = Len(u) + 1 /\ v[Len(u) + 1] = m
          /\ \A i \in 1 .. Len(u) : v[i] = u[i]
      BY <3>1
    <3> HIDE DEF s, v
    <3> DEFINE a == s \o u
               b == s \o v
    <3>4. /\ Len(a) = Len(s) + Len(u) /\ Len(s) \in Nat /\ Len(u) \in Nat
          /\ \A i \in 1 .. Len(s) + Len(u) : a[i] = IF i <= Len(s) THEN s[i] ELSE u[i - Len(s)]
      BY <3>1, ConcatElements
    <3>5. /\ Len(b) = Len(s) + Len(v)
          /\ \A i \in 1 .. Len(s) + Len(v) : b[i] = IF i <= Len(s) THEN s[i] ELSE v[i - Len(s)]
      BY <3>1, <3>3, ConcatElements
    <3> HIDE DEF a, b
    <3>6. Len(b) = Len(a) + 1 /\ Len(a) \in Nat
      BY <3>3, <3>4, <3>5
    <3>7. ASSUME NEW i \in 1 .. Len(a) PROVE b[i] = a[i]
      <4>1. i \in 1 .. Len(s) + Len(u) /\ i \in 1 .. Len(s) + Len(v)
        BY <3>3, <3>4
      <4>2. CASE i <= Len(s)
        BY <3>4, <3>5, <4>1, <4>2
      <4>3. CASE ~(i <= Len(s))
        <5>1. i - Len(s) \in 1 .. Len(u)
          BY <3>4, <4>1, <4>3
        <5> QED
          BY <3>3, <3>4, <3>5, <4>1, <4>3, <5>1
      <4> QED
        BY <4>2, <4>3
    <3>8. b[Len(a) + 1] = m
      <4>1. /\ Len(a) + 1 \in 1 .. Len(s) + Len(v) /\ ~(Len(a) + 1 <= Len(s))
            /\ (Len(a) + 1) - Len(s) = Len(u) + 1
        BY <3>3, <3>4
      <4> QED
        BY <3>3, <3>5, <4>1
    <3>9. Pend(c) = a /\ Pend(c)' = b
      BY <3>2 DEF a, b
    <3> QED
      BY <3>1, <3>6, <3>7, <3>8, <3>9
  <2> DEFINE n == Len(Pend(c))
  <2>4. /\ n \in Nat /\ Taken(c)' = Taken(c) /\ Taken(c) \in Nat /\ Taken(c) + (n + 1) = m.n
        /\ \A i \in 1 .. Len(Pend(c)') : i \in 1 .. n \/ i = n + 1
    BY <1>1, <2>2, <2>3 DEF Taken, PendingInOrder
  <2>5. PendingInOrder(c)'
    <3> SUFFICES ASSUME NEW i \in 1 .. Len(Pend(c)') PROVE Pend(c)'[i].n = Taken(c) + i
      BY <2>4 DEF PendingInOrder
    <3>1. CASE i \in 1 .. n
      BY <2>2, <2>3, <3>1 DEF PendingInOrder
    <3>2. CASE i = n + 1
      BY <2>3, <2>4, <3>2
    <3> QED
      BY <2>4, <3>1, <3>2
  <2>6. TakenOnce(c)'
    BY <1>3, <1>5, <2>2, <2>4 DEF TakenOnce
  <2>7. \A p, t : Subscribed(c, p, t)' <=> Subscribed(c, p, t)
    BY <1>3, <1>5, SubscribedKept
  <2>8. ChangesAlone(c)'
    <3>1. ASSUME NEW i \in 1 .. Len(Pend(c)'), Pend(c)'[i].op \in Changes
          PROVE  /\ i = 1 /\ Waits(c) = {}
                 /\ Pend(c)'[i].op = "unsub" <=> Subscribed(c, Pend(c)'[i].path, Pend(c)'[i].topic)
      <4>1. CASE i \in 1 .. n
        BY <2>2, <2>3, <3>1, <4>1 DEF ChangesAlone
      <4>2. CASE i = n + 1
        <5>1. Pend(c)'[i] = m /\ m.op \in Changes
          BY <2>3, <3>1, <4>2
        <5>2. n = 0 /\ Waits(c) = {}
          BY <1>1, <2>2, <5>1, SettledHasNone
        <5> QED
          BY <1>1, <4>2, <5>1, <5>2
      <4> QED
        BY <2>4, <4>1, <4>2
    <3>2. Waits(c)' = Waits(c) /\ Told(c)' = Told(c)
      BY <1>3, <1>5
    <3> QED
      BY <2>2, <2>7, <3>1, <3>2 DEF ChangesAlone
  <2>9. ToldMatch(c)'
    BY <1>2, <1>3, <1>5, <2>2, <2>7 DEF ToldMatch, Waiting
  <2>10. QueuedChangesRun(c)' /\ LeaversClose(c)' /\ NotedAfterFirst(c)' /\ NewIsFresh(c)'
    BY <1>2, <2>1 DEF ClientInv, QueuedChangesRun, LeaversClose, NotedAfterFirst, NewIsFresh
  <2>11. NotesMatch(c)'
    BY <1>2, <1>3, <1>5, <2>1 DEF ClientInv, NotesMatch, Waiting
  <2> QED
    BY <1>5, <2>5, <2>6, <2>8, <2>9, <2>10, <2>11 DEF ClientInv, OpenInv
<1> QED
  BY <1>4, <1>5

LEMMA ClientLeaveClients ==
    ASSUME IInv, NEW c \in Conns, ClientLeave(c), NEW d \in Conns
    PROVE  ClientInv(d)'
<1> USE DEF IInv
<1>1. /\ phase[c] = "open" /\ phase' = [phase EXCEPT ![c] = "closing"]
      /\ c \in Leavers /\ running = NoConn
      /\ inbound' = [inbound EXCEPT ![c] = <<>>]
      /\ UNCHANGED <<sent, queue, current, running, awaiting, handlers, listeners, upstream,
                     subscribed, replies>>
  BY DEF ClientLeave
<1>2. Waits(d)' = Waits(d) /\ Told(d)' = Told(d) /\ ListsKept(d)
  BY <1>1, SameLists DEF Waits, Told
<1>3. CASE d # c
  <2>1. inbound'[d] = inbound[d] /\ phase'[d] = phase[d]
    BY <1>1, <1>3 DEF BaseInv, TypeOK
  <2>2. Unmoved(d)
    BY <1>1, <1>2, <2>1 DEF Unmoved
  <2> QED
    BY <1>2, <2>2, OthersKept
<1>4. CASE d = c
  <2>1. ClientInv(c) /\ phase'[c] = "closing" /\ running # c
    BY <1>1, RelayAssumption DEF BaseInv, TypeOK
  <2>2. QueuedChangesRun(c)' /\ LeaversClose(c)' /\ NotedAfterFirst(c)' /\ NewIsFresh(c)' /\ OpenInv(c)'
    BY <1>1, <2>1 DEF ClientInv, QueuedChangesRun, LeaversClose, NotedAfterFirst, NewIsFresh, OpenInv
  <2>3. NotesMatch(c)'
    BY <1>1, <1>2, <1>4, <2>1 DEF ClientInv, NotesMatch, Waiting
  <2> QED
    BY <1>4, <2>2, <2>3 DEF ClientInv
<1> QED
  BY <1>3, <1>4

LEMMA AddConnectionClients ==
    ASSUME IInv, NEW c \in Conns, AddConnection(c), NEW d \in Conns
    PROVE  ClientInv(d)'
<1> USE DEF IInv
<1>1. /\ phase[c] = "new" /\ phase' = [phase EXCEPT ![c] = "open"]
      /\ UNCHANGED <<sent, inbound, queue, current, running, awaiting, handlers, listeners,
                     upstream, subscribed, replies>>
  BY DEF AddConnection
<1>2. Waits(d)' = Waits(d) /\ Told(d)' = Told(d) /\ ListsKept(d)
  BY <1>1, SameLists DEF Waits, Told
<1>3. CASE d # c
  <2>1. phase'[d] = phase[d]
    BY <1>1, <1>3 DEF BaseInv, TypeOK
  <2>2. Unmoved(d)
    BY <1>1, <1>2, <2>1 DEF Unmoved
  <2> QED
    BY <1>2, <2>2, OthersKept
<1>4. CASE d = c
  <2>1. ClientInv(c) /\ phase'[c] = "open"
    BY <1>1 DEF BaseInv, TypeOK
  <2>2. sent[c] = 0 /\ queue[c] = <<>> /\ inbound[c] = <<>> /\ Waits(c) = {} /\ Told(c) = {}
    BY <1>1, <2>1 DEF ClientInv, NewIsFresh
  <2>3. Len(Pend(c)) = 0 /\ Taken(c) = 0
    <3>1. Len(queue[c]) = 0 /\ Len(inbound[c]) = 0
      BY <2>2
    <3>2. Len(Pend(c)) = Len(queue[c]) + Len(inbound[c])
      BY PendParts
    <3> QED
      BY <2>2, <3>1, <3>2 DEF Taken
  <2>4. Pend(c)' = Pend(c) /\ Taken(c)' = Taken(c) /\ Waits(c)' = {} /\ Told(c)' = {}
    BY <1>1, <1>2, <1>4, <2>2 DEF Pend, Taken
  <2>5. PendingInOrder(c)' /\ TakenOnce(c)' /\ ChangesAlone(c)'
    BY <2>3, <2>4 DEF PendingInOrder, TakenOnce, ChangesAlone
  <2>6. \A p \in Paths, t \in Topics :
           None(listeners[p][t], c) /\ handlers[c][p][t] = NoMsg
    BY <1>1, <2>1 DEF ClientInv, NotesMatch
  <2>7. ToldMatch(c)'
    <3> SUFFICES ASSUME NEW p \in Paths, NEW t \in Topics
                 PROVE  /\ ~Waiting(c, "sub", p, t)'
                        /\ ~Subscribed(c, p, t)' /\ None(listeners'[p][t], c)
      BY DEF ToldMatch
    <3>1. Asked(c, p, t)' = {}
      BY <2>4 DEF Asked, Told
    <3> QED
      BY <1>1, <2>4, <2>6, <3>1 DEF Waiting, Subscribed
  <2>8. QueuedChangesRun(c)' /\ LeaversClose(c)' /\ NotedAfterFirst(c)' /\ NewIsFresh(c)'
    BY <1>1, <2>1, <2>2 DEF ClientInv, QueuedChangesRun, LeaversClose, NotedAfterFirst, NewIsFresh
  <2>9. NotesMatch(c)'
    BY <1>1, <2>1, <2>6 DEF NotesMatch
  <2> QED
    BY <1>4, <2>5, <2>7, <2>8, <2>9 DEF ClientInv, OpenInv
<1> QED
  BY <1>3, <1>4

LEMMA DataClients ==
    ASSUME IInv, NEW c \in Conns, Data(c), NEW d \in Conns
    PROVE  ClientInv(d)'
<1> USE DEF IInv
<1>1. PICK q, rest \in Seq(SentBy(c)) :
         /\ q \o rest = queue[c] \o inbound[c]
         /\ inbound' = [inbound EXCEPT ![c] = rest]
         /\ queue' = [queue EXCEPT ![c] = q]
         /\ running' = IF q = <<>> THEN NoConn ELSE c
  BY DataParts
<1>2. /\ running = NoConn /\ phase[c] = "open"
      /\ UNCHANGED <<phase, sent, current, awaiting, handlers, listeners, upstream, subscribed,
                     replies>>
  BY DEF Data
<1>3. Waits(d)' = Waits(d) /\ Told(d)' = Told(d) /\ ListsKept(d)
  BY <1>2, SameLists DEF Waits, Told
<1>4. CASE d # c
  <2>1. inbound'[d] = inbound[d] /\ queue'[d] = queue[d] /\ running # d
    BY <1>1, <1>2, <1>4, RelayAssumption DEF BaseInv, TypeOK
  <2>2. Unmoved(d)
    BY <1>2, <1>3, <2>1 DEF Unmoved
  <2> QED
    BY <1>3, <2>2, OthersKept
<1>5. CASE d = c
  <2>1. ClientInv(c) /\ inbound'[c] = rest /\ queue'[c] = q
    BY <1>1 DEF BaseInv, TypeOK
  <2>2. PendingInOrder(c) /\ TakenOnce(c) /\ ChangesAlone(c) /\ ToldMatch(c)
    BY <1>2, <2>1 DEF ClientInv, OpenInv
  <2>3. Pend(c)' = Pend(c) /\ Taken(c)' = Taken(c)
    BY <1>1, <1>2, <2>1 DEF Pend, Taken
  <2>4. \A p, t : Subscribed(c, p, t)' <=> Subscribed(c, p, t)
    BY <1>3, <1>5, SubscribedKept
  <2>5. PendingInOrder(c)' /\ TakenOnce(c)'
    BY <1>3, <1>5, <2>2, <2>3 DEF PendingInOrder, TakenOnce
  <2>6. ChangesAlone(c)'
    <3>1. Waits(c)' = Waits(c) /\ Told(c)' = Told(c)
      BY <1>3, <1>5
    <3> QED
      BY <2>2, <2>3, <2>4, <3>1 DEF ChangesAlone
  <2>7. ToldMatch(c)'
    BY <1>2, <1>3, <1>5, <2>2, <2>4 DEF ToldMatch, Waiting
  <2>8. QueuedChangesRun(c)'
    <3>1. ASSUME NEW i \in 1 .. Len(q) PROVE q # <<>>
      OBVIOUS
    <3> QED
      BY <1>1, <1>2, <2>1, <3>1 DEF QueuedChangesRun
  <2>9. LeaversClose(c)' /\ NotedAfterFirst(c)' /\ NewIsFresh(c)'
    BY <1>2, <2>1 DEF ClientInv, LeaversClose, NotedAfterFirst, NewIsFresh
  <2>10. NotesMatch(c)'
    BY <1>2, <1>3, <1>5, <2>1 DEF ClientInv, NotesMatch, Waiting
  <2> QED
    BY <1>5, <2>5, <2>6, <2>7, <2>8, <2>9, <2>10 DEF ClientInv, OpenInv
<1> QED
  BY <1>4, <1>5

LEMMA TailConcat ==
    ASSUME NEW S, NEW s \in Seq(S), NEW u \in Seq(S), s # <<>>
    PROVE  /\ Len(Tail(s) \o u) + 1 = Len(s \o u)
           /\ Len(s \o u) \in Nat /\ Len(Tail(s) \o u) \in Nat
           /\ 1 \in 1 .. Len(s \o u) /\ (s \o u)[1] = Head(s)
           /\ \A i \in 1 .. Len(Tail(s) \o u) :
                 i + 1 \in 1 .. Len(s \o u) /\ (Tail(s) \o u)[i] = (s \o u)[i + 1]
<1> DEFINE v == Tail(s)
<1>1. /\ v \in Seq(S) /\ Len(s) \in Nat \ {0} /\ Len(v) = Len(s) - 1 /\ Head(s) = s[1]
      /\ \A i \in 1 .. Len(s) - 1 : v[i] = s[i + 1]
  OBVIOUS
<1> HIDE DEF v
<1> DEFINE a == s \o u
           b == v \o u
<1>2. /\ Len(a) = Len(s) + Len(u) /\ Len(u) \in Nat
      /\ \A i \in 1 .. Len(s) + Len(u) : a[i] = IF i <= Len(s) THEN s[i] ELSE u[i - Len(s)]
  BY ConcatElements
<1>3. /\ Len(b) = Len(v) + Len(u)
      /\ \A i \in 1 .. Len(v) + Len(u) : b[i] = IF i <= Len(v) THEN v[i] ELSE u[i - Len(v)]
  BY <1>1, ConcatElements
<1> HIDE DEF a, b
<1>4. Len(b) + 1 = Len(a) /\ Len(a) \in Nat /\ Len(b) \in Nat
  BY <1>1, <1>2, <1>3
<1>5. 1 \in 1 .. Len(a) /\ a[1] = Head(s)
  BY <1>1, <1>2
<1>6. ASSUME NEW i \in 1 .. Len(b) PROVE i + 1 \in 1 .. Len(a) /\ b[i] = a[i + 1]
  <2>1. i + 1 \in 1 .. Len(s) + Len(u) /\ i \in 1 .. Len(v) + Len(u)
    BY <1>1, <1>2, <1>3
  <2>2. CASE i <= Len(v)
    <3>1. i \in 1 .. Len(s) - 1 /\ i + 1 <= Len(s)
      BY <1>1, <2>1, <2>2
    <3> QED
      BY <1>1, <1>2, <1>3, <2>1, <2>2, <3>1
  <2>3. CASE ~(i <= Len(v))
    <3>1. ~(i + 1 <= Len(s)) /\ (i + 1) - Len(s) = i - Len(v)
      BY <1>1, <2>1, <2>3
    <3> QED
      BY <1>2, <1>3, <2>1, <2>3, <3>1
  <2> QED
    BY <2>2, <2>3
<1> QED
  BY <1>4, <1>5, <1>6 DEF a, b, v

(* The message taken is the first pending: no change is pending after it,  *)
(* and everything else of its client was taken before.                     *)
LEMMA HeadIsTaken ==
    ASSUME IInv, NEW c \in Conns, Forward(c)
    PROVE  LET m == Head(queue[c])
           IN  /\ QueuedChangesRun(c)'
               /\ m.op \in Changes => phase[c] = "open"
               /\ phase[c] = "open" =>
                     /\ PendingInOrder(c)' /\ Taken(c) \in Nat
                     /\ Taken(c)' = Taken(c) + 1 /\ m.n = Taken(c) + 1
                     /\ \A i \in 1 .. Len(Pend(c)') : Pend(c)'[i].op \notin Changes
                     /\ m.op \in Changes =>
                           /\ Waits(c) = {}
                           /\ m.op = "unsub" <=> Subscribed(c, m.path, m.topic)
                     /\ \A k \in Waits(c) \cup Told(c) : k.n \in Nat /\ k.n <= Taken(c)
<1> DEFINE m == Head(queue[c])
           q == Tail(queue[c])
           s == queue[c]
           u == inbound[c]
<1>1. /\ s \in Seq(SentBy(c)) /\ s # <<>> /\ u \in Seq(SentBy(c))
      /\ queue' = [queue EXCEPT ![c] = q]
      /\ UNCHANGED <<phase, sent, inbound, subscribed>>
  BY ForwardParts DEF IInv, BaseInv, Origins
<1>2. queue'[c] = q /\ Pend(c) = s \o u /\ Pend(c)' = Tail(s) \o u
  BY <1>1 DEF IInv, BaseInv, TypeOK, Pend
<1>3. ClientInv(c) /\ BaseInv
  BY DEF IInv
<1> HIDE DEF s, u
<1>4. /\ Len(Pend(c)') + 1 = Len(Pend(c)) /\ Len(Pend(c)) \in Nat /\ Len(Pend(c)') \in Nat
      /\ 1 \in 1 .. Len(Pend(c)) /\ Pend(c)[1] = Head(s)
      /\ \A i \in 1 .. Len(Pend(c)') : i + 1 \in 1 .. Len(Pend(c)) /\ Pend(c)'[i] = Pend(c)[i + 1]
  BY <1>1, <1>2, TailConcat
<1>5. /\ 1 \in 1 .. Len(s) /\ Head(s) = s[1] /\ q = Tail(s)
      /\ \A i \in 1 .. Len(Tail(s)) : i + 1 \in 1 .. Len(s) /\ Tail(s)[i] = s[i + 1] /\ i + 1 # 1
  BY <1>1 DEF s
<1>6. /\ m = Head(s) /\ \A i \in 1 .. Len(s) : i \in 1 .. Len(Pend(c)) /\ Pend(c)[i] = s[i]
      /\ \A i \in 1 .. Len(s) : s[i].op \in Changes => phase[c] = "open"
  BY <1>3, PendParts DEF s, ClientInv, QueuedChangesRun
<1> HIDE DEF m, q
<1>7. m.op \in Changes => phase[c] = "open"
  BY <1>5, <1>6
<1>8. ASSUME phase[c] = "open"
      PROVE  PendingInOrder(c) /\ TakenOnce(c) /\ ChangesAlone(c)
  BY <1>3, <1>8 DEF ClientInv, OpenInv
<1>9. QueuedChangesRun(c)'
  <2> SUFFICES ASSUME NEW i \in 1 .. Len(q), q[i].op \in Changes PROVE FALSE
    BY <1>2 DEF QueuedChangesRun
  <2>1. i + 1 \in 1 .. Len(s) /\ s[i + 1].op \in Changes /\ i + 1 # 1
    BY <1>5
  <2>2. phase[c] = "open"
    BY <1>6, <2>1
  <2>3. ChangesAlone(c) /\ i + 1 \in 1 .. Len(Pend(c)) /\ Pend(c)[i + 1].op \in Changes
    BY <1>6, <1>8, <2>1, <2>2
  <2> QED
    BY <2>1, <2>3 DEF ChangesAlone
<1>10. ASSUME phase[c] = "open"
       PROVE  /\ PendingInOrder(c)' /\ Taken(c) \in Nat
              /\ Taken(c)' = Taken(c) + 1 /\ m.n = Taken(c) + 1
              /\ \A i \in 1 .. Len(Pend(c)') : Pend(c)'[i].op \notin Changes
              /\ m.op \in Changes =>
                    /\ Waits(c) = {}
                    /\ m.op = "unsub" <=> Subscribed(c, m.path, m.topic)
              /\ \A k \in Waits(c) \cup Told(c) : k.n \in Nat /\ k.n <= Taken(c)
  <2>1. PendingInOrder(c) /\ TakenOnce(c) /\ ChangesAlone(c)
    BY <1>8, <1>10
  <2>2. /\ Taken(c) \in Nat /\ sent[c] \in Nat
        /\ Taken(c) = sent[c] - Len(Pend(c)) /\ Taken(c)' = sent[c] - Len(Pend(c)')
    BY <1>1, <1>3, <2>1, PendParts DEF PendingInOrder, Taken
  <2>3. Taken(c)' = Taken(c) + 1
    BY <1>4, <2>2
  <2>4. m.n = Taken(c) + 1
    BY <1>4, <1>6, <2>1 DEF PendingInOrder
  <2>5. PendingInOrder(c)'
    <3>1. ASSUME NEW i \in 1 .. Len(Pend(c)') PROVE Pend(c)'[i].n = Taken(c)' + i
      <4>1. Pend(c)'[i].n = Taken(c) + (i + 1)
        BY <1>4, <2>1 DEF PendingInOrder
      <4> QED
        BY SMTT(30), <2>2, <2>3, <4>1
    <3>2. Taken(c)' \in Nat
      BY <2>2, <2>3
    <3> QED
      BY <3>1, <3>2 DEF PendingInOrder
  <2>6. ASSUME NEW i \in 1 .. Len(Pend(c)') PROVE Pend(c)'[i].op \notin Changes
    <3>1. i + 1 \in 1 .. Len(Pend(c)) /\ Pend(c)'[i] = Pend(c)[i + 1] /\ i + 1 # 1
      BY <1>4
    <3> QED
      BY <2>1, <3>1 DEF ChangesAlone
  <2>7. m.op \in Changes =>
           /\ Waits(c) = {}
           /\ m.op = "unsub" <=> Subscribed(c, m.path, m.topic)
    BY <1>4, <1>6, <2>1 DEF ChangesAlone
  <2>8. \A k \in Waits(c) \cup Told(c) : k.n \in Nat /\ k.n <= Taken(c)
    BY <1>3, <2>1, OwnParts DEF TakenOnce
  <2> QED
    BY <2>2, <2>3, <2>4, <2>5, <2>6, <2>7, <2>8
<1> QED
  BY <1>7, <1>9, <1>10 DEF m

(* The message taken waits, is answered at once, or is given up.           *)
LEMMA TakenJoins ==
    ASSUME IInv, NEW c \in Conns, Forward(c), phase[c] = "open",
           NEW m, m = Head(queue[c]),
           \/ Waits(c)' = Waits(c) /\ Told(c)' = Told(c)
           \/ Waits(c)' = Waits(c) \cup {m} /\ Told(c)' = Told(c)
           \/ Waits(c)' = Waits(c) /\ Told(c)' = Told(c) \cup {m} /\ m.op \in Changes
    PROVE  PendingInOrder(c)' /\ TakenOnce(c)' /\ ChangesAlone(c)'
<1>1. /\ PendingInOrder(c)' /\ Taken(c) \in Nat
      /\ Taken(c)' = Taken(c) + 1 /\ m.n = Taken(c) + 1
      /\ \A i \in 1 .. Len(Pend(c)') : Pend(c)'[i].op \notin Changes
      /\ m.op \in Changes => Waits(c) = {}
      /\ \A k \in Waits(c) \cup Told(c) : k.n \in Nat /\ k.n <= Taken(c)
  BY HeadIsTaken
<1>2. TakenOnce(c) /\ ChangesAlone(c)
  BY DEF IInv, ClientInv, OpenInv
<1>3. \A k \in Waits(c) \cup Told(c) : k.n < m.n /\ k.n # m.n /\ k.n <= Taken(c) + 1
  BY <1>1
<1>4. m.n <= Taken(c) + 1
  BY <1>1
<1>5. CASE Waits(c)' = Waits(c) /\ Told(c)' = Told(c)
  BY <1>1, <1>2, <1>3, <1>5 DEF TakenOnce, ChangesAlone
<1>6. CASE Waits(c)' = Waits(c) \cup {m} /\ Told(c)' = Told(c)
  <2>1. TakenOnce(c)'
    BY <1>1, <1>2, <1>3, <1>4, <1>6 DEF TakenOnce
  <2>2. ASSUME NEW k \in Waits(c)', k.op \in Changes
        PROVE  /\ \A j \in Waits(c)' : j.op \in Changes => j = k
               /\ \A j \in Told(c)' : j.op \in Changes => j.n < k.n
    <3>1. CASE m.op \in Changes
      BY <1>1, <1>3, <1>6, <2>2, <3>1
    <3>2. CASE m.op \notin Changes
      BY <1>2, <1>6, <2>2, <3>2 DEF ChangesAlone
    <3> QED
      BY <3>1, <3>2
  <2> QED
    BY <1>1, <2>1, <2>2 DEF ChangesAlone
<1>7. CASE Waits(c)' = Waits(c) /\ Told(c)' = Told(c) \cup {m} /\ m.op \in Changes
  BY <1>1, <1>2, <1>3, <1>4, <1>7 DEF TakenOnce, ChangesAlone
<1> QED
  BY <1>5, <1>6, <1>7

(* How what waits and what was told follow awaiting and replies.           *)
LEMMA WaitsJoined ==
    ASSUME NEW m, awaiting' = awaiting \cup {m}, NEW d
    PROVE  Waits(d)' = IF m.from = d THEN Waits(d) \cup {m} ELSE Waits(d)
  BY DEF Waits

LEMMA ToldJoined ==
    ASSUME NEW m, NEW b \in BOOLEAN, replies' = IF b THEN replies \cup {m} ELSE replies, NEW d
    PROVE  Told(d)' = IF b /\ m.from = d THEN Told(d) \cup {m} ELSE Told(d)
  BY DEF Told

(* The client whose message is taken: what is left when the lists, its     *)
(* notes and what it waits for agree with what it was told.                *)
LEMMA TakenInv ==
    ASSUME IInv, NEW c \in Conns, Forward(c), NotesMatch(c)',
           phase[c] = "open" => /\ PendingInOrder(c)' /\ TakenOnce(c)' /\ ChangesAlone(c)'
                                /\ ToldMatch(c)'
    PROVE  ClientInv(c)'
<1> DEFINE m == Head(queue[c])
<1>1. /\ m \in SentBy(c) /\ queue[c] # <<>> /\ current' = [current EXCEPT ![c] = m]
      /\ UNCHANGED <<phase, sent, inbound, subscribed>> /\ QueuedChangesRun(c)'
  BY ForwardParts, HeadIsTaken DEF IInv
<1>2. current'[c] # NoMsg
  <2>1. m # NoMsg
    BY <1>1, MessageParts
  <2> QED
    BY <1>1, <2>1 DEF IInv, BaseInv, TypeOK
<1>3. phase[c] # "new" /\ LeaversClose(c)
  BY <1>1 DEF IInv, ClientInv, NewIsFresh
<1> QED
  BY <1>1, <1>2, <1>3 DEF ClientInv, OpenInv, NewIsFresh, LeaversClose, NotedAfterFirst

(* Another client's turn of the loop.                                      *)
LEMMA TakenByOther ==
    ASSUME IInv, NEW c \in Conns, Forward(c), NEW d \in Conns, d # c,
           \A p \in Paths, t \in Topics : handlers'[d][p][t] = handlers[d][p][t],
           Waits(d)' = Waits(d), Told(d)' = Told(d), ListsKept(d)
    PROVE  ClientInv(d)'
<1>1. /\ queue'[d] = queue[d] /\ current'[d] = current[d] /\ running = c
      /\ UNCHANGED <<phase, sent, inbound>>
  BY ForwardParts DEF IInv, BaseInv, TypeOK
<1>2. Unmoved(d)
  BY <1>1 DEF Unmoved
<1> QED
  BY <1>2, OthersKept DEF IInv

LEMMA SubClients ==
    ASSUME IInv, NEW c \in Conns, Forward(c), NEW m \in SentBy(c), m = Head(queue[c]),
           m.op = "sub", NEW q, Sub(c, m, q), NEW d \in Conns
    PROVE  ClientInv(d)'
<1> DEFINE p == m.path
           t == m.topic
           ls == listeners[p][t]
           vs == listeners'[p][t]
<1>1. BaseInv
  BY DEF IInv
<1>2. /\ p \in Paths /\ t \in Topics /\ m.from = c /\ m \in Msgs /\ m.n \in Nat /\ m \in Listener(p, t)
  BY MessageParts DEF Requests, Listener
<1>3. /\ \A e \in Conns, o \in Paths, s \in Topics :
            handlers'[e][o][s] = IF e = c /\ o = p /\ s = t THEN m ELSE handlers[e][o][s]
      /\ \A o \in Paths, s \in Topics : ~(o = p /\ s = t) => listeners'[o][s] = listeners[o][s]
      /\ vs = Append(ls, m)
      /\ \/ awaiting' = awaiting \cup {m} /\ replies' = replies
         \/ /\ awaiting' = awaiting
            /\ replies' = IF phase[c] = "open" THEN replies \cup {m} ELSE replies
  <2>1. /\ p \in Paths /\ t \in Topics
        /\ handlers' \in [Conns -> [Paths -> [Topics -> Msgs \cup {NoMsg}]]]
        /\ \A e \in Conns, o \in Paths, s \in Topics :
              handlers'[e][o][s] = IF e = c /\ o = p /\ s = t THEN m ELSE handlers[e][o][s]
        /\ listeners' \in [Paths -> [Topics -> Seq(Msgs)]]
        /\ \A o \in Paths, s \in Topics :
              listeners'[o][s] = IF o = p /\ s = t THEN Append(listeners[o][s], m)
                                 ELSE listeners[o][s]
        /\ \/ /\ ls = <<>>
              /\ upstream' = [upstream EXCEPT ![p] =
                    Append(@, [op |-> "sub", topic |-> t, waiter |-> m])]
              /\ awaiting' = awaiting \cup {m} /\ replies' = replies
           \/ /\ ls # <<>>
              /\ UNCHANGED <<upstream, awaiting>>
              /\ replies' = IF phase[c] = "open" THEN replies \cup {m} ELSE replies
    BY ONLY BaseInv, c \in Conns, m \in SentBy(c), m.op = "sub", Sub(c, m, q), SubParts,
            ZenonT(40)
  <2>2. vs = Append(ls, m)
    BY <2>1
  <2>3. \A o \in Paths, s \in Topics :
           ~(o = p /\ s = t) => listeners'[o][s] = listeners[o][s]
    BY ONLY <2>1
  <2>4. \/ awaiting' = awaiting \cup {m} /\ replies' = replies
        \/ /\ awaiting' = awaiting
           /\ replies' = IF phase[c] = "open" THEN replies \cup {m} ELSE replies
    BY ONLY <2>1
  <2> HIDE DEF p, t, vs, ls
  <2> QED
    BY ONLY <2>1, <2>2, <2>3, <2>4
<1>4. phase[c] = "open" /\ phase' = phase
  BY ForwardParts, HeadIsTaken DEF IInv, Changes
<1>5. /\ ls \in Seq(Msgs) /\ vs \in Seq(Msgs) /\ Len(vs) = Len(ls) + 1 /\ vs[Len(ls) + 1] = m
      /\ \A i \in 1 .. Len(ls) : vs[i] = ls[i]
  <2>1. ls \in Seq(Msgs) /\ vs = Append(ls, m)
    <3>1. ls \in Seq(Msgs)
      BY <1>1, <1>2 DEF BaseInv, TypeOK
    <3> QED
      BY <1>3, <3>1
  <2> HIDE DEF ls, vs
  <2> QED
    BY <1>2, <2>1
<1>6. \A o \in Paths, s \in Topics : ~(o = p /\ s = t) => listeners'[o][s] = listeners[o][s]
  BY <1>3
<1>7. /\ d # c => Waits(d)' = Waits(d) /\ Told(d)' = Told(d)
      /\ \/ Waits(c)' = Waits(c) \cup {m} /\ Told(c)' = Told(c)
         \/ Waits(c)' = Waits(c) /\ Told(c)' = Told(c) \cup {m}
  <2>1. m.from = c
    BY <1>2
  <2>2. \/ awaiting' = awaiting \cup {m} /\ replies' = replies
        \/ awaiting' = awaiting /\ replies' = replies \cup {m}
    BY <1>3, <1>4
  <2>3. CASE awaiting' = awaiting \cup {m} /\ replies' = replies
    BY <2>1, <2>3 DEF Waits, Told
  <2>4. CASE awaiting' = awaiting /\ replies' = replies \cup {m}
    BY <2>1, <2>4 DEF Waits, Told
  <2> QED
    BY <2>2, <2>3, <2>4
<1> HIDE DEF ls, vs
<1>8. CASE d # c
  <2>1. ASSUME NEW o \in Paths, NEW s \in Topics
        PROVE  /\ None(listeners'[o][s], d) <=> None(listeners[o][s], d)
               /\ One(listeners[o][s], d, handlers[d][o][s]) =>
                     One(listeners'[o][s], d, handlers[d][o][s])
    <3>1. CASE o = p /\ s = t
      <4> DEFINE h == handlers[d][o][s]
      <4> HIDE DEF h
      <4>1. vs[Len(ls) + 1].from # d
        BY <1>2, <1>5, <1>8
      <4>2. (None(vs, d) <=> None(ls, d)) /\ (One(ls, d, h) => One(vs, d, h))
        BY <1>5, <4>1, JoinKeeps
      <4> QED
        BY <3>1, <4>2 DEF ls, vs, h
    <3>2. CASE ~(o = p /\ s = t)
      BY <1>6, <3>2
    <3> QED
      BY <3>1, <3>2
  <2>2. ListsKept(d)
    BY <2>1 DEF ListsKept
  <2>3. \A o \in Paths, s \in Topics : handlers'[d][o][s] = handlers[d][o][s]
    BY <1>3, <1>8
  <2> QED
    BY <1>7, <1>8, <2>2, <2>3, TakenByOther
<1>9. CASE d = c
  <2>1. ClientInv(c) /\ ToldMatch(c) /\ NotesMatch(c)
    BY <1>4 DEF IInv, ClientInv, OpenInv
  <2>2. /\ Waits(c) = {} /\ ~Subscribed(c, p, t)
        /\ \A k \in Told(c) : k.n \in Nat /\ k.n < m.n
    <3>1. /\ m.op \in Changes => Waits(c) = {} /\ (m.op = "unsub" <=> Subscribed(c, p, t))
          /\ \A k \in Waits(c) \cup Told(c) : k.n \in Nat /\ k.n <= Taken(c)
          /\ m.n = Taken(c) + 1 /\ Taken(c) \in Nat
      BY <1>4, HeadIsTaken
    <3> QED
      BY <3>1 DEF Changes
  <2>3. None(ls, c)
    BY <1>2, <2>1, <2>2 DEF ToldMatch, Waiting, ls
  <2>4. One(vs, c, m) /\ ~None(vs, c)
    BY <1>2, <1>5, <2>3, JoinMakesOne
  <2>5. handlers'[c][p][t] = m /\ listeners'[p][t] = vs
    BY <1>2, <1>3 DEF vs
  <2>6. NotesMatch(c)'
    <3> SUFFICES ASSUME NEW o \in Paths, NEW s \in Topics
                 PROVE  \/ One(listeners'[o][s], c, handlers'[c][o][s])
                        \/ None(listeners'[o][s], c) /\ handlers'[c][o][s] = NoMsg
      BY <1>4 DEF NotesMatch
    <3>1. CASE o = p /\ s = t
      BY <2>4, <2>5, <3>1
    <3>2. CASE ~(o = p /\ s = t)
      <4>1. listeners'[o][s] = listeners[o][s] /\ handlers'[c][o][s] = handlers[c][o][s]
        BY <1>3, <1>6, <3>2
      <4> QED
        BY <1>4, <2>1, <2>2, <4>1 DEF NotesMatch, Waiting
    <3> QED
      BY <3>1, <3>2
  <2>7. ToldMatch(c)'
    <3> SUFFICES ASSUME NEW o \in Paths, NEW s \in Topics
                 PROVE  /\ Waiting(c, "sub", o, s)' => ~None(listeners'[o][s], c)
                        /\ Waiting(c, "unsub", o, s)' => None(listeners'[o][s], c)
                        /\ ~Waiting(c, "sub", o, s)' /\ ~Waiting(c, "unsub", o, s)' =>
                              (Subscribed(c, o, s)' <=> ~None(listeners'[o][s], c))
      BY DEF ToldMatch
    <3>1. ~Waiting(c, "unsub", o, s)' /\ (Waiting(c, "sub", o, s)' => o = p /\ s = t)
      BY <1>7, <2>2 DEF Waiting
    <3>2. CASE o = p /\ s = t
      <4>1. ASSUME ~Waiting(c, "sub", o, s)' PROVE Subscribed(c, o, s)'
        <5>1. Told(c)' = Told(c) \cup {m}
          BY <1>7, <3>2, <4>1 DEF Waiting
        <5> QED
          BY <1>2, <2>2, <3>2, <5>1, ChangeAnswer DEF Changes
      <4> QED
        BY <2>4, <2>5, <3>1, <3>2, <4>1
    <3>3. CASE ~(o = p /\ s = t)
      <4>1. Subscribed(c, o, s)' <=> Subscribed(c, o, s)
        <5>1. CASE Told(c)' = Told(c)
          BY <5>1, SubscribedKept
        <5>2. CASE Told(c)' = Told(c) \cup {m}
          BY <1>2, <2>2, <3>3, <5>2, ChangeAnswer DEF Changes
        <5> QED
          BY <1>7, <5>1, <5>2
      <4>2. Subscribed(c, o, s) <=> ~None(listeners[o][s], c)
        BY <2>1, <2>2 DEF ToldMatch, Waiting
      <4> QED
        BY <1>6, <3>1, <3>3, <4>1, <4>2
    <3> QED
      BY <3>2, <3>3
  <2>8. PendingInOrder(c)' /\ TakenOnce(c)' /\ ChangesAlone(c)'
    BY <1>4, <1>7, TakenJoins DEF Changes
  <2> QED
    BY <1>9, <2>6, <2>7, <2>8, TakenInv
<1> QED
  BY <1>8, <1>9

(* A client's listener is cut out of the list of one path and topic.       *)
LEMMA CutLists ==
    ASSUME BaseInv, NEW c \in Conns, NEW p \in Paths, NEW t \in Topics,
           One(listeners[p][t], c, handlers[c][p][t]),
           listeners'[p][t] = Without(listeners[p][t], handlers[c][p][t]),
           NEW d \in Conns, d # c
    PROVE  /\ None(listeners'[p][t], c)
           /\ handlers[c][p][t] # NoMsg /\ listeners[p][t] # <<>>
           /\ None(listeners'[p][t], d) <=> None(listeners[p][t], d)
           /\ One(listeners[p][t], d, handlers[d][p][t]) =>
                 One(listeners'[p][t], d, handlers[d][p][t])
<1> DEFINE ls == listeners[p][t]
           vs == listeners'[p][t]
           l == handlers[c][p][t]
           k == handlers[d][p][t]
<1>1. /\ ls \in Seq(Msgs) /\ l \in {m \in Listener(p, t) : m.from = c} \cup {NoMsg}
      /\ k \in {m \in Listener(p, t) : m.from = d} \cup {NoMsg}
  BY DEF BaseInv, TypeOK, Origins
<1>2. One(ls, c, l) /\ vs = Without(ls, l)
  OBVIOUS
<1> HIDE DEF ls, vs, l, k
<1>3. ls # <<>> /\ l # NoMsg
  <2>1. PICK i \in 1 .. Len(ls) : ls[i] = l
    BY <1>2 DEF One
  <2> QED
    BY <1>1, <2>1, NoMsgAssumption
<1>4. l.from = c
  BY <1>1, <1>3
<1>5. One(ls, c, l) /\ ls \in Seq(Msgs)
  BY <1>1, <1>2
<1>6. /\ None(Without(ls, l), c)
      /\ None(Without(ls, l), d) <=> None(ls, d)
  BY <1>4, <1>5, CutKeeps
<1>7. One(ls, d, k) => One(Without(ls, l), d, k)
  <2>1. CASE k \in Msgs /\ k.from = d
    BY <1>4, <1>5, <2>1, CutKeeps
  <2>2. CASE k = NoMsg
    BY <1>5, <2>2, NoMsgAssumption DEF One
  <2> QED
    BY <1>1, <2>1, <2>2 DEF Listener
<1> QED
  BY <1>2, <1>3, <1>6, <1>7 DEF ls, vs, l, k

LEMMA UnsubClients ==
    ASSUME IInv, NEW c \in Conns, Forward(c), NEW m \in SentBy(c), m = Head(queue[c]),
           m.op = "unsub", NEW q, Unsub(c, m, q), NEW d \in Conns
    PROVE  ClientInv(d)'
<1> DEFINE p == m.path
           t == m.topic
           ls == listeners[p][t]
           rest == Without(ls, handlers[c][p][t])
<1>1. BaseInv
  BY DEF IInv
<1>2. /\ p \in Paths /\ t \in Topics /\ m.from = c /\ m \in Msgs /\ m.n \in Nat
  BY MessageParts DEF Requests
<1>3. phase[c] = "open" /\ phase' = phase
  BY ForwardParts, HeadIsTaken DEF IInv, Changes
<1>4. ClientInv(c) /\ ToldMatch(c) /\ NotesMatch(c)
  BY <1>3 DEF IInv, ClientInv, OpenInv
<1>5. /\ Waits(c) = {} /\ Subscribed(c, p, t)
      /\ \A k \in Told(c) : k.n \in Nat /\ k.n < m.n
  <2>1. /\ m.op \in Changes => Waits(c) = {} /\ (m.op = "unsub" <=> Subscribed(c, p, t))
        /\ \A k \in Waits(c) \cup Told(c) : k.n \in Nat /\ k.n <= Taken(c)
        /\ m.n = Taken(c) + 1 /\ Taken(c) \in Nat
    BY <1>3, HeadIsTaken
  <2> QED
    BY <2>1 DEF Changes
<1>6. One(ls, c, handlers[c][p][t])
  <2>1. ~None(ls, c)
    BY <1>2, <1>4, <1>5 DEF ToldMatch, Waiting
  <2> QED
    BY <1>2, <1>3, <1>4, <2>1 DEF NotesMatch
<1>7. ls # <<>>
  <2> HIDE DEF ls
  <2> QED
    BY <1>6 DEF One
<1>8. /\ \A o \in Paths, s \in Topics :
            listeners'[o][s] = IF o = p /\ s = t THEN rest ELSE listeners[o][s]
      /\ \/ /\ awaiting' = awaiting \cup {m} /\ UNCHANGED <<handlers, replies>>
         \/ /\ \A e \in Conns, o \in Paths, s \in Topics :
                  handlers'[e][o][s] = IF e = c /\ o = p /\ s = t THEN NoMsg ELSE handlers[e][o][s]
            /\ awaiting' = awaiting /\ replies' = replies \cup {m}
  <2> DEFINE v == IF ls = <<>> THEN ls ELSE rest
  <2>1. /\ p \in Paths /\ t \in Topics
        /\ listeners' \in [Paths -> [Topics -> Seq(Msgs)]]
        /\ \A o \in Paths, s \in Topics :
              listeners'[o][s] = IF o = p /\ s = t THEN v ELSE listeners[o][s]
        /\ ls # <<>> => rest \in Seq(Listener(p, t))
        /\ \/ /\ ls # <<>> /\ rest = <<>>
              /\ upstream' = [upstream EXCEPT ![p] =
                    Append(@, [op |-> "unsub", topic |-> t, waiter |-> m])]
              /\ awaiting' = awaiting \cup {m} /\ UNCHANGED <<handlers, replies>>
           \/ /\ ~(ls # <<>> /\ rest = <<>>)
              /\ UNCHANGED <<upstream, awaiting>>
              /\ handlers' \in [Conns -> [Paths -> [Topics -> Msgs \cup {NoMsg}]]]
              /\ \A e \in Conns, o \in Paths, s \in Topics :
                    handlers'[e][o][s] = IF e = c /\ o = p /\ s = t THEN NoMsg
                                         ELSE handlers[e][o][s]
              /\ replies' = IF phase[c] = "open" THEN replies \cup {m} ELSE replies
    BY ONLY BaseInv, c \in Conns, m \in SentBy(c), m.op = "unsub", Unsub(c, m, q), UnsubParts,
            ZenonT(40)
  <2> HIDE DEF p, t, ls, rest
  <2> QED
    BY <1>3, <1>7, <2>1
<1>9. /\ d # c => Waits(d)' = Waits(d) /\ Told(d)' = Told(d)
      /\ \/ Waits(c)' = Waits(c) \cup {m} /\ Told(c)' = Told(c) /\ handlers' = handlers
         \/ /\ Waits(c)' = Waits(c) /\ Told(c)' = Told(c) \cup {m}
            /\ \A e \in Conns, o \in Paths, s \in Topics :
                  handlers'[e][o][s] = IF e = c /\ o = p /\ s = t THEN NoMsg
                                       ELSE handlers[e][o][s]
  <2> HIDE DEF p, t, ls, rest
  <2>1. m.from = c
    BY <1>2
  <2>2. CASE awaiting' = awaiting \cup {m} /\ UNCHANGED <<handlers, replies>>
    BY <2>1, <2>2 DEF Waits, Told
  <2>3. CASE /\ \A e \in Conns, o \in Paths, s \in Topics :
                   handlers'[e][o][s] = IF e = c /\ o = p /\ s = t THEN NoMsg
                                        ELSE handlers[e][o][s]
             /\ awaiting' = awaiting /\ replies' = replies \cup {m}
    <3>1. awaiting' = awaiting /\ replies' = replies \cup {m}
      BY <2>3
    <3>2. /\ d # c => Waits(d)' = Waits(d) /\ Told(d)' = Told(d)
          /\ Waits(c)' = Waits(c) /\ Told(c)' = Told(c) \cup {m}
      BY <2>1, <3>1 DEF Waits, Told
    <3> QED
      BY <2>3, <3>2
  <2> QED
    BY <1>8, <2>2, <2>3
<1>10. \A o \in Paths, s \in Topics : ~(o = p /\ s = t) => listeners'[o][s] = listeners[o][s]
  BY <1>8
<1>11. listeners'[p][t] = rest
  BY <1>2, <1>8
<1>12. CASE d # c
  <2>1. /\ None(listeners'[p][t], d) <=> None(listeners[p][t], d)
        /\ One(listeners[p][t], d, handlers[d][p][t]) =>
              One(listeners'[p][t], d, handlers[d][p][t])
    BY <1>1, <1>2, <1>6, <1>11, <1>12, CutLists
  <2>2. ListsKept(d)
    BY <1>10, <2>1 DEF ListsKept
  <2>3. \A o \in Paths, s \in Topics : handlers'[d][o][s] = handlers[d][o][s]
    BY <1>9, <1>12
  <2> QED
    BY <1>9, <1>12, <2>2, <2>3, TakenByOther
<1>13. CASE d = c
  <2>1. None(listeners'[p][t], c)
    <3> DEFINE l == handlers[c][p][t]
    <3>1. ls \in Seq(Msgs) /\ l \in {k \in Listener(p, t) : k.from = c} \cup {NoMsg}
      BY SMTT(30), <1>1, <1>2 DEF BaseInv, TypeOK, Origins
    <3>2. l # NoMsg
      <4>1. PICK i \in 1 .. Len(ls) : ls[i] = l
        BY <1>6 DEF One
      <4> HIDE DEF ls, l
      <4> QED
        BY SMTT(30), <3>1, <4>1, NoMsgAssumption
    <3>3. l.from = c
      BY <3>1, <3>2
    <3>4. One(ls, c, l) /\ ls \in Seq(Msgs)
      BY <1>6, <3>1
    <3> HIDE DEF l, ls
    <3>5. None(Without(ls, l), c)
      BY <3>3, <3>4, CutKeeps
    <3> QED
      BY <1>11, <3>5 DEF l, ls
  <2>2. NotesMatch(c)'
    <3> SUFFICES ASSUME NEW o \in Paths, NEW s \in Topics
                 PROVE  \/ One(listeners'[o][s], c, handlers'[c][o][s])
                        \/ /\ None(listeners'[o][s], c)
                           /\ handlers'[c][o][s] = NoMsg \/ Waiting(c, "unsub", o, s)'
      BY <1>3 DEF NotesMatch
    <3>1. CASE o = p /\ s = t
      <4>1. CASE Waits(c)' = Waits(c) \cup {m}
        BY <2>1, <3>1, <4>1 DEF Waiting
      <4>2. CASE handlers'[c][o][s] = NoMsg
        BY <2>1, <3>1, <4>2
      <4> QED
        BY <1>9, <3>1, <4>1, <4>2
    <3>2. CASE ~(o = p /\ s = t)
      <4>1. listeners'[o][s] = listeners[o][s] /\ handlers'[c][o][s] = handlers[c][o][s]
        BY <1>9, <1>10, <3>2
      <4> QED
        BY <1>3, <1>4, <1>5, <4>1 DEF NotesMatch, Waiting
    <3> QED
      BY <3>1, <3>2
  <2>3. ToldMatch(c)'
    <3> SUFFICES ASSUME NEW o \in Paths, NEW s \in Topics
                 PROVE  /\ Waiting(c, "sub", o, s)' => ~None(listeners'[o][s], c)
                        /\ Waiting(c, "unsub", o, s)' => None(listeners'[o][s], c)
                        /\ ~Waiting(c, "sub", o, s)' /\ ~Waiting(c, "unsub", o, s)' =>
                              (Subscribed(c, o, s)' <=> ~None(listeners'[o][s], c))
      BY DEF ToldMatch
    <3>1. ~Waiting(c, "sub", o, s)' /\ (Waiting(c, "unsub", o, s)' => o = p /\ s = t)
      BY <1>5, <1>9 DEF Waiting
    <3>2. CASE o = p /\ s = t
      <4>1. ASSUME ~Waiting(c, "unsub", o, s)' PROVE ~Subscribed(c, o, s)'
        <5>1. Told(c)' = Told(c) \cup {m}
          BY <1>9, <3>2, <4>1 DEF Waiting
        <5> QED
          BY <1>2, <1>5, <3>2, <5>1, ChangeAnswer DEF Changes
      <4> QED
        BY <2>1, <3>1, <3>2, <4>1
    <3>3. CASE ~(o = p /\ s = t)
      <4>1. Subscribed(c, o, s)' <=> Subscribed(c, o, s)
        <5>1. CASE Told(c)' = Told(c)
          BY <5>1, SubscribedKept
        <5>2. CASE Told(c)' = Told(c) \cup {m}
          BY <1>2, <1>5, <3>3, <5>2, ChangeAnswer DEF Changes
        <5> QED
          BY <1>9, <5>1, <5>2
      <4>2. Subscribed(c, o, s) <=> ~None(listeners[o][s], c)
        BY <1>4, <1>5 DEF ToldMatch, Waiting
      <4> QED
        BY <1>10, <3>1, <3>3, <4>1, <4>2
    <3> QED
      BY <3>2, <3>3
  <2>4. PendingInOrder(c)' /\ TakenOnce(c)' /\ ChangesAlone(c)'
    <3>1. \/ Waits(c)' = Waits(c) \cup {m} /\ Told(c)' = Told(c)
          \/ Waits(c)' = Waits(c) /\ Told(c)' = Told(c) \cup {m} /\ m.op \in Changes
      BY <1>9 DEF Changes
    <3> QED
      BY <1>3, <3>1, TakenJoins
  <2> QED
    BY <1>13, <2>2, <2>3, <2>4, TakenInv
<1> QED
  BY <1>12, <1>13

LEMMA ForwardClients ==
    ASSUME IInv, NEW c \in Conns, Forward(c), NEW d \in Conns
    PROVE  ClientInv(d)'
<1> DEFINE m == Head(queue[c])
           q == Tail(queue[c])
<1>1. /\ m \in SentBy(c) /\ phase' = phase
      /\ \/ m.op \notin Requests /\ UNCHANGED <<awaiting, handlers, listeners, upstream, replies>>
         \/ /\ m.op = "call" /\ awaiting' = awaiting \cup {m}
            /\ running' = NoConn /\ UNCHANGED <<handlers, listeners, upstream, replies>>
         \/ m.op = "sub" /\ Sub(c, m, q)
         \/ m.op = "unsub" /\ Unsub(c, m, q)
  BY ForwardParts DEF IInv
<1> HIDE DEF q
<1>2. CASE m.op = "sub" /\ Sub(c, m, q)
  BY <1>1, <1>2, SubClients
<1>3. CASE m.op = "unsub" /\ Unsub(c, m, q)
  BY <1>1, <1>3, UnsubClients
<1>4. CASE /\ awaiting' = awaiting \/ (m.op = "call" /\ awaiting' = awaiting \cup {m})
           /\ UNCHANGED <<handlers, listeners, replies>>
  <2>1. m.from = c /\ m = Head(queue[c])
    BY <1>1, MessageParts
  <2> HIDE DEF m
  <2>2. /\ ListsKept(d) /\ Told(d)' = Told(d) /\ Told(c)' = Told(c)
        /\ d # c => Waits(d)' = Waits(d)
        /\ \/ Waits(c)' = Waits(c)
           \/ m.op = "call" /\ Waits(c)' = Waits(c) \cup {m}
    BY <1>4, <2>1, SameLists DEF Waits, Told
  <2>3. CASE d # c
    BY <1>4, <2>2, <2>3, TakenByOther
  <2>4. CASE d = c
    <3>1. ClientInv(c)
      BY DEF IInv
    <3>2. /\ \A o, s : Waiting(c, "sub", o, s)' <=> Waiting(c, "sub", o, s)
          /\ \A o, s : Waiting(c, "unsub", o, s)' <=> Waiting(c, "unsub", o, s)
      BY <2>2 DEF Waiting
    <3>3. NotesMatch(c)'
      BY <1>1, <1>4, <3>1, <3>2 DEF ClientInv, NotesMatch
    <3>4. ASSUME phase[c] = "open" PROVE ToldMatch(c)'
      <4>1. \A o, s : Subscribed(c, o, s)' <=> Subscribed(c, o, s)
        BY <2>2, SubscribedKept
      <4> QED
        BY <1>4, <3>1, <3>2, <3>4, <4>1 DEF ClientInv, OpenInv, ToldMatch
    <3>5. ASSUME phase[c] = "open" PROVE PendingInOrder(c)' /\ TakenOnce(c)' /\ ChangesAlone(c)'
      BY <2>1, <2>2, <3>5, TakenJoins
    <3> QED
      BY <2>4, <3>3, <3>4, <3>5, TakenInv
  <2> QED
    BY <2>3, <2>4
<1> QED
  BY <1>1, <1>2, <1>3, <1>4

(* The answer to m: it is the only change its client waits for.            *)
LEMMA ResumeClients ==
    ASSUME LeaversKeepOnePath, IInv, NEW m \in awaiting, Resume(m), running = NoConn,
           UNCHANGED <<phase, sent, inbound, queue, current, listeners>>, NEW d \in Conns
    PROVE  ClientInv(d)'
<1> DEFINE c == m.from
           p == m.path
           t == m.topic
<1>1. BaseInv /\ \A e \in Conns : ClientInv(e)
  BY DEF IInv
<1>2. /\ c \in Conns /\ p \in Paths /\ t \in Topics
      /\ awaiting' = awaiting \ {m}
      /\ replies' = IF phase[c] = "open" THEN replies \cup {m} ELSE replies
      /\ \A e \in Conns, o \in Paths, s \in Topics :
            handlers'[e][o][s] = IF m.op = "unsub" /\ e = c /\ o = p /\ s = t
                                 THEN NoMsg ELSE handlers[e][o][s]
  BY <1>1, ResumeParts
<1>3. m \in Waits(c) /\ m.from = c
  BY DEF Waits
<1>4. m \in SentBy(c) /\ m.op \in Requests /\ m.op \in OpsOf[c] /\ m.n \in Nat
  BY <1>1, <1>2, <1>3, OwnParts
<1> HIDE DEF c, p, t
<1>5. /\ d # c => Waits(d)' = Waits(d) /\ Told(d)' = Told(d)
      /\ Waits(c)' = Waits(c) \ {m}
      /\ Told(c)' = IF phase[c] = "open" THEN Told(c) \cup {m} ELSE Told(c)
  BY <1>2, <1>3 DEF Waits, Told
<1>6. ListsKept(d) /\ running # d /\ running # c
  BY <1>2, SameLists, RelayAssumption
<1>7. CASE d # c
  <2>1. \A o \in Paths, s \in Topics : handlers'[d][o][s] = handlers[d][o][s]
    BY <1>2, <1>7
  <2>2. Unmoved(d)
    BY <1>5, <1>6, <1>7, <2>1 DEF Unmoved
  <2> QED
    BY <1>1, <1>6, <2>2, OthersKept
<1>8. CASE d = c
  <2>1. ClientInv(c)
    BY <1>1, <1>2
  <2>2. phase[c] # "new"
    BY <1>3, <2>1 DEF ClientInv, NewIsFresh
  <2>3. phase[c] # "open" => m.op # "unsub"
    <3>1. phase[c] \in {"new", "open", "closing", "closed"}
      BY <1>1, <1>2 DEF BaseInv, TypeOK
    <3> QED
      BY <1>2, <1>4, <2>1, <2>2, <3>1 DEF ClientInv, LeaversClose, LeaversKeepOnePath
  <2>4. QueuedChangesRun(c)' /\ NewIsFresh(c)' /\ LeaversClose(c)' /\ NotedAfterFirst(c)'
    <3>1. QueuedChangesRun(c)'
      BY <1>6, <2>1 DEF ClientInv, QueuedChangesRun
    <3>2. NewIsFresh(c)' /\ LeaversClose(c)'
      BY <2>1, <2>2 DEF ClientInv, NewIsFresh, LeaversClose
    <3>3. \A o \in Paths, s \in Topics : handlers'[c][o][s] # NoMsg => handlers[c][o][s] # NoMsg
      BY <1>2
    <3>4. NotedAfterFirst(c)'
      BY <2>1, <3>3 DEF ClientInv, NotedAfterFirst
    <3> QED
      BY <3>1, <3>2, <3>4
  <2>5. ASSUME phase[c] = "open"
        PROVE  /\ PendingInOrder(c) /\ TakenOnce(c) /\ ChangesAlone(c) /\ ToldMatch(c)
               /\ Told(c)' = Told(c) \cup {m}
               /\ Pend(c)' = Pend(c) /\ Taken(c)' = Taken(c)
    BY <1>5, <2>1, <2>5 DEF ClientInv, OpenInv, Pend, Taken
  <2>6. ASSUME phase[c] = "open", m.op \in Changes
        PROVE  /\ \A k \in Waits(c)' : k.op \notin Changes
               /\ \A k \in Told(c) : k.op \in Changes => k.n \in Nat /\ k.n < m.n
    <3>1. /\ \A k \in Waits(c) : k.op \in Changes => k = m
          /\ \A k \in Told(c) : k.op \in Changes => k.n < m.n
      BY <1>3, <2>5, <2>6 DEF ChangesAlone
    <3>2. \A k \in Told(c) : k.n \in Nat
      BY <1>1, <1>2, OwnParts
    <3> QED
      BY <1>5, <3>1, <3>2
  <2>7. NotesMatch(c)'
    <3> SUFFICES ASSUME NEW o \in Paths, NEW s \in Topics
                 PROVE  /\ phase[c] \in {"open", "closing"} =>
                              \/ One(listeners[o][s], c, handlers'[c][o][s])
                              \/ /\ None(listeners[o][s], c)
                                 /\ handlers'[c][o][s] = NoMsg \/ Waiting(c, "unsub", o, s)'
                        /\ phase[c] \in {"new", "closed"} =>
                              None(listeners[o][s], c) /\ handlers'[c][o][s] = NoMsg
      BY DEF NotesMatch
    <3>1. /\ phase[c] \in {"open", "closing"} =>
                \/ One(listeners[o][s], c, handlers[c][o][s])
                \/ /\ None(listeners[o][s], c)
                   /\ handlers[c][o][s] = NoMsg \/ Waiting(c, "unsub", o, s)
          /\ phase[c] \in {"new", "closed"} =>
                None(listeners[o][s], c) /\ handlers[c][o][s] = NoMsg
      BY <2>1 DEF ClientInv, NotesMatch
    <3>2. CASE m.op = "unsub" /\ o = p /\ s = t
      <4>1. phase[c] = "open" /\ Waiting(c, "unsub", o, s)
        BY <1>3, <2>3, <3>2 DEF Waiting, p, t
      <4>2. None(listeners[o][s], c)
        BY <2>5, <4>1 DEF ToldMatch
      <4>3. handlers'[c][o][s] = NoMsg
        BY <1>2, <3>2
      <4> QED
        BY <4>1, <4>2, <4>3
    <3>3. CASE ~(m.op = "unsub" /\ o = p /\ s = t)
      <4>1. handlers'[c][o][s] = handlers[c][o][s]
        BY <1>2, <3>3
      <4>2. Waiting(c, "unsub", o, s) => Waiting(c, "unsub", o, s)'
        <5> SUFFICES ASSUME NEW k \in Waits(c), k.op = "unsub", k.path = o, k.topic = s
                     PROVE  k \in Waits(c)'
          BY DEF Waiting
        <5> QED
          BY <1>5, <3>3 DEF p, t
      <4> QED
        BY <3>1, <4>1, <4>2
    <3> QED
      BY <3>2, <3>3
  <2>8. ASSUME phase[c] = "open" PROVE TakenOnce(c)' /\ ChangesAlone(c)' /\ PendingInOrder(c)'
    <3>1. PendingInOrder(c)'
      BY <2>5, <2>8 DEF PendingInOrder
    <3>2. TakenOnce(c)'
      BY <1>3, <1>5, <2>5, <2>8 DEF TakenOnce
    <3>3. \A i \in 1 .. Len(Pend(c)) : Pend(c)[i].op \notin Changes
      BY <1>3, <2>5, <2>8 DEF ChangesAlone
    <3>4. ASSUME NEW k \in Waits(c)', k.op \in Changes
          PROVE  /\ \A j \in Waits(c)' : j.op \in Changes => j = k
                 /\ \A j \in Told(c)' : j.op \in Changes => j.n < k.n
      <4>1. m.op \notin Changes
        BY <2>6, <2>8, <3>4
      <4>2. k \in Waits(c)
        BY <1>5
      <4> QED
        BY <1>5, <2>5, <2>8, <3>4, <4>1, <4>2 DEF ChangesAlone
    <3>5. ChangesAlone(c)'
      BY <2>5, <2>8, <3>3, <3>4 DEF ChangesAlone
    <3> QED
      BY <3>1, <3>2, <3>5
  <2>9. ASSUME phase[c] = "open" PROVE ToldMatch(c)'
    <3>1. CASE m.op = "call"
      <4>1. \A o, s : Subscribed(c, o, s)' <=> Subscribed(c, o, s)
        BY <1>2, <2>5, <2>9, <3>1, CallAnswer
      <4>2. \A o, s : /\ Waiting(c, "sub", o, s)' <=> Waiting(c, "sub", o, s)
                      /\ Waiting(c, "unsub", o, s)' <=> Waiting(c, "unsub", o, s)
        BY <1>5, <3>1 DEF Waiting
      <4> QED
        BY <2>5, <2>9, <4>1, <4>2 DEF ToldMatch
    <3>2. CASE m.op \in Changes
      <4> SUFFICES ASSUME NEW o \in Paths, NEW s \in Topics
                   PROVE  /\ ~Waiting(c, "sub", o, s)' /\ ~Waiting(c, "unsub", o, s)'
                          /\ Subscribed(c, o, s)' <=> ~None(listeners[o][s], c)
        BY DEF ToldMatch
      <4>1. ~Waiting(c, "sub", o, s)' /\ ~Waiting(c, "unsub", o, s)'
        BY <2>6, <2>9, <3>2 DEF Waiting, Changes
      <4>2. /\ p = o /\ t = s => (Subscribed(c, o, s)' <=> m.op = "sub")
            /\ ~(p = o /\ t = s) => (Subscribed(c, o, s)' <=> Subscribed(c, o, s))
        BY <1>2, <1>4, <2>5, <2>6, <2>9, <3>2, ChangeAnswer DEF p, t
      <4>3. CASE p = o /\ t = s
        <5>1. Waiting(c, m.op, o, s)
          BY <1>3, <4>3 DEF Waiting, p, t
        <5>2. /\ Waiting(c, "sub", o, s) => ~None(listeners[o][s], c)
              /\ Waiting(c, "unsub", o, s) => None(listeners[o][s], c)
          BY <2>5, <2>9 DEF ToldMatch
        <5> QED
          BY <3>2, <4>1, <4>2, <4>3, <5>1, <5>2 DEF Changes
      <4>4. CASE ~(p = o /\ t = s)
        <5>1. ~Waiting(c, "sub", o, s) /\ ~Waiting(c, "unsub", o, s)
          <6>1. \A k \in Waits(c) : k.op \in Changes => k = m
            BY <1>3, <2>5, <2>9, <3>2 DEF ChangesAlone
          <6> QED
            BY <4>4, <6>1 DEF Waiting, Changes, p, t
        <5>2. Subscribed(c, o, s) <=> ~None(listeners[o][s], c)
          BY <2>5, <2>9, <5>1 DEF ToldMatch
        <5> QED
          BY <4>1, <4>2, <4>4, <5>2
      <4> QED
        BY <4>3, <4>4
    <3> QED
      BY <1>4, <3>1, <3>2 DEF Requests, Changes
  <2> QED
    BY <1>8, <2>4, <2>7, <2>8, <2>9 DEF ClientInv, OpenInv
<1> QED
  BY <1>7, <1>8

LEMMA UpstreamAnsweredClients ==
    ASSUME LeaversKeepOnePath, IInv, NEW p \in Paths, UpstreamAnswered(p), NEW d \in Conns
    PROVE  ClientInv(d)'
<1> DEFINE w == Head(upstream[p]).waiter
<1>1. /\ running = NoConn
      /\ \/ w \in awaiting /\ Resume(w)
         \/ UNCHANGED <<awaiting, replies, running, handlers>>
      /\ UNCHANGED <<phase, sent, inbound, queue, current, listeners>>
  BY DEF UpstreamAnswered
<1> HIDE DEF w
<1>2. CASE w \in awaiting /\ Resume(w)
  BY <1>1, <1>2, ResumeClients
<1>3. CASE UNCHANGED <<awaiting, replies, running, handlers>>
  <2>1. Unmoved(d) /\ ListsKept(d)
    BY <1>1, <1>3, SameLists DEF Unmoved, Waits, Told
  <2> QED
    BY <2>1, OthersKept DEF IInv
<1> QED
  BY <1>1, <1>2, <1>3

(* A client that closes used one path: its notes are on the path of the    *)
(* last message dequeued.                                                  *)
LEMMA NotesOnOnePath ==
    ASSUME LeaversKeepOnePath, IInv, NEW c \in Conns, phase[c] = "closing",
           NEW p \in Paths, NEW t \in Topics, handlers[c][p][t] # NoMsg
    PROVE  current[c] # NoMsg /\ p = current[c].path
<1>1. ClientInv(c) /\ BaseInv
  BY DEF IInv
<1>2. c \in Leavers /\ current[c] # NoMsg
  BY <1>1 DEF ClientInv, LeaversClose, NotedAfterFirst
<1>3. /\ current[c] \in SentBy(c)
      /\ handlers[c][p][t] \in {m \in Listener(p, t) : m.from = c}
  BY <1>1, <1>2 DEF BaseInv, Origins
<1>4. current[c].path \in PathsOf[c]
  <2>1. current[c].op \in Requests
    BY <1>2, <1>3, MessageParts DEF LeaversKeepOnePath, Requests
  <2> QED
    BY <1>3, <2>1, MessageParts
<1>5. p \in PathsOf[c]
  BY <1>3 DEF Listener, SentBy, Requests
<1> QED
  BY <1>2, <1>4, <1>5 DEF LeaversKeepOnePath

LEMMA CloseClients ==
    ASSUME LeaversKeepOnePath, IInv, NEW c \in Conns, Close(c), NEW d \in Conns
    PROVE  ClientInv(d)'
<1>1. ClientInv(c) /\ ClientInv(d) /\ BaseInv
  BY DEF IInv
<1>2. /\ phase[c] = "closing" /\ phase' = [phase EXCEPT ![c] = "closed"] /\ running = NoConn
      /\ UNCHANGED <<sent, inbound, queue, current, running, awaiting, subscribed, replies>>
  BY DEF Close
<1>3. Waits(d)' = Waits(d) /\ Told(d)' = Told(d) /\ c \in Leavers
  BY <1>1, <1>2 DEF Waits, Told, ClientInv, LeaversClose
<1>4. \A p \in Paths, t \in Topics :
         \/ One(listeners[p][t], c, handlers[c][p][t])
         \/ None(listeners[p][t], c) /\ handlers[c][p][t] = NoMsg
  <2>1. \A m \in Waits(c) : m.op # "unsub"
    BY <1>1, <1>3, OwnParts DEF LeaversKeepOnePath
  <2> QED
    BY <1>1, <1>2, <2>1 DEF ClientInv, NotesMatch, Waiting
<1>5. \A p \in Paths, t \in Topics :
         handlers[c][p][t] = NoMsg => None(listeners[p][t], c)
  <2> SUFFICES ASSUME NEW p \in Paths, NEW t \in Topics, handlers[c][p][t] = NoMsg,
                      One(listeners[p][t], c, handlers[c][p][t])
               PROVE  FALSE
    BY <1>4
  <2>1. listeners[p][t] \in Seq(Msgs)
    BY <1>1 DEF BaseInv, TypeOK
  <2>2. PICK i \in 1 .. Len(listeners[p][t]) : listeners[p][t][i] = NoMsg
    BY DEF One
  <2> QED
    BY <2>1, <2>2, NoMsgAssumption
<1>6. \/ /\ \A p \in Paths, t \in Topics : handlers[c][p][t] = NoMsg
         /\ UNCHANGED <<handlers, listeners>>
      \/ \E p \in Paths : \E ws \in Seq(UpMsgs) : GivesUp(c, p, ws)
  BY <1>1, <1>2, CloseParts, NotesOnOnePath
<1>7. ASSUME \A p \in Paths, t \in Topics : /\ None(listeners'[p][t], c)
                                            /\ handlers'[c][p][t] = NoMsg,
             d # c => /\ ListsKept(d)
                      /\ \A p \in Paths, t \in Topics : handlers'[d][p][t] = handlers[d][p][t]
      PROVE  ClientInv(d)'
  <2>1. CASE d # c
    <3>1. phase'[d] = phase[d]
      BY <1>1, <1>2, <2>1 DEF BaseInv, TypeOK
    <3>2. Unmoved(d)
      BY <1>2, <1>3, <1>7, <2>1, <3>1 DEF Unmoved
    <3> QED
      BY <1>1, <1>7, <2>1, <3>2, OthersKept
  <2>2. CASE d = c
    <3>1. phase'[c] = "closed" /\ running # c
      BY <1>1, <1>2, RelayAssumption DEF BaseInv, TypeOK
    <3>2. OpenInv(c)' /\ NewIsFresh(c)' /\ LeaversClose(c)'
      BY <1>3, <3>1 DEF OpenInv, NewIsFresh, LeaversClose
    <3>3. QueuedChangesRun(c)'
      BY <1>1, <1>2, <3>1 DEF ClientInv, QueuedChangesRun
    <3>4. NotesMatch(c)' /\ NotedAfterFirst(c)'
      BY <1>7, <3>1 DEF NotesMatch, NotedAfterFirst
    <3> QED
      BY <2>2, <3>2, <3>3, <3>4 DEF ClientInv
  <2> QED
    BY <2>1, <2>2
<1>8. CASE /\ \A p \in Paths, t \in Topics : handlers[c][p][t] = NoMsg
           /\ UNCHANGED <<handlers, listeners>>
  <2>1. /\ \A p \in Paths, t \in Topics : None(listeners'[p][t], c) /\ handlers'[c][p][t] = NoMsg
        /\ \A p \in Paths, t \in Topics : handlers'[d][p][t] = handlers[d][p][t]
    BY <1>5, <1>8
  <2>2. ListsKept(d)
    BY <1>8, SameLists
  <2> QED
    BY <1>7, <2>1, <2>2
<1>9. ASSUME NEW p \in Paths, NEW ws \in Seq(UpMsgs), GivesUp(c, p, ws)
      PROVE  ClientInv(d)'
  <2>1. /\ p = current[c].path
        /\ \A e \in Conns, o \in Paths, t \in Topics :
              handlers'[e][o][t] = IF e = c /\ o = p THEN NoMsg ELSE handlers[e][o][t]
        /\ \A o \in Paths, t \in Topics :
              listeners'[o][t] = IF o = p /\ handlers[c][p][t] # NoMsg /\ listeners[p][t] # <<>>
                                 THEN Without(listeners[p][t], handlers[c][p][t])
                                 ELSE listeners[o][t]
    BY <1>9 DEF GivesUp
  <2>2. ASSUME NEW o \in Paths, NEW t \in Topics
        PROVE  /\ None(listeners'[o][t], c) /\ handlers'[c][o][t] = NoMsg
               /\ d # c => /\ None(listeners'[o][t], d) <=> None(listeners[o][t], d)
                           /\ One(listeners[o][t], d, handlers[d][o][t]) =>
                                 One(listeners'[o][t], d, handlers[d][o][t])
    <3>1. CASE handlers[c][o][t] = NoMsg
      <4>1. listeners'[o][t] = listeners[o][t] /\ handlers'[c][o][t] = NoMsg
        BY <2>1, <3>1
      <4> QED
        BY <1>5, <3>1, <4>1
    <3>2. CASE handlers[c][o][t] # NoMsg
      <4>1. o = p
        BY <1>2, <2>1, <3>2, NotesOnOnePath
      <4>2. One(listeners[o][t], c, handlers[c][o][t])
        BY <1>4, <3>2
      <4>3. listeners[o][t] # <<>>
        <5> DEFINE ls == listeners[o][t]
        <5>1. \E i \in 1 .. Len(ls) : TRUE
          BY <4>2 DEF One
        <5> QED
          BY <5>1
      <4>4. listeners'[o][t] = Without(listeners[o][t], handlers[c][o][t])
        BY <2>1, <3>2, <4>1, <4>3
      <4>5. handlers'[c][o][t] = NoMsg
        BY <2>1, <4>1
      <4>6. ASSUME NEW e \in Conns, e # c
            PROVE  /\ None(listeners'[o][t], c)
                   /\ None(listeners'[o][t], e) <=> None(listeners[o][t], e)
                   /\ One(listeners[o][t], e, handlers[e][o][t]) =>
                         One(listeners'[o][t], e, handlers[e][o][t])
        BY <1>1, <4>2, <4>4, <4>6, CutLists
      <4>7. None(listeners'[o][t], c)
        <5> DEFINE ls == listeners[o][t]
                   l == handlers[c][o][t]
        <5>1. ls \in Seq(Msgs) /\ l.from = c /\ One(ls, c, l)
          BY <1>1, <3>2, <4>2 DEF BaseInv, TypeOK, Origins
        <5>2. listeners'[o][t] = Without(ls, l)
          BY <4>4
        <5> HIDE DEF ls, l
        <5>3. None(Without(ls, l), c)
          BY <5>1, CutKeeps
        <5> QED
          BY <5>2, <5>3
      <4> QED
        BY <4>5, <4>6, <4>7
    <3> QED
      BY <3>1, <3>2
  <2>3. d # c => /\ ListsKept(d)
                 /\ \A o \in Paths, t \in Topics : handlers'[d][o][t] = handlers[d][o][t]
    BY <2>1, <2>2 DEF ListsKept
  <2>4. \A o \in Paths, t \in Topics : /\ None(listeners'[o][t], c)
                                       /\ handlers'[c][o][t] = NoMsg
    BY <2>2
  <2> QED
    BY <1>7, <2>3, <2>4
<1> QED
  BY <1>6, <1>8, <1>9

LEMMA NextClients ==
    ASSUME LeaversKeepOnePath, IInv, [Next]_vars, NEW d \in Conns
    PROVE  ClientInv(d)'
<1>1. ASSUME NEW c \in Conns, ClientSend(c) PROVE ClientInv(d)'
  BY <1>1, ClientSendClients
<1>2. ASSUME NEW c \in Conns, ClientLeave(c) PROVE ClientInv(d)'
  BY <1>2, ClientLeaveClients
<1>3. ASSUME NEW c \in Conns, AddConnection(c) PROVE ClientInv(d)'
  BY <1>3, AddConnectionClients
<1>4. ASSUME NEW c \in Conns, Data(c) PROVE ClientInv(d)'
  BY <1>4, DataClients
<1>5. ASSUME NEW c \in Conns, Forward(c) PROVE ClientInv(d)'
  BY <1>5, ForwardClients
<1>6. ASSUME NEW c \in Conns, Close(c) PROVE ClientInv(d)'
  BY <1>6, CloseClients
<1>7. ASSUME NEW c \in Conns, ClientAnswered(c) PROVE ClientInv(d)'
  <2>1. PICK m \in awaiting : CallAnswered(m)
    BY <1>7 DEF ClientAnswered
  <2>2. /\ Resume(m) /\ running = NoConn
        /\ UNCHANGED <<phase, sent, inbound, queue, current, listeners>>
    BY <2>1 DEF CallAnswered
  <2> QED
    BY <2>2, ResumeClients
<1>8. ASSUME NEW p \in Paths, UpstreamAnswered(p) PROVE ClientInv(d)'
  BY <1>8, UpstreamAnsweredClients
<1>9. CASE UNCHANGED vars
  <2>1. Unmoved(d) /\ ListsKept(d)
    BY <1>9, SameLists DEF vars, Unmoved, Waits, Told
  <2> QED
    BY <2>1, OthersKept DEF IInv
<1> QED
  BY <1>1, <1>2, <1>3, <1>4, <1>5, <1>6, <1>7, <1>8, <1>9 DEF Next

LEMMA InitClients ==
    ASSUME Init, NEW c \in Conns
    PROVE  ClientInv(c)
<1>1. /\ phase[c] = "new" /\ sent[c] = 0 /\ queue[c] = <<>> /\ inbound[c] = <<>>
      /\ Waits(c) = {} /\ Told(c) = {}
      /\ \A p \in Paths, t \in Topics : handlers[c][p][t] = NoMsg /\ listeners[p][t] = <<>>
  BY DEF Init, EmptyTable, Waits, Told
<1>2. None(<<>>, c)
  BY DEF None
<1> QED
  BY <1>1, <1>2 DEF ClientInv, OpenInv, QueuedChangesRun, NotesMatch, NewIsFresh, LeaversClose,
                    NotedAfterFirst

(* The invariant of a relay whose leaving clients keep to one path.        *)
THEOREM ClientInvariance ==
    ASSUME LeaversKeepOnePath
    PROVE  Spec => []IInv
<1>1. Init => IInv
  BY InitBase, InitClients DEF IInv
<1>2. IInv /\ [Next]_vars => IInv'
  <2> SUFFICES ASSUME IInv, [Next]_vars PROVE IInv'
    OBVIOUS
  <2>1. BaseInv'
    BY NextBase DEF IInv
  <2>2. \A d \in Conns : ClientInv(d)'
    BY NextClients
  <2> QED
    BY <2>1, <2>2 DEF IInv
<1> QED
  BY <1>1, <1>2, PTL DEF Spec

(* A client that waits for nothing has exactly one listener where it was   *)
(* told it is subscribed and none elsewhere, and one that has closed has   *)
(* none (dequeue_and_forward and cleanup of lib/message_relay.js).         *)
THEOREM ListenersAlwaysMatch ==
    ASSUME LeaversKeepOnePath
    PROVE  Spec => []ListenersMatchClients
<1>1. IInv => ListenersMatchClients
  <2> SUFFICES ASSUME IInv, NEW c \in Conns, NEW p \in Paths, NEW t \in Topics
               PROVE  /\ phase[c] = "open" /\ Settled(c) =>
                            Cardinality(Mine(c, listeners[p][t])) =
                                IF Subscribed(c, p, t) THEN 1 ELSE 0
                      /\ phase[c] = "closed" => Mine(c, listeners[p][t]) = {}
    BY DEF ListenersMatchClients
  <2> DEFINE ls == listeners[p][t]
  <2>1. ClientInv(c) /\ BaseInv
    BY DEF IInv
  <2>2. None(ls, c) => Mine(c, ls) = {}
    BY DEF None, Mine
  <2>3. One(ls, c, handlers[c][p][t]) /\ ~None(ls, c) => \E i : Mine(c, ls) = {i}
    <3> HIDE DEF ls
    <3> SUFFICES ASSUME One(ls, c, handlers[c][p][t]), ~None(ls, c)
                 PROVE  \E i : Mine(c, ls) = {i}
      OBVIOUS
    <3>1. PICK i \in 1 .. Len(ls) : \A j \in 1 .. Len(ls) : ls[j].from = c => j = i
      BY DEF One
    <3>2. PICK j \in 1 .. Len(ls) : ls[j].from = c
      BY DEF None
    <3>3. Mine(c, ls) = {j}
      BY <3>1, <3>2 DEF Mine
    <3> QED
      BY <3>3
  <2>4. ASSUME phase[c] = "open", Settled(c)
        PROVE  Cardinality(Mine(c, ls)) = IF Subscribed(c, p, t) THEN 1 ELSE 0
    <3>1. PendingInOrder(c) /\ TakenOnce(c) /\ ToldMatch(c) /\ NotesMatch(c)
      BY <2>1, <2>4 DEF ClientInv, OpenInv
    <3>2. Waits(c) = {}
      BY <2>1, <2>4, <3>1, SettledHasNone DEF Settled
    <3>3. Subscribed(c, p, t) <=> ~None(ls, c)
      BY <3>1, <3>2 DEF ToldMatch, Waiting
    <3>4. One(ls, c, handlers[c][p][t]) \/ None(ls, c)
      BY <2>4, <3>1 DEF NotesMatch
    <3> HIDE DEF ls
    <3>5. CASE None(ls, c)
      <4>1. Cardinality(Mine(c, ls)) = 0
        BY <2>2, <3>5, FS_EmptySet
      <4> QED
        BY <3>3, <3>5, <4>1
    <3>6. CASE ~None(ls, c)
      <4>1. PICK i : Mine(c, ls) = {i}
        BY <2>3, <3>4, <3>6
      <4>2. Cardinality(Mine(c, ls)) = 1
        BY <4>1, FS_Singleton
      <4> QED
        BY <3>3, <3>6, <4>2
    <3> QED
      BY <3>5, <3>6
  <2>5. ASSUME phase[c] = "closed" PROVE Mine(c, ls) = {}
    BY <2>1, <2>2, <2>5 DEF ClientInv, NotesMatch
  <2> QED
    BY <2>4, <2>5
<1> QED
  BY <1>1, ClientInvariance, PTL
-----------------------------------------------------------------------------
(* The third part: no message of a client that names only configured paths *)
(* is dropped, and none waits for something that does not come.  It asks   *)
(* nothing of the clients that leave, nor of those that name other paths.  *)
Among(ms, n) == \E i \in 1 .. Len(ms) : ms[i].n = n

Plain(c) == OpsOf[c] \subseteq Requests

(* Somewhere an endpoint has still to take the message.                    *)
OnItsWay(m) == \E p \in Paths : \E i \in 1 .. Len(upstream[p]) : upstream[p][i].waiter = m

WaitersAreServed == \A m \in awaiting : m.op \in Changes => OnItsWay(m)

(* What is queued has a loop, one that runs or one that will be resumed.   *)
LoopsGoOn ==
    \A c \in Conns : Plain(c) /\ queue[c] # <<>> => running = c \/ Waits(c) # {}

Held(c, n) ==
    \/ Among(inbound[c], n) \/ Among(queue[c], n)
    \/ \E m \in Waits(c) \cup Told(c) : m.n = n

NothingDropped ==
    \A c \in Conns :
        /\ phase[c] = "new" => sent[c] = 0
        /\ Plain(c) /\ phase[c] = "open" => \A n \in 1 .. sent[c] : Held(c, n)

FlowInv == BaseInv /\ WaitersAreServed /\ LoopsGoOn /\ NothingDropped

(* Where a message that was sent can be: still to be read; queued, for a   *)
(* loop that runs or will be resumed; awaited, as a call that the endpoint *)
(* answers by itself or a change on its way to it; or answered.            *)
UnderWay(c, n) ==
    \/ Among(inbound[c], n)
    \/ Among(queue[c], n) /\ (running = c \/ Waits(c) # {})
    \/ \E m \in Waits(c) : m.n = n /\ (m.op = "call" \/ OnItsWay(m))
    \/ Answered(c, n)

RequestsAreUnderWay ==
    \A c \in Conns : Plain(c) /\ phase[c] = "open" => \A n \in 1 .. sent[c] : UnderWay(c, n)

LEMMA AmongConcat ==
    ASSUME NEW S, NEW s \in Seq(S), NEW u \in Seq(S), NEW n
    PROVE  Among(s \o u, n) <=> Among(s, n) \/ Among(u, n)
<1> DEFINE z == s \o u
<1>1. /\ Len(z) = Len(s) + Len(u) /\ Len(s) \in Nat /\ Len(u) \in Nat
      /\ \A i \in 1 .. Len(s) + Len(u) : z[i] = IF i <= Len(s) THEN s[i] ELSE u[i - Len(s)]
  BY ConcatElements
<1> HIDE DEF z
<1>2. ASSUME NEW i \in 1 .. Len(z), z[i].n = n PROVE Among(s, n) \/ Among(u, n)
  <2>1. CASE i <= Len(s)
    <3>1. i \in 1 .. Len(s) /\ z[i] = s[i]
      BY <1>1, <2>1
    <3> QED
      BY <1>2, <3>1 DEF Among
  <2>2. CASE ~(i <= Len(s))
    <3>1. i - Len(s) \in 1 .. Len(u) /\ z[i] = u[i - Len(s)]
      BY <1>1, <2>2
    <3> QED
      BY <1>2, <3>1 DEF Among
  <2> QED
    BY <2>1, <2>2
<1>3. ASSUME NEW i \in 1 .. Len(s), s[i].n = n PROVE Among(z, n)
  <2>1. i \in 1 .. Len(z) /\ z[i] = s[i]
    BY <1>1
  <2> QED
    BY <1>3, <2>1 DEF Among
<1>4. ASSUME NEW i \in 1 .. Len(u), u[i].n = n PROVE Among(z, n)
  <2>1. i + Len(s) \in 1 .. Len(z) /\ z[i + Len(s)] = u[i]
    BY <1>1
  <2> QED
    BY <1>4, <2>1 DEF Among
<1>5. (Among(s, n) => Among(z, n)) /\ (Among(u, n) => Among(z, n))
  BY <1>3, <1>4 DEF Among
<1>6. Among(z, n) => Among(s, n) \/ Among(u, n)
  <2> SUFFICES ASSUME Among(z, n) PROVE Among(s, n) \/ Among(u, n)
    OBVIOUS
  <2>1. PICK i \in 1 .. Len(z) : z[i].n = n
    BY DEF Among
  <2> QED
    BY <1>2, <2>1
<1> QED
  BY <1>5, <1>6 DEF z

LEMMA AmongHead ==
    ASSUME NEW S, NEW s \in Seq(S), s # <<>>, NEW n, Among(s, n)
    PROVE  Head(s).n = n \/ Among(Tail(s), n)
<1>1. PICK i \in 1 .. Len(s) : s[i].n = n
  BY DEF Among
<1>2. CASE i = 1
  BY <1>1, <1>2
<1>3. CASE i # 1
  <2> DEFINE v == Tail(s)
  <2>1. i - 1 \in 1 .. Len(v) /\ v[i - 1] = s[i]
    BY <1>3
  <2> HIDE DEF v
  <2>2. Among(v, n)
    BY <1>1, <2>1 DEF Among
  <2> QED
    BY <2>2 DEF v
<1> QED
  BY <1>2, <1>3

LEMMA AmongAppend ==
    ASSUME NEW S, NEW s \in Seq(S), NEW m \in S
    PROVE  Among(Append(s, m), m.n) /\ \A n : Among(s, n) => Among(Append(s, m), n)
<1> DEFINE v == Append(s, m)
<1>1. /\ Len(v) = Len(s) + 1 /\ Len(s) \in Nat /\ v[Len(s) + 1] = m
      /\ \A i \in 1 .. Len(s) : v[i] = s[i]
  OBVIOUS
<1> HIDE DEF v
<1>2. Len(s) + 1 \in 1 .. Len(v) /\ 1 .. Len(s) \subseteq 1 .. Len(v)
  BY <1>1
<1>3. Among(v, m.n)
  BY <1>1, <1>2 DEF Among
<1>4. \A n : Among(s, n) => Among(v, n)
  BY <1>1, <1>2 DEF Among
<1> QED
  BY <1>3, <1>4 DEF v

(* A message on its way stays there when others follow it.                 *)
LEMMA OnItsWayBehind ==
    ASSUME BaseInv, NEW p \in Paths, NEW ws \in Seq(UpMsgs),
           upstream' = [upstream EXCEPT ![p] = @ \o ws], NEW m, OnItsWay(m)
    PROVE  OnItsWay(m)'
<1>1. PICK q \in Paths : \E i \in 1 .. Len(upstream[q]) : upstream[q][i].waiter = m
  BY DEF OnItsWay
<1>2. PICK i \in 1 .. Len(upstream[q]) : upstream[q][i].waiter = m
  BY <1>1
<1>3. upstream \in [Paths -> Seq(UpMsgs)]
  BY DEF BaseInv, TypeOK
<1>4. CASE q # p
  <2>1. upstream'[q] = upstream[q]
    BY <1>3, <1>4
  <2> QED
    BY <1>2, <2>1 DEF OnItsWay
<1>5. CASE q = p
  <2> DEFINE us == upstream[p]
             vs == us \o ws
  <2>1. us \in Seq(UpMsgs) /\ upstream'[p] = vs
    BY <1>3
  <2> HIDE DEF us
  <2>2. /\ Len(vs) = Len(us) + Len(ws) /\ Len(us) \in Nat /\ Len(ws) \in Nat
        /\ \A j \in 1 .. Len(us) + Len(ws) : vs[j] = IF j <= Len(us) THEN us[j] ELSE ws[j - Len(us)]
    BY <2>1, ConcatElements
  <2> HIDE DEF vs
  <2>3. i \in 1 .. Len(us) /\ us[i].waiter = m
    BY <1>2, <1>5 DEF us
  <2>4. i \in 1 .. Len(vs) /\ vs[i].waiter = m
    BY <2>2, <2>3
  <2> QED
    BY <2>1, <2>4 DEF OnItsWay
<1> QED
  BY <1>4, <1>5

(* An activation that comes to wait is on its way, behind the others.      *)
LEMMA OnItsWayAppended ==
    ASSUME BaseInv, NEW p \in Paths, NEW u \in UpMsgs,
           upstream' = [upstream EXCEPT ![p] = Append(@, u)]
    PROVE  OnItsWay(u.waiter)' /\ \A m : OnItsWay(m) => OnItsWay(m)'
<1> DEFINE us == upstream[p]
           vs == Append(us, u)
<1>1. upstream \in [Paths -> Seq(UpMsgs)]
  BY DEF BaseInv, TypeOK
<1>2. us \in Seq(UpMsgs) /\ upstream'[p] = vs
  BY <1>1
<1>3. vs = us \o <<u>> /\ <<u>> \in Seq(UpMsgs)
  <2> HIDE DEF us
  <2> QED
    BY <1>2
<1>4. \A m : OnItsWay(m) => OnItsWay(m)'
  <2>1. upstream' = [upstream EXCEPT ![p] = @ \o <<u>>]
    BY <1>1, <1>3
  <2> QED
    BY <1>3, <2>1, OnItsWayBehind
<1>5. Len(us) + 1 \in 1 .. Len(vs) /\ vs[Len(us) + 1] = u
  <2> HIDE DEF us
  <2> QED
    BY <1>2
<1> HIDE DEF us, vs
<1>6. OnItsWay(u.waiter)'
  BY <1>2, <1>5 DEF OnItsWay
<1> QED
  BY <1>4, <1>6

(* What an endpoint takes is on its way no longer; all else is.            *)
LEMMA OnItsWayTaken ==
    ASSUME BaseInv, NEW p \in Paths, upstream[p] # <<>>,
           upstream' = [upstream EXCEPT ![p] = Tail(@)],
           NEW m, OnItsWay(m), m # Head(upstream[p]).waiter
    PROVE  OnItsWay(m)'
<1>1. PICK q \in Paths : \E i \in 1 .. Len(upstream[q]) : upstream[q][i].waiter = m
  BY DEF OnItsWay
<1>2. PICK i \in 1 .. Len(upstream[q]) : upstream[q][i].waiter = m
  BY <1>1
<1>3. upstream \in [Paths -> Seq(UpMsgs)]
  BY DEF BaseInv, TypeOK
<1>4. CASE q # p
  <2>1. upstream'[q] = upstream[q]
    BY <1>3, <1>4
  <2> QED
    BY <1>2, <2>1 DEF OnItsWay
<1>5. CASE q = p
  <2> DEFINE us == upstream[p]
             vs == Tail(us)
  <2>1. us \in Seq(UpMsgs) /\ us # <<>> /\ upstream'[p] = vs
    BY <1>3
  <2>2. i \in 1 .. Len(us) /\ us[i].waiter = m /\ Head(us).waiter # m
    BY <1>2, <1>5
  <2> HIDE DEF us
  <2>3. i # 1
    BY <2>1, <2>2
  <2>4. i - 1 \in 1 .. Len(vs) /\ vs[i - 1] = us[i]
    BY <2>1, <2>2, <2>3
  <2> HIDE DEF vs
  <2> QED
    BY <2>1, <2>2, <2>4 DEF OnItsWay
<1> QED
  BY <1>4, <1>5

-----------------------------------------------------------------------------
(* Each step.                                                              *)
LEMMA ClientSendFlow ==
    ASSUME FlowInv, NEW c \in Conns, ClientSend(c)
    PROVE  WaitersAreServed' /\ LoopsGoOn' /\ NothingDropped'
<1> USE DEF FlowInv
<1>1. PICK m \in SentBy(c) : m.n = sent[c] + 1 /\ inbound' = [inbound EXCEPT ![c] = Append(@, m)]
  BY SendParts
<1>2. /\ sent' = [sent EXCEPT ![c] = @ + 1] /\ phase[c] = "open"
      /\ UNCHANGED <<phase, queue, running, awaiting, upstream, replies>>
  BY DEF ClientSend
<1>3. WaitersAreServed' /\ LoopsGoOn'
  BY <1>2 DEF WaitersAreServed, OnItsWay, LoopsGoOn, Waits
<1>4. ASSUME NEW d \in Conns
      PROVE  /\ phase'[d] = "new" => sent'[d] = 0
             /\ Plain(d) /\ phase'[d] = "open" => \A n \in 1 .. sent'[d] : Held(d, n)'
  <2>1. Waits(d)' = Waits(d) /\ Told(d)' = Told(d)
    BY <1>2 DEF Waits, Told
  <2>2. CASE d # c
    <3>1. sent'[d] = sent[d] /\ inbound'[d] = inbound[d]
      BY <1>1, <1>2, <2>2 DEF BaseInv, TypeOK
    <3> QED
      BY <1>2, <2>1, <3>1 DEF NothingDropped, Held
  <2>3. CASE d = c
    <3>1. /\ sent'[c] = sent[c] + 1 /\ sent[c] \in Nat /\ inbound'[c] = Append(inbound[c], m)
          /\ inbound[c] \in Seq(SentBy(c))
      BY <1>1, <1>2 DEF BaseInv, TypeOK, Origins
    <3>2. /\ Among(inbound'[c], sent[c] + 1)
          /\ \A n : Among(inbound[c], n) => Among(inbound'[c], n)
      BY <1>1, <3>1, AmongAppend
    <3>3. ASSUME NEW n \in 1 .. sent'[c], Plain(c) PROVE Held(c, n)'
      <4>1. CASE n = sent[c] + 1
        BY <3>2, <4>1 DEF Held
      <4>2. CASE n # sent[c] + 1
        <5>1. n \in 1 .. sent[c]
          BY <3>1, <4>2
        <5>2. Held(c, n)
          BY <1>2, <3>3, <5>1 DEF NothingDropped
        <5> QED
          BY <1>2, <2>1, <2>3, <3>2, <5>2 DEF Held
      <4> QED
        BY <4>1, <4>2
    <3> QED
      BY <1>2, <2>3, <3>3
  <2> QED
    BY <2>2, <2>3
<1> QED
  BY <1>3, <1>4 DEF NothingDropped

(* A client that comes, goes or has gone: nothing of the others moves.     *)
LEMMA PhaseFlow ==
    ASSUME FlowInv, NEW c \in Conns, ClientLeave(c) \/ AddConnection(c) \/ Close(c)
    PROVE  WaitersAreServed' /\ LoopsGoOn' /\ NothingDropped'
<1> USE DEF FlowInv
<1>1. UNCHANGED <<sent, queue, running, awaiting, replies>>
  BY DEF ClientLeave, AddConnection, Close
<1>2. \A d \in Conns : Waits(d)' = Waits(d) /\ Told(d)' = Told(d)
  BY <1>1 DEF Waits, Told
<1>3. \A m : OnItsWay(m) => OnItsWay(m)'
  <2>1. CASE upstream' = upstream
    BY <2>1 DEF OnItsWay
  <2>2. CASE Close(c) /\ upstream' # upstream
    <3>1. PICK p \in Paths, ws \in Seq(UpMsgs) : GivesUp(c, p, ws)
      BY <2>2, CloseParts
    <3> QED
      BY <3>1, OnItsWayBehind DEF GivesUp
  <2> QED
    BY <2>1, <2>2 DEF ClientLeave, AddConnection
<1>4. WaitersAreServed' /\ LoopsGoOn'
  BY <1>1, <1>2, <1>3 DEF WaitersAreServed, LoopsGoOn
<1>5. ASSUME NEW d \in Conns
      PROVE  /\ phase'[d] = "new" => sent'[d] = 0
             /\ Plain(d) /\ phase'[d] = "open" => \A n \in 1 .. sent'[d] : Held(d, n)'
  <2>1. CASE phase'[d] = phase[d]
    <3>1. phase'[d] = "open" => inbound'[d] = inbound[d]
      BY <2>1 DEF ClientLeave, AddConnection, Close, BaseInv, TypeOK
    <3> QED
      BY <1>1, <1>2, <2>1, <3>1 DEF NothingDropped, Held
  <2>2. CASE phase'[d] # phase[d]
    <3>1. d = c /\ phase'[d] # "new" /\ (phase'[d] = "open" => phase[d] = "new")
      BY <2>2 DEF ClientLeave, AddConnection, Close, BaseInv, TypeOK
    <3>2. phase'[d] = "open" => sent'[d] = 0
      BY <1>1, <3>1 DEF NothingDropped
    <3> QED
      BY <3>1, <3>2
  <2> QED
    BY <2>1, <2>2
<1> QED
  BY <1>4, <1>5 DEF NothingDropped

LEMMA DataFlow ==
    ASSUME FlowInv, NEW c \in Conns, Data(c)
    PROVE  WaitersAreServed' /\ LoopsGoOn' /\ NothingDropped'
<1> USE DEF FlowInv
<1>1. PICK q, rest \in Seq(SentBy(c)) :
         /\ q \o rest = queue[c] \o inbound[c]
         /\ inbound' = [inbound EXCEPT ![c] = rest]
         /\ queue' = [queue EXCEPT ![c] = q]
         /\ running' = IF q = <<>> THEN NoConn ELSE c
  BY DataParts
<1>2. running = NoConn /\ UNCHANGED <<phase, sent, awaiting, upstream, replies>>
  BY DEF Data
<1>3. /\ queue[c] \in Seq(SentBy(c)) /\ inbound[c] \in Seq(SentBy(c))
      /\ inbound'[c] = rest /\ queue'[c] = q
      /\ \A d \in Conns : d # c => inbound'[d] = inbound[d] /\ queue'[d] = queue[d]
  BY <1>1 DEF BaseInv, TypeOK, Origins
<1>4. \A d \in Conns : Waits(d)' = Waits(d) /\ Told(d)' = Told(d)
  BY <1>2 DEF Waits, Told
<1>5. WaitersAreServed'
  BY <1>2 DEF WaitersAreServed, OnItsWay
<1>6. LoopsGoOn'
  BY <1>1, <1>2, <1>3, <1>4, RelayAssumption DEF LoopsGoOn
<1>7. \A n : Among(queue[c], n) \/ Among(inbound[c], n) => Among(q, n) \/ Among(rest, n)
  <2> TAKE n
  <2>1. Among(q \o rest, n) <=> Among(q, n) \/ Among(rest, n)
    BY AmongConcat
  <2>2. Among(queue[c] \o inbound[c], n) <=> Among(queue[c], n) \/ Among(inbound[c], n)
    BY <1>3, AmongConcat
  <2> QED
    BY <1>1, <2>1, <2>2
<1>8. \A d \in Conns : \A n : Held(d, n) => Held(d, n)'
  BY <1>3, <1>4, <1>7 DEF Held
<1> QED
  BY <1>2, <1>5, <1>6, <1>8 DEF NothingDropped

LEMMA ForwardFlow ==
    ASSUME FlowInv, NEW c \in Conns, Forward(c)
    PROVE  WaitersAreServed' /\ LoopsGoOn' /\ NothingDropped'
<1> USE DEF FlowInv
<1>0. PICK m, q : m = Head(queue[c]) /\ q = Tail(queue[c])
  OBVIOUS
<1>1. /\ queue[c] \in Seq(SentBy(c)) /\ queue[c] # <<>>
      /\ m \in SentBy(c) /\ q \in Seq(SentBy(c)) /\ running = c
      /\ queue' = [queue EXCEPT ![c] = q]
      /\ UNCHANGED <<phase, sent, inbound>>
      /\ \/ m.op \notin Requests /\ UNCHANGED <<awaiting, upstream, replies>>
         \/ /\ m.op = "call" /\ awaiting' = awaiting \cup {m}
            /\ UNCHANGED <<upstream, replies>>
         \/ m.op = "sub" /\ Sub(c, m, q)
         \/ m.op = "unsub" /\ Unsub(c, m, q)
  BY <1>0, ForwardParts
<1>2. \A n : Among(queue[c], n) => m.n = n \/ Among(q, n)
  BY <1>0, <1>1, AmongHead
<1>3. /\ queue'[c] = q
      /\ \A d \in Conns : d # c => queue'[d] = queue[d]
  BY <1>1 DEF BaseInv, TypeOK
<1>4. running' = NoConn \/ running' = c
  BY ForwardParts
<1>5. m \in Msgs /\ m.from = c /\ (m.op \in Requests => m.path \in Paths /\ m.topic \in Topics)
  BY <1>1, MessageParts
<1>6. m.op \in Changes =>
            \/ /\ awaiting' = awaiting \cup {m} /\ replies' = replies
               /\ upstream' = [upstream EXCEPT ![m.path] =
                     Append(@, [op |-> m.op, topic |-> m.topic, waiter |-> m])]
            \/ /\ UNCHANGED <<upstream, awaiting>>
               /\ replies' = IF phase[c] = "open" THEN replies \cup {m} ELSE replies
               /\ running' = IF q = <<>> THEN NoConn ELSE c
  <2>1. CASE m.op = "sub" /\ Sub(c, m, q)
    BY <1>5, <2>1 DEF Sub, Await, Write, Continue
  <2>2. CASE m.op = "unsub" /\ Unsub(c, m, q)
    BY <1>5, <2>2 DEF Unsub, Await, Write, Continue
  <2> QED
    BY <1>1, <2>1, <2>2 DEF Changes, Requests
<1>7. Requests = Changes \cup {"call"}
  BY DEF Requests, Changes
<1>8. \A d \in Conns : /\ Waits(d) \subseteq Waits(d)' /\ Told(d) \subseteq Told(d)'
                       /\ Waits(d) \cup Told(d) \subseteq (Waits(d) \cup Told(d))'
  <2>1. awaiting \subseteq awaiting' /\ replies \subseteq replies'
    BY <1>1, <1>6 DEF Changes
  <2> QED
    BY <2>1 DEF Waits, Told
<1>9. WaitersAreServed'
  <2>1. CASE upstream' = upstream /\ (awaiting' = awaiting \/ m.op \notin Changes)
    <3>1. \A k : OnItsWay(k) => OnItsWay(k)'
      BY <2>1 DEF OnItsWay
    <3> QED
      BY <1>1, <1>7, <2>1, <3>1 DEF WaitersAreServed, Changes
  <2>2. CASE /\ m.op \in Changes /\ awaiting' = awaiting \cup {m}
             /\ upstream' = [upstream EXCEPT ![m.path] =
                   Append(@, [op |-> m.op, topic |-> m.topic, waiter |-> m])]
    <3>1. PICK u : u = [op |-> m.op, topic |-> m.topic, waiter |-> m]
      OBVIOUS
    <3>2. u \in UpMsgs /\ u.waiter = m
      BY <1>5, <1>7, <2>2, <3>1 DEF UpMsgs, Changes
    <3>3. OnItsWay(m)' /\ \A k : OnItsWay(k) => OnItsWay(k)'
      BY <1>5, <1>7, <2>2, <3>1, <3>2, OnItsWayAppended
    <3> QED
      BY <2>2, <3>3 DEF WaitersAreServed
  <2> QED
    BY <1>1, <1>6, <1>7, <2>1, <2>2 DEF Changes
<1>10. Plain(c) => m.op \in Requests
  BY <1>1, MessageParts DEF Plain
<1>11. LoopsGoOn'
  <2> SUFFICES ASSUME NEW d \in Conns, Plain(d), queue'[d] # <<>>
               PROVE  running' = d \/ Waits(d)' # {}
    BY DEF LoopsGoOn, Plain
  <2>1. CASE d # c
    BY <1>1, <1>3, <1>8, <2>1 DEF LoopsGoOn
  <2>2. CASE d = c
    <3>1. CASE awaiting' = awaiting \cup {m}
      BY <1>5, <2>2, <3>1 DEF Waits
    <3>2. CASE running' = IF q = <<>> THEN NoConn ELSE c
      BY <1>3, <2>2, <3>2
    <3> QED
      BY <1>1, <1>6, <1>7, <1>10, <2>2, <3>1, <3>2
  <2> QED
    BY <2>1, <2>2
<1>12. ASSUME NEW d \in Conns, Plain(d), phase[d] = "open", NEW n, Held(d, n) PROVE Held(d, n)'
  <2>1. CASE d # c
    BY <1>1, <1>3, <1>8, <1>12, <2>1 DEF Held
  <2>2. CASE d = c
    <3>1. m \in (Waits(c) \cup Told(c))'
      BY <1>1, <1>5, <1>6, <1>7, <1>10, <1>12, <2>2 DEF Waits, Told
    <3> QED
      BY <1>1, <1>2, <1>3, <1>8, <1>12, <2>2, <3>1 DEF Held
  <2> QED
    BY <2>1, <2>2
<1> QED
  BY <1>1, <1>9, <1>11, <1>12 DEF NothingDropped

(* An activation resumes: its message is answered and its loop goes on.    *)
LEMMA ResumeFlow ==
    ASSUME FlowInv, NEW m \in awaiting, Resume(m), running = NoConn,
           UNCHANGED <<phase, sent, inbound, queue>>
    PROVE  LoopsGoOn' /\ NothingDropped'
<1> USE DEF FlowInv
<1> DEFINE c == m.from
<1>1. /\ c \in Conns /\ awaiting' = awaiting \ {m}
      /\ replies' = IF phase[c] = "open" THEN replies \cup {m} ELSE replies
      /\ running' = IF queue[c] = <<>> THEN NoConn ELSE c
  BY ResumeParts
<1>2. \A d \in Conns : d # c => Waits(d)' = Waits(d) /\ Told(d)' = Told(d)
  BY <1>1 DEF Waits, Told
<1>3. LoopsGoOn'
  BY <1>1, <1>2, RelayAssumption DEF LoopsGoOn, Plain
<1>4. ASSUME NEW d \in Conns, phase[d] = "open", NEW n, Held(d, n) PROVE Held(d, n)'
  <2>1. CASE d # c
    BY <1>2, <1>4, <2>1 DEF Held
  <2>2. CASE d = c
    <3>1. (Waits(c) \cup Told(c)) \subseteq (Waits(c) \cup Told(c))'
      BY <1>1, <1>4, <2>2 DEF Waits, Told
    <3> QED
      BY <1>4, <2>2, <3>1 DEF Held
  <2> QED
    BY <2>1, <2>2
<1> QED
  BY <1>3, <1>4 DEF NothingDropped, Plain

LEMMA ClientAnsweredFlow ==
    ASSUME FlowInv, NEW c \in Conns, ClientAnswered(c)
    PROVE  WaitersAreServed' /\ LoopsGoOn' /\ NothingDropped'
<1>1. PICK m \in awaiting : CallAnswered(m)
  BY DEF ClientAnswered
<1>2. /\ Resume(m) /\ running = NoConn
      /\ UNCHANGED <<phase, sent, inbound, queue, upstream>>
  BY <1>1 DEF CallAnswered
<1>3. WaitersAreServed'
  BY <1>2 DEF FlowInv, WaitersAreServed, OnItsWay, Resume
<1> QED
  BY <1>2, <1>3, ResumeFlow

LEMMA UpstreamAnsweredFlow ==
    ASSUME FlowInv, NEW p \in Paths, UpstreamAnswered(p)
    PROVE  WaitersAreServed' /\ LoopsGoOn' /\ NothingDropped'
<1> USE DEF FlowInv
<1> DEFINE k == Head(upstream[p]).waiter
<1>1. /\ running = NoConn /\ upstream[p] # <<>>
      /\ \/ k \in awaiting /\ Resume(k)
         \/ k \notin awaiting /\ UNCHANGED <<awaiting, replies, running, handlers>>
      /\ upstream' = [upstream EXCEPT ![p] = Tail(@)]
      /\ UNCHANGED <<phase, sent, inbound, queue>>
  BY DEF UpstreamAnswered
<1>2. awaiting' \subseteq awaiting \ {k}
  BY <1>1 DEF Resume
<1>3. WaitersAreServed'
  BY <1>1, <1>2, OnItsWayTaken DEF WaitersAreServed
<1> HIDE DEF k
<1>4. CASE k \in awaiting /\ Resume(k)
  BY <1>1, <1>3, <1>4, ResumeFlow
<1>5. CASE UNCHANGED <<awaiting, replies, running>>
  <2>1. \A d \in Conns : Waits(d)' = Waits(d) /\ Told(d)' = Told(d)
    BY <1>5 DEF Waits, Told
  <2> QED
    BY <1>1, <1>3, <1>5, <2>1 DEF LoopsGoOn, NothingDropped, Held
<1> QED
  BY <1>1, <1>4, <1>5

(* The invariant of the third part, whatever the clients do.               *)
THEOREM FlowInvariance == Spec => []FlowInv
<1>1. Init => FlowInv
  <2> SUFFICES ASSUME Init PROVE FlowInv
    OBVIOUS
  <2>1. BaseInv
    BY InitBase
  <2>2. WaitersAreServed /\ LoopsGoOn /\ NothingDropped
    BY DEF Init, WaitersAreServed, LoopsGoOn, NothingDropped
  <2> QED
    BY <2>1, <2>2 DEF FlowInv
<1>2. FlowInv /\ [Next]_vars => FlowInv'
  <2> SUFFICES ASSUME FlowInv, [Next]_vars PROVE FlowInv'
    OBVIOUS
  <2>1. BaseInv'
    BY NextBase DEF FlowInv
  <2>2. WaitersAreServed' /\ LoopsGoOn' /\ NothingDropped'
    <3>1. ASSUME NEW c \in Conns, ClientSend(c)
          PROVE  WaitersAreServed' /\ LoopsGoOn' /\ NothingDropped'
      BY <3>1, ClientSendFlow
    <3>2. ASSUME NEW c \in Conns, ClientLeave(c) \/ AddConnection(c) \/ Close(c)
          PROVE  WaitersAreServed' /\ LoopsGoOn' /\ NothingDropped'
      BY <3>2, PhaseFlow
    <3>3. ASSUME NEW c \in Conns, Data(c)
          PROVE  WaitersAreServed' /\ LoopsGoOn' /\ NothingDropped'
      BY <3>3, DataFlow
    <3>4. ASSUME NEW c \in Conns, Forward(c)
          PROVE  WaitersAreServed' /\ LoopsGoOn' /\ NothingDropped'
      BY <3>4, ForwardFlow
    <3>5. ASSUME NEW c \in Conns, ClientAnswered(c)
          PROVE  WaitersAreServed' /\ LoopsGoOn' /\ NothingDropped'
      BY <3>5, ClientAnsweredFlow
    <3>6. ASSUME NEW p \in Paths, UpstreamAnswered(p)
          PROVE  WaitersAreServed' /\ LoopsGoOn' /\ NothingDropped'
      BY <3>6, UpstreamAnsweredFlow
    <3>7. CASE UNCHANGED vars
      BY <3>7 DEF vars, FlowInv, WaitersAreServed, OnItsWay, LoopsGoOn, Waits, NothingDropped,
                  Held, Told
    <3> QED
      BY <3>1, <3>2, <3>3, <3>4, <3>5, <3>6, <3>7 DEF Next
  <2> QED
    BY <2>1, <2>2 DEF FlowInv
<1> QED
  BY <1>1, <1>2, PTL DEF Spec

(* Every message of a client that names only configured paths is answered, *)
(* or something will carry it on: it is still to be read, a loop that runs *)
(* or waits has it in its queue, or it waits for an answer the endpoint    *)
(* has still to give (dequeue_and_forward of lib/message_relay.js).  This  *)
(* is the safety half of EveryRequestAnswered.                             *)
THEOREM NoRequestIsStuck == Spec => []RequestsAreUnderWay
<1>1. FlowInv => RequestsAreUnderWay
  <2> SUFFICES ASSUME FlowInv, NEW c \in Conns, Plain(c), phase[c] = "open",
                      NEW n \in 1 .. sent[c]
               PROVE  UnderWay(c, n)
    BY DEF RequestsAreUnderWay
  <2>1. Held(c, n)
    BY DEF FlowInv, NothingDropped
  <2>2. CASE Among(inbound[c], n)
    BY <2>2 DEF UnderWay
  <2>3. CASE Among(queue[c], n)
    <3>1. queue[c] # <<>>
      BY <2>3 DEF Among
    <3> QED
      BY <2>3, <3>1 DEF FlowInv, LoopsGoOn, UnderWay
  <2>4. CASE \E m \in Waits(c) : m.n = n
    <3>1. PICK m \in Waits(c) : m.n = n
      BY <2>4
    <3>2. m \in awaiting /\ m.op \in Requests
      BY OwnParts DEF FlowInv, Waits
    <3>3. m.op = "call" \/ OnItsWay(m)
      BY <3>2 DEF FlowInv, WaitersAreServed, Requests, Changes
    <3> QED
      BY <3>1, <3>3 DEF UnderWay
  <2>5. CASE \E m \in Told(c) : m.n = n
    BY <2>5 DEF Told, Answered, UnderWay
  <2> QED
    BY <2>1, <2>2, <2>3, <2>4, <2>5 DEF Held
<1> QED
  BY <1>1, FlowInvariance, PTL
=============================================================================
