---------------------- MODULE PathSubscriptions_proofs ----------------------
(***************************************************************************)
(* Proofs about PathSubscriptions, for any paths and topics and any number *)
(* of clients.  What endpoint and client agree on when nothing is on its   *)
(* way is, before that, what they will agree on: what the requests still   *)
(* on the wire will have made of the endpoint's table.                     *)
(***************************************************************************)
EXTENDS PathSubscriptions, TLAPS

Changes(r, t) == r.op \in {"sub", "unsub"} /\ r.key[1] = t

(* Whether t is in the table when an endpoint whose table is s has taken   *)
(* the requests w: the last request about t counts, or the table.          *)
EndsServed(w, s, t) ==
    \/ t \in s /\ \A i \in 1 .. Len(w) : ~Changes(w[i], t)
    \/ \E i \in 1 .. Len(w) :
          /\ Changes(w[i], t) /\ w[i].op = "sub"
          /\ \A j \in i + 1 .. Len(w) : ~Changes(w[j], t)

\* What one request makes of the table (Serve).
After(r, s) == IF r.op = "sub" THEN s \cup {r.key[1]}
               ELSE IF r.op = "unsub" THEN s \ {r.key[1]} ELSE s

-----------------------------------------------------------------------------
LEMMA EndsServedEmpty ==
    ASSUME NEW s, NEW t
    PROVE  EndsServed(<<>>, s, t) <=> t \in s
  BY DEF EndsServed

(* A request that is written decides for its topic, and for no other.      *)
LEMMA EndsServedAppend ==
    ASSUME NEW w \in Seq(Requests), NEW r \in Requests, NEW s, NEW t
    PROVE  EndsServed(Append(w, r), s, t) <=>
              IF Changes(r, t) THEN r.op = "sub" ELSE EndsServed(w, s, t)
<1> DEFINE v == Append(w, r)
           n == Len(w)
<1>1. /\ n \in Nat /\ Len(v) = n + 1 /\ v[n + 1] = r
      /\ \A i \in 1 .. n : v[i] = w[i]
  OBVIOUS
<1> HIDE DEF v, n
<1>2. CASE Changes(r, t)
  <2>1. \A i \in 1 .. n : ~ \A j \in i + 1 .. n + 1 : ~Changes(v[j], t)
    <3> SUFFICES ASSUME NEW i \in 1 .. n
                 PROVE  \E j \in i + 1 .. n + 1 : Changes(v[j], t)
      OBVIOUS
    <3>1. n + 1 \in i + 1 .. n + 1
      BY <1>1
    <3> QED
      BY <1>1, <1>2, <3>1
  <2>2. n + 1 \in 1 .. n + 1 /\ (n + 1) + 1 .. n + 1 = {}
    BY <1>1
  <2>3. \A i \in 1 .. n + 1 : i \in 1 .. n \/ i = n + 1
    BY <1>1
  <2> QED
    BY <1>1, <1>2, <2>1, <2>2, <2>3 DEF EndsServed, v
<1>3. CASE ~Changes(r, t)
  <2>1. \A i \in 1 .. n + 1 : Changes(v[i], t) <=> i \in 1 .. n /\ Changes(w[i], t)
    BY <1>1, <1>3
  <2>2. 1 .. n \subseteq 1 .. n + 1
    BY <1>1
  <2>3. \A i \in 1 .. n : /\ i + 1 .. n \subseteq i + 1 .. n + 1
                          /\ i + 1 .. n + 1 \subseteq 1 .. n + 1
                          /\ i + 1 .. n \subseteq 1 .. n
                          /\ \A j \in i + 1 .. n + 1 : j \in 1 .. n => j \in i + 1 .. n
    BY <1>1
  <2>4. \A i \in 1 .. n : (\A j \in i + 1 .. n + 1 : ~Changes(v[j], t))
                             <=> (\A j \in i + 1 .. n : ~Changes(w[j], t))
    BY <2>1, <2>3
  <2>5. \A i \in 1 .. n : v[i] = w[i]
    BY <1>1
  <2>6. EndsServed(v, s, t) <=>
          \/ t \in s /\ \A i \in 1 .. n + 1 : ~Changes(v[i], t)
          \/ \E i \in 1 .. n + 1 :
                /\ Changes(v[i], t) /\ v[i].op = "sub"
                /\ \A j \in i + 1 .. n + 1 : ~Changes(v[j], t)
    BY <1>1 DEF EndsServed
  <2>7. EndsServed(w, s, t) <=>
          \/ t \in s /\ \A i \in 1 .. n : ~Changes(w[i], t)
          \/ \E i \in 1 .. n :
                /\ Changes(w[i], t) /\ w[i].op = "sub"
                /\ \A j \in i + 1 .. n : ~Changes(w[j], t)
    BY DEF EndsServed, n
  <2> QED
    BY <1>3, <2>1, <2>2, <2>4, <2>5, <2>6, <2>7 DEF v
<1> QED
  BY <1>2, <1>3

(* Taking the first request changes nothing about how it will end.         *)
LEMMA EndsServedTail ==
    ASSUME NEW w \in Seq(Requests), w # <<>>, NEW s, NEW t
    PROVE  EndsServed(Tail(w), After(Head(w), s), t) <=> EndsServed(w, s, t)
<1> DEFINE v == Tail(w)
           n == Len(w)
           r == Head(w)
<1>1. /\ n \in Nat \ {0} /\ Len(v) = n - 1 /\ r = w[1] /\ r \in Requests
      /\ \A i \in 1 .. n - 1 : v[i] = w[i + 1]
  OBVIOUS
<1> HIDE DEF v, n, r
<1>2. t \in After(r, s) <=> IF Changes(r, t) THEN r.op = "sub" ELSE t \in s
  BY DEF After, Changes
<1>3. (\A i \in 1 .. n - 1 : ~Changes(v[i], t)) <=> (\A j \in 2 .. n : ~Changes(w[j], t))
  <2>1. ASSUME NEW j \in 2 .. n, \A i \in 1 .. n - 1 : ~Changes(v[i], t)
        PROVE  ~Changes(w[j], t)
    <3>1. j - 1 \in 1 .. n - 1 /\ (j - 1) + 1 = j
      BY <1>1
    <3> QED
      BY <1>1, <2>1, <3>1
  <2>2. ASSUME NEW i \in 1 .. n - 1, \A j \in 2 .. n : ~Changes(w[j], t)
        PROVE  ~Changes(v[i], t)
    <3>1. i + 1 \in 2 .. n
      BY <1>1
    <3> QED
      BY <1>1, <2>2, <3>1
  <2> QED
    BY <2>1, <2>2
<1> DEFINE Last(x, i) == /\ Changes(x[i], t) /\ x[i].op = "sub"
                         /\ \A j \in i + 1 .. Len(x) : ~Changes(x[j], t)
<1>4. \A i \in 1 .. n - 1 : Last(v, i) <=> Last(w, i + 1)
  <2> SUFFICES ASSUME NEW i \in 1 .. n - 1
               PROVE  (\A j \in i + 1 .. n - 1 : ~Changes(v[j], t))
                         <=> (\A j \in (i + 1) + 1 .. n : ~Changes(w[j], t))
    BY <1>1 DEF n
  <2>1. ASSUME NEW j \in (i + 1) + 1 .. n, \A l \in i + 1 .. n - 1 : ~Changes(v[l], t)
        PROVE  ~Changes(w[j], t)
    <3>1. j - 1 \in i + 1 .. n - 1 /\ j - 1 \in 1 .. n - 1 /\ (j - 1) + 1 = j
      BY <1>1
    <3> QED
      BY <1>1, <2>1, <3>1
  <2>2. ASSUME NEW j \in i + 1 .. n - 1, \A l \in (i + 1) + 1 .. n : ~Changes(w[l], t)
        PROVE  ~Changes(v[j], t)
    <3>1. j + 1 \in (i + 1) + 1 .. n /\ j \in 1 .. n - 1
      BY <1>1
    <3> QED
      BY <1>1, <2>2, <3>1
  <2> QED
    BY <2>1, <2>2
<1>5. (\E i \in 1 .. n : Last(w, i)) <=>
         Last(w, 1) \/ \E i \in 1 .. n - 1 : Last(v, i)
  <2>1. ASSUME NEW i \in 1 .. n, Last(w, i), i # 1 PROVE \E l \in 1 .. n - 1 : Last(v, l)
    <3>1. i - 1 \in 1 .. n - 1 /\ (i - 1) + 1 = i
      BY <1>1, <2>1
    <3> HIDE DEF Last
    <3> QED
      BY <1>4, <2>1, <3>1
  <2>2. ASSUME NEW l \in 1 .. n - 1, Last(v, l) PROVE \E i \in 1 .. n : Last(w, i)
    <3>1. l + 1 \in 1 .. n
      BY <1>1
    <3> HIDE DEF Last
    <3> QED
      BY <1>4, <2>2, <3>1
  <2>3. 1 \in 1 .. n
    BY <1>1
  <2> HIDE DEF Last
  <2> QED
    BY <2>1, <2>2, <2>3
<1>6. Last(w, 1) <=> Changes(r, t) /\ r.op = "sub" /\ \A j \in 2 .. n : ~Changes(w[j], t)
  BY <1>1 DEF n
<1>7. (\A i \in 1 .. n : ~Changes(w[i], t)) <=>
         ~Changes(r, t) /\ \A j \in 2 .. n : ~Changes(w[j], t)
  <2>1. \A i \in 1 .. n : i = 1 \/ i \in 2 .. n
    BY <1>1
  <2>2. 1 \in 1 .. n /\ 2 .. n \subseteq 1 .. n
    BY <1>1
  <2> QED
    BY <1>1, <2>1, <2>2
<1>8. EndsServed(w, s, t) <=>
         (t \in s /\ \A i \in 1 .. n : ~Changes(w[i], t)) \/ \E i \in 1 .. n : Last(w, i)
  BY DEF EndsServed, n
<1>9. EndsServed(v, After(r, s), t) <=>
         \/ t \in After(r, s) /\ \A i \in 1 .. n - 1 : ~Changes(v[i], t)
         \/ \E i \in 1 .. n - 1 : Last(v, i)
  BY <1>1 DEF EndsServed
<1> HIDE DEF Last
<1> QED
  BY <1>2, <1>3, <1>5, <1>6, <1>7, <1>8, <1>9 DEF v, r

-----------------------------------------------------------------------------
(* A path that has an entry has a client, made for it when there is a      *)
(* client per path.                                                        *)
PathsHaveClients ==
    /\ \A p \in subscribed : connections[p] # 0
    /\ \A p \in Paths : connections[p] # 0 =>
          /\ sock[connections[p]] # "none"
          /\ kind = "multi" => madeFor[connections[p]] = p

(* Nothing is on its way to or known at an endpoint without a connection,  *)
(* and a client not made yet has no notes.                                 *)
OnlyOpenOnesServed ==
    \A k \in Conns :
        /\ sock[k] # "open" => wire[k] = <<>> /\ served[k] = {}
        /\ sock[k] = "none" => noted[k] = {}

(* With a client per path, a client notes its own path only.               *)
NotesOfOwnPath ==
    kind = "multi" => \A k \in Conns : \A key \in noted[k] : key[2] = madeFor[k]

(* A second handler of a key came with a second subscribe.                 *)
SecondOnlyAgain ==
    \A k \in Conns, key \in Keys : listeners[k][key] > 1 => key \in again[k]

Ends(k, t) == EndsServed(wire[k], served[k], t)

(* What the endpoint will serve is noted ...                               *)
ServedWillBeNoted ==
    \A k \in Conns, t \in Topics : Ends(k, t) => \E p \in Paths : <<t, p>> \in noted[k]

(* ... and what is noted will be served, or was never written.             *)
NotedWillBeServed ==
    kind = "multi" =>
        \A k \in Conns : sock[k] # "closed" =>
            \A key \in noted[k] : Ends(k, key[1]) \/ key \in lost[k]

IInv ==
    /\ TypeOK
    /\ PathsHaveClients
    /\ OnlyOpenOnesServed
    /\ NotesOfOwnPath
    /\ HandlersFollowNotes
    /\ SecondOnlyAgain
    /\ ServedWillBeNoted
    /\ NotedWillBeServed

LEMMA InitIInv == Init => IInv
<1> SUFFICES ASSUME Init PROVE IInv
  OBVIOUS
<1>1. (CHOOSE p \in Paths : TRUE) \in Paths
  BY PathSubscriptionsAssumption
<1>2. 1 \in Conns /\ 1 \in 0 .. MaxConns /\ 0 \in 0 .. MaxConns /\ 0 \in 0 .. MaxCalls
  BY PathSubscriptionsAssumption DEF Conns
<1>3. TypeOK
  BY <1>1, <1>2 DEF Init, TypeOK
<1>4. \A k \in Conns, t \in Topics : ~Ends(k, t)
  BY EndsServedEmpty DEF Init, Ends
<1> QED
  BY <1>2, <1>3, <1>4, PathSubscriptionsAssumption
     DEF Init, IInv, PathsHaveClients, OnlyOpenOnesServed, NotesOfOwnPath,
         HandlersFollowNotes, SecondOnlyAgain, ServedWillBeNoted, NotedWillBeServed

LEMMA CallTyped ==
    ASSUME TypeOK, Call
    PROVE  calls' \in 0 .. MaxCalls
  BY PathSubscriptionsAssumption DEF TypeOK, Call

LEMMA KeyParts ==
    ASSUME NEW key \in Keys
    PROVE  key[1] \in Topics /\ key[2] \in Paths /\ key = <<key[1], key[2]>>
  BY DEF Keys

-----------------------------------------------------------------------------
LEMMA AddRelayPathIInv ==
    ASSUME IInv, NEW p \in Paths, AddRelayPath(p)
    PROVE  IInv'
<1> USE DEF IInv
<1>1. PICK k \in Conns : /\ sock[k] = "none"
                         /\ sock' = [sock EXCEPT ![k] = "connecting"]
                         /\ connections' = [connections EXCEPT ![p] = k]
                         /\ madeFor' = [madeFor EXCEPT ![k] = p]
  BY DEF AddRelayPath
<1>2. /\ kind = "multi" /\ subscribed' = subscribed \cup {p}
      /\ UNCHANGED <<kind, awaiting, listeners, noted, again, lost, wire, served, updates>>
  BY DEF AddRelayPath, handlerVars
<1>3. k \in 1 .. MaxConns /\ k # 0 /\ k \in 0 .. MaxConns
  BY PathSubscriptionsAssumption DEF Conns
<1>4. TypeOK'
  BY <1>1, <1>2, <1>3, CallTyped DEF TypeOK, AddRelayPath
<1>5. PathsHaveClients'
  BY <1>1, <1>2, <1>3 DEF TypeOK, PathsHaveClients
<1>6. noted[k] = {}
  BY <1>1 DEF OnlyOpenOnesServed
<1>7. OnlyOpenOnesServed'
  BY <1>1, <1>2 DEF TypeOK, OnlyOpenOnesServed
<1>8. NotesOfOwnPath'
  BY <1>1, <1>2, <1>6 DEF TypeOK, NotesOfOwnPath
<1>9. HandlersFollowNotes' /\ SecondOnlyAgain'
  BY <1>2 DEF HandlersFollowNotes, SecondOnlyAgain
<1>10. ServedWillBeNoted'
  BY <1>2 DEF ServedWillBeNoted, Ends
<1>11. NotedWillBeServed'
  BY <1>1, <1>2, <1>6 DEF TypeOK, NotedWillBeServed, Ends
<1> QED
  BY <1>4, <1>5, <1>7, <1>8, <1>9, <1>10, <1>11

LEMMA ReadyIInv ==
    ASSUME IInv, NEW k \in Conns, Ready(k)
    PROVE  IInv'
<1> USE DEF IInv
<1>1. /\ sock[k] = "connecting"
      /\ sock' = [sock EXCEPT ![k] = "open"]
      /\ awaiting' = awaiting \ {madeFor[k]}
      /\ UNCHANGED <<kind, connections, subscribed, madeFor, listeners, noted, again, lost,
                     wire, served, updates, calls>>
  BY DEF Ready, handlerVars
<1>2. TypeOK'
  BY <1>1 DEF TypeOK
<1>3. PathsHaveClients'
  BY <1>1 DEF TypeOK, PathsHaveClients
<1>4. OnlyOpenOnesServed'
  BY <1>1 DEF TypeOK, OnlyOpenOnesServed
<1>5. NotesOfOwnPath' /\ HandlersFollowNotes' /\ SecondOnlyAgain' /\ ServedWillBeNoted'
  BY <1>1 DEF NotesOfOwnPath, HandlersFollowNotes, SecondOnlyAgain, ServedWillBeNoted, Ends
<1>6. NotedWillBeServed'
  BY <1>1 DEF TypeOK, NotedWillBeServed, Ends
<1> QED
  BY <1>2, <1>3, <1>4, <1>5, <1>6

LEMMA AwaitReadyIInv ==
    ASSUME IInv, NEW p \in Paths, AwaitReady(p)
    PROVE  IInv'
<1> USE DEF IInv
<1>1. /\ awaiting' = awaiting \cup {p}
      /\ UNCHANGED <<kind, connections, subscribed, madeFor, sock, listeners, noted, again, lost,
                     wire, served, updates>>
  BY DEF AwaitReady, handlerVars
<1>2. TypeOK'
  BY <1>1, CallTyped DEF TypeOK, AwaitReady
<1> QED
  BY <1>1, <1>2 DEF PathsHaveClients, OnlyOpenOnesServed, NotesOfOwnPath, HandlersFollowNotes,
       SecondOnlyAgain, ServedWillBeNoted, NotedWillBeServed, Ends

(* Closing empties both ends; what is noted stays, and promises no more.   *)
LEMMA CloseIInv ==
    ASSUME IInv, NEW K, Close(K), \A k \in K : sock[k] # "none",
           subscribed' \subseteq subscribed, calls' \in 0 .. MaxCalls,
           UNCHANGED <<kind, connections, madeFor, awaiting, handlerVars>>
    PROVE  IInv'
<1> USE DEF IInv
<1>1. /\ sock' = [k \in Conns |-> IF k \in K THEN "closed" ELSE sock[k]]
      /\ wire' = [k \in Conns |-> IF k \in K THEN <<>> ELSE wire[k]]
      /\ served' = [k \in Conns |-> IF k \in K THEN {} ELSE served[k]]
      /\ updates' = [k \in Conns |-> IF k \in K THEN <<>> ELSE updates[k]]
  BY DEF Close
<1>2. UNCHANGED <<kind, connections, madeFor, awaiting, listeners, noted, again, lost>>
  BY DEF handlerVars
<1>3. TypeOK'
  <2>1. wire' \in [Conns -> Seq(Requests)] /\ updates' \in [Conns -> Seq(Keys)]
    BY <1>1 DEF TypeOK
  <2>2. /\ sock' \in [Conns -> {"none", "connecting", "open", "closed"}]
        /\ served' \in [Conns -> SUBSET Topics]
    BY <1>1 DEF TypeOK
  <2> QED
    BY <1>2, <2>1, <2>2 DEF TypeOK
<1>4. PathsHaveClients'
  <2>1. \A p \in Paths : connections[p] # 0 => connections[p] \in Conns
    BY DEF TypeOK, Conns
  <2> QED
    BY <1>1, <1>2, <2>1 DEF TypeOK, PathsHaveClients
<1>5. OnlyOpenOnesServed'
  BY <1>1, <1>2 DEF OnlyOpenOnesServed
<1>6. NotesOfOwnPath' /\ HandlersFollowNotes' /\ SecondOnlyAgain'
  BY <1>2 DEF NotesOfOwnPath, HandlersFollowNotes, SecondOnlyAgain
<1>7. \A k \in Conns : \A t : Ends(k, t)' => k \notin K /\ Ends(k, t)
  BY <1>1, EndsServedEmpty DEF Ends
<1>8. ServedWillBeNoted'
  BY <1>2, <1>7 DEF ServedWillBeNoted
<1>9. NotedWillBeServed'
  BY <1>1, <1>2 DEF NotedWillBeServed, Ends
<1> QED
  BY <1>3, <1>4, <1>5, <1>6, <1>8, <1>9

-----------------------------------------------------------------------------
(* The clients a call goes to, each with a key of its own path.            *)
IsDestination(at) ==
    /\ at = [k \in DOMAIN at |-> at[k]]
    /\ DOMAIN at \subseteq Conns
    /\ \A k \in DOMAIN at : at[k] \in Keys /\ (kind = "multi" => at[k][2] = madeFor[k])

LEMMA HereIsDestination ==
    ASSUME IInv, NEW t \in Topics, NEW p \in Paths
    PROVE  IsDestination(Here(t, p))
<1>1. connections[p] # 0 => connections[p] \in Conns
  BY DEF IInv, TypeOK, Conns
<1>2. <<t, p>> \in Keys /\ <<t, p>>[2] = p
  BY DEF Keys
<1> QED
  BY <1>1, <1>2 DEF IInv, PathsHaveClients, Here, IsDestination

LEMMA EverywhereIsDestination ==
    ASSUME IInv, NEW t \in Topics
    PROVE  IsDestination(Everywhere(t))
<1>1. \A p \in Paths : connections[p] # 0 => connections[p] \in Conns
  BY DEF IInv, TypeOK, Conns
<1>2. \A k \in Conns : <<t, madeFor[k]>> \in Keys /\ <<t, madeFor[k]>>[2] = madeFor[k]
  BY DEF IInv, TypeOK, Keys
<1> QED
  BY <1>1, <1>2 DEF Everywhere, IsDestination

(* What a request on the wire does to what will be served.                 *)
LEMMA WriteEnds ==
    ASSUME IInv, NEW op \in {"sub", "unsub", "pub", "app"}, NEW at, IsDestination(at),
           Write(op, at), UNCHANGED served
    PROVE  /\ wire' \in [Conns -> Seq(Requests)]
           /\ \A k \in Conns : sock[k] # "open" => wire'[k] = wire[k]
           /\ \A k \in Conns, t \in Topics :
                 Ends(k, t)' <=>
                    IF k \in DOMAIN at /\ sock[k] = "open" /\ at[k][1] = t
                       /\ op \in {"sub", "unsub"}
                    THEN op = "sub" ELSE Ends(k, t)
<1> DEFINE r(k) == [op |-> op, key |-> at[k]]
<1>1. \A k \in DOMAIN at : r(k) \in Requests
  BY DEF IsDestination, Requests
<1>2. wire' = [k \in Conns |-> IF k \in DOMAIN at /\ sock[k] = "open"
                               THEN Append(wire[k], r(k)) ELSE wire[k]]
  BY DEF Write
<1>3. wire \in [Conns -> Seq(Requests)]
  BY DEF IInv, TypeOK
<1>4. \A k \in DOMAIN at : \A t : Changes(r(k), t) <=> op \in {"sub", "unsub"} /\ at[k][1] = t
  BY DEF Changes
<1>5. \A k \in DOMAIN at : r(k).op = op
  OBVIOUS
<1> HIDE DEF r
<1>6. wire' \in [Conns -> Seq(Requests)]
  BY <1>1, <1>2, <1>3
<1>7. ASSUME NEW k \in Conns, NEW t \in Topics
      PROVE  Ends(k, t)' <=>
                    IF k \in DOMAIN at /\ sock[k] = "open" /\ at[k][1] = t
                       /\ op \in {"sub", "unsub"}
                    THEN op = "sub" ELSE Ends(k, t)
  <2>1. CASE k \in DOMAIN at /\ sock[k] = "open"
    <3>1. wire'[k] = Append(wire[k], r(k))
      BY <1>2, <2>1
    <3>2. EndsServed(Append(wire[k], r(k)), served[k], t) <=>
              IF Changes(r(k), t) THEN r(k).op = "sub" ELSE EndsServed(wire[k], served[k], t)
      BY <1>1, <1>3, <2>1, EndsServedAppend
    <3> QED
      BY <1>4, <1>5, <2>1, <3>1, <3>2 DEF Ends
  <2>2. CASE ~(k \in DOMAIN at /\ sock[k] = "open")
    BY <1>2, <2>2 DEF Ends
  <2> QED
    BY <2>1, <2>2
<1> QED
  BY <1>2, <1>6, <1>7

(* publish and the send_on_path family.                                    *)
LEMMA SendAtIInv ==
    ASSUME IInv, NEW op \in {"pub", "app"}, NEW at, IsDestination(at), SendAt(op, at)
    PROVE  IInv'
<1> USE DEF IInv
<1>1. /\ Write(op, at)
      /\ UNCHANGED <<kind, connections, subscribed, madeFor, awaiting, sock,
                     listeners, noted, again, lost, served, updates>>
  BY DEF SendAt, multiVars, handlerVars
<1>2. /\ wire' \in [Conns -> Seq(Requests)]
      /\ \A k \in Conns : sock[k] # "open" => wire'[k] = wire[k]
      /\ \A k \in Conns, t \in Topics : Ends(k, t)' <=> Ends(k, t)
  BY <1>1, WriteEnds
<1>3. TypeOK'
  BY <1>1, <1>2, CallTyped DEF TypeOK, SendAt
<1>4. NotedWillBeServed'
  BY <1>1, <1>2, KeyParts DEF TypeOK, NotedWillBeServed
<1> QED
  BY <1>1, <1>2, <1>3, <1>4 DEF PathsHaveClients, OnlyOpenOnesServed, NotesOfOwnPath,
       HandlersFollowNotes, SecondOnlyAgain, ServedWillBeNoted

(* The key is noted, and its request is written or counted as lost.        *)
LEMMA SubscribeIInv ==
    ASSUME IInv, NEW t \in Topics, NEW p \in Paths, Subscribe(t, p)
    PROVE  IInv'
<1> DEFINE k == connections[p]
           key == <<t, p>>
           at == Here(t, p)
<1> USE DEF IInv
<1>1. /\ p \in subscribed
      /\ listeners' = [listeners EXCEPT ![k][key] = @ + 1]
      /\ noted' = [noted EXCEPT ![k] = @ \cup {key}]
      /\ again' = IF key \in noted[k] THEN [again EXCEPT ![k] = @ \cup {key}] ELSE again
      /\ lost' = [lost EXCEPT ![k] = IF sock[k] = "open" THEN @ \ {key} ELSE @ \cup {key}]
      /\ Write("sub", at)
      /\ UNCHANGED <<kind, connections, subscribed, madeFor, awaiting, sock, served, updates>>
  BY DEF Subscribe, multiVars
<1>2. k # 0 /\ k \in Conns /\ sock[k] # "none" /\ (kind = "multi" => madeFor[k] = p)
  BY <1>1 DEF PathsHaveClients, TypeOK, Conns
<1>3. key \in Keys /\ key[1] = t /\ key[2] = p
  BY DEF Keys
<1>4. at = [j \in {k} |-> key]
  BY <1>2 DEF Here
<1>5. IsDestination(at)
  BY HereIsDestination
<1>6. /\ wire' \in [Conns -> Seq(Requests)]
      /\ \A j \in Conns : sock[j] # "open" => wire'[j] = wire[j]
      /\ \A j \in Conns, u \in Topics :
            Ends(j, u)' <=> (j = k /\ sock[j] = "open" /\ u = t) \/ Ends(j, u)
  <2>1. \A j \in DOMAIN at : at[j][1] = t
    BY <1>3, <1>4
  <2>2. DOMAIN at = {k}
    BY <1>4
  <2> HIDE DEF at, k
  <2> QED
    BY <1>1, <1>5, <2>1, <2>2, WriteEnds
<1> HIDE DEF k, key, at
<1>7. TypeOK'
  <2>1. listeners' \in [Conns -> [Keys -> Nat]]
    BY <1>1, <1>2, <1>3 DEF TypeOK
  <2>2. /\ noted' \in [Conns -> SUBSET Keys] /\ again' \in [Conns -> SUBSET Keys]
        /\ lost' \in [Conns -> SUBSET Keys]
    BY <1>1, <1>2, <1>3 DEF TypeOK
  <2> QED
    BY <1>1, <1>6, <2>1, <2>2, CallTyped DEF TypeOK, Subscribe
<1>8. PathsHaveClients'
  BY <1>1 DEF PathsHaveClients
<1>9. OnlyOpenOnesServed'
  BY <1>1, <1>2, <1>6 DEF TypeOK, OnlyOpenOnesServed
<1>10. NotesOfOwnPath'
  BY <1>1, <1>2, <1>3 DEF TypeOK, NotesOfOwnPath
<1>11. ASSUME NEW j \in Conns, NEW x \in Keys, ~(j = k /\ x = key)
       PROVE  /\ listeners'[j][x] = listeners[j][x]
              /\ x \in noted'[j] <=> x \in noted[j]
              /\ x \in again'[j] <=> x \in again[j]
              /\ x \in lost'[j] <=> x \in lost[j]
  BY <1>1, <1>2, <1>3, <1>11 DEF TypeOK
<1>12. /\ listeners'[k][key] = listeners[k][key] + 1 /\ listeners[k][key] \in Nat
       /\ key \in noted'[k]
       /\ key \in again'[k] <=> key \in again[k] \/ key \in noted[k]
       /\ key \in lost'[k] <=> sock[k] # "open"
  BY <1>1, <1>2, <1>3 DEF TypeOK
<1>13. HandlersFollowNotes'
  <2> SUFFICES ASSUME NEW j \in Conns, NEW x \in Keys
               PROVE  /\ x \in noted'[j] => listeners'[j][x] > 0
                      /\ listeners'[j][x] > 0 => x \in noted'[j] \cup again'[j]
    BY DEF HandlersFollowNotes
  <2>1. CASE j = k /\ x = key
    BY <1>12, <2>1
  <2>2. CASE ~(j = k /\ x = key)
    BY <1>11, <2>2 DEF HandlersFollowNotes
  <2> QED
    BY <2>1, <2>2
<1>14. SecondOnlyAgain'
  <2> SUFFICES ASSUME NEW j \in Conns, NEW x \in Keys, listeners'[j][x] > 1
               PROVE  x \in again'[j]
    BY DEF SecondOnlyAgain
  <2>1. CASE j = k /\ x = key
    <3>1. listeners[k][key] > 0
      BY <1>12, <2>1
    <3> QED
      BY <1>2, <1>3, <1>12, <2>1, <3>1 DEF HandlersFollowNotes
  <2>2. CASE ~(j = k /\ x = key)
    BY <1>11, <2>2 DEF SecondOnlyAgain
  <2> QED
    BY <2>1, <2>2
<1>15. \A j \in Conns : noted[j] \subseteq noted'[j]
  BY <1>1, <1>2 DEF TypeOK
<1>16. ServedWillBeNoted'
  BY <1>6, <1>12, <1>15 DEF ServedWillBeNoted, key
<1>17. NotedWillBeServed'
  <2> SUFFICES ASSUME kind = "multi", NEW j \in Conns, sock[j] # "closed",
                      NEW x \in noted'[j], x \notin lost'[j]
               PROVE  Ends(j, x[1])'
    BY <1>1 DEF NotedWillBeServed
  <2>1. x \in Keys /\ x[1] \in Topics
    BY <1>7, KeyParts DEF TypeOK
  <2>2. CASE j = k /\ x = key
    BY <1>3, <1>6, <1>12, <2>1, <2>2
  <2>3. CASE ~(j = k /\ x = key)
    BY <1>6, <1>11, <2>1, <2>3 DEF NotedWillBeServed
  <2> QED
    BY <2>2, <2>3
<1> QED
  BY <1>7, <1>8, <1>9, <1>10, <1>13, <1>14, <1>16, <1>17

(* The head of unsubscribe removes a handler and its note together, and    *)
(* with a client per path no other key of the topic is noted there.        *)
LEMMA UnsubscribeAtIInv ==
    ASSUME IInv, NEW at, IsDestination(at), UnsubscribeAt(at)
    PROVE  IInv'
<1> DEFINE hit(k, key) == k \in DOMAIN at /\ key = at[k]
<1> USE DEF IInv
<1>1. /\ listeners' = [k \in Conns |-> [key \in Keys |->
              IF hit(k, key) /\ key \in noted[k]
              THEN listeners[k][key] - 1 ELSE listeners[k][key]]]
      /\ noted' = [k \in Conns |-> IF k \in DOMAIN at THEN noted[k] \ {at[k]} ELSE noted[k]]
      /\ Write("unsub", at)
      /\ UNCHANGED <<kind, connections, subscribed, madeFor, awaiting, sock, served, updates,
                     again, lost>>
  BY DEF UnsubscribeAt, Forget, multiVars
<1>2. /\ wire' \in [Conns -> Seq(Requests)]
      /\ \A k \in Conns : sock[k] # "open" => wire'[k] = wire[k]
      /\ \A k \in Conns, t \in Topics :
            Ends(k, t)' <=> ~(k \in DOMAIN at /\ sock[k] = "open" /\ at[k][1] = t) /\ Ends(k, t)
  BY <1>1, WriteEnds
<1>3. \A k \in Conns, key \in Keys :
         /\ key \in noted'[k] <=> key \in noted[k] /\ ~hit(k, key)
         /\ listeners'[k][key] = IF hit(k, key) /\ key \in noted[k]
                                 THEN listeners[k][key] - 1 ELSE listeners[k][key]
         /\ listeners[k][key] \in Nat
  BY <1>1 DEF TypeOK
<1>4. \A k \in Conns : noted'[k] \subseteq noted[k] /\ noted[k] \subseteq Keys
  BY <1>1 DEF TypeOK
<1> HIDE DEF hit
<1>5. TypeOK'
  <2>1. noted' \in [Conns -> SUBSET Keys]
    BY <1>1 DEF TypeOK
  <2>2. \A k \in Conns, key \in Keys : listeners'[k][key] \in Nat
    BY <1>3 DEF HandlersFollowNotes
  <2>3. listeners' \in [Conns -> [Keys -> Nat]]
    <3> DEFINE new(k) == [key \in Keys |-> IF hit(k, key) /\ key \in noted[k]
                                           THEN listeners[k][key] - 1 ELSE listeners[k][key]]
    <3>1. \A k \in Conns : listeners'[k] = new(k)
      BY <1>1
    <3>2. \A k \in Conns : new(k) \in [Keys -> Nat]
      BY <2>2, <3>1
    <3>3. listeners' = [k \in Conns |-> new(k)]
      BY <1>1
    <3> HIDE DEF new
    <3> QED
      BY <3>2, <3>3
  <2> QED
    BY <1>1, <1>2, <2>1, <2>3, CallTyped DEF TypeOK, UnsubscribeAt
<1>6. PathsHaveClients' /\ OnlyOpenOnesServed' /\ NotesOfOwnPath'
  BY <1>1, <1>2, <1>4 DEF PathsHaveClients, OnlyOpenOnesServed, NotesOfOwnPath
<1>7. HandlersFollowNotes' /\ SecondOnlyAgain'
  <2> SUFFICES ASSUME NEW k \in Conns, NEW key \in Keys
               PROVE  /\ key \in noted'[k] => listeners'[k][key] > 0
                      /\ listeners'[k][key] > 0 => key \in noted'[k] \cup again[k]
                      /\ listeners'[k][key] > 1 => key \in again[k]
    BY <1>1 DEF HandlersFollowNotes, SecondOnlyAgain
  <2>1. /\ key \in noted[k] => listeners[k][key] > 0
        /\ listeners[k][key] > 0 => key \in noted[k] \cup again[k]
        /\ listeners[k][key] > 1 => key \in again[k]
    BY DEF HandlersFollowNotes, SecondOnlyAgain
  <2> QED
    BY <1>3, <2>1
<1>8. ServedWillBeNoted'
  <2> SUFFICES ASSUME NEW k \in Conns, NEW t \in Topics, Ends(k, t)'
               PROVE  \E p \in Paths : <<t, p>> \in noted'[k]
    BY DEF ServedWillBeNoted
  <2>1. Ends(k, t)
    BY <1>2
  <2>2. sock[k] = "open"
    <3>1. ASSUME sock[k] # "open" PROVE FALSE
      <4>1. wire[k] = <<>> /\ served[k] = {}
        BY <3>1 DEF OnlyOpenOnesServed
      <4> QED
        BY <2>1, <4>1, EndsServedEmpty DEF Ends
    <3> QED
      BY <3>1
  <2>3. PICK p \in Paths : <<t, p>> \in noted[k]
    BY <2>1 DEF ServedWillBeNoted
  <2>4. ~hit(k, <<t, p>>)
    BY <1>2, <2>2 DEF hit
  <2>5. <<t, p>> \in Keys
    BY DEF Keys
  <2> QED
    BY <1>3, <2>3, <2>4, <2>5
<1>9. NotedWillBeServed'
  <2> SUFFICES ASSUME kind = "multi", NEW k \in Conns, sock[k] # "closed", NEW key \in noted'[k],
                      key \notin lost[k]
               PROVE  Ends(k, key[1])'
    BY <1>1 DEF NotedWillBeServed
  <2>1. key \in Keys /\ key \in noted[k] /\ ~hit(k, key) /\ key[1] \in Topics
    BY <1>3, <1>4, KeyParts
  <2>2. Ends(k, key[1])
    BY <2>1 DEF NotedWillBeServed
  <2>3. k \in DOMAIN at => at[k][1] # key[1]
    <3> SUFFICES ASSUME k \in DOMAIN at, at[k][1] = key[1] PROVE FALSE
      OBVIOUS
    <3>1. at[k] \in Keys /\ at[k][2] = madeFor[k]
      BY DEF IsDestination
    <3>2. key[2] = madeFor[k]
      BY <2>1 DEF NotesOfOwnPath
    <3>3. at[k] = key
      BY <2>1, <3>1, <3>2, KeyParts
    <3> QED
      BY <2>1, <3>3 DEF hit
  <2> QED
    BY <1>2, <2>1, <2>2, <2>3
<1> QED
  BY <1>5, <1>6, <1>7, <1>8, <1>9

(* A request that is taken leaves what will be served as it was.           *)
LEMMA ServeIInv ==
    ASSUME IInv, NEW k \in Conns, Serve(k)
    PROVE  IInv'
<1> DEFINE r == Head(wire[k])
<1> USE DEF IInv
<1>1. /\ wire[k] # <<>>
      /\ wire' = [wire EXCEPT ![k] = Tail(@)]
      /\ served' = [served EXCEPT ![k] = IF r.op = "sub" THEN @ \cup {r.key[1]}
                                         ELSE IF r.op = "unsub" THEN @ \ {r.key[1]} ELSE @]
      /\ updates' = IF r.op = "pub" /\ r.key[1] \in served[k]
                    THEN [updates EXCEPT ![k] = Append(@, r.key)] ELSE updates
      /\ UNCHANGED <<kind, connections, subscribed, madeFor, awaiting, sock,
                     listeners, noted, again, lost, calls>>
  BY DEF Serve, multiVars, handlerVars
<1>2. wire[k] \in Seq(Requests) /\ r \in Requests /\ Tail(wire[k]) \in Seq(Requests)
  BY <1>1 DEF TypeOK
<1>3. r.key \in Keys /\ r.key[1] \in Topics
  BY <1>2, KeyParts DEF Requests
<1> HIDE DEF r
<1>4. TypeOK'
  <2>1. wire' \in [Conns -> Seq(Requests)]
    BY <1>1, <1>2 DEF TypeOK
  <2>2. served' \in [Conns -> SUBSET Topics]
    BY <1>1, <1>3 DEF TypeOK
  <2>3. updates' \in [Conns -> Seq(Keys)]
    BY <1>1, <1>3 DEF TypeOK
  <2> QED
    BY <1>1, <2>1, <2>2, <2>3 DEF TypeOK
<1>5. /\ wire'[k] = Tail(wire[k]) /\ served'[k] = After(r, served[k])
      /\ \A j \in Conns \ {k} : wire'[j] = wire[j] /\ served'[j] = served[j]
  BY <1>1 DEF TypeOK, After
<1>6. \A j \in Conns : \A t : Ends(j, t)' <=> Ends(j, t)
  <2> SUFFICES ASSUME NEW j \in Conns, NEW t PROVE Ends(j, t)' <=> Ends(j, t)
    OBVIOUS
  <2>1. CASE j = k
    BY <1>1, <1>2, <1>5, <2>1, EndsServedTail DEF Ends, r
  <2>2. CASE j # k
    BY <1>5, <2>2 DEF Ends
  <2> QED
    BY <2>1, <2>2
<1>7. OnlyOpenOnesServed'
  <2>1. sock[k] = "open"
    BY <1>1 DEF OnlyOpenOnesServed
  <2> QED
    BY <1>1, <1>5, <2>1 DEF OnlyOpenOnesServed
<1>8. ServedWillBeNoted' /\ NotedWillBeServed'
  BY <1>1, <1>6 DEF ServedWillBeNoted, NotedWillBeServed
<1> QED
  BY <1>1, <1>4, <1>7, <1>8
     DEF PathsHaveClients, NotesOfOwnPath, HandlersFollowNotes, SecondOnlyAgain

LEMMA HandleUnsolicitedIInv ==
    ASSUME IInv, NEW k \in Conns, HandleUnsolicited(k)
    PROVE  IInv'
<1> USE DEF IInv
<1>1. /\ updates' = [updates EXCEPT ![k] = Tail(@)] /\ updates[k] # <<>>
      /\ UNCHANGED <<kind, connections, subscribed, madeFor, awaiting, sock,
                     listeners, noted, again, lost, wire, served, calls>>
  BY DEF HandleUnsolicited, multiVars, handlerVars
<1>2. TypeOK'
  BY <1>1 DEF TypeOK
<1> QED
  BY <1>1, <1>2 DEF PathsHaveClients, OnlyOpenOnesServed, NotesOfOwnPath, HandlersFollowNotes,
       SecondOnlyAgain, ServedWillBeNoted, NotedWillBeServed, Ends

LEMMA ClosingIInv ==
    ASSUME IInv,
           \/ \E p \in Paths : RemoveRelayPath(p)
           \/ CloseAll
           \/ \E k \in Conns : Fails(k)
    PROVE  IInv'
<1> USE DEF IInv
<1>1. calls \in 0 .. MaxCalls
  BY DEF TypeOK
<1>2. ASSUME NEW p \in Paths, RemoveRelayPath(p) PROVE IInv'
  <2>1. \A k \in {connections[p]} \ {0} : sock[k] # "none"
    BY DEF PathsHaveClients
  <2>2. /\ Close({connections[p]} \ {0}) /\ subscribed' \subseteq subscribed
        /\ calls' \in 0 .. MaxCalls
        /\ UNCHANGED <<kind, connections, madeFor, awaiting, handlerVars>>
    BY <1>2, CallTyped DEF RemoveRelayPath
  <2> QED
    BY <2>1, <2>2, CloseIInv
<1>3. ASSUME CloseAll PROVE IInv'
  <2>1. \A k \in {connections[p] : p \in Paths} \ {0} : sock[k] # "none"
    BY DEF PathsHaveClients
  <2>2. /\ Close({connections[p] : p \in Paths} \ {0}) /\ subscribed' \subseteq subscribed
        /\ calls' \in 0 .. MaxCalls
        /\ UNCHANGED <<kind, connections, madeFor, awaiting, handlerVars>>
    BY <1>3, CallTyped DEF CloseAll, multiVars
  <2> QED
    BY <2>1, <2>2, CloseIInv
<1>4. ASSUME NEW k \in Conns, Fails(k) PROVE IInv'
  <2>1. \A j \in {k} : sock[j] # "none"
    BY <1>4 DEF Fails
  <2>2. /\ Close({k}) /\ subscribed' \subseteq subscribed
        /\ calls' \in 0 .. MaxCalls
        /\ UNCHANGED <<kind, connections, madeFor, awaiting, handlerVars>>
    BY <1>1, <1>4 DEF Fails, multiVars
  <2> QED
    BY <2>1, <2>2, CloseIInv
<1> QED
  BY <1>2, <1>3, <1>4

LEMMA NextIInv == IInv /\ [Next]_vars => IInv'
<1> SUFFICES ASSUME IInv, [Next]_vars PROVE IInv'
  OBVIOUS
<1>1. ASSUME NEW p \in Paths, AddRelayPath(p) \/ AwaitReady(p) \/ RemoveRelayPath(p)
      PROVE  IInv'
  BY <1>1, AddRelayPathIInv, AwaitReadyIInv, ClosingIInv
<1>2. CASE CloseAll
  BY <1>2, ClosingIInv
<1>3. ASSUME NEW k \in Conns, Ready(k) \/ Fails(k) \/ Serve(k) \/ HandleUnsolicited(k)
      PROVE  IInv'
  BY <1>3, ReadyIInv, ClosingIInv, ServeIInv, HandleUnsolicitedIInv
<1>4. ASSUME NEW t \in Topics, UnsubscribeAll(t) \/ PublishAll(t) PROVE IInv'
  BY <1>4, EverywhereIsDestination, UnsubscribeAtIInv, SendAtIInv DEF UnsubscribeAll, PublishAll
<1>5. ASSUME NEW t \in Topics, NEW p \in Paths,
             Subscribe(t, p) \/ Unsubscribe(t, p) \/ Publish(t, p) \/ SendOnPath(t, p)
      PROVE  IInv'
  BY <1>5, HereIsDestination, SubscribeIInv, UnsubscribeAtIInv, SendAtIInv
     DEF Unsubscribe, Publish, SendOnPath
<1>6. CASE UNCHANGED vars
  BY <1>6 DEF vars, multiVars, handlerVars, IInv, TypeOK, PathsHaveClients, OnlyOpenOnesServed,
       NotesOfOwnPath, HandlersFollowNotes, SecondOnlyAgain, ServedWillBeNoted,
       NotedWillBeServed, Ends
<1> QED
  BY <1>1, <1>2, <1>3, <1>4, <1>5, <1>6 DEF Next

(* IInv holds in every state that the application's calls, connections     *)
(* that fail and the endpoints can reach.                                  *)
THEOREM Invariance == Spec => []IInv
<1>1. Init => IInv
  BY InitIInv
<1>2. IInv /\ [Next]_vars => IInv'
  BY NextIInv
<1> QED
  BY <1>1, <1>2, PTL DEF Spec

(* Every variable keeps its type; no count of handlers goes below zero.    *)
THEOREM TypeCorrect == Spec => []TypeOK
<1>1. IInv => TypeOK
  BY DEF IInv
<1> QED
  BY <1>1, Invariance, PTL

(* subcriptions and the handlers of the emitter stay in step, but for keys *)
(* that were subscribed to twice.                                          *)
THEOREM HandlersAlwaysFollowNotes == Spec => []HandlersFollowNotes
<1>1. IInv => HandlersFollowNotes
  BY DEF IInv
<1> QED
  BY <1>1, Invariance, PTL

(* Whenever nothing is on its way, an endpoint serves what is noted at its *)
(* client, and with a client per path whatever is noted and was written.   *)
THEOREM EndpointServesAsNoted == Spec => []ServedAsNoted
<1>1. IInv => ServedAsNoted
  <2> SUFFICES ASSUME IInv, NEW k \in Conns, sock[k] = "open", wire[k] = <<>>
               PROVE  /\ \A t \in served[k] : \E p \in Paths : <<t, p>> \in noted[k]
                      /\ kind = "multi" =>
                            \A key \in noted[k] : key[1] \in served[k] \/ key \in lost[k]
    BY DEF ServedAsNoted
  <2>1. \A t : Ends(k, t) <=> t \in served[k]
    BY EndsServedEmpty DEF Ends
  <2>2. served[k] \subseteq Topics
    BY DEF IInv, TypeOK
  <2> QED
    BY <2>1, <2>2 DEF IInv, ServedWillBeNoted, NotedWillBeServed
<1> QED
  BY <1>1, Invariance, PTL
=============================================================================
