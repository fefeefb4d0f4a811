----------------------- MODULE JSONMessageQueue_proofs -----------------------
(***************************************************************************)
(* Proofs about JSONMessageQueue.  The type invariant holds for any texts; *)
(* that the frames are the messages, and that none is held back, for texts *)
(* that are PlainTexts.  The argument is about a stream laid out: all that *)
(* was written, with the place of every text in it.  What has arrived ends *)
(* at a position of the stream, and last_message begins where the first    *)
(* text does that is not whole there (Reached).  A data event moves the    *)
(* position on; the lemmas say what Trim, Pieces, Decoded and Rest make of *)
(* the texts between the two.                                              *)
(***************************************************************************)
EXTENDS JSONMessageQueue, WellFoundedInduction, FiniteSetTheorems, SequenceTheorems, TLAPS

-----------------------------------------------------------------------------
(* Numbers and ascending lists.  A set of numbers has a least one: this is *)
(* the induction the other lemmas use.                                     *)
LEMMA LeastNatural ==
    ASSUME NEW T, T \subseteq Nat, T # {}
    PROVE  \E x \in T : \A y \in T : x <= y
<1> DEFINE R == {ss \in Nat \X Nat : ss[1] < ss[2]}
<1>1. IsWellFoundedOn(R, Nat)
  BY NatLessThanWellFounded DEF OpToRel
<1> HIDE DEF R
<1>2. PICK x \in T : \A y \in T : ~(<<y, x>> \in R)
  BY <1>1, WFMin
<1>3. \A y \in T : ~(y < x)
  <2> SUFFICES ASSUME NEW y \in T, y < x PROVE FALSE
    OBVIOUS
  <2>1. y \in Nat /\ x \in Nat
    OBVIOUS
  <2>2. <<y, x>> \in R
    BY <2>1 DEF R
  <2> QED
    BY <2>2, <1>2
<1> QED
  BY <1>3

(* A set of numbers up to n has a greatest one.                            *)
LEMMA GreatestNatural ==
    ASSUME NEW T, NEW n \in Nat, T \subseteq 0 .. n, T # {}
    PROVE  \E x \in T : \A y \in T : y <= x
<1> DEFINE U == {u \in 0 .. n : n - u \in T}
<1>1. PICK z \in T : TRUE
  OBVIOUS
<1>2. n - z \in U /\ U \subseteq Nat
  OBVIOUS
<1>3. PICK u \in U : \A y \in U : u <= y
  BY <1>2, LeastNatural
<1>4. u \in 0 .. n /\ n - u \in T
  OBVIOUS
<1>5. ASSUME NEW y \in T PROVE y <= n - u
  <2>1. y \in 0 .. n /\ n - y \in U
    OBVIOUS
  <2>2. u <= n - y
    BY <1>3, <2>1
  <2> QED
    BY <1>4, <2>1, <2>2
<1> QED
  BY <1>4, <1>5

(* Of two ascending lists of a set, the one that leaves no element out is  *)
(* nowhere above the other (at the first place it were, it would have      *)
(* skipped an element) ...                                                 *)
LEMMA AscendingNotBelow ==
    ASSUME NEW S, S \subseteq Nat, NEW n \in Nat, NEW f \in [1 .. n -> S], NEW g \in [1 .. n -> S],
           \A i, j \in 1 .. n : i < j => f[i] < f[j],
           \A i, j \in 1 .. n : i < j => g[i] < g[j],
           \A x \in S : \E i \in 1 .. n : g[i] = x
    PROVE  \A i \in 1 .. n : g[i] <= f[i]
<1>1. \A i \in 1 .. n : f[i] \in Nat /\ g[i] \in Nat
  OBVIOUS
<1> DEFINE bad == {i \in 1 .. n : ~(g[i] <= f[i])}
<1>2. \A i \in 1 .. n : i \in bad <=> f[i] < g[i]
  BY <1>1
<1>3. bad \subseteq 1 .. n /\ bad \subseteq 0 .. n /\ bad \subseteq Nat
  OBVIOUS
<1> HIDE DEF bad
<1> SUFFICES ASSUME bad # {} PROVE FALSE
  BY <1>1, <1>2
<1>4. PICK i \in bad : \A j \in bad : i <= j
  BY <1>3, LeastNatural
<1>5. i \in 1 .. n /\ f[i] < g[i]
  BY <1>2, <1>3
<1>6. PICK k \in 1 .. n : g[k] = f[i]
  BY <1>5
<1>7. k < i
  <2>1. k # i
    BY <1>1, <1>5, <1>6
  <2>2. ~(i < k)
    <3> SUFFICES ASSUME i < k PROVE FALSE
      OBVIOUS
    <3>1. g[i] < g[k]
      BY <1>5
    <3> QED
      BY <1>1, <1>5, <1>6, <3>1
  <2> QED
    BY <1>5, <2>1, <2>2
<1>8. k \notin bad
  BY <1>4, <1>5, <1>7
<1>9. g[k] <= f[k]
  BY <1>1, <1>2, <1>8
<1>10. f[k] < f[i]
  BY <1>5, <1>7
<1> QED
  BY <1>1, <1>5, <1>6, <1>9, <1>10

(* ... and nowhere below it (look at the last such place).                 *)
LEMMA AscendingNotAbove ==
    ASSUME NEW S, S \subseteq Nat, NEW n \in Nat, NEW f \in [1 .. n -> S], NEW g \in [1 .. n -> S],
           \A i, j \in 1 .. n : i < j => f[i] < f[j],
           \A i, j \in 1 .. n : i < j => g[i] < g[j],
           \A x \in S : \E i \in 1 .. n : g[i] = x
    PROVE  \A i \in 1 .. n : f[i] <= g[i]
<1>1. \A i \in 1 .. n : f[i] \in Nat /\ g[i] \in Nat
  OBVIOUS
<1> DEFINE bad == {i \in 1 .. n : ~(f[i] <= g[i])}
<1>2. \A i \in 1 .. n : i \in bad <=> g[i] < f[i]
  BY <1>1
<1>3. bad \subseteq 1 .. n /\ bad \subseteq 0 .. n /\ bad \subseteq Nat
  OBVIOUS
<1> HIDE DEF bad
<1> SUFFICES ASSUME bad # {} PROVE FALSE
  BY <1>1, <1>2
<1>4. PICK i \in bad : \A j \in bad : j <= i
  BY <1>2, <1>3, GreatestNatural
<1>5. i \in 1 .. n /\ g[i] < f[i]
  BY <1>2, <1>3
<1>6. PICK k \in 1 .. n : g[k] = f[i]
  BY <1>5
<1>7. i < k
  <2>1. k # i
    BY <1>1, <1>5, <1>6
  <2>2. ~(k < i)
    <3> SUFFICES ASSUME k < i PROVE FALSE
      OBVIOUS
    <3>1. g[k] < g[i]
      BY <1>5
    <3> QED
      BY <1>1, <1>5, <1>6, <3>1
  <2> QED
    BY <1>5, <2>1, <2>2
<1>8. k \notin bad
  BY <1>4, <1>5, <1>7
<1>9. f[k] <= g[k]
  BY <1>1, <1>2, <1>8
<1>10. f[i] < f[k]
  BY <1>5, <1>7
<1> QED
  BY <1>1, <1>5, <1>6, <1>9, <1>10

(* So Ascending is the ascending list that leaves none out.                *)
LEMMA AscendingIs ==
    ASSUME NEW S, S \subseteq Nat, NEW n \in Nat, NEW g \in [1 .. n -> S],
           \A i, j \in 1 .. n : i < j => g[i] < g[j],
           \A x \in S : \E i \in 1 .. n : g[i] = x
    PROVE  Ascending(S) = g
<1>1. Cardinality(S) = n
  <2>1. g \in Bijection(1 .. n, S)
    <3>1. ASSUME NEW i \in 1 .. n, NEW j \in 1 .. n, g[i] = g[j] PROVE i = j
      <4>1. g[i] \in Nat /\ g[j] \in Nat
        OBVIOUS
      <4> QED
        BY <3>1, <4>1
    <3>2. IsInjective(g)
      BY <3>1 DEF IsInjective
    <3> QED
      BY <3>2 DEF Bijection, Injection, Surjection
  <2>2. ExistsBijection(1 .. n, S)
    BY <2>1 DEF ExistsBijection
  <2> QED
    BY <2>2, FS_CountingElements
<1> DEFINE Up(f) == \A i, j \in 1 .. n : i < j => f[i] < f[j]
<1>2. Ascending(S) = CHOOSE f \in [1 .. n -> S] : Up(f)
  BY <1>1 DEF Ascending
<1>3. ASSUME NEW f \in [1 .. n -> S], Up(f) PROVE f = g
  <2>1. (\A i \in 1 .. n : g[i] <= f[i]) /\ (\A i \in 1 .. n : f[i] <= g[i])
    BY <1>3, AscendingNotBelow, AscendingNotAbove
  <2>2. \A i \in 1 .. n : f[i] \in Nat /\ g[i] \in Nat
    OBVIOUS
  <2>3. \A i \in 1 .. n : f[i] = g[i]
    BY <2>1, <2>2
  <2> QED
    BY <2>3
<1>4. Up(g)
  OBVIOUS
<1> HIDE DEF Up
<1> QED
  BY <1>2, <1>3, <1>4

-----------------------------------------------------------------------------
(* The texts of objects.  What Depth counts is finite.                     *)
LEMMA CountIsNat ==
    ASSUME NEW s, NEW i \in Nat, NEW c
    PROVE  /\ IsFiniteSet({j \in 1 .. i : s[j] = c})
           /\ Cardinality({j \in 1 .. i : s[j] = c}) \in Nat
<1>1. IsFiniteSet(1 .. i)
  BY FS_Interval
<1>2. IsFiniteSet({j \in 1 .. i : s[j] = c})
  <2>1. {j \in 1 .. i : s[j] = c} \in SUBSET (1 .. i)
    OBVIOUS
  <2> QED
    BY <1>1, <2>1, FS_Subset
<1> QED
  BY <1>2, FS_CardinalityType

(* A text of an object ends with a brace.                                  *)
LEMMA DecodedEnds ==
    ASSUME NEW t \in Seq(Kinds), Decodes(t)
    PROVE  Len(t) \in Nat /\ Len(t) >= 2 /\ t[1] = "open" /\ t[Len(t)] = "close"
<1> DEFINE n == Len(t)
           Opened(i) == {j \in 1 .. i : t[j] = "open"}
           Closed(i) == {j \in 1 .. i : t[j] = "close"}
<1>1. n \in Nat /\ n # 0 /\ t[1] = "open"
  BY EmptySeq DEF Decodes
<1>2. ASSUME NEW i \in Nat
      PROVE  /\ Depth(t, i) = Cardinality(Opened(i)) - Cardinality(Closed(i))
             /\ IsFiniteSet(Opened(i))
             /\ Cardinality(Opened(i)) \in Nat /\ Cardinality(Closed(i)) \in Nat
  BY CountIsNat, ZenonT(30) DEF Depth
<1>3. Depth(t, n) = 0 /\ \A i \in 1 .. n - 1 : Depth(t, i) > 0
  BY DEF Decodes
<1> HIDE DEF n
<1>4. n # 1
  <2>1. Opened(1) = {1} /\ Closed(1) = {}
    <3>1. 1 .. 1 = {1} /\ t[1] = "open"
      BY <1>1
    <3> QED
      BY ONLY <3>1
  <2>2. Cardinality(Opened(1)) = 1 /\ Cardinality(Closed(1)) = 0
    BY <2>1, FS_Singleton, FS_EmptySet
  <2> HIDE DEF Opened, Closed
  <2>3. Depth(t, 1) = 1
    BY <1>2, <2>2
  <2> QED
    BY <1>3, <2>3
<1>5. n \in Nat /\ n >= 2
  BY ONLY <1>1, <1>4
<1>6. ASSUME t[n] # "close" PROVE FALSE
  <2>1. n - 1 \in 1 .. n - 1 /\ n - 1 \in Nat /\ 1 .. n - 1 \subseteq 1 .. n
    BY <1>5
  <2>2. \A j \in 1 .. n : j # n => j \in 1 .. n - 1
    BY <1>5
  <2>3. Closed(n) = Closed(n - 1)
    BY <1>6, <2>1, <2>2
  <2>4. Opened(n - 1) \in SUBSET Opened(n)
    BY <2>1
  <2> HIDE DEF Opened, Closed
  <2>5. Cardinality(Opened(n - 1)) <= Cardinality(Opened(n))
    BY <1>2, <1>5, <2>4, FS_Subset
  <2>6. Depth(t, n - 1) <= Depth(t, n)
    <3>1. /\ Depth(t, n) = Cardinality(Opened(n)) - Cardinality(Closed(n))
          /\ Cardinality(Opened(n)) \in Nat /\ Cardinality(Closed(n)) \in Nat
      BY <1>2, <1>5
    <3>2. /\ Depth(t, n - 1) = Cardinality(Opened(n - 1)) - Cardinality(Closed(n - 1))
          /\ Cardinality(Opened(n - 1)) \in Nat
      BY <1>2, <2>1
    <3> QED
      BY <2>3, <2>5, <3>1, <3>2
  <2>7. Depth(t, n) = 0 /\ Depth(t, n - 1) > 0 /\ Depth(t, n - 1) \in Int
    BY <1>2, <1>3, <2>1
  <2> QED
    BY <2>6, <2>7
<1> QED
  BY <1>1, <1>5, <1>6 DEF n

(* What PlainTexts and Decodes say of a text, character by character.      *)
LEMMA PlainText ==
    ASSUME PlainTexts, NEW t \in Texts
    PROVE  /\ t \in Seq(Kinds) /\ Len(t) \in Nat /\ Len(t) >= 2
           /\ t[1] = "open" /\ t[2] # "open" /\ t[Len(t)] = "close"
           /\ \A i \in 1 .. Len(t) : t[i] \in Kinds \ {"space", "lead", "tail"}
           /\ \A i \in 1 .. Len(t) - 1 : ~(t[i] = "close" /\ t[i + 1] = "open")
<1>1. /\ Decodes(t) /\ t[2] # "open" /\ t \in Seq(Kinds \ {"space", "lead", "tail"})
      /\ \A i \in 1 .. Len(t) - 1 : ~(t[i] = "close" /\ t[i + 1] = "open")
  BY DEF PlainTexts
<1>2. t \in Seq(Kinds)
  BY QueueAssumption
<1>3. \A i \in 1 .. Len(t) : t[i] \in Kinds \ {"space", "lead", "tail"}
  BY <1>1, ElementOfSeq
<1>4. Len(t) \in Nat /\ Len(t) >= 2 /\ t[1] = "open" /\ t[Len(t)] = "close"
  BY <1>1, <1>2, DecodedEnds
<1> QED
  BY <1>1, <1>2, <1>3, <1>4

(* No proper part of a text at its front decodes.                          *)
LEMMA FrontUndecoded ==
    ASSUME NEW t \in Seq(Kinds), Decodes(t), NEW n \in 1 .. Len(t) - 1
    PROVE  ~Decodes(SubSeq(t, 1, n))
<1> DEFINE p == SubSeq(t, 1, n)
<1>1. Len(p) = n /\ \A j \in 1 .. n : p[j] = t[j]
  OBVIOUS
<1>2. Depth(t, n) > 0
  BY DEF Decodes
<1> HIDE DEF p
<1>3. Depth(p, n) = Depth(t, n)
  <2>1. \A c : {j \in 1 .. n : p[j] = c} = {j \in 1 .. n : t[j] = c}
    BY <1>1
  <2> QED
    BY <2>1 DEF Depth
<1>4. Decodes(p) => Depth(p, n) = 0
  BY <1>1 DEF Decodes
<1> QED
  BY <1>2, <1>3, <1>4 DEF p

(* Without half a character at its ends the data is its own text.          *)
LEMMA SameText ==
    ASSUME NEW s \in Seq(Kinds)
    PROVE  (\A i \in 1 .. Len(s) : s[i] \notin {"lead", "tail"}) => DataText(s) = s
<1> SUFFICES ASSUME \A i \in 1 .. Len(s) : s[i] \notin {"lead", "tail"} PROVE DataText(s) = s
  OBVIOUS
<1>1. DataText(s) = [i \in 1 .. Len(s) |-> s[i]]
  BY DEF DataText
<1> QED
  BY <1>1, LenProperties

(* The ends of a set of numbers that has them.                             *)
LEMMA MinMaxAre ==
    ASSUME NEW S, S \subseteq Nat, NEW a \in S, NEW b \in S, \A x \in S : a <= x /\ x <= b
    PROVE  Min(S) = a /\ Max(S) = b
<1>1. \A x \in S : (\A y \in S : x <= y) => x = a
  OBVIOUS
<1>2. \A x \in S : (\A y \in S : x >= y) => x = b
  OBVIOUS
<1>3. Min(S) = a
  BY <1>1 DEF Min
<1>4. Max(S) = b
  BY <1>2 DEF Max
<1> QED
  BY <1>3, <1>4

(* Trim cuts at the first and at the last character that is no space.      *)
LEMMA TrimIs ==
    ASSUME NEW s \in Seq(Kinds), NEW lo \in 1 .. Len(s), NEW hi \in 1 .. Len(s),
           s[lo] # "space", s[hi] # "space",
           \A i \in 1 .. Len(s) : s[i] # "space" => lo <= i /\ i <= hi
    PROVE  Trim(s) = SubSeq(s, lo, hi)
<1> DEFINE solid == {i \in 1 .. Len(s) : s[i] # "space"}
<1>1. /\ solid \subseteq Nat /\ lo \in solid /\ hi \in solid
      /\ \A x \in solid : lo <= x /\ x <= hi
  OBVIOUS
<1>2. Trim(s) = IF solid = {} THEN <<>> ELSE SubSeq(s, Min(solid), Max(solid))
  BY DEF Trim
<1> HIDE DEF solid
<1>3. Min(solid) = lo /\ Max(solid) = hi
  BY <1>1, MinMaxAre
<1> QED
  BY <1>1, <1>2, <1>3

(* Of spaces nothing is left.                                              *)
LEMMA TrimNothing ==
    ASSUME NEW s, \A i \in 1 .. Len(s) : s[i] = "space"
    PROVE  Trim(s) = <<>>
  BY DEF Trim

-----------------------------------------------------------------------------
(* The text w is the n pieces of Q one after the other, piece k after      *)
(* position a[k], with nothing but spaces between them, and no piece       *)
(* itself has a place where it would be split.                             *)
Row(w, n, Q, a) ==
    /\ w \in Seq(Kinds) /\ n \in Nat \ {0}
    /\ Q \in [1 .. n -> Seq(Kinds)] /\ a \in [1 .. n -> Nat]
    /\ \A k \in 1 .. n :
          /\ Len(Q[k]) >= 1
          /\ \A i \in 1 .. Len(Q[k]) : w[a[k] + i] = Q[k][i] /\ Q[k][i] # "space"
          /\ \A i \in 1 .. Len(Q[k]) - 1 : ~(Q[k][i] = "close" /\ Q[k][i + 1] = "open")
          /\ Q[k][1] = "open"
          /\ k < n => Q[k][Len(Q[k])] = "close"
    /\ \A k, l \in 1 .. n : k < l => a[k] + Len(Q[k]) <= a[l]
    /\ \A p \in 1 .. Len(w) :
          w[p] # "space" => \E k \in 1 .. n : a[k] < p /\ p <= a[k] + Len(Q[k])
    /\ a[1] = 0 /\ a[n] + Len(Q[n]) = Len(w)

(* What a row says of places in w only: e[k] is where piece k ends.        *)
Places(w, n, a, e) ==
    /\ Len(w) \in Nat /\ n \in Nat \ {0} /\ a \in [1 .. n -> Nat] /\ e \in [1 .. n -> Nat]
    /\ \A k \in 1 .. n :
          /\ a[k] < e[k] /\ e[k] <= Len(w)
          /\ \A p \in a[k] + 1 .. e[k] : w[p] # "space"
          /\ \A p \in a[k] + 1 .. e[k] - 1 : ~(w[p] = "close" /\ w[p + 1] = "open")
          /\ w[a[k] + 1] = "open"
          /\ k < n => w[e[k]] = "close"
    /\ \A k, l \in 1 .. n : k < l => e[k] <= a[l]
    /\ \A p \in 1 .. Len(w) : w[p] # "space" => \E k \in 1 .. n : a[k] < p /\ p <= e[k]
    /\ a[1] = 0 /\ e[n] = Len(w)

(* The places of a row.                                                    *)
LEMMA RowPlaces ==
    ASSUME NEW w, NEW n, NEW Q, NEW a, Row(w, n, Q, a)
    PROVE  Places(w, n, a, [k \in 1 .. n |-> a[k] + Len(Q[k])])
<1> DEFINE e == [k \in 1 .. n |-> a[k] + Len(Q[k])]
<1>1. /\ w \in Seq(Kinds) /\ n \in Nat \ {0} /\ a \in [1 .. n -> Nat]
      /\ Q \in [1 .. n -> Seq(Kinds)] /\ a[1] = 0 /\ a[n] + Len(Q[n]) = Len(w)
  BY DEF Row
<1>2. \A k \in 1 .. n : e[k] = a[k] + Len(Q[k]) /\ a[k] \in Nat /\ Len(Q[k]) \in Nat
  BY <1>1
<1>3. e \in [1 .. n -> Nat] /\ Len(w) \in Nat
  BY <1>1
<1> HIDE DEF e
<1>4. \A k, l \in 1 .. n : k < l => e[k] <= a[l]
  BY <1>2 DEF Row
<1>5. \A p \in 1 .. Len(w) : w[p] # "space" => \E k \in 1 .. n : a[k] < p /\ p <= e[k]
  BY <1>2 DEF Row
<1>6. 1 \in 1 .. n /\ n \in 1 .. n
  BY <1>1
<1>7. e[n] = Len(w)
  BY <1>1, <1>2, <1>6
<1>8. ASSUME NEW k \in 1 .. n
      PROVE  /\ a[k] < e[k] /\ e[k] <= Len(w)
             /\ \A p \in a[k] + 1 .. e[k] : w[p] # "space"
             /\ \A p \in a[k] + 1 .. e[k] - 1 : ~(w[p] = "close" /\ w[p + 1] = "open")
             /\ w[a[k] + 1] = "open"
             /\ k < n => w[e[k]] = "close"
  <2> DEFINE q == Q[k]
             m == Len(q)
  <2>1. /\ m >= 1 /\ q[1] = "open" /\ (k < n => q[m] = "close")
        /\ \A i \in 1 .. m : w[a[k] + i] = q[i] /\ q[i] # "space"
        /\ \A i \in 1 .. m - 1 : ~(q[i] = "close" /\ q[i + 1] = "open")
    BY DEF Row
  <2>2. e[k] = a[k] + m /\ a[k] \in Nat /\ m \in Nat
    BY <1>2
  <2> HIDE DEF q, m
  <2>3. ASSUME NEW p \in a[k] + 1 .. e[k] PROVE p - a[k] \in 1 .. m /\ a[k] + (p - a[k]) = p
    BY <2>2
  <2>4. \A p \in a[k] + 1 .. e[k] : w[p] = q[p - a[k]] /\ w[p] # "space"
    BY <2>1, <2>3
  <2>5. ASSUME NEW p \in a[k] + 1 .. e[k] - 1, w[p] = "close", w[p + 1] = "open" PROVE FALSE
    <3>1. /\ p \in a[k] + 1 .. e[k] /\ p + 1 \in a[k] + 1 .. e[k]
          /\ p - a[k] \in 1 .. m - 1 /\ (p + 1) - a[k] = (p - a[k]) + 1
      BY <2>2
    <3>2. q[p - a[k]] = "close" /\ q[(p - a[k]) + 1] = "open"
      BY <2>4, <2>5, <3>1
    <3> QED
      BY <2>1, <3>1, <3>2
  <2>6. w[a[k] + 1] = "open"
    BY <2>1, <2>2
  <2>7. k < n => w[e[k]] = "close"
    BY <2>1, <2>2
  <2>8. a[k] < e[k]
    BY <2>1, <2>2
  <2>9. e[k] <= Len(w)
    <3>1. CASE k = n
      BY <1>3, <1>7, <3>1
    <3>2. CASE k < n
      <4>1. e[k] <= a[n]
        BY <1>4, <1>6, <3>2
      <4>2. Len(Q[n]) \in Nat /\ a[n] \in Nat /\ e[n] = a[n] + Len(Q[n])
        BY <1>2, <1>6
      <4> QED
        BY <1>7, <2>2, <4>1, <4>2
    <3> QED
      BY <1>1, <3>1, <3>2
  <2> QED
    BY <2>4, <2>5, <2>6, <2>7, <2>8, <2>9
<1> QED
  BY <1>1, <1>3, <1>4, <1>5, <1>7, <1>8 DEF Places, e

(* The text is split at the ends of the pieces and nowhere else.           *)
LEMMA SplitBetween ==
    ASSUME NEW w, NEW n, NEW a, NEW e, Places(w, n, a, e), NEW k \in 1 .. n - 1
    PROVE  Boundary(w, e[k], a[k + 1] + 1)
<1>1. /\ k \in 1 .. n /\ k + 1 \in 1 .. n /\ k < n /\ n \in Nat
      /\ \A l \in 1 .. n : l <= k \/ k + 1 <= l
  BY DEF Places
<1>2. /\ \A l \in 1 .. n : a[l] \in Nat /\ e[l] \in Nat /\ a[l] < e[l] /\ e[l] <= Len(w)
      /\ \A l, m \in 1 .. n : l < m => e[l] <= a[m]
  BY DEF Places
<1>3. w[e[k]] = "close" /\ w[a[k + 1] + 1] = "open"
  BY <1>1 DEF Places
<1> DEFINE j == e[k]
           i == a[k + 1] + 1
<1>4. ASSUME NEW p \in j + 1 .. i - 1, w[p] # "space" PROVE FALSE
  <2>1. p \in 1 .. Len(w) /\ e[k] < p /\ p <= a[k + 1] /\ p \in Nat
    <3>1. /\ e[k] \in Nat /\ a[k + 1] \in Nat /\ e[k + 1] \in Nat /\ Len(w) \in Nat
          /\ a[k + 1] < e[k + 1] /\ e[k + 1] <= Len(w)
      BY <1>1, <1>2 DEF Places
    <3> QED
      BY <3>1
  <2>2. PICK l \in 1 .. n : a[l] < p /\ p <= e[l]
    BY <1>4, <2>1 DEF Places
  <2>3. CASE l <= k
    <3>1. e[l] <= e[k]
      <4>1. CASE l = k
        BY <1>1, <1>2, <4>1
      <4>2. CASE l < k
        <5>1. e[l] <= a[k] /\ a[k] < e[k]
          BY <1>1, <1>2, <4>2
        <5> QED
          BY <1>1, <1>2, <5>1
      <4> QED
        BY <1>1, <2>3, <4>1, <4>2
    <3> QED
      BY <1>1, <1>2, <2>1, <2>2, <3>1
  <2>4. CASE k + 1 <= l
    <3>1. a[k + 1] <= a[l]
      <4>1. CASE l = k + 1
        BY <1>1, <1>2, <4>1
      <4>2. CASE k + 1 < l
        <5>1. e[k + 1] <= a[l] /\ a[k + 1] < e[k + 1]
          BY <1>1, <1>2, <4>2
        <5> QED
          BY <1>1, <1>2, <5>1
      <4> QED
        BY <1>1, <2>4, <4>1, <4>2
    <3> QED
      BY <1>1, <1>2, <2>1, <2>2, <3>1
  <2> QED
    BY <1>1, <2>3, <2>4
<1>5. w[j] = "close" /\ w[i] = "open"
  BY <1>3
<1> HIDE DEF j, i
<1>6. \A p \in j + 1 .. i - 1 : w[p] = "space"
  BY <1>4
<1>7. Boundary(w, j, i)
  BY <1>5, <1>6 DEF Boundary
<1> QED
  BY <1>7 DEF j, i

(* A boundary is between two neighbours of the row.                        *)
LEMMA SplitOnlyBetween ==
    ASSUME NEW w, NEW n, NEW a, NEW e, Places(w, n, a, e),
           NEW j \in 1 .. Len(w), NEW i \in 1 .. Len(w), j < i, Boundary(w, j, i)
    PROVE  \E k \in 1 .. n - 1 : j = e[k] /\ i = a[k + 1] + 1
<1>1. w[j] = "close" /\ w[i] = "open" /\ \A p \in j + 1 .. i - 1 : w[p] = "space"
  BY DEF Boundary
<1>2. /\ \A l \in 1 .. n : a[l] \in Nat /\ e[l] \in Nat /\ a[l] < e[l] /\ e[l] <= Len(w)
      /\ \A l, m \in 1 .. n : l < m => e[l] <= a[m]
      /\ n \in Nat /\ Len(w) \in Nat
  BY DEF Places
<1>3. PICK k \in 1 .. n : a[k] < j /\ j <= e[k]
  BY <1>1 DEF Places
<1>4. PICK l \in 1 .. n : a[l] < i /\ i <= e[l]
  BY <1>1 DEF Places
<1>5. /\ a[k] \in Nat /\ e[k] \in Nat /\ a[l] \in Nat /\ e[l] \in Nat
      /\ a[k] < e[k] /\ a[l] < e[l]
  BY <1>2
<1>6. \A m \in 1 .. n, p \in 1 .. Len(w) : a[m] < p /\ p <= e[m] => w[p] # "space"
  <2> TAKE m \in 1 .. n, p \in 1 .. Len(w)
  <2> HAVE a[m] < p /\ p <= e[m]
  <2>1. p \in a[m] + 1 .. e[m]
    BY <1>2
  <2> QED
    BY <2>1 DEF Places
<1>7. ~(l < k)
  <2> SUFFICES ASSUME l < k PROVE FALSE
    OBVIOUS
  <2>1. e[l] <= a[k]
    BY <1>2
  <2> QED
    BY <1>3, <1>4, <1>5, <2>1
<1>8. l # k
  <2> SUFFICES ASSUME l = k PROVE FALSE
    OBVIOUS
  <2>1. j + 1 = i
    <3> SUFFICES ASSUME j + 1 # i PROVE FALSE
      OBVIOUS
    <3>1. j + 1 \in j + 1 .. i - 1 /\ j + 1 \in 1 .. Len(w) /\ a[k] < j + 1 /\ j + 1 <= e[k]
      BY <1>2, <1>3, <1>4, <1>5
    <3> QED
      BY <1>1, <1>6, <3>1
  <2>2. j \in a[k] + 1 .. e[k] - 1
    BY <1>3, <1>4, <1>5, <2>1
  <2> QED
    BY <1>1, <2>1, <2>2 DEF Places
<1>9. k < l /\ e[k] <= a[l]
  BY <1>2, <1>7, <1>8
<1>10. j = e[k]
  <2> SUFFICES ASSUME j < e[k] PROVE FALSE
    BY <1>3, <1>5
  <2>1. j + 1 \in j + 1 .. i - 1 /\ j + 1 \in 1 .. Len(w) /\ a[k] < j + 1 /\ j + 1 <= e[k]
    BY <1>2, <1>3, <1>4, <1>5, <1>9
  <2> QED
    BY <1>1, <1>6, <2>1
<1>11. i = a[l] + 1
  <2> SUFFICES ASSUME a[l] + 1 < i PROVE FALSE
    BY <1>4, <1>5
  <2>1. /\ a[l] + 1 \in j + 1 .. i - 1 /\ a[l] + 1 \in 1 .. Len(w)
        /\ a[l] < a[l] + 1 /\ a[l] + 1 <= e[l]
    BY <1>2, <1>3, <1>4, <1>5, <1>9, SMTT(30)
  <2> QED
    BY <1>1, <1>6, <2>1
<1>12. l = k + 1
  <2> SUFFICES ASSUME k + 1 < l PROVE FALSE
    BY <1>9
  <2>1. k + 1 \in 1 .. n
    BY <1>2
  <2>2. e[k] <= a[k + 1] /\ a[k + 1] < e[k + 1] /\ e[k + 1] <= a[l]
    BY <1>2, <2>1
  <2>3. a[k + 1] \in Nat /\ e[k + 1] \in Nat /\ e[k + 1] <= Len(w)
    BY <1>2, <2>1
  <2> DEFINE b == a[k + 1]
             d == e[k + 1]
  <2> HIDE DEF b, d
  <2>4. /\ b + 1 \in j + 1 .. i - 1 /\ b + 1 \in 1 .. Len(w)
        /\ b < b + 1 /\ b + 1 <= d
    <3>1. /\ e[k] <= b /\ b < d /\ d <= a[l] /\ b \in Nat /\ d \in Nat /\ d <= Len(w)
          /\ Len(w) \in Nat /\ a[l] \in Nat /\ e[k] \in Nat
      BY <1>2, <1>5, <2>2, <2>3 DEF b, d
    <3> QED
      BY <1>10, <1>11, <3>1, SMTT(30)
  <2> QED
    BY <1>1, <1>6, <2>1, <2>4 DEF b, d
<1>13. k \in 1 .. n - 1
  BY <1>2, <1>9
<1> QED
  BY <1>10, <1>11, <1>12, <1>13

(* So the row is cut into the pieces it was made of.                       *)
LEMMA PiecesOfRow ==
    ASSUME NEW w, NEW n, NEW Q, NEW a, Row(w, n, Q, a)
    PROVE  Pieces(w) = Q
<1> DEFINE e == [k \in 1 .. n |-> a[k] + Len(Q[k])]
<1>1. Places(w, n, a, e)
  BY RowPlaces
<1>2. /\ w \in Seq(Kinds) /\ n \in Nat \ {0} /\ Q \in [1 .. n -> Seq(Kinds)]
      /\ \A k \in 1 .. n :
            /\ Len(Q[k]) \in Nat /\ e[k] = a[k] + Len(Q[k])
            /\ \A i \in 1 .. Len(Q[k]) : w[a[k] + i] = Q[k][i]
  BY DEF Row
<1> HIDE DEF e
<1>3. /\ \A k \in 1 .. n : a[k] \in Nat /\ e[k] \in Nat /\ a[k] < e[k] /\ e[k] <= Len(w)
      /\ \A k, l \in 1 .. n : k < l => e[k] <= a[l]
      /\ a[1] = 0 /\ e[n] = Len(w) /\ Len(w) \in Nat /\ n \in Nat /\ n >= 1
      /\ e \in [1 .. n -> Nat]
  BY <1>1 DEF Places
<1> DEFINE opens == {i \in 1 .. Len(w) : \E j \in 1 .. i - 1 : Boundary(w, j, i)}
           closes == {j \in 1 .. Len(w) : \E i \in j + 1 .. Len(w) : Boundary(w, j, i)}
           starts == [k \in 1 .. n |-> a[k] + 1]
<1>4. ASSUME NEW k \in 1 .. n - 1
      PROVE  a[k + 1] + 1 \in opens /\ e[k] \in closes
  <2>1. k \in 1 .. n /\ k + 1 \in 1 .. n /\ k < k + 1
    BY <1>3
  <2> DEFINE j == e[k]
             i == a[k + 1] + 1
  <2>2. j \in 1 .. Len(w) /\ i \in 1 .. Len(w) /\ j < i
    <3>1. /\ a[k] \in Nat /\ e[k] \in Nat /\ a[k + 1] \in Nat /\ e[k + 1] \in Nat
          /\ a[k] < e[k] /\ e[k] <= a[k + 1] /\ a[k + 1] < e[k + 1] /\ e[k + 1] <= Len(w)
      BY <1>3, <2>1
    <3> QED
      BY <1>3, <3>1
  <2>3. Boundary(w, j, i)
    BY <1>1, SplitBetween
  <2> HIDE DEF i, j
  <2>4. j \in 1 .. i - 1 /\ i \in j + 1 .. Len(w)
    BY <2>2
  <2> QED
    BY <2>2, <2>3, <2>4 DEF i, j
<1>5. ASSUME NEW i \in opens PROVE \E k \in 1 .. n - 1 : i = a[k + 1] + 1
  <2>1. PICK j \in 1 .. i - 1 : Boundary(w, j, i)
    OBVIOUS
  <2>2. i \in 1 .. Len(w) /\ j \in 1 .. Len(w) /\ j < i
    BY <1>3
  <2> QED
    BY <1>1, <2>1, <2>2, SplitOnlyBetween
<1>6. ASSUME NEW j \in closes PROVE \E k \in 1 .. n - 1 : j = e[k]
  <2>1. PICK i \in j + 1 .. Len(w) : Boundary(w, j, i)
    OBVIOUS
  <2>2. i \in 1 .. Len(w) /\ j \in 1 .. Len(w) /\ j < i
    BY <1>3
  <2> QED
    BY <1>1, <2>1, <2>2, SplitOnlyBetween
<1>7. opens \subseteq Nat /\ closes \subseteq Nat
  BY <1>3
<1> HIDE DEF opens, closes
<1>8. Ascending({1} \cup opens) = starts
  <2> DEFINE S == {1} \cup opens
  <2>1. S \subseteq Nat
    BY <1>7
  <2>2. ASSUME NEW k \in 1 .. n PROVE a[k] + 1 \in S
    <3>1. CASE k = 1
      BY <1>3, <3>1
    <3>2. CASE k # 1
      <4>1. k - 1 \in 1 .. n - 1 /\ (k - 1) + 1 = k
        BY <1>3, <3>2
      <4> QED
        BY <1>4, <4>1
    <3> QED
      BY <3>1, <3>2
  <2>3. ASSUME NEW x \in S PROVE \E k \in 1 .. n : a[k] + 1 = x
    <3>1. CASE x = 1
      BY <1>3, <3>1
    <3>2. CASE x \in opens
      <4>1. PICK k \in 1 .. n - 1 : x = a[k + 1] + 1
        BY <1>5, <3>2
      <4>2. k + 1 \in 1 .. n
        BY <1>3
      <4> QED
        BY <4>1, <4>2
    <3> QED
      BY <3>1, <3>2
  <2> HIDE DEF S
  <2>4. starts \in [1 .. n -> S]
    BY <2>2
  <2>5. ASSUME NEW k \in 1 .. n, NEW l \in 1 .. n, k < l PROVE starts[k] < starts[l]
    <3>1. a[k] \in Nat /\ a[l] \in Nat /\ e[k] \in Nat /\ a[k] < e[k] /\ e[k] <= a[l]
      BY <1>3, <2>5
    <3> QED
      BY <3>1
  <2>6. \A x \in S : \E k \in 1 .. n : starts[k] = x
    BY <2>3
  <2> HIDE DEF starts
  <2> QED
    BY <1>3, <2>1, <2>4, <2>5, <2>6, AscendingIs DEF S
<1>9. Ascending({Len(w)} \cup closes) = e
  <2> DEFINE S == {Len(w)} \cup closes
  <2>1. S \subseteq Nat
    BY <1>3, <1>7
  <2>2. ASSUME NEW k \in 1 .. n PROVE e[k] \in S
    <3>1. CASE k = n
      BY <1>3, <3>1
    <3>2. CASE k # n
      <4>1. k \in 1 .. n - 1
        BY <1>3, <3>2
      <4> QED
        BY <1>4, <4>1
    <3> QED
      BY <3>1, <3>2
  <2>3. ASSUME NEW x \in S PROVE \E k \in 1 .. n : e[k] = x
    <3>1. CASE x = Len(w)
      BY <1>3, <3>1
    <3>2. CASE x \in closes
      <4>1. PICK k \in 1 .. n - 1 : x = e[k]
        BY <1>6, <3>2
      <4>2. k \in 1 .. n
        BY <1>3
      <4> QED
        BY <4>1, <4>2
    <3> QED
      BY <3>1, <3>2
  <2> HIDE DEF S
  <2>4. e \in [1 .. n -> S]
    BY <1>3, <2>2
  <2>5. ASSUME NEW k \in 1 .. n, NEW l \in 1 .. n, k < l PROVE e[k] < e[l]
    <3>1. a[l] \in Nat /\ e[k] \in Nat /\ e[l] \in Nat /\ e[k] <= a[l] /\ a[l] < e[l]
      BY <1>3, <2>5
    <3> QED
      BY <3>1
  <2> QED
    BY <1>3, <2>1, <2>3, <2>4, <2>5, AscendingIs DEF S
<1>10. starts \in Seq(Nat) /\ Len(starts) = n
  BY <1>3
<1>11. Pieces(w) = [k \in 1 .. n |-> SubSeq(w, a[k] + 1, e[k])]
  <2>1. Pieces(w) = [k \in 1 .. Len(starts) |-> SubSeq(w, starts[k], e[k])]
    BY <1>8, <1>9 DEF Pieces, opens, closes
  <2>2. \A k \in 1 .. n : starts[k] = a[k] + 1
    OBVIOUS
  <2> HIDE DEF starts
  <2> QED
    BY ONLY <1>10, <2>1, <2>2
<1>12. ASSUME NEW k \in 1 .. n PROVE SubSeq(w, a[k] + 1, e[k]) = Q[k]
  <2> DEFINE q == Q[k]
             b == a[k]
             d == e[k]
             u == SubSeq(w, b + 1, d)
  <2>1. /\ q \in Seq(Kinds) /\ b \in Nat /\ d \in Nat /\ Len(q) \in Nat /\ d = b + Len(q)
        /\ b < d /\ d <= Len(w)
        /\ \A i \in 1 .. Len(q) : w[b + i] = q[i]
    BY <1>2, <1>3
  <2> HIDE DEF q, b, d
  <2>2. u \in Seq(Kinds) /\ Len(u) = d - b /\ \A i \in 1 .. d - b : u[i] = w[b + i]
    BY <1>2, <1>3, <2>1, SubSeqProperties
  <2>3. Len(u) = Len(q) /\ \A i \in 1 .. Len(u) : u[i] = q[i]
    BY <2>1, <2>2, SMTT(30)
  <2> HIDE DEF u
  <2>4. u = q
    BY <2>1, <2>2, <2>3, SeqEqual
  <2> QED
    BY <2>4 DEF u, q, b, d
<1> QED
  BY <1>2, <1>11, <1>12

-----------------------------------------------------------------------------
(* The first m of a list of pieces.                                        *)
FirstOf(Q, m) == [k \in 1 .. m |-> Q[k]]

(* Of n pieces the first m decode, and only the last may not.              *)
LEMMA DecodedAre ==
    ASSUME NEW n \in Nat, NEW Q \in [1 .. n -> Seq(Kinds)], NEW m \in Nat, m <= n,
           \A k \in 1 .. n : Decodes(Q[k]) <=> k <= m
    PROVE  Decoded(Q) = FirstOf(Q, m)
<1>1. Len(Q) = n
  OBVIOUS
<1> DEFINE S == {k \in 1 .. Len(Q) : Decodes(Q[k])}
           g == [k \in 1 .. m |-> k]
<1>2. S = 1 .. m
  BY <1>1
<1>3. Ascending(S) = g
  <2> HIDE DEF S
  <2>1. /\ S \subseteq Nat /\ g \in [1 .. m -> S]
        /\ \A i, j \in 1 .. m : i < j => g[i] < g[j]
        /\ \A x \in S : \E i \in 1 .. m : g[i] = x
    BY <1>2
  <2> HIDE DEF g
  <2> QED
    BY <2>1, AscendingIs
<1>4. Decoded(Q) = [i \in 1 .. Len(g) |-> Q[g[i]]]
  BY <1>3 DEF Decoded
<1>5. Len(g) = m /\ \A i \in 1 .. m : g[i] = i
  OBVIOUS
<1>6. Decoded(Q) = [k \in 1 .. m |-> Q[k]]
  BY ONLY <1>4, <1>5
<1> QED
  BY <1>6 DEF FirstOf

(* If all pieces decode nothing is kept.                                   *)
LEMMA RestIsEmpty ==
    ASSUME NEW n \in Nat, NEW Q \in [1 .. n -> Seq(Kinds)], \A k \in 1 .. n : Decodes(Q[k])
    PROVE  Rest(Q) = <<>>
<1>1. Len(Q) = n
  OBVIOUS
<1>2. {k \in 1 .. Len(Q) : ~Decodes(Q[k])} = {}
  BY <1>1
<1> QED
  BY <1>2 DEF Rest

(* What it means for a text to begin with a brace.                         *)
LEMMA OpenPrefix ==
    ASSUME NEW u \in Seq(Kinds)
    PROVE  IsPrefix(<<"open">>, u) <=> Len(u) >= 1 /\ u[1] = "open"
<1> DEFINE o == <<"open">>
           x == SubSeq(u, 1, 1)
           y == SubSeq(o, 1, 1)
<1>1. o \in Seq(Kinds) /\ Len(o) = 1 /\ o[1] = "open"
  BY DEF Kinds
<1> HIDE DEF o
<1>2. y = o
  BY <1>1, SubSeqFull
<1>3. ASSUME Len(u) >= 1
      PROVE  x \in Seq(Kinds) /\ Len(x) = 1 /\ x[1] = u[1]
  <2>1. 1 \in Int /\ \A i \in 1 .. 1 : u[i] \in Kinds
    BY <1>3
  <2> QED
    BY <2>1, SubSeqProperties
<1> HIDE DEF x, y
<1>4. ASSUME Len(u) >= 1, u[1] = "open" PROVE x = o
  BY <1>1, <1>3, <1>4, SeqEqual
<1>5. IsPrefix(o, u) <=> Len(u) >= 1 /\ x = o
  BY <1>1, <1>2 DEF IsPrefix, x, y
<1> QED
  BY <1>1, <1>3, <1>4, <1>5 DEF o

(* The undecodable last piece is kept as it was.                           *)
LEMMA RestIsLast ==
    ASSUME NEW n \in Nat \ {0}, NEW Q \in [1 .. n -> Seq(Kinds)],
           \A k \in 1 .. n : ~Decodes(Q[k]) <=> k = n,
           Len(Q[n]) >= 1, Q[n][1] = "open", Len(Q[n]) >= 2 => Q[n][2] # "open"
    PROVE  Rest(Q) = Q[n]
<1>1. Len(Q) = n /\ n \in Nat /\ n \in 1 .. n
  OBVIOUS
<1> DEFINE bad == {k \in 1 .. Len(Q) : ~Decodes(Q[k])}
           q == Q[n]
           r == SubSeq(q, IF n = 1 THEN 1 ELSE 2, Len(q))
<1>2. bad = {n}
  BY <1>1
<1>3. Max(bad) = n
  <2>1. {n} \subseteq Nat /\ n \in {n} /\ \A x \in {n} : n <= x /\ x <= n
    BY <1>1
  <2>2. Max({n}) = n
    BY ONLY <2>1, MinMaxAre
  <2> QED
    BY <1>2, <2>2
<1>4. q \in Seq(Kinds) /\ Len(q) \in Nat
  OBVIOUS
<1>5. Rest(Q) = IF IsPrefix(<<"open">>, r) THEN r ELSE <<"open">> \o r
  <2> HIDE DEF bad
  <2>1. bad # {}
    BY <1>2
  <2>2. SubSeq(Q[n], IF n = 1 THEN 1 ELSE 2, IF n = Len(Q) THEN Len(Q[n]) ELSE Len(Q[n]) - 1) = r
    BY <1>1
  <2> HIDE DEF q, r
  <2> QED
    BY <1>3, <2>1, <2>2 DEF Rest, bad
<1>6. \A u \in Seq(Kinds) : IsPrefix(<<"open">>, u) <=> Len(u) >= 1 /\ u[1] = "open"
  BY OpenPrefix
<1> HIDE DEF q, bad
<1>7. q[1] = "open" /\ Len(q) >= 1 /\ (Len(q) >= 2 => q[2] # "open")
  BY DEF q
<1>8. CASE n = 1
  <2>1. r = q
    BY <1>4, <1>8, SubSeqFull
  <2>2. IsPrefix(<<"open">>, q)
    BY <1>4, <1>6, <1>7
  <2> HIDE DEF r
  <2> QED
    BY <1>5, <2>1, <2>2 DEF q
<1>9. CASE n # 1
  <2>1. /\ r \in Seq(Kinds) /\ Len(r) = Len(q) - 1
        /\ \A i \in 1 .. Len(q) - 1 : r[i] = q[i + 1]
    <3> DEFINE h == Len(q)
    <3>1. h \in Nat /\ h >= 1 /\ 2 \in Int /\ \A i \in 2 .. h : q[i] \in Kinds
      BY <1>4, <1>7
    <3>2. r = SubSeq(q, 2, h)
      BY <1>9
    <3> HIDE DEF h, r
    <3>3. /\ r \in Seq(Kinds) /\ Len(r) = IF 2 <= h THEN h - 2 + 1 ELSE 0
          /\ \A i \in 1 .. h - 2 + 1 : r[i] = q[2 + i - 1]
      BY <3>1, <3>2, SubSeqProperties
    <3>4. Len(r) = h - 1 /\ \A i \in 1 .. h - 1 : r[i] = q[i + 1]
      BY <3>1, <3>3
    <3> QED
      BY <3>3, <3>4 DEF h
  <2> HIDE DEF r
  <2>2. ~(Len(r) >= 1 /\ r[1] = "open")
    BY <1>4, <1>7, <2>1
  <2>3. Rest(Q) = <<"open">> \o r
    BY <1>5, <1>6, <2>1, <2>2
  <2> DEFINE u == <<"open">> \o r
  <2>4. /\ u \in Seq(Kinds) /\ Len(u) = Len(q)
        /\ \A i \in 1 .. Len(q) : u[i] = q[i]
    <3>1. <<"open">> \in Seq(Kinds) /\ Len(<<"open">>) = 1 /\ <<"open">>[1] = "open"
      BY DEF Kinds
    <3>2. /\ u \in Seq(Kinds) /\ Len(u) = 1 + Len(r)
          /\ \A i \in 1 .. 1 + Len(r) : u[i] = IF i <= 1 THEN <<"open">>[i] ELSE r[i - 1]
      BY <2>1, <3>1, ConcatProperties
    <3> HIDE DEF u
    <3>3. ASSUME NEW i \in 1 .. Len(q) PROVE u[i] = q[i]
      <4>1. CASE i = 1
        BY <1>4, <1>7, <2>1, <3>1, <3>2, <4>1
      <4>2. CASE i # 1
        <5>1. i - 1 \in 1 .. Len(q) - 1 /\ (i - 1) + 1 = i
          BY <1>4, <4>2
        <5>2. u[i] = r[i - 1]
          BY <1>4, <2>1, <3>2, <5>1
        <5> QED
          BY <2>1, <5>1, <5>2
      <4> QED
        BY <4>1, <4>2
    <3> QED
      BY <1>4, <1>7, <2>1, <3>2, <3>3
  <2> HIDE DEF u
  <2>5. u = q
    BY <1>4, <2>4, SeqEqual
  <2> QED
    BY <2>3, <2>5 DEF u, q
<1> QED
  BY <1>8, <1>9

-----------------------------------------------------------------------------
(* All that was written: the texts of T in order, text k after position    *)
(* at[k], and spaces.                                                      *)
Laid(T, stream, at) ==
    /\ T \in Seq(Texts) /\ stream \in Seq(Kinds) /\ at \in [1 .. Len(T) -> Nat]
    /\ \A k \in 1 .. Len(T) :
          /\ at[k] + Len(T[k]) <= Len(stream)
          /\ \A i \in 1 .. Len(T[k]) : stream[at[k] + i] = T[k][i]
    /\ \A k, l \in 1 .. Len(T) : k < l => at[k] + Len(T[k]) <= at[l]
    /\ \A p \in 1 .. Len(stream) :
          \/ stream[p] = "space"
          \/ \E k \in 1 .. Len(T) : at[k] < p /\ p <= at[k] + Len(T[k])

(* f texts have arrived in whole when pos characters have.                 *)
Whole(T, at, f, pos) ==
    /\ f \in 0 .. Len(T)
    /\ \A k \in 1 .. Len(T) : k <= f <=> at[k] + Len(T[k]) <= pos

(* Where the text begins that has arrived in part.                         *)
Begun(T, at, f, pos) == IF f < Len(T) /\ at[f + 1] < pos THEN at[f + 1] ELSE pos

(* The same by places only, e[k] being where text k ends.                  *)
Spans(T, stream, at, e) ==
    /\ Len(T) \in Nat /\ Len(stream) \in Nat /\ e \in [1 .. Len(T) -> Nat]
    /\ \A k \in 1 .. Len(T) :
          /\ at[k] \in Nat /\ e[k] = at[k] + Len(T[k]) /\ at[k] < e[k]
          /\ e[k] <= Len(stream) /\ T[k] \in Texts
          /\ \A p \in at[k] + 1 .. e[k] :
                stream[p] = T[k][p - at[k]] /\ stream[p] # "space"
    /\ \A k, l \in 1 .. Len(T) : k < l => e[k] <= at[l]
    /\ \A p \in 1 .. Len(stream) :
          \/ stream[p] = "space"
          \/ \E k \in 1 .. Len(T) : at[k] < p /\ p <= e[k]

(* The places of what is laid out.                                         *)
LEMMA LaidSpans ==
    ASSUME PlainTexts, NEW T, NEW stream, NEW at, Laid(T, stream, at)
    PROVE  \E e : Spans(T, stream, at, e)
<1> DEFINE e == [k \in 1 .. Len(T) |-> at[k] + Len(T[k])]
<1>1. T \in Seq(Texts) /\ stream \in Seq(Kinds) /\ at \in [1 .. Len(T) -> Nat]
  BY DEF Laid
<1>2. Len(T) \in Nat /\ Len(stream) \in Nat
  BY <1>1
<1>3. ASSUME NEW k \in 1 .. Len(T)
      PROVE  /\ at[k] \in Nat /\ e[k] = at[k] + Len(T[k]) /\ e[k] \in Nat /\ at[k] < e[k]
             /\ T[k] \in Texts
             /\ \A p \in at[k] + 1 .. e[k] :
                   stream[p] = T[k][p - at[k]] /\ stream[p] # "space"
  <2> DEFINE t == T[k]
             b == at[k]
             m == Len(t)
  <2>1. t \in Texts /\ b \in Nat /\ e[k] = b + m
    BY <1>1
  <2>2. \A i \in 1 .. m : stream[b + i] = t[i]
    BY DEF Laid
  <2> HIDE DEF t, b
  <2>3. m \in Nat /\ m >= 2 /\ \A i \in 1 .. m : t[i] # "space"
    BY <2>1, PlainText
  <2> HIDE DEF m, e
  <2>4. ASSUME NEW p \in b + 1 .. e[k]
        PROVE  stream[p] = t[p - b] /\ stream[p] # "space"
    <3>1. p - b \in 1 .. m /\ b + (p - b) = p
      BY <2>1, <2>3
    <3> QED
      BY <2>2, <2>3, <3>1
  <2>5. b < e[k] /\ e[k] \in Nat
    BY <2>1, <2>3
  <2> QED
    BY <2>1, <2>4, <2>5 DEF t, b, m
<1>4. e \in [1 .. Len(T) -> Nat]
  BY <1>3
<1> HIDE DEF e
<1>5. \A k \in 1 .. Len(T) : e[k] <= Len(stream)
  BY <1>3 DEF Laid
<1>6. \A k, l \in 1 .. Len(T) : k < l => e[k] <= at[l]
  BY <1>3 DEF Laid
<1>7. \A p \in 1 .. Len(stream) :
         \/ stream[p] = "space"
         \/ \E k \in 1 .. Len(T) : at[k] < p /\ p <= e[k]
  BY <1>3 DEF Laid
<1>8. Spans(T, stream, at, e)
  BY <1>2, <1>3, <1>4, <1>5, <1>6, <1>7 DEF Spans
<1> QED
  BY <1>8

(* However far the stream has arrived, some number of texts is whole.      *)
LEMMA SomeAreWhole ==
    ASSUME PlainTexts, NEW T, NEW stream, NEW at, Laid(T, stream, at),
           NEW f, NEW pos \in Nat, Whole(T, at, f, pos), NEW pos2 \in Nat, pos <= pos2
    PROVE  \E g \in f .. Len(T) : Whole(T, at, g, pos2)
<1>0. PICK e : Spans(T, stream, at, e)
  BY LaidSpans
<1>1. /\ Len(T) \in Nat /\ e \in [1 .. Len(T) -> Nat]
      /\ \A k \in 1 .. Len(T) : at[k] \in Nat /\ e[k] = at[k] + Len(T[k]) /\ at[k] < e[k]
      /\ \A k, l \in 1 .. Len(T) : k < l => e[k] <= at[l]
  BY <1>0 DEF Spans
<1>2. f \in 0 .. Len(T) /\ \A k \in 1 .. Len(T) : k <= f <=> e[k] <= pos
  BY <1>1 DEF Whole
<1> DEFINE S == {k \in 0 .. Len(T) : k <= f \/ (k \in 1 .. Len(T) /\ e[k] <= pos2)}
<1>3. S \subseteq 0 .. Len(T) /\ f \in S
  BY <1>1, <1>2
<1>4. PICK g \in S : \A k \in S : k <= g
  BY <1>1, <1>3, GreatestNatural
<1>5. g \in f .. Len(T) /\ f \in Nat /\ g \in Nat
  BY <1>1, <1>2, <1>3, <1>4
<1>6. ASSUME NEW k \in 1 .. Len(T), k <= g PROVE e[k] <= pos2
  <2>1. CASE k <= f
    <3>1. e[k] <= pos /\ e[k] \in Nat
      BY <1>1, <1>2, <2>1
    <3> QED
      BY <3>1
  <2>2. CASE ~(k <= f)
    <3>1. g \in 1 .. Len(T) /\ e[g] <= pos2
      BY <1>2, <1>5, <1>6, <2>2
    <3>2. CASE k = g
      BY <3>1, <3>2
    <3>3. CASE k < g
      <4>1. e[k] <= at[g] /\ at[g] < e[g] /\ at[g] \in Nat /\ e[g] \in Nat /\ e[k] \in Nat
        BY <1>1, <3>1, <3>3
      <4> QED
        BY <3>1, <4>1
    <3> QED
      BY <1>5, <1>6, <3>2, <3>3
  <2> QED
    BY <2>1, <2>2
<1>7. ASSUME NEW k \in 1 .. Len(T), e[k] <= pos2 PROVE k <= g
  <2>1. k \in S
    BY <1>1, <1>7
  <2> QED
    BY <1>4, <2>1
<1>8. Whole(T, at, g, pos2)
  <2>1. g \in 0 .. Len(T)
    BY <1>3
  <2> HIDE DEF S
  <2> QED
    BY <1>1, <1>6, <1>7, <2>1 DEF Whole
<1> QED
  BY <1>5, <1>8

(* A sum moved by o.                                                       *)
LEMMA Shifted ==
    ASSUME NEW x \in Nat, NEW y \in Nat, NEW o \in Nat
    PROVE  (x - o) + y = (x + y) - o
  OBVIOUS

(* The texts f + 1 to h, of the last one m characters, and where they are. *)
Arrived(T, f, h, m) ==
    [k \in 1 .. h - f |-> IF k < h - f THEN T[f + k] ELSE SubSeq(T[h], 1, m)]

Offsets(at, f, h) == [k \in 1 .. h - f |-> at[f + k] - at[f + 1]]

(* The part of the stream from the start of text f + 1 to a position       *)
(* inside text h or at its end is a row of those texts, the last one as    *)
(* far as it goes.                                                         *)
LEMMA TextsInRow ==
    ASSUME PlainTexts, NEW T, NEW stream, NEW at, Laid(T, stream, at),
           NEW f \in Nat, NEW h \in f + 1 .. Len(T), NEW hi \in Nat,
           at[h] < hi, hi <= at[h] + Len(T[h])
    PROVE  Row(SubSeq(stream, at[f + 1] + 1, hi), h - f,
               Arrived(T, f, h, hi - at[h]), Offsets(at, f, h))
<1>0. PICK e : Spans(T, stream, at, e)
  BY LaidSpans
<1>1. /\ Len(T) \in Nat /\ Len(stream) \in Nat /\ e \in [1 .. Len(T) -> Nat]
      /\ \A k \in 1 .. Len(T) :
            /\ at[k] \in Nat /\ e[k] = at[k] + Len(T[k]) /\ at[k] < e[k]
            /\ e[k] <= Len(stream) /\ T[k] \in Texts
            /\ \A p \in at[k] + 1 .. e[k] :
                  stream[p] = T[k][p - at[k]] /\ stream[p] # "space"
      /\ \A k, l \in 1 .. Len(T) : k < l => e[k] <= at[l]
      /\ \A p \in 1 .. Len(stream) :
            \/ stream[p] = "space"
            \/ \E k \in 1 .. Len(T) : at[k] < p /\ p <= e[k]
  BY <1>0 DEF Spans
<1> DEFINE n == h - f
           o == at[f + 1]
           w == SubSeq(stream, o + 1, hi)
           last == SubSeq(T[h], 1, hi - at[h])
           Q == [k \in 1 .. n |-> IF k < n THEN T[f + k] ELSE last]
           a == [k \in 1 .. n |-> at[f + k] - o]
<1>2. /\ n \in Nat \ {0} /\ h \in 1 .. Len(T) /\ f + 1 \in 1 .. Len(T) /\ f + n = h
      /\ n \in 1 .. n /\ 1 \in 1 .. n
      /\ \A k \in 1 .. n : f + k \in 1 .. Len(T) /\ f + k <= h /\ f + 1 <= f + k
  <2>1. Len(T) \in Nat
    BY <1>1
  <2> HIDE DEF w, last, Q, a, o
  <2> QED
    BY <2>1
<1>3. /\ at[h] < hi /\ hi <= e[h] /\ hi <= Len(stream) /\ at[h] \in Nat /\ e[h] \in Nat
      /\ o \in Nat
  <2>1. hi <= e[h] /\ at[h] \in Nat /\ e[h] \in Nat /\ e[h] <= Len(stream) /\ o \in Nat
    BY <1>1, <1>2
  <2> QED
    BY <1>1, <2>1
<1>4. \A k, l \in 1 .. Len(T) : k <= l => at[k] <= at[l]
  <2> SUFFICES ASSUME NEW k \in 1 .. Len(T), NEW l \in 1 .. Len(T), k <= l
               PROVE  at[k] <= at[l]
    OBVIOUS
  <2>1. at[k] \in Nat /\ at[l] \in Nat /\ e[k] \in Nat /\ at[k] < e[k]
    BY <1>1
  <2>2. k = l \/ k < l
    OBVIOUS
  <2> QED
    BY <1>1, <2>1, <2>2
<1>5. \A k \in 1 .. n : at[f + k] \in Nat /\ o <= at[f + k] /\ at[f + k] <= at[h]
  BY <1>1, <1>2, <1>4
<1> HIDE DEF n, o
<1>6. /\ w \in Seq(Kinds) /\ Len(w) = hi - o
      /\ \A i \in 1 .. hi - o : w[i] = stream[o + i]
  <2>1. o + 1 \in Int /\ hi \in Int /\ o < hi /\ \A i \in o + 1 .. hi : stream[i] \in Kinds
    <3>1. o <= at[h]
      BY <1>2, <1>5
    <3>2. \A i \in o + 1 .. hi : i \in 1 .. Len(stream)
      BY <1>1, <1>3
    <3> QED
      BY <1>3, <3>1, <3>2 DEF Laid
  <2>2. /\ w \in Seq(Kinds) /\ Len(w) = IF o + 1 <= hi THEN hi - (o + 1) + 1 ELSE 0
        /\ \A i \in 1 .. hi - (o + 1) + 1 : w[i] = stream[o + 1 + i - 1]
    BY <2>1, SubSeqProperties
  <2> HIDE DEF w
  <2>3. Len(w) = hi - o /\ hi - (o + 1) + 1 = hi - o
    BY <1>3, <2>1, <2>2
  <2>4. \A i \in 1 .. hi - o : o + 1 + i - 1 = o + i
    BY <1>3
  <2> QED
    BY <2>2, <2>3, <2>4
<1>7. ASSUME NEW t \in Texts, NEW m \in 1 .. Len(t)
      PROVE  /\ SubSeq(t, 1, m) \in Seq(Kinds) /\ Len(SubSeq(t, 1, m)) = m
             /\ \A i \in 1 .. m : SubSeq(t, 1, m)[i] = t[i]
  <2>1. /\ t \in Seq(Kinds) /\ Len(t) \in Nat
    BY PlainText
  <2>2. m \in Int /\ 1 \in Int /\ m >= 1 /\ \A i \in 1 .. m : t[i] \in Kinds
    BY <2>1
  <2> DEFINE u == SubSeq(t, 1, m)
  <2>3. /\ u \in Seq(Kinds) /\ Len(u) = IF 1 <= m THEN m - 1 + 1 ELSE 0
        /\ \A i \in 1 .. m - 1 + 1 : u[i] = t[1 + i - 1]
    BY <2>2, SubSeqProperties
  <2> HIDE DEF u
  <2>4. Len(u) = m /\ m - 1 + 1 = m /\ \A i \in 1 .. m : 1 + i - 1 = i
    BY <2>2, <2>3
  <2>5. u \in Seq(Kinds) /\ Len(u) = m /\ \A i \in 1 .. m : u[i] = t[i]
    BY <2>3, <2>4
  <2> QED
    BY <2>5 DEF u
(* Each piece is so much of its text as has arrived.                       *)
<1> DEFINE part(k) == IF k < n THEN Len(T[f + k]) ELSE hi - at[h]
<1>8. ASSUME NEW k \in 1 .. n
      PROVE  /\ T[f + k] \in Texts /\ part(k) \in 1 .. Len(T[f + k])
             /\ Q[k] \in Seq(Kinds) /\ Len(Q[k]) = part(k)
             /\ \A i \in 1 .. part(k) : Q[k][i] = T[f + k][i]
  <2>1. /\ f + k \in 1 .. Len(T) /\ T[f + k] \in Texts
        /\ T[f + k] \in Seq(Kinds) /\ Len(T[f + k]) \in Nat /\ Len(T[f + k]) >= 2
    BY <1>1, <1>2, PlainText
  <2>2. CASE k < n
    <3>1. Q[k] = T[f + k] /\ part(k) = Len(T[f + k])
      BY <2>2
    <3> HIDE DEF Q, part
    <3> QED
      BY <2>1, <3>1
  <2>3. CASE ~(k < n)
    <3>1. k = n /\ f + k = h
      BY <1>2, <2>3
    <3>2. Q[k] = SubSeq(T[f + k], 1, part(k)) /\ part(k) = hi - at[h]
      BY <2>3, <3>1
    <3>3. e[h] = at[h] + Len(T[h])
      BY <1>1, <1>2
    <3> HIDE DEF Q, part
    <3>4. part(k) \in 1 .. Len(T[f + k])
      BY <1>3, <2>1, <3>1, <3>2, <3>3, SMTT(30)
    <3> QED
      BY <1>7, <2>1, <3>2, <3>4
  <2> QED
    BY <2>2, <2>3
<1>9. ASSUME NEW k \in 1 .. n
      PROVE  /\ a[k] \in Nat /\ a[k] = at[f + k] - o
             /\ at[f + k] + part(k) = (IF k < n THEN e[f + k] ELSE hi)
  <2>1. a[k] = at[f + k] - o /\ a[k] \in Nat
    BY <1>3, <1>5
  <2>2. f + k \in 1 .. Len(T) /\ e[f + k] = at[f + k] + Len(T[f + k])
    BY <1>1, <1>2
  <2>3. CASE k < n
    BY <2>1, <2>2, <2>3
  <2>4. CASE ~(k < n)
    <3>1. k = n /\ f + k = h
      BY <1>2, <2>4
    <3>2. part(k) = hi - at[h] /\ at[f + k] = at[h]
      BY <2>4, <3>1
    <3> HIDE DEF a, part
    <3> QED
      BY <1>3, <2>1, <2>4, <3>2
  <2> QED
    BY <2>3, <2>4
<1>10. Q \in [1 .. n -> Seq(Kinds)] /\ a \in [1 .. n -> Nat]
  BY <1>8, <1>9
<1> HIDE DEF w, Q, a, part
<1>11. ASSUME NEW k \in 1 .. n
       PROVE  /\ Len(Q[k]) >= 1
              /\ \A i \in 1 .. Len(Q[k]) : w[a[k] + i] = Q[k][i] /\ Q[k][i] # "space"
              /\ \A i \in 1 .. Len(Q[k]) - 1 : ~(Q[k][i] = "close" /\ Q[k][i + 1] = "open")
              /\ Q[k][1] = "open"
              /\ k < n => Q[k][Len(Q[k])] = "close"
  <2> DEFINE t == T[f + k]
             m == part(k)
             b == at[f + k]
             q == Q[k]
  <2>1. /\ t \in Texts /\ m \in 1 .. Len(t) /\ q \in Seq(Kinds) /\ Len(q) = m
        /\ \A i \in 1 .. m : q[i] = t[i]
        /\ f + k \in 1 .. Len(T) /\ b \in Nat /\ o <= b /\ a[k] = b - o
        /\ e[f + k] = b + Len(t)
        /\ \A p \in b + 1 .. e[f + k] : stream[p] = t[p - b]
    BY <1>1, <1>2, <1>5, <1>8, <1>9
  <2>2. b + m <= hi
    <3>1. CASE k < n
      <4>1. b + m = e[f + k]
        BY <1>9, <3>1
      <4>2. e[f + k] <= at[h] /\ e[f + k] \in Nat
        <5>1. f + k < h
          BY <1>2, <3>1
        <5> QED
          BY <1>1, <1>2, <5>1
      <4> QED
        BY <1>3, <4>1, <4>2
    <3>2. CASE ~(k < n)
      BY <1>9, <3>2
    <3> QED
      BY <3>1, <3>2
  <2>3. k < n => m = Len(t)
    BY DEF part
  <2> HIDE DEF t, m, b, q
  <2>4. /\ t \in Seq(Kinds) /\ Len(t) \in Nat /\ Len(t) >= 2
        /\ t[1] = "open" /\ t[Len(t)] = "close"
        /\ \A i \in 1 .. Len(t) : t[i] # "space"
        /\ \A i \in 1 .. Len(t) - 1 : ~(t[i] = "close" /\ t[i + 1] = "open")
    BY <2>1, PlainText
  <2>5. ASSUME NEW i \in 1 .. m PROVE w[a[k] + i] = q[i] /\ q[i] # "space"
    <3>1. /\ (b - o) + i \in 1 .. hi - o /\ o + ((b - o) + i) = b + i
          /\ b + i \in b + 1 .. e[f + k] /\ (b + i) - b = i /\ i \in 1 .. Len(t)
      BY <1>3, <2>1, <2>2, <2>4, SMTT(30)
    <3>2. w[a[k] + i] = stream[b + i] /\ stream[b + i] = t[i]
      BY <1>6, <2>1, <3>1
    <3> QED
      BY <2>1, <2>4, <3>1, <3>2
  <2>6. ASSUME NEW i \in 1 .. m - 1, q[i] = "close", q[i + 1] = "open" PROVE FALSE
    <3>1. i \in 1 .. m /\ i + 1 \in 1 .. m /\ i \in 1 .. Len(t) - 1
      BY <2>1, <2>4
    <3>2. q[i] = t[i] /\ q[i + 1] = t[i + 1]
      BY <2>1, <3>1
    <3> QED
      BY <2>4, <2>6, <3>1, <3>2
  <2>7. m >= 1 /\ q[1] = "open" /\ (k < n => q[m] = "close")
    BY <2>1, <2>3, <2>4
  <2>8. Len(q) = m
    BY <2>1
  <2> QED
    BY <2>5, <2>6, <2>7, <2>8 DEF q
<1>12. ASSUME NEW k \in 1 .. n, NEW l \in 1 .. n, k < l
       PROVE  a[k] + Len(Q[k]) <= a[l]
  <2>1. k < n /\ f + k < f + l /\ f + k \in 1 .. Len(T) /\ f + l \in 1 .. Len(T)
    BY <1>2, <1>12
  <2>2. at[f + k] + Len(Q[k]) = e[f + k] /\ e[f + k] <= at[f + l]
    BY <1>1, <1>8, <1>9, <2>1
  <2>3. /\ a[k] = at[f + k] - o /\ a[l] = at[f + l] - o /\ Len(Q[k]) \in Nat
        /\ at[f + k] \in Nat /\ at[f + l] \in Nat
    BY <1>5, <1>9, <1>10
  <2>4. at[f + k] + Len(Q[k]) <= at[f + l]
    BY <2>2
  <2> QED
    <3>1. a[k] + Len(Q[k]) = (at[f + k] + Len(Q[k])) - o
      BY <1>3, <2>3, Shifted, SMTT(30)
    <3> DEFINE x == at[f + k] + Len(Q[k])
    <3>2. x \in Nat
      BY <2>3, SMTT(30)
    <3> HIDE DEF x
    <3> QED
      BY <1>3, <2>3, <2>4, <3>1, <3>2 DEF x
<1>13. ASSUME NEW p \in 1 .. Len(w), w[p] # "space"
       PROVE  \E k \in 1 .. n : a[k] < p /\ p <= a[k] + Len(Q[k])
  <2>1. p \in 1 .. hi - o /\ o + p \in 1 .. Len(stream) /\ o + p <= hi /\ p \in Nat
    BY <1>1, <1>3, <1>6
  <2>2. PICK l \in 1 .. Len(T) : at[l] < o + p /\ o + p <= e[l]
    BY <1>1, <1>6, <1>13, <2>1
  <2>3. f + 1 <= l
    <3> SUFFICES ASSUME l < f + 1 PROVE FALSE
      OBVIOUS
    <3>1. e[l] <= o /\ e[l] \in Nat
      BY <1>1, <1>2 DEF o
    <3> QED
      BY <1>3, <2>1, <2>2, <3>1
  <2>4. l <= h
    <3> SUFFICES ASSUME h < l PROVE FALSE
      OBVIOUS
    <3>1. e[h] <= at[l] /\ at[l] \in Nat
      BY <1>1, <1>2
    <3> QED
      BY <1>3, <2>1, <2>2, <3>1
  <2> DEFINE k == l - f
  <2>5. k \in 1 .. n /\ f + k = l
    BY <1>2, <2>3, <2>4
  <2> HIDE DEF k
  <2>6. /\ a[k] = at[l] - o /\ at[l] \in Nat /\ o <= at[l]
        /\ at[l] + Len(Q[k]) = (IF k < n THEN e[l] ELSE hi) /\ Len(Q[k]) \in Nat
    BY <1>5, <1>8, <1>9, <1>10, <2>5, SMTT(30)
  <2>7. o + p <= at[l] + Len(Q[k])
    BY <2>1, <2>2, <2>6
  <2>8. a[k] < p /\ p <= a[k] + Len(Q[k])
    BY ONLY <1>3, <2>1, <2>2, <2>6, <2>7, SMTT(30)
  <2> QED
    BY <2>5, <2>8
<1>14. a[1] = 0 /\ a[n] + Len(Q[n]) = Len(w)
  <2>1. a[1] = at[f + 1] - o /\ at[f + 1] = o
    BY <1>2, <1>9 DEF o
  <2>2. n \in 1 .. n /\ f + n = h /\ ~(n < n)
    BY <1>2
  <2>3. a[n] = at[h] - o /\ at[h] + part(n) = hi /\ Len(Q[n]) = part(n)
    BY <1>8, <1>9, <2>2
  <2>4. Len(Q[n]) \in Nat
    BY <1>10, <2>2
  <2>5. a[1] = 0
    BY <1>3, <2>1
  <2>6. a[n] + Len(Q[n]) = hi - o
    BY <1>3, <2>3, <2>4, Shifted, SMTT(30)
  <2> QED
    BY <1>6, <2>5, <2>6
<1>15. Row(w, n, Q, a)
  BY <1>2, <1>6, <1>10, <1>11, <1>12, <1>13, <1>14 DEF Row
<1> QED
  BY <1>15 DEF n, o, w, Q, a, Arrived, Offsets

(* Where the text arrived in part begins, the whole ones have ended.       *)
LEMMA BegunIs ==
    ASSUME NEW T, NEW stream, NEW at, NEW e, Spans(T, stream, at, e),
           NEW f, NEW pos \in Nat, Whole(T, at, f, pos)
    PROVE  /\ f \in 0 .. Len(T) /\ Begun(T, at, f, pos) \in 0 .. pos
           /\ \A k \in 1 .. Len(T) : k <= f => e[k] <= Begun(T, at, f, pos)
           /\ \A k \in 1 .. Len(T) : f < k => Begun(T, at, f, pos) <= at[k] /\ pos < e[k]
<1>1. /\ Len(T) \in Nat /\ f \in 0 .. Len(T)
      /\ \A k \in 1 .. Len(T) :
            at[k] \in Nat /\ e[k] \in Nat /\ at[k] < e[k] /\ (k <= f <=> e[k] <= pos)
      /\ \A k, l \in 1 .. Len(T) : k < l => e[k] <= at[l]
  BY DEF Spans, Whole
<1> DEFINE b == Begun(T, at, f, pos)
<1>2. CASE f < Len(T) /\ at[f + 1] < pos
  <2>1. b = at[f + 1]
    BY <1>2 DEF Begun
  <2> HIDE DEF b
  <2>2. f + 1 \in 1 .. Len(T) /\ f \in Nat
    BY <1>1, <1>2
  <2>3. b \in 0 .. pos
    BY <1>1, <1>2, <2>1, <2>2
  <2>4. ASSUME NEW k \in 1 .. Len(T), k <= f PROVE e[k] <= b
    <3>1. k < f + 1
      BY <2>2, <2>4
    <3> QED
      BY <1>1, <2>1, <2>2, <3>1
  <2>5. ASSUME NEW k \in 1 .. Len(T), f < k PROVE b <= at[k] /\ pos < e[k]
    <3>1. pos < e[k]
      <4>1. e[k] \in Nat /\ ~(e[k] <= pos)
        BY <1>1, <2>2, <2>5
      <4> QED
        BY <4>1
    <3>2. CASE k = f + 1
      BY <1>1, <2>1, <2>2, <3>1, <3>2
    <3>3. CASE f + 1 < k
      <4>1. e[f + 1] <= at[k] /\ at[f + 1] < e[f + 1] /\ e[f + 1] \in Nat /\ at[k] \in Nat
        BY <1>1, <2>2, <3>3
      <4> QED
        BY <1>1, <2>1, <2>2, <3>1, <4>1
    <3> QED
      BY <2>2, <2>5, <3>2, <3>3
  <2> QED
    BY <1>1, <2>3, <2>4, <2>5 DEF b
<1>3. CASE ~(f < Len(T) /\ at[f + 1] < pos)
  <2>1. b = pos
    BY <1>3 DEF Begun
  <2> HIDE DEF b
  <2>2. ASSUME NEW k \in 1 .. Len(T), f < k PROVE b <= at[k] /\ pos < e[k]
    <3>0. f + 1 \in 1 .. Len(T) /\ f < Len(T) /\ f \in Nat
      BY <1>1, <2>2
    <3>1. pos < e[k]
      <4>1. e[k] \in Nat /\ ~(e[k] <= pos)
        BY <1>1, <3>0, <2>2
      <4> QED
        BY <4>1
    <3>2. pos <= at[f + 1] /\ at[f + 1] \in Nat
      BY <1>1, <1>3, <3>0
    <3>3. CASE k = f + 1
      BY <2>1, <3>1, <3>2, <3>3
    <3>4. CASE f + 1 < k
      <4>1. e[f + 1] <= at[k] /\ at[f + 1] < e[f + 1] /\ e[f + 1] \in Nat /\ at[k] \in Nat
        BY <1>1, <3>0, <3>4
      <4> QED
        BY <2>1, <3>1, <3>2, <4>1
    <3> QED
      BY <2>2, <3>0, <3>3, <3>4
  <2>3. b \in 0 .. pos
    BY <2>1
  <2> QED
    BY <1>1, <2>1, <2>2, <2>3 DEF b
<1> QED
  BY <1>2, <1>3

(* What stands in a part of the stream.                                    *)
LEMMA PartOf ==
    ASSUME NEW stream \in Seq(Kinds), NEW b \in Nat, NEW c \in Nat, b <= c, c <= Len(stream)
    PROVE  /\ SubSeq(stream, b + 1, c) \in Seq(Kinds)
           /\ Len(SubSeq(stream, b + 1, c)) = c - b /\ c - b \in Nat
           /\ \A i \in 1 .. c - b : SubSeq(stream, b + 1, c)[i] = stream[b + i]
<1> DEFINE u == SubSeq(stream, b + 1, c)
<1>1. b + 1 \in Int /\ c \in Int /\ \A i \in b + 1 .. c : stream[i] \in Kinds
  <2>1. Len(stream) \in Nat
    OBVIOUS
  <2>2. \A i \in b + 1 .. c : i \in 1 .. Len(stream)
    BY <2>1
  <2> QED
    BY <2>2
<1>2. /\ u \in Seq(Kinds) /\ Len(u) = (IF b + 1 <= c THEN c - (b + 1) + 1 ELSE 0)
      /\ \A i \in 1 .. c - (b + 1) + 1 : u[i] = stream[b + 1 + i - 1]
  BY <1>1, SubSeqProperties
<1> HIDE DEF u
<1>3. Len(u) = c - b /\ c - (b + 1) + 1 = c - b /\ c - b \in Nat
  BY <1>2
<1>4. \A i \in 1 .. c - b : b + 1 + i - 1 = b + i
  OBVIOUS
<1>5. /\ u \in Seq(Kinds) /\ Len(u) = c - b /\ c - b \in Nat
      /\ \A i \in 1 .. c - b : u[i] = stream[b + i]
  BY <1>2, <1>3, <1>4
<1> QED
  BY <1>5 DEF u

(* A part of a part.                                                       *)
LEMMA PartOfPart ==
    ASSUME NEW stream \in Seq(Kinds), NEW b \in Nat, NEW c \in Nat, c <= Len(stream),
           NEW o \in Nat, NEW hi \in Nat, b <= o, o < hi, hi <= c
    PROVE  SubSeq(SubSeq(stream, b + 1, c), o - b + 1, hi - b) = SubSeq(stream, o + 1, hi)
<1> DEFINE u == SubSeq(stream, b + 1, c)
           v == SubSeq(stream, o + 1, hi)
           ob == o - b
           hb == hi - b
           w == SubSeq(u, ob + 1, hb)
<1>1. ob \in Nat /\ hb \in Nat /\ ob <= hb /\ hb <= c - b /\ hb - ob = hi - o /\ b <= c
  OBVIOUS
<1>2. \A i \in 1 .. hi - o : ob + i \in 1 .. c - b /\ b + (ob + i) = o + i
  OBVIOUS
<1>3. Len(stream) \in Nat /\ hi <= Len(stream) /\ o <= hi
  OBVIOUS
<1>4. u \in Seq(Kinds) /\ Len(u) = c - b /\ \A i \in 1 .. c - b : u[i] = stream[b + i]
  BY <1>1, PartOf
<1>5. v \in Seq(Kinds) /\ Len(v) = hi - o /\ \A i \in 1 .. hi - o : v[i] = stream[o + i]
  BY <1>3, PartOf
<1> HIDE DEF u, v, ob, hb
<1>6. w \in Seq(Kinds) /\ Len(w) = hb - ob /\ \A i \in 1 .. hb - ob : w[i] = u[ob + i]
  BY <1>1, <1>4, PartOf
<1> HIDE DEF w
<1>7. Len(w) = Len(v) /\ \A i \in 1 .. Len(w) : w[i] = v[i]
  <2>1. Len(w) = Len(v) /\ Len(w) = hi - o
    BY <1>1, <1>5, <1>6
  <2>2. ASSUME NEW i \in 1 .. hi - o PROVE w[i] = v[i]
    <3>1. w[i] = u[ob + i]
      BY <1>1, <1>6
    <3>2. u[ob + i] = stream[b + (ob + i)]
      BY <1>2, <1>4
    <3>3. stream[b + (ob + i)] = stream[o + i]
      BY <1>2
    <3>4. v[i] = stream[o + i]
      BY <1>5
    <3> QED
      BY <3>1, <3>2, <3>3, <3>4
  <2> QED
    BY <2>1, <2>2
<1>8. w = v
  BY <1>5, <1>6, <1>7, SeqEqual
<1> QED
  BY <1>8 DEF u, v, ob, hb, w

(* Behind the whole texts and before the next nothing stands but spaces.   *)
LEMMA OnlySpaces ==
    ASSUME NEW T, NEW stream \in Seq(Kinds), NEW at, NEW e, Spans(T, stream, at, e),
           NEW f, NEW pos \in Nat, Whole(T, at, f, pos),
           NEW pos2 \in Nat, pos < pos2, pos2 <= Len(stream),
           Whole(T, at, f, pos2), Begun(T, at, f, pos2) = pos2
    PROVE  Trim(SubSeq(stream, Begun(T, at, f, pos) + 1, pos2)) = <<>>
<1> DEFINE b == Begun(T, at, f, pos)
           u == SubSeq(stream, b + 1, pos2)
<1>1. /\ b \in 0 .. pos
      /\ \A k \in 1 .. Len(T) : k <= f => e[k] <= b
      /\ \A k \in 1 .. Len(T) : f < k => pos2 <= at[k]
  BY BegunIs
<1>2. /\ Len(T) \in Nat /\ \A k \in 1 .. Len(T) : at[k] \in Nat /\ e[k] \in Nat
      /\ \A p \in 1 .. Len(stream) :
            \/ stream[p] = "space"
            \/ \E k \in 1 .. Len(T) : at[k] < p /\ p <= e[k]
      /\ f \in 0 .. Len(T) /\ Len(stream) \in Nat
  BY DEF Spans, Whole
<1> HIDE DEF b
<1>3. Len(u) = pos2 - b /\ \A i \in 1 .. pos2 - b : u[i] = stream[b + i]
  <2>1. b \in Nat /\ b <= pos2
    BY <1>1
  <2> QED
    BY <2>1, PartOf
<1>4. ASSUME NEW i \in 1 .. Len(u) PROVE u[i] = "space"
  <2>1. /\ b + i \in 1 .. Len(stream) /\ b < b + i /\ b + i <= pos2 /\ b \in Nat
        /\ i \in 1 .. pos2 - b
    BY <1>1, <1>2, <1>3
  <2> SUFFICES ASSUME stream[b + i] # "space" PROVE FALSE
    BY <1>3, <2>1
  <2>2. PICK k \in 1 .. Len(T) : at[k] < b + i /\ b + i <= e[k]
    BY <1>2, <2>1
  <2>3. at[k] \in Nat /\ e[k] \in Nat /\ (k <= f \/ f < k)
    BY <1>2
  <2> QED
    BY <1>1, <2>1, <2>2, <2>3
<1> HIDE DEF u
<1> QED
  BY <1>4, TrimNothing DEF u, b

(* Else, without the spaces, it goes from the start of the first text that *)
(* was not whole to the end hi of what has arrived of the last one, h.     *)
LEMMA TrimmedIs ==
    ASSUME PlainTexts,
           NEW T, NEW stream \in Seq(Kinds), NEW at, NEW e, Spans(T, stream, at, e),
           NEW f, NEW pos \in Nat, Whole(T, at, f, pos),
           NEW pos2 \in Nat, pos < pos2, pos2 <= Len(stream),
           NEW h \in f + 1 .. Len(T), NEW hi \in Nat, at[h] < hi, hi <= e[h], hi <= pos2,
           \A k \in 1 .. Len(T) : h < k => pos2 <= at[k],
           hi = e[h] \/ hi = pos2
    PROVE  Trim(SubSeq(stream, Begun(T, at, f, pos) + 1, pos2)) =
               SubSeq(stream, at[f + 1] + 1, hi)
<1> DEFINE b == Begun(T, at, f, pos)
           u == SubSeq(stream, b + 1, pos2)
           o == at[f + 1]
<1>1. /\ b \in 0 .. pos
      /\ \A k \in 1 .. Len(T) : k <= f => e[k] <= b
      /\ \A k \in 1 .. Len(T) : f < k => b <= at[k]
  BY BegunIs
<1>2. /\ Len(T) \in Nat /\ Len(stream) \in Nat /\ f \in 0 .. Len(T)
      /\ \A k \in 1 .. Len(T) :
            /\ at[k] \in Nat /\ e[k] \in Nat /\ at[k] < e[k] /\ e[k] <= Len(stream)
            /\ \A p \in at[k] + 1 .. e[k] : stream[p] # "space"
      /\ \A k, l \in 1 .. Len(T) : k < l => e[k] <= at[l]
      /\ \A p \in 1 .. Len(stream) :
            \/ stream[p] = "space"
            \/ \E k \in 1 .. Len(T) : at[k] < p /\ p <= e[k]
  BY DEF Spans, Whole
<1>3. f \in Nat /\ f + 1 \in 1 .. Len(T) /\ h \in 1 .. Len(T) /\ f < f + 1 /\ f + 1 <= h
  BY <1>2
<1>4. /\ b \in Nat /\ b <= pos /\ b <= o /\ o \in Nat /\ at[h] \in Nat /\ e[h] \in Nat
      /\ e[f + 1] \in Nat /\ o < e[f + 1]
  BY <1>1, <1>2, <1>3
<1>5. o <= at[h]
  <2>1. CASE h = f + 1
    BY <1>4, <2>1
  <2>2. CASE f + 1 < h
    <3>1. e[f + 1] <= at[h]
      BY <1>2, <1>3, <2>2
    <3> QED
      BY <1>4, <3>1
  <2> QED
    BY <1>3, <2>1, <2>2
<1> HIDE DEF b, o
<1>6. u \in Seq(Kinds) /\ Len(u) = pos2 - b /\ \A i \in 1 .. pos2 - b : u[i] = stream[b + i]
  <2>1. b <= pos2
    BY <1>4
  <2> QED
    BY <1>4, <2>1, PartOf
<1> HIDE DEF u
<1> DEFINE lo == o - b + 1
           up == hi - b
<1>7. lo \in 1 .. Len(u) /\ up \in 1 .. Len(u) /\ b + lo = o + 1 /\ b + up = hi
  <2>1. o < hi
    BY <1>4, <1>5
  <2> QED
    BY <1>4, <1>6, <2>1
<1>8. u[lo] # "space" /\ u[up] # "space"
  <2>1. o + 1 \in at[f + 1] + 1 .. e[f + 1] /\ hi \in at[h] + 1 .. e[h]
    BY <1>4, SMTT(30) DEF o
  <2>2. stream[o + 1] # "space" /\ stream[hi] # "space"
    BY <1>2, <1>3, <2>1
  <2> HIDE DEF lo, up
  <2> QED
    BY <1>6, <1>7, <2>2
<1>9. ASSUME NEW i \in 1 .. Len(u), u[i] # "space" PROVE lo <= i /\ i <= up
  <2> DEFINE p == b + i
  <2>1. /\ p \in 1 .. Len(stream) /\ b < p /\ p <= pos2 /\ i \in 1 .. pos2 - b
        /\ i \in Nat /\ p \in Nat
    BY <1>2, <1>4, <1>6
  <2>2. stream[p] # "space"
    BY <1>6, <1>9, <2>1
  <2>3. p = b + i
    OBVIOUS
  <2> HIDE DEF p
  <2>4. PICK k \in 1 .. Len(T) : at[k] < p /\ p <= e[k]
    BY <1>2, <2>1, <2>2
  <2>5. at[k] \in Nat /\ e[k] \in Nat
    BY <1>2
  <2>6. f < k
    <3>1. ~(k <= f)
      BY <1>1, <1>4, <2>1, <2>4, <2>5
    <3> QED
      BY <1>3, <3>1
  <2>7. o < p
    <3>1. CASE k = f + 1
      BY <2>4, <3>1 DEF o
    <3>2. CASE f + 1 < k
      <4>1. e[f + 1] <= at[k]
        BY <1>2, <1>3, <3>2
      <4> QED
        BY <1>4, <2>1, <2>4, <2>5, <4>1
    <3> QED
      BY <1>3, <2>6, <3>1, <3>2
  <2>8. p <= hi
    <3>1. CASE hi = pos2
      BY <2>1, <3>1
    <3>2. CASE hi = e[h]
      <4>1. ~(h < k)
        BY <2>1, <2>4, <2>5
      <4>2. CASE k = h
        BY <2>4, <3>2, <4>2
      <4>3. CASE k < h
        <5>1. e[k] <= at[h]
          BY <1>2, <1>3, <4>3
        <5> QED
          BY <1>4, <2>1, <2>4, <2>5, <5>1
      <4> QED
        BY <1>3, <4>1, <4>2, <4>3
    <3> QED
      BY <3>1, <3>2
  <2> QED
    BY <1>4, <2>1, <2>3, <2>7, <2>8
<1>10. Trim(u) = SubSeq(u, lo, up)
  <2> HIDE DEF lo, up
  <2> QED
    BY <1>6, <1>7, <1>8, <1>9, TrimIs
<1>11. SubSeq(u, lo, up) = SubSeq(stream, o + 1, hi)
  <2>1. o < hi
    BY <1>4, <1>5
  <2> QED
    BY <1>4, <2>1, PartOfPart DEF u
<1> QED
  BY <1>10, <1>11 DEF u, b, o

(* The texts f + 1 to g.                                                   *)
Following(T, f, g) == [k \in 1 .. g - f |-> T[f + k]]

(* Of that text the whole ones of T are decoded and the last is kept as    *)
(* far as it has arrived.                                                  *)
LEMMA PiecesDecode ==
    ASSUME PlainTexts, NEW T, NEW stream \in Seq(Kinds), NEW at, Laid(T, stream, at),
           NEW e, Spans(T, stream, at, e),
           NEW f \in Nat, NEW g \in f .. Len(T), NEW h \in f + 1 .. Len(T),
           NEW hi \in Nat, at[h] < hi, hi <= e[h],
           \/ h = g /\ hi = e[h]
           \/ h = g + 1 /\ hi < e[h]
    PROVE  /\ Decoded(Pieces(SubSeq(stream, at[f + 1] + 1, hi))) = Following(T, f, g)
           /\ Rest(Pieces(SubSeq(stream, at[f + 1] + 1, hi))) =
                  IF h = g THEN <<>> ELSE SubSeq(stream, at[h] + 1, hi)
<1> DEFINE n == h - f
           m == g - f
           part == hi - at[h]
           Q == Arrived(T, f, h, part)
           s == SubSeq(stream, at[f + 1] + 1, hi)
<1>1. /\ Len(T) \in Nat /\ Len(stream) \in Nat
      /\ \A k \in 1 .. Len(T) :
            /\ at[k] \in Nat /\ e[k] \in Nat /\ e[k] = at[k] + Len(T[k]) /\ at[k] < e[k]
            /\ e[k] <= Len(stream) /\ T[k] \in Texts
            /\ \A p \in at[k] + 1 .. e[k] : stream[p] = T[k][p - at[k]]
  BY DEF Spans
<1>2. /\ h \in 1 .. Len(T) /\ n \in Nat \ {0} /\ m \in Nat /\ f + n = h /\ m <= n
      /\ (h = g => n = m) /\ (h = g + 1 => n = m + 1) /\ g \in Nat
      /\ \A k \in 1 .. n : f + k \in 1 .. Len(T)
  BY <1>1
<1>3. /\ at[h] \in Nat /\ e[h] \in Nat /\ e[h] = at[h] + Len(T[h])
      /\ e[h] <= Len(stream) /\ T[h] \in Texts
  BY <1>1, <1>2
<1>4. \A k \in 1 .. Len(T) : T[k] \in Seq(Kinds) /\ Len(T[k]) \in Nat /\ Decodes(T[k])
  BY <1>1, PlainText DEF PlainTexts
<1>5. part \in 1 .. Len(T[h]) /\ (hi = e[h] => part = Len(T[h]))
      /\ (hi < e[h] => part \in 1 .. Len(T[h]) - 1)
  <2>1. Len(T[h]) \in Nat
    BY <1>2, <1>4
  <2> QED
    BY <1>3, <2>1, SMTT(30)
<1>6. Pieces(s) = Q
  <2> DEFINE a == Offsets(at, f, h)
  <2>1. hi <= at[h] + Len(T[h]) /\ f \in Nat /\ h \in f + 1 .. Len(T) /\ hi \in Nat
    BY <1>3
  <2>2. Row(s, n, Q, a)
    <3>1. at[h] < hi /\ PlainTexts /\ Laid(T, stream, at)
      OBVIOUS
    <3> QED
      BY ONLY <2>1, <3>1, TextsInRow
  <2> HIDE DEF s, n, Q, a
  <2> QED
    BY <2>2, PiecesOfRow
<1>0. Q = [k \in 1 .. n |-> IF k < n THEN T[f + k] ELSE SubSeq(T[h], 1, part)]
  BY DEF Arrived
<1> HIDE DEF n, m, part, Q
<1>7. n \in 1 .. n /\ \A k \in 1 .. n : k < n \/ k = n
  BY <1>2
<1>8. Q[n] = SubSeq(T[h], 1, part)
  <2>1. n \in 1 .. n /\ ~(n < n)
    BY <1>2
  <2> QED
    BY <1>0, <2>1
<1>9. \A k \in 1 .. n : k < n => Q[k] = T[f + k]
  BY <1>0
<1>10. /\ Q[n] \in Seq(Kinds) /\ Len(Q[n]) = part
       /\ \A i \in 1 .. part : Q[n][i] = T[h][i]
  <2> DEFINE t == T[h]
  <2>1. t \in Seq(Kinds) /\ Len(t) \in Nat /\ 0 <= part /\ part <= Len(t) /\ part \in Nat
    BY <1>2, <1>4, <1>5
  <2> HIDE DEF t
  <2>2. /\ SubSeq(t, 0 + 1, part) \in Seq(Kinds) /\ Len(SubSeq(t, 0 + 1, part)) = part - 0
        /\ \A i \in 1 .. part - 0 : SubSeq(t, 0 + 1, part)[i] = t[0 + i]
    BY <2>1, PartOf
  <2> DEFINE u == SubSeq(t, 1, part)
  <2>3. u \in Seq(Kinds) /\ Len(u) = part - 0 /\ \A i \in 1 .. part - 0 : u[i] = t[0 + i]
    BY <2>2
  <2> HIDE DEF u
  <2>4. u \in Seq(Kinds) /\ Len(u) = part /\ \A i \in 1 .. part : u[i] = t[i]
    BY <2>1, <2>3
  <2> QED
    BY <1>8, <2>4 DEF u, t
<1>11. Q \in [1 .. n -> Seq(Kinds)]
  <2>1. ASSUME NEW k \in 1 .. n PROVE Q[k] \in Seq(Kinds)
    BY <1>2, <1>4, <1>7, <1>9, <1>10
  <2> QED
    BY <1>0, <2>1
<1> HIDE DEF s
<1>12. CASE h = g /\ hi = e[h]
  <2>1. Q[n] = T[h]
    <3>1. T[h] \in Seq(Kinds) /\ part = Len(T[h])
      BY <1>2, <1>4, <1>5, <1>12
    <3> QED
      BY <1>8, <3>1, SubSeqFull
  <2>2. ASSUME NEW k \in 1 .. n PROVE Q[k] = T[f + k]
    <3>1. CASE k = n
      BY <1>2, <2>1, <3>1
    <3> QED
      BY <1>7, <1>9, <3>1
  <2>3. ASSUME NEW k \in 1 .. n PROVE Decodes(Q[k])
    <3>1. f + k \in 1 .. Len(T)
      BY <1>2
    <3>2. Decodes(T[f + k])
      BY <1>4, <3>1
    <3> QED
      BY <2>2, <3>2
  <2>4. n = m /\ n \in Nat /\ \A k \in 1 .. n : k <= m
    BY <1>2, <1>12
  <2>5. Decoded(Q) = FirstOf(Q, m)
    BY <1>2, <1>11, <2>3, <2>4, DecodedAre
  <2>6. Rest(Q) = <<>>
    BY <1>11, <2>3, <2>4, RestIsEmpty
  <2>7. Decoded(Q) = Following(T, f, g)
    BY <2>2, <2>4, <2>5 DEF FirstOf, Following, m
  <2> QED
    BY <1>6, <1>12, <2>6, <2>7 DEF s
<1>13. CASE h = g + 1 /\ hi < e[h]
  <2>1. part \in 1 .. Len(T[h]) - 1 /\ n = m + 1 /\ h # g
    BY <1>2, <1>5, <1>13
  <2>2. ~Decodes(Q[n])
    BY <1>2, <1>4, <1>8, <2>1, FrontUndecoded
  <2>3. \A k \in 1 .. n : Decodes(Q[k]) <=> k <= m
    <3>1. \A k \in 1 .. n : k < n => Decodes(Q[k])
      BY <1>2, <1>4, <1>9
    <3>2. \A k \in 1 .. n : k < n <=> k <= m
      BY <1>2, <2>1
    <3> QED
      BY <1>7, <2>2, <3>1, <3>2
  <2>4. \A k \in 1 .. n : ~Decodes(Q[k]) <=> k = n
    BY <1>2, <2>1, <2>3
  <2>5. Decoded(Q) = FirstOf(Q, m)
    BY <1>2, <1>11, <2>3, DecodedAre
  <2>6. ASSUME NEW k \in 1 .. m PROVE Q[k] = T[f + k]
    <3>1. k \in 1 .. n /\ k < n
      BY <1>2, <2>1
    <3> QED
      BY <1>9, <3>1
  <2>7. Decoded(Q) = Following(T, f, g)
    BY <2>5, <2>6 DEF FirstOf, Following, m
  <2>8. Rest(Q) = Q[n]
    <3>1. T[h][1] = "open" /\ T[h][2] # "open"
      BY <1>3, PlainText
    <3>2. part \in Nat /\ part >= 1
      BY <1>5
    <3>3. /\ Len(Q[n]) >= 1 /\ Q[n][1] = "open"
          /\ Len(Q[n]) >= 2 => Q[n][2] # "open"
      BY <1>10, <3>1, <3>2
    <3> QED
      BY <1>2, <1>11, <2>4, <3>3, RestIsLast
  <2>9. Q[n] = SubSeq(stream, at[h] + 1, hi)
    <3> DEFINE v == SubSeq(stream, at[h] + 1, hi)
               x == at[h]
    <3>1. x \in Nat /\ x <= hi /\ hi <= Len(stream) /\ part = hi - x
      BY <1>1, <1>3 DEF part
    <3>2. v \in Seq(Kinds) /\ Len(v) = hi - x /\ \A i \in 1 .. hi - x : v[i] = stream[x + i]
      BY <3>1, PartOf
    <3> HIDE DEF v
    <3>3. ASSUME NEW i \in 1 .. part PROVE stream[x + i] = T[h][i]
      <4>1. x + i \in x + 1 .. e[h] /\ (x + i) - x = i
        BY <1>3, <3>1, SMTT(30)
      <4> QED
        BY <1>1, <1>2, <4>1, ZenonT(30)
    <3> HIDE DEF x
    <3>4. Len(v) = part /\ \A i \in 1 .. part : v[i] = Q[n][i]
      BY <1>10, <3>1, <3>2, <3>3
    <3>5. Q[n] = v
      BY <1>10, <3>2, <3>4, SeqEqual
    <3> QED
      BY <3>5 DEF v
  <2> QED
    BY <1>6, <2>1, <2>7, <2>8, <2>9 DEF s
<1> QED
  BY <1>12, <1>13

(* What a data event does of the stream laid out: msg is the text it makes *)
(* of what was kept and what has come, from position b to position pos2.   *)
LEMMA DataDecodes ==
    ASSUME PlainTexts, NEW T, NEW stream \in Seq(Kinds), NEW at, Laid(T, stream, at),
           NEW f, NEW pos \in Nat, Whole(T, at, f, pos),
           NEW pos2 \in Nat, pos < pos2, pos2 <= Len(stream),
           NEW g \in f .. Len(T), Whole(T, at, g, pos2),
           NEW msg, msg = Trim(SubSeq(stream, Begun(T, at, f, pos) + 1, pos2))
    PROVE  IF msg = <<>>
           THEN g = f /\ Begun(T, at, g, pos2) = pos2
           ELSE /\ Rest(Pieces(msg)) = SubSeq(stream, Begun(T, at, g, pos2) + 1, pos2)
                /\ Decoded(Pieces(msg)) = Following(T, f, g)
<1>1. PICK e : Spans(T, stream, at, e)
  BY LaidSpans
<1>2. /\ Len(T) \in Nat /\ Len(stream) \in Nat /\ f \in Nat /\ g \in Nat /\ f <= g
      /\ \A k \in 1 .. Len(T) :
            at[k] \in Nat /\ e[k] \in Nat /\ at[k] < e[k] /\ (k <= g <=> e[k] <= pos2)
      /\ \A k, l \in 1 .. Len(T) : k < l => e[k] <= at[l]
      /\ \A k \in 1 .. Len(T) : at[k] + Len(T[k]) = e[k]
  <2>1. f \in 0 .. Len(T)
    BY DEF Whole
  <2>2. /\ Len(T) \in Nat /\ Len(stream) \in Nat
        /\ \A k \in 1 .. Len(T) :
              at[k] \in Nat /\ e[k] \in Nat /\ at[k] < e[k] /\ at[k] + Len(T[k]) = e[k]
        /\ \A k, l \in 1 .. Len(T) : k < l => e[k] <= at[l]
    BY <1>1 DEF Spans
  <2>3. \A k \in 1 .. Len(T) : k <= g <=> at[k] + Len(T[k]) <= pos2
    BY DEF Whole
  <2>4. \A k \in 1 .. Len(T) : k <= g <=> e[k] <= pos2
    BY <2>2, <2>3
  <2>5. f \in Nat /\ g \in Nat /\ f <= g
    BY <2>1, <2>2
  <2> QED
    BY <2>2, <2>4, <2>5
<1> DEFINE b2 == Begun(T, at, g, pos2)
<1>3. CASE g < Len(T) /\ at[g + 1] < pos2
  <2> DEFINE h == g + 1
  <2>1. h \in f + 1 .. Len(T) /\ h \in 1 .. Len(T) /\ ~(h <= g)
    BY <1>2, <1>3
  <2>2. b2 = at[h]
    BY <1>3 DEF Begun
  <2>3. at[h] < pos2 /\ pos2 < e[h]
    BY <1>2, <1>3, <2>1
  <2>4. \A k \in 1 .. Len(T) : h < k => pos2 <= at[k]
    <3> SUFFICES ASSUME NEW k \in 1 .. Len(T), h < k PROVE pos2 <= at[k]
      OBVIOUS
    <3>1. e[h] <= at[k] /\ e[h] \in Nat /\ at[k] \in Nat
      BY <1>2, <2>1
    <3> QED
      BY <2>3, <3>1
  <2>5. h = g + 1 /\ h # g
    BY <1>2
  <2> HIDE DEF h, b2
  <2>6. msg = SubSeq(stream, at[f + 1] + 1, pos2)
    <3>1. pos2 <= e[h] /\ pos2 <= pos2
      BY <1>2, <2>1, <2>3
    <3> QED
      BY <1>1, <2>1, <2>3, <2>4, <3>1, TrimmedIs
  <2>7. msg # <<>>
    <3> DEFINE o == at[f + 1]
    <3>1. o \in Nat /\ o < pos2
      <4>1. f + 1 \in 1 .. Len(T) /\ f + 1 <= h
        BY <1>2, <2>1
      <4>2. o \in Nat /\ e[f + 1] \in Nat /\ o < e[f + 1]
        BY <1>2, <4>1
      <4>3. CASE f + 1 = h
        BY <1>2, <2>1, <2>3, <4>3
      <4>4. CASE f + 1 < h
        <5>1. e[f + 1] <= at[h] /\ at[h] \in Nat
          BY <1>2, <2>1, <4>1, <4>4
        <5> HIDE DEF o
        <5> QED
          BY <2>3, <4>2, <5>1
      <4> QED
        BY <1>2, <2>1, <4>1, <4>3, <4>4
    <3> HIDE DEF o
    <3>2. o <= pos2
      BY <3>1
    <3>3. Len(SubSeq(stream, o + 1, pos2)) = pos2 - o
      BY <3>1, <3>2, PartOf
    <3>4. pos2 - o # 0
      BY <3>1
    <3>5. Len(msg) # 0
      BY <2>6, <3>3, <3>4 DEF o
    <3> QED
      BY <3>5
  <2>8. /\ Decoded(Pieces(msg)) = Following(T, f, g)
        /\ Rest(Pieces(msg)) = SubSeq(stream, at[h] + 1, pos2)
    <3>1. pos2 <= e[h] /\ f \in Nat /\ ((h = g /\ pos2 = e[h]) \/ (h = g + 1 /\ pos2 < e[h]))
      BY <1>2, <2>1, <2>3, <2>5
    <3> DEFINE s == SubSeq(stream, at[f + 1] + 1, pos2)
    <3>2. /\ Decoded(Pieces(s)) = Following(T, f, g)
          /\ Rest(Pieces(s)) = IF h = g THEN <<>> ELSE SubSeq(stream, at[h] + 1, pos2)
      BY <1>1, <2>1, <2>3, <3>1, PiecesDecode
    <3> HIDE DEF s
    <3>3. msg = s
      BY <2>6 DEF s
    <3> QED
      BY <2>5, <3>2, <3>3
  <2> QED
    BY <2>2, <2>7, <2>8 DEF b2
<1>4. CASE ~(g < Len(T) /\ at[g + 1] < pos2)
  <2>1. b2 = pos2
    BY <1>4 DEF Begun
  <2>2. CASE g = f
    <3>1. msg = <<>>
      BY <1>1, <2>1, <2>2, OnlySpaces
    <3> QED
      BY <2>1, <2>2, <3>1
  <2>3. CASE g # f
    <3>1. g \in f + 1 .. Len(T) /\ g \in 1 .. Len(T) /\ f + 1 \in 1 .. Len(T) /\ f + 1 <= g
      BY <1>2, <2>3
    <3>2. at[g] < e[g] /\ e[g] <= pos2 /\ e[g] \in Nat /\ at[g] \in Nat
      BY <1>2, <3>1
    <3>3. \A k \in 1 .. Len(T) : g < k => pos2 <= at[k]
      BY <1>1, <2>1, BegunIs DEF b2
    <3> HIDE DEF b2
    <3>4. msg = SubSeq(stream, at[f + 1] + 1, e[g])
      <4>1. e[g] <= e[g]
        BY <3>2
      <4> QED
        BY <1>1, <3>1, <3>2, <3>3, <4>1, TrimmedIs, SMTT(30)
    <3>5. msg # <<>>
      <4> DEFINE o == at[f + 1]
                 c == e[g]
      <4>1. o \in Nat /\ o < c
        <5>1. o \in Nat /\ e[f + 1] \in Nat /\ o < e[f + 1]
          BY <1>2, <3>1
        <5>2. CASE f + 1 = g
          BY <3>2, <5>1, <5>2
        <5>3. CASE f + 1 < g
          <6>1. e[f + 1] <= at[g]
            BY <1>2, <3>1, <5>3
          <6> HIDE DEF o, c
          <6> QED
            BY <3>2, <5>1, <6>1 DEF c
        <5> QED
          BY <1>2, <3>1, <5>2, <5>3
      <4>2. c \in Nat /\ c <= Len(stream)
        BY <1>2, <3>2
      <4> HIDE DEF o, c
      <4>3. o <= c
        BY <4>1, <4>2
      <4>4. Len(SubSeq(stream, o + 1, c)) = c - o
        BY <4>1, <4>2, <4>3, PartOf
      <4>5. c - o # 0
        BY <4>1, <4>2
      <4>6. Len(msg) # 0
        BY <3>4, <4>4, <4>5 DEF o, c
      <4> QED
        BY <4>6
    <3>6. /\ Decoded(Pieces(msg)) = Following(T, f, g)
          /\ Rest(Pieces(msg)) = <<>>
      <4> DEFINE c == e[g]
                 s == SubSeq(stream, at[f + 1] + 1, c)
      <4>1. /\ c <= e[g] /\ f \in Nat /\ c \in Nat /\ at[g] < c
            /\ (g = g /\ c = e[g]) \/ (g = g + 1 /\ c < e[g])
        BY <1>2, <3>2
      <4>2. msg = s
        BY <3>4
      <4> HIDE DEF c
      <4>3. /\ Decoded(Pieces(s)) = Following(T, f, g)
            /\ Rest(Pieces(s)) = IF g = g THEN <<>> ELSE SubSeq(stream, at[g] + 1, c)
        BY <1>1, <3>1, <4>1, PiecesDecode
      <4> HIDE DEF s
      <4> QED
        BY <4>2, <4>3
    <3>7. SubSeq(stream, b2 + 1, pos2) = <<>>
      <4> DEFINE v == SubSeq(stream, pos2 + 1, pos2)
      <4>1. pos2 <= pos2
        OBVIOUS
      <4>2. v \in Seq(Kinds) /\ Len(v) = pos2 - pos2
        BY <4>1, PartOf
      <4> HIDE DEF v
      <4>3. v = <<>>
        BY <4>2, EmptySeq
      <4> QED
        BY <2>1, <4>3 DEF v
    <3> QED
      BY <3>5, <3>6, <3>7 DEF b2
  <2> QED
    BY <2>2, <2>3
<1> QED
  BY <1>3, <1>4

-----------------------------------------------------------------------------
(* Types.  They hold whatever the texts are: only here the lists Ascending *)
(* makes have to exist.                                                    *)
LEMMA PositionsFinite ==
    ASSUME NEW n \in Nat, NEW S \in SUBSET (1 .. n)
    PROVE  IsFiniteSet(S) /\ Cardinality(S) \in Nat
<1>1. IsFiniteSet(1 .. n)
  BY FS_Interval
<1>2. IsFiniteSet(S)
  BY <1>1, FS_Subset
<1> QED
  BY <1>2, FS_CardinalityType

(* Every set of positions has an ascending list.                           *)
LEMMA AscendingExists ==
    ASSUME NEW n \in Nat
    PROVE  \A S \in SUBSET (1 .. n) :
               \E f \in [1 .. Cardinality(S) -> S] :
                   \A i, j \in 1 .. Cardinality(S) : i < j => f[i] < f[j]
<1> DEFINE Listed(S) == \E f \in [1 .. Cardinality(S) -> S] :
                            \A i, j \in 1 .. Cardinality(S) : i < j => f[i] < f[j]
           Bad == {m \in Nat : \E S \in SUBSET (1 .. m) : ~Listed(S)}
<1>1. ASSUME Bad # {} PROVE FALSE
  <2>1. Bad \subseteq Nat
    OBVIOUS
  <2> HIDE DEF Bad
  <2>2. PICK m \in Bad : \A k \in Bad : m <= k
    BY <1>1, <2>1, LeastNatural
  <2>3. m \in Nat
    BY <2>1
  <2>4. PICK S \in SUBSET (1 .. m) : ~Listed(S)
    BY <2>2 DEF Bad
  <2>5. CASE m = 0
    <3>1. S = {}
      BY <2>4, <2>5
    <3>2. Cardinality(S) = 0
      BY <3>1, FS_EmptySet
    <3>3. [i \in 1 .. 0 |-> 0] \in [1 .. 0 -> S] /\ 1 .. 0 = {}
      OBVIOUS
    <3>4. Listed(S)
      BY <3>2, <3>3
    <3> QED
      BY <2>4, <3>4
  <2>6. CASE m # 0
    <3> DEFINE R == S \ {m}
               c == Cardinality(R)
    <3>1. m - 1 \in Nat /\ m - 1 \notin Bad /\ R \in SUBSET (1 .. m - 1)
      BY <2>2, <2>3, <2>4, <2>6
    <3>2. Listed(R)
      BY <3>1 DEF Bad
    <3>3. IsFiniteSet(S) /\ c \in Nat
      BY <2>3, <2>4, <3>1, PositionsFinite
    <3>4. PICK f \in [1 .. c -> R] : \A i, j \in 1 .. c : i < j => f[i] < f[j]
      BY <3>2
    <3>5. CASE m \notin S
      BY <2>4, <3>2, <3>5
    <3>6. CASE m \in S
      <4>1. Cardinality(S) = c + 1
        <5>1. c = Cardinality(S) - 1 /\ Cardinality(S) \in Nat
          BY <3>3, <3>6, FS_RemoveElement, FS_CardinalityType
        <5> QED
          BY <5>1
      <4> HIDE DEF c
      <4> DEFINE g == [i \in 1 .. c + 1 |-> IF i <= c THEN f[i] ELSE m]
      <4>2. \A i \in 1 .. c : f[i] \in R /\ f[i] \in S /\ f[i] \in Nat /\ f[i] < m
        <5> SUFFICES ASSUME NEW i \in 1 .. c
                     PROVE  f[i] \in R /\ f[i] \in S /\ f[i] \in Nat /\ f[i] < m
          OBVIOUS
        <5>1. f[i] \in R
          OBVIOUS
        <5>2. f[i] \in S /\ f[i] \in 1 .. m - 1
          BY <3>1, <5>1
        <5> QED
          BY <2>3, <5>1, <5>2
      <4>3. g \in [1 .. c + 1 -> S]
        BY <3>3, <3>6, <4>2
      <4>4. ASSUME NEW i \in 1 .. c + 1, NEW j \in 1 .. c + 1, i < j PROVE g[i] < g[j]
        <5>1. i \in 1 .. c /\ g[i] = f[i]
          BY <3>3, <4>4
        <5>2. CASE j <= c
          BY <3>3, <3>4, <4>4, <5>1, <5>2
        <5>3. CASE ~(j <= c)
          BY <4>2, <5>1, <5>3
        <5> QED
          BY <5>2, <5>3
      <4> HIDE DEF g
      <4>5. Listed(S)
        BY <4>1, <4>3, <4>4
      <4> QED
        BY <2>4, <4>5
    <3> QED
      BY <3>5, <3>6
  <2> QED
    BY <2>5, <2>6
<1> QED
  BY <1>1

(* Ascending is a list of the elements of the set.                         *)
LEMMA AscendingType ==
    ASSUME NEW n \in Nat, NEW S \in SUBSET (1 .. n)
    PROVE  /\ IsFiniteSet(S) /\ Cardinality(S) \in Nat
           /\ Ascending(S) \in [1 .. Cardinality(S) -> S]
<1> DEFINE Up(f) == \A i, j \in 1 .. Cardinality(S) : i < j => f[i] < f[j]
<1>1. \E f \in [1 .. Cardinality(S) -> S] : Up(f)
  BY AscendingExists
<1>2. Ascending(S) = CHOOSE f \in [1 .. Cardinality(S) -> S] : Up(f)
  BY DEF Ascending
<1> HIDE DEF Up
<1>3. Ascending(S) \in [1 .. Cardinality(S) -> S]
  BY <1>1, <1>2
<1>4. IsFiniteSet(S) /\ Cardinality(S) \in Nat
  BY PositionsFinite
<1> QED
  BY <1>3, <1>4

(* The pieces that decode are texts.                                       *)
LEMMA DecodedType ==
    ASSUME NEW pieces \in Seq(Seq(Kinds))
    PROVE  Decoded(pieces) \in Seq(Seq(Kinds))
<1> DEFINE S == {k \in 1 .. Len(pieces) : Decodes(pieces[k])}
           good == Ascending(S)
<1>1. S \in SUBSET (1 .. Len(pieces)) /\ Len(pieces) \in Nat
  OBVIOUS
<1> HIDE DEF S
<1>2. good \in [1 .. Cardinality(S) -> S] /\ Cardinality(S) \in Nat
  BY <1>1, AscendingType
<1> HIDE DEF good
<1>3. Len(good) = Cardinality(S)
  BY <1>2
<1>4. Decoded(pieces) = [i \in 1 .. Len(good) |-> pieces[good[i]]]
  BY DEF Decoded, good, S
<1>5. ASSUME NEW i \in 1 .. Cardinality(S) PROVE pieces[good[i]] \in Seq(Kinds)
  <2>1. good[i] \in S
    BY <1>2
  <2>2. good[i] \in 1 .. Len(pieces)
    BY <1>1, <2>1
  <2> QED
    BY <2>2, ElementOfSeq
<1> QED
  BY <1>2, <1>3, <1>4, <1>5

(* The braces that open and that close a boundary come in pairs.           *)
LEMMA BoundariesPair ==
    ASSUME NEW s, NEW n \in Nat
    PROVE  Cardinality({i \in 1 .. n : \E j \in 1 .. i - 1 : Boundary(s, j, i)}) <=
               Cardinality({j \in 1 .. n : \E i \in j + 1 .. n : Boundary(s, j, i)})
<1> DEFINE opens == {i \in 1 .. n : \E j \in 1 .. i - 1 : Boundary(s, j, i)}
           closes == {j \in 1 .. n : \E i \in j + 1 .. n : Boundary(s, j, i)}
           pair == [i \in opens |-> CHOOSE j \in 1 .. i - 1 : Boundary(s, j, i)]
<1>1. ASSUME NEW i \in opens
      PROVE  /\ i \in 1 .. n /\ pair[i] \in 1 .. n /\ pair[i] < i
             /\ Boundary(s, pair[i], i) /\ pair[i] \in closes
  <2>1. i \in 1 .. n /\ \E j \in 1 .. i - 1 : Boundary(s, j, i)
    OBVIOUS
  <2>2. pair[i] \in 1 .. i - 1 /\ Boundary(s, pair[i], i)
    BY <2>1
  <2> HIDE DEF pair
  <2>3. pair[i] \in 1 .. n /\ pair[i] < i /\ i \in pair[i] + 1 .. n
    BY <2>1, <2>2
  <2> QED
    BY <2>1, <2>2, <2>3
<1>2. pair \in [opens -> closes]
  BY <1>1
<1> HIDE DEF pair
<1>3. ASSUME NEW i \in opens, NEW k \in opens, pair[i] = pair[k], i < k PROVE FALSE
  <2>1. i \in pair[k] + 1 .. k - 1
    BY <1>1, <1>3
  <2>2. s[i] = "open" /\ s[i] = "space"
    BY <1>1, <2>1 DEF Boundary
  <2> QED
    BY <2>2
<1>4. ASSUME NEW i \in opens, NEW k \in opens, pair[i] = pair[k] PROVE i = k
  <2>1. ~(i < k) /\ ~(k < i)
    BY <1>3, <1>4
  <2>2. i \in Nat /\ k \in Nat
    BY <1>1
  <2> QED
    BY <2>1, <2>2
<1>5. IsFiniteSet(closes)
  <2>1. closes \in SUBSET (1 .. n)
    OBVIOUS
  <2> QED
    BY <2>1, PositionsFinite
<1> HIDE DEF opens, closes
<1>6. pair \in Injection(opens, closes)
  BY <1>2, <1>4 DEF Injection, IsInjective
<1>7. Cardinality(opens) <= Cardinality(closes)
  BY <1>5, <1>6, FS_Injection
<1> QED
  BY <1>7 DEF opens, closes

(* There is an end for every start, so the pieces are texts.               *)
LEMMA PiecesType ==
    ASSUME NEW s \in Seq(Kinds), s # <<>>
    PROVE  Pieces(s) \in Seq(Seq(Kinds))
<1> DEFINE n == Len(s)
           opens == {i \in 1 .. n : \E j \in 1 .. i - 1 : Boundary(s, j, i)}
           closes == {j \in 1 .. n : \E i \in j + 1 .. n : Boundary(s, j, i)}
           starts == Ascending({1} \cup opens)
           ends == Ascending({n} \cup closes)
<1>1. n \in Nat /\ n >= 1
  BY EmptySeq
<1>2. Pieces(s) = [k \in 1 .. Len(starts) |-> SubSeq(s, starts[k], ends[k])]
  BY DEF Pieces
<1> HIDE DEF n
<1>3. /\ {1} \cup opens \in SUBSET (1 .. n) /\ {n} \cup closes \in SUBSET (1 .. n)
      /\ opens \in SUBSET (1 .. n) /\ closes \in SUBSET (1 .. n)
  BY <1>1
<1>4. n \notin closes
  BY <1>1
<1>5. Cardinality(opens) <= Cardinality(closes)
  BY <1>1, BoundariesPair
<1> HIDE DEF opens, closes
<1>6. /\ IsFiniteSet(opens) /\ IsFiniteSet(closes)
      /\ Cardinality(opens) \in Nat /\ Cardinality(closes) \in Nat
  BY <1>1, <1>3, AscendingType
<1> DEFINE a == Cardinality({1} \cup opens)
           z == Cardinality({n} \cup closes)
<1>7. a \in Nat /\ z \in Nat /\ a <= z
  <2>1. {1} \cup opens = opens \cup {1} /\ {n} \cup closes = closes \cup {n}
    OBVIOUS
  <2>2. a = IF 1 \in opens THEN Cardinality(opens) ELSE Cardinality(opens) + 1
    BY <1>6, <2>1, FS_AddElement
  <2>3. z = Cardinality(closes) + 1
    BY <1>4, <1>6, <2>1, FS_AddElement
  <2> HIDE DEF a, z
  <2> QED
    BY <1>5, <1>6, <2>2, <2>3
<1>8. starts \in [1 .. a -> {1} \cup opens] /\ ends \in [1 .. z -> {n} \cup closes]
  BY <1>1, <1>3, AscendingType
<1> HIDE DEF starts, ends, a, z
<1>9. Len(starts) = a
  BY <1>7, <1>8
<1>10. ASSUME NEW k \in 1 .. a PROVE SubSeq(s, starts[k], ends[k]) \in Seq(Kinds)
  <2>1. k \in 1 .. z
    BY <1>7
  <2>2. starts[k] \in 1 .. n /\ ends[k] \in 1 .. n
    BY <1>3, <1>8, <2>1
  <2> DEFINE x == starts[k]
             y == ends[k]
  <2>3. x \in Int /\ y \in Int /\ \A i \in x .. y : s[i] \in Kinds
    BY <1>1, <2>2 DEF n
  <2> HIDE DEF x, y
  <2>4. SubSeq(s, x, y) \in Seq(Kinds)
    BY <2>3, SubSeqProperties
  <2> QED
    BY <2>4 DEF x, y
<1> QED
  BY <1>2, <1>7, <1>9, <1>10

(* What is kept is a text.                                                 *)
LEMMA RestType ==
    ASSUME NEW pieces \in Seq(Seq(Kinds))
    PROVE  Rest(pieces) \in Seq(Kinds)
<1> DEFINE n == Len(pieces)
           bad == {k \in 1 .. n : ~Decodes(pieces[k])}
           k == Max(bad)
           piece == pieces[k]
           lo == IF k = 1 THEN 1 ELSE 2
           hi == IF k = n THEN Len(piece) ELSE Len(piece) - 1
           rest == SubSeq(piece, lo, hi)
<1>1. Rest(pieces) = IF bad = {} THEN <<>>
                     ELSE IF IsPrefix(<<"open">>, rest) THEN rest ELSE <<"open">> \o rest
  BY DEF Rest
<1>2. n \in Nat
  OBVIOUS
<1> HIDE DEF n
<1>3. CASE bad = {}
  <2>1. Rest(pieces) = <<>>
    BY <1>1, <1>3
  <2> QED
    BY <2>1
<1>4. CASE bad # {}
  <2>1. bad \subseteq 1 .. n /\ bad \subseteq 0 .. n /\ bad \subseteq Nat
    BY <1>2
  <2> HIDE DEF bad
  <2>2. PICK m \in bad : \A x \in bad : x <= m
    BY <1>2, <1>4, <2>1, GreatestNatural
  <2>3. PICK l \in bad : \A x \in bad : l <= x
    BY <1>4, <2>1, LeastNatural
  <2>4. k = m
    BY <2>1, <2>2, <2>3, MinMaxAre
  <2>5. k \in 1 .. n
    BY <2>1, <2>4
  <2>6. piece \in Seq(Kinds)
    BY <2>5 DEF n
  <2> HIDE DEF k, piece
  <2>7. lo \in 1 .. 2 /\ hi \in Int /\ hi <= Len(piece) /\ Len(piece) \in Nat
    BY <2>6
  <2> HIDE DEF lo, hi
  <2>8. lo \in Int /\ \A i \in lo .. hi : piece[i] \in Kinds
    <3>1. \A i \in lo .. hi : i \in 1 .. Len(piece)
      BY <2>7
    <3> QED
      BY <2>6, <2>7, <3>1
  <2>9. rest \in Seq(Kinds)
    BY <2>7, <2>8, SubSeqProperties
  <2> HIDE DEF rest
  <2>10. <<"open">> \in Seq(Kinds)
    BY DEF Kinds
  <2>11. <<"open">> \o rest \in Seq(Kinds)
    BY <2>9, <2>10, ConcatProperties
  <2>12. Rest(pieces) = IF IsPrefix(<<"open">>, rest) THEN rest ELSE <<"open">> \o rest
    BY <1>1, <1>4
  <2> HIDE DEF bad
  <2> QED
    BY <2>9, <2>11, <2>12
<1> QED
  BY <1>3, <1>4

(* Trim makes a text of a text.                                            *)
LEMMA TrimType ==
    ASSUME NEW s \in Seq(Kinds)
    PROVE  Trim(s) \in Seq(Kinds)
<1> DEFINE solid == {i \in 1 .. Len(s) : s[i] # "space"}
<1>1. Trim(s) = IF solid = {} THEN <<>> ELSE SubSeq(s, Min(solid), Max(solid))
  BY DEF Trim
<1>2. CASE solid = {}
  <2>1. Trim(s) = <<>>
    BY <1>1, <1>2
  <2> QED
    BY <2>1
<1>3. CASE solid # {}
  <2>1. Len(s) \in Nat /\ solid \subseteq 1 .. Len(s) /\ solid \subseteq 0 .. Len(s)
        /\ solid \subseteq Nat
    OBVIOUS
  <2> HIDE DEF solid
  <2>2. PICK m \in solid : \A x \in solid : x <= m
    BY <1>3, <2>1, GreatestNatural
  <2>3. PICK l \in solid : \A x \in solid : l <= x
    BY <1>3, <2>1, LeastNatural
  <2>4. Min(solid) = l /\ Max(solid) = m
    BY <2>1, <2>2, <2>3, MinMaxAre
  <2>5. l \in Int /\ m \in Int /\ \A i \in l .. m : s[i] \in Kinds
    BY <2>1
  <2>6. SubSeq(s, l, m) \in Seq(Kinds)
    BY <2>5, SubSeqProperties
  <2> QED
    BY <1>1, <1>3, <2>4, <2>6
<1> QED
  BY <1>2, <1>3

(* So does DataText.                                                       *)
LEMMA DataTextType ==
    ASSUME NEW s \in Seq(Kinds)
    PROVE  DataText(s) \in Seq(Kinds)
<1>1. Len(s) \in Nat /\ \A i \in 1 .. Len(s) : s[i] \in Kinds
  OBVIOUS
<1>2. "junk" \in Kinds
  BY DEF Kinds
<1> QED
  BY <1>1, <1>2 DEF DataText

(* The steps keep the types.                                               *)
LEMMA InitType == Init => TypeOK
<1> SUFFICES ASSUME Init PROVE TypeOK
  OBVIOUS
<1> QED
  BY EmptySeq DEF Init, TypeOK

(* The data of an event and what is left of the wire.                      *)
LEMMA CutType ==
    ASSUME NEW w \in Seq(Kinds), NEW n \in 1 .. Len(w)
    PROVE  /\ SubSeq(w, 1, n) \in Seq(Kinds)
           /\ SubSeq(w, n + 1, Len(w)) \in Seq(Kinds)
<1>1. Len(w) \in Nat /\ n \in Int /\ n + 1 \in Int /\ 1 \in Int /\ Len(w) \in Int
  OBVIOUS
<1>2. \A i \in 1 .. n : w[i] \in Kinds
  BY <1>1
<1>3. \A i \in n + 1 .. Len(w) : w[i] \in Kinds
  BY <1>1
<1>4. SubSeq(w, 1, n) \in Seq(Kinds)
  BY <1>1, <1>2, SubSeqProperties
<1>5. SubSeq(w, n + 1, Len(w)) \in Seq(Kinds)
  BY <1>1, <1>3, SubSeqProperties
<1> QED
  BY <1>4, <1>5

(* A data event keeps the types: the text it makes of last_message and the *)
(* data is cut into pieces, and both halves of what comes of that are      *)
(* texts.                                                                  *)
LEMMA DataKeepsType ==
    ASSUME TypeOK, Data
    PROVE  TypeOK'
<1>1. PICK n \in 1 .. Len(wire) :
         MessageComplete(SubSeq(wire, 1, n)) /\ wire' = SubSeq(wire, n + 1, Len(wire))
  BY DEF Data
<1>2. /\ sent \in Seq(Texts) /\ wire \in Seq(Kinds) /\ last_message \in Seq(Kinds)
      /\ message_queue \in Seq(Seq(Kinds)) /\ dequeued \in Seq(Seq(Kinds))
  BY DEF TypeOK
<1> DEFINE data == SubSeq(wire, 1, n)
           text == DataText(data)
           msg == Trim(last_message \o text)
<1>3. data \in Seq(Kinds) /\ wire' \in Seq(Kinds)
  BY <1>1, <1>2, CutType
<1>4. \/ msg = <<>> /\ last_message' = <<>> /\ message_queue' = message_queue
      \/ /\ msg # <<>> /\ last_message' = Rest(Pieces(msg))
         /\ message_queue' = message_queue \o Decoded(Pieces(msg))
  BY <1>1 DEF MessageComplete
<1> HIDE DEF data
<1>5. text \in Seq(Kinds)
  BY <1>3, DataTextType
<1> HIDE DEF text
<1>6. msg \in Seq(Kinds)
  <2>1. last_message \o text \in Seq(Kinds)
    BY <1>2, <1>5, ConcatProperties
  <2> QED
    BY <2>1, TrimType
<1> HIDE DEF msg
<1>7. last_message' \in Seq(Kinds) /\ message_queue' \in Seq(Seq(Kinds))
  <2>1. CASE msg = <<>>
    <3>1. last_message' = <<>> /\ message_queue' = message_queue
      BY <1>4, <2>1
    <3> QED
      BY <1>2, <3>1, EmptySeq
  <2>2. CASE msg # <<>>
    <3>1. Pieces(msg) \in Seq(Seq(Kinds))
      BY <1>6, <2>2, PiecesType
    <3>2. Rest(Pieces(msg)) \in Seq(Kinds) /\ Decoded(Pieces(msg)) \in Seq(Seq(Kinds))
      BY <3>1, RestType, DecodedType
    <3>3. message_queue \o Decoded(Pieces(msg)) \in Seq(Seq(Kinds))
      BY <1>2, <3>2, ConcatProperties
    <3> QED
      BY <1>4, <2>2, <3>2, <3>3
  <2> QED
    BY <2>1, <2>2
<1>8. sent' = sent /\ dequeued' = dequeued
  BY DEF Data
<1> QED
  BY <1>2, <1>3, <1>7, <1>8 DEF TypeOK

(* dequeue moves a message.                                                *)
LEMMA DequeueKeepsType ==
    ASSUME TypeOK, Dequeue
    PROVE  TypeOK'
<1>1. /\ sent \in Seq(Texts) /\ wire \in Seq(Kinds) /\ last_message \in Seq(Kinds)
      /\ message_queue \in Seq(Seq(Kinds)) /\ dequeued \in Seq(Seq(Kinds))
      /\ message_queue # <<>>
  BY DEF TypeOK, Dequeue
<1>2. Head(message_queue) \in Seq(Kinds) /\ Tail(message_queue) \in Seq(Seq(Kinds))
  BY <1>1, HeadTailProperties
<1>3. Append(dequeued, Head(message_queue)) \in Seq(Seq(Kinds))
  BY <1>1, <1>2, AppendProperties
<1> QED
  BY <1>1, <1>2, <1>3 DEF TypeOK, Dequeue

(* A separator is spaces.                                                  *)
LEMMA SeparatorType ==
    ASSUME NEW sep \in Separators
    PROVE  /\ sep \in Seq(Kinds) /\ Len(sep) \in Nat
           /\ \A i \in 1 .. Len(sep) : sep[i] = "space"
<1>1. sep \in Seq({"space"})
  BY QueueAssumption
<1>2. Len(sep) \in Nat /\ sep \in [1 .. Len(sep) -> {"space"}]
  BY <1>1, LenProperties
<1>3. \A i \in 1 .. Len(sep) : sep[i] = "space" /\ sep[i] \in Kinds
  BY <1>2 DEF Kinds
<1>4. sep \in [1 .. Len(sep) -> Kinds]
  BY <1>2, <1>3
<1> QED
  BY <1>2, <1>3, <1>4

(* The peer writes texts and spaces.                                       *)
LEMMA SendKeepsType ==
    ASSUME TypeOK, Send
    PROVE  TypeOK'
<1>1. PICK text \in Texts, sep \in Separators :
         sent' = Append(sent, text) /\ wire' = wire \o text \o sep
  BY DEF Send
<1>2. /\ sent \in Seq(Texts) /\ wire \in Seq(Kinds) /\ last_message \in Seq(Kinds)
      /\ message_queue \in Seq(Seq(Kinds)) /\ dequeued \in Seq(Seq(Kinds))
  BY DEF TypeOK
<1>3. text \in Seq(Kinds) /\ sep \in Seq(Kinds)
  BY SeparatorType, QueueAssumption
<1>4. wire \o text \in Seq(Kinds)
  BY <1>2, <1>3, ConcatProperties
<1>5. (wire \o text) \o sep \in Seq(Kinds)
  BY <1>3, <1>4, ConcatProperties
<1>6. Append(sent, text) \in Seq(Texts)
  BY <1>2, AppendProperties
<1> QED
  BY <1>1, <1>2, <1>5, <1>6 DEF TypeOK, Send

(* So do all steps.                                                        *)
LEMMA NextKeepsType ==
    ASSUME TypeOK, [Next]_vars
    PROVE  TypeOK'
<1>1. CASE Data
  BY <1>1, DataKeepsType
<1>2. CASE Dequeue
  BY <1>2, DequeueKeepsType
<1>3. CASE Send
  BY <1>3, SendKeepsType
<1>4. CASE UNCHANGED vars
  BY <1>4 DEF TypeOK, vars
<1> QED
  BY <1>1, <1>2, <1>3, <1>4 DEF Next

(* Whatever the texts of the peer are and however the transport cuts them, *)
(* last_message and the queue hold texts: the split into pieces always     *)
(* finds an end for every start (message_complete).                        *)
THEOREM TypeCorrect == Spec => []TypeOK
<1>1. TypeOK /\ [Next]_vars => TypeOK'
  BY NextKeepsType
<1> QED
  BY <1>1, InitType, PTL DEF Spec

-----------------------------------------------------------------------------
(* All that was written has come as far as position pos of the stream, the *)
(* texts that are whole by then are framed, and last_message is what has   *)
(* come of the next one.                                                   *)
Reached(stream, at, pos) ==
    /\ pos \in 0 .. Len(stream) /\ wire = SubSeq(stream, pos + 1, Len(stream))
    /\ Whole(sent, at, Len(Framed), pos)
    /\ \A k \in 1 .. Len(Framed) : Framed[k] = sent[k]
    /\ last_message = SubSeq(stream, Begun(sent, at, Len(Framed), pos) + 1, pos)

(* The inductive invariant.  The stream is not in the state: what is       *)
(* framed has left it, so that it exists is part of the invariant.         *)
IInv ==
    /\ TypeOK
    /\ \E stream, at, pos : Laid(sent, stream, at) /\ Reached(stream, at, pos)

(* The messages framed so far are a list of texts.                         *)
LEMMA FramedType ==
    ASSUME TypeOK
    PROVE  Framed \in Seq(Seq(Kinds)) /\ Len(Framed) \in Nat
<1>1. dequeued \in Seq(Seq(Kinds)) /\ message_queue \in Seq(Seq(Kinds))
  BY DEF TypeOK
<1>2. Framed \in Seq(Seq(Kinds))
  BY <1>1, ConcatProperties DEF Framed
<1> QED
  BY <1>2

(* A part that ends before it begins.                                      *)
LEMMA EmptyPart ==
    ASSUME NEW s \in Seq(Kinds), NEW b \in Nat
    PROVE  SubSeq(s, b + 1, b) = <<>>
<1>1. b + 1 \in Int /\ b \in Int /\ b < b + 1
  OBVIOUS
<1> QED
  BY <1>1, SubSeqEmpty

(* Nothing is laid out at first.                                           *)
LEMMA InitInv == Init => IInv
<1> SUFFICES ASSUME Init PROVE IInv
  OBVIOUS
<1>1. /\ sent = <<>> /\ wire = <<>> /\ last_message = <<>>
      /\ message_queue = <<>> /\ dequeued = <<>>
  BY DEF Init
<1>2. TypeOK
  BY InitType
<1> DEFINE at == [k \in 1 .. 0 |-> 0]
<1>3. Len(<<>>) = 0 /\ <<>> \in Seq(Kinds) /\ <<>> \in Seq(Texts) /\ 1 .. 0 = {} /\ 0 \in Nat
  BY EmptySeq
<1>4. at \in [1 .. 0 -> Nat]
  OBVIOUS
<1> HIDE DEF at
<1>5. Laid(<<>>, <<>>, at)
  BY <1>3, <1>4 DEF Laid
<1>6. Framed = <<>>
  <2>1. <<>> \o <<>> = <<>>
    BY <1>3, ConcatEmptySeq
  <2> QED
    BY <1>1, <2>1 DEF Framed
<1>7. SubSeq(<<>>, 0 + 1, 0) = <<>>
  BY <1>3, EmptyPart
<1>8. Whole(<<>>, at, 0, 0) /\ Begun(<<>>, at, 0, 0) = 0
  BY <1>3 DEF Whole, Begun
<1>9. Reached(<<>>, at, 0)
  BY <1>1, <1>3, <1>6, <1>7, <1>8 DEF Reached
<1> QED
  BY <1>1, <1>2, <1>5, <1>9 DEF IInv

(* In what is laid out there is nothing DataText changes.                  *)
LEMMA NothingBroken ==
    ASSUME PlainTexts, NEW T, NEW stream, NEW at, Laid(T, stream, at),
           NEW pos \in Nat, NEW n \in Nat, pos + n <= Len(stream)
    PROVE  DataText(SubSeq(stream, pos + 1, pos + n)) = SubSeq(stream, pos + 1, pos + n)
<1> DEFINE c == pos + n
           u == SubSeq(stream, pos + 1, c)
<1>1. stream \in Seq(Kinds) /\ c \in Nat /\ pos <= c /\ c <= Len(stream) /\ Len(stream) \in Nat
  BY DEF Laid
<1> HIDE DEF c
<1>2. u \in Seq(Kinds) /\ Len(u) = c - pos /\ \A i \in 1 .. c - pos : u[i] = stream[pos + i]
  BY <1>1, PartOf
<1> HIDE DEF u
<1>3. PICK e : Spans(T, stream, at, e)
  BY LaidSpans
<1>4. ASSUME NEW p \in 1 .. Len(stream) PROVE stream[p] \notin {"lead", "tail"}
  <2>1. CASE stream[p] = "space"
    BY <2>1
  <2>2. CASE stream[p] # "space"
    <3>1. PICK k \in 1 .. Len(T) : at[k] < p /\ p <= e[k]
      BY <1>3, <2>2 DEF Spans
    <3> DEFINE t == T[k]
               i == p - at[k]
    <3>2. /\ at[k] \in Nat /\ e[k] = at[k] + Len(t) /\ t \in Texts
          /\ \A q \in at[k] + 1 .. e[k] : stream[q] = T[k][q - at[k]]
      BY <1>3 DEF Spans
    <3>3. t \in Seq(Kinds) /\ Len(t) \in Nat /\ \A q \in 1 .. Len(t) : t[q] \notin {"lead", "tail"}
      BY <3>2, PlainText
    <3>4. p \in at[k] + 1 .. e[k] /\ i \in 1 .. Len(t)
      <4> HIDE DEF t
      <4> QED
        BY <1>1, <3>1, <3>2, <3>3
    <3>5. stream[p] = t[i]
      BY <3>2, <3>4
    <3> HIDE DEF t, i
    <3> QED
      BY <3>3, <3>4, <3>5
  <2> QED
    BY <2>1, <2>2
<1>5. \A i \in 1 .. Len(u) : u[i] \notin {"lead", "tail"}
  <2> SUFFICES ASSUME NEW i \in 1 .. Len(u) PROVE u[i] \notin {"lead", "tail"}
    OBVIOUS
  <2>1. pos + i \in 1 .. Len(stream) /\ i \in 1 .. c - pos
    BY <1>1, <1>2
  <2> QED
    BY <1>2, <1>4, <2>1
<1>6. DataText(u) = u
  BY <1>2, <1>5, SameText
<1> QED
  BY <1>6 DEF u, c

(* A data event moves the position on by n characters: the texts that are  *)
(* whole by then are framed and what has come of the next one is kept.     *)
LEMMA DataKeepsInv ==
    ASSUME PlainTexts, IInv, Data
    PROVE  IInv'
<1>1. TypeOK /\ TypeOK'
  BY DataKeepsType DEF IInv
<1>2. PICK stream, at, pos : Laid(sent, stream, at) /\ Reached(stream, at, pos)
  BY DEF IInv
<1>3. PICK n \in 1 .. Len(wire) :
         MessageComplete(SubSeq(wire, 1, n)) /\ wire' = SubSeq(wire, n + 1, Len(wire))
  BY DEF Data
<1>4. sent' = sent /\ dequeued' = dequeued
  BY DEF Data
<1> DEFINE f == Len(Framed)
           b == Begun(sent, at, f, pos)
           pos2 == pos + n
           L == Len(stream)
<1>5. /\ stream \in Seq(Kinds) /\ L \in Nat /\ pos \in Nat /\ pos <= L
      /\ wire = SubSeq(stream, pos + 1, L) /\ Whole(sent, at, f, pos)
      /\ \A k \in 1 .. f : Framed[k] = sent[k]
      /\ last_message = SubSeq(stream, b + 1, pos)
  BY <1>2 DEF Laid, Reached
<1>6. Framed \in Seq(Seq(Kinds)) /\ f \in Nat /\ f \in 0 .. Len(sent) /\ Len(sent) \in Nat
  <2>1. Framed \in Seq(Seq(Kinds)) /\ f \in Nat
    BY <1>1, FramedType
  <2>2. sent \in Seq(Texts) /\ Len(sent) \in Nat
    BY <1>1 DEF TypeOK
  <2> HIDE DEF f
  <2>3. f \in 0 .. Len(sent)
    BY <1>5 DEF Whole
  <2> QED
    BY <2>1, <2>2, <2>3 DEF f
<1>7. b \in Nat /\ b <= pos
  <2>1. PICK e : Spans(sent, stream, at, e)
    BY <1>2, LaidSpans
  <2>2. b \in 0 .. pos
    BY <1>5, <2>1, BegunIs
  <2> HIDE DEF b
  <2> QED
    BY <1>5, <2>2
<1> HIDE DEF f, b, L
<1>8. /\ Len(wire) = L - pos /\ wire \in Seq(Kinds)
      /\ \A i \in 1 .. L - pos : wire[i] = stream[pos + i]
  <2>1. L <= L /\ L <= Len(stream)
    BY <1>5 DEF L
  <2> QED
    BY <1>5, <2>1, PartOf
<1>9. n \in Nat /\ n >= 1 /\ pos2 \in Nat /\ pos < pos2 /\ pos2 <= L /\ n <= L - pos
  BY <1>5, <1>8
<1>10. pos2 = pos + n /\ pos2 - pos = n
  BY <1>5, <1>9
<1> HIDE DEF pos2
(* What has come and what is left of it.                                   *)
<1>11. SubSeq(wire, 1, n) = SubSeq(stream, pos + 1, pos2)
  <2> DEFINE u == SubSeq(wire, 0 + 1, n)
             v == SubSeq(stream, pos + 1, pos2)
  <2>1. u \in Seq(Kinds) /\ Len(u) = n - 0 /\ \A i \in 1 .. n - 0 : u[i] = wire[0 + i]
    <3>1. 0 <= n /\ n <= Len(wire)
      BY <1>8, <1>9
    <3> QED
      BY <1>8, <1>9, <3>1, PartOf
  <2>2. v \in Seq(Kinds) /\ Len(v) = pos2 - pos /\ \A i \in 1 .. pos2 - pos : v[i] = stream[pos + i]
    <3>1. pos <= pos2 /\ pos2 <= Len(stream)
      BY <1>5, <1>9 DEF L
    <3> QED
      BY <1>5, <1>9, <3>1, PartOf
  <2>3. SubSeq(wire, 1, n) = u
    OBVIOUS
  <2> HIDE DEF u, v
  <2>4. Len(u) = Len(v) /\ \A i \in 1 .. Len(u) : u[i] = v[i]
    <3>1. Len(u) = n /\ Len(v) = n
      BY <1>9, <1>10, <2>1, <2>2
    <3>2. ASSUME NEW i \in 1 .. n PROVE u[i] = v[i]
      <4>1. i \in 1 .. L - pos /\ i \in 1 .. n - 0 /\ i \in 1 .. pos2 - pos /\ 0 + i = i
        BY <1>5, <1>9, <1>10
      <4> QED
        BY <1>8, <2>1, <2>2, <4>1
    <3> QED
      BY <3>1, <3>2
  <2>5. u = v
    BY <2>1, <2>2, <2>4, SeqEqual
  <2> QED
    BY <2>3, <2>5 DEF v
<1>12. wire' = SubSeq(stream, pos2 + 1, L)
  <2> DEFINE u == SubSeq(wire, n + 1, Len(wire))
             v == SubSeq(stream, pos2 + 1, L)
             w == Len(wire)
  <2>1. u \in Seq(Kinds) /\ Len(u) = w - n /\ \A i \in 1 .. w - n : u[i] = wire[n + i]
    <3>1. w \in Nat /\ n <= w /\ w <= Len(wire)
      BY <1>8, <1>9
    <3> QED
      BY <1>8, <1>9, <3>1, PartOf
  <2>2. v \in Seq(Kinds) /\ Len(v) = L - pos2 /\ \A i \in 1 .. L - pos2 : v[i] = stream[pos2 + i]
    <3>1. pos2 <= L /\ L <= Len(stream)
      BY <1>5, <1>9 DEF L
    <3> QED
      BY <1>5, <1>9, <3>1, PartOf
  <2>3. w = L - pos /\ w - n = L - pos2
    BY <1>5, <1>8, <1>9, <1>10
  <2> HIDE DEF u, v, w
  <2>4. Len(u) = Len(v) /\ \A i \in 1 .. Len(u) : u[i] = v[i]
    <3>1. ASSUME NEW i \in 1 .. L - pos2 PROVE u[i] = v[i]
      <4>1. n + i \in 1 .. L - pos /\ pos + (n + i) = pos2 + i
        BY <1>5, <1>9, <1>10
      <4>2. u[i] = wire[n + i] /\ v[i] = stream[pos2 + i]
        BY <2>1, <2>2, <2>3
      <4>3. wire[n + i] = stream[pos + (n + i)]
        BY <1>8, <4>1
      <4> QED
        BY <4>1, <4>2, <4>3
    <3> QED
      BY <2>1, <2>2, <2>3, <3>1
  <2>5. u = v
    BY <2>1, <2>2, <2>4, SeqEqual
  <2> QED
    BY <1>3, <2>5 DEF u, v
(* The text that is looked at.                                             *)
<1> DEFINE u == SubSeq(stream, b + 1, pos2)
           msg == Trim(u)
<1>13. last_message \o DataText(SubSeq(wire, 1, n)) = u
  <2>1. DataText(SubSeq(stream, pos + 1, pos2)) = SubSeq(stream, pos + 1, pos2)
    <3>1. pos + n <= Len(stream)
      BY <1>9, <1>10 DEF L
    <3> QED
      BY <1>2, <1>5, <1>9, <1>10, <3>1, NothingBroken
  <2>2. SubSeq(stream, b + 1, pos) \o SubSeq(stream, pos + 1, pos2) = SubSeq(stream, b + 1, pos2)
    <3> DEFINE x == b + 1
    <3>1. x \in 1 .. Len(stream) + 1 /\ pos \in x - 1 .. Len(stream) /\ pos2 \in pos .. Len(stream)
      BY <1>5, <1>7, <1>9 DEF L
    <3> HIDE DEF x
    <3>2. SubSeq(stream, x, pos) \o SubSeq(stream, pos + 1, pos2) = SubSeq(stream, x, pos2)
      BY <1>5, <3>1, ConcatAdjacentSubSeq
    <3> QED
      BY <3>2 DEF x
  <2> QED
    BY <1>5, <1>11, <2>1, <2>2
<1>14. \/ msg = <<>> /\ last_message' = <<>> /\ message_queue' = message_queue
       \/ /\ msg # <<>> /\ last_message' = Rest(Pieces(msg))
          /\ message_queue' = message_queue \o Decoded(Pieces(msg))
  BY <1>3, <1>13 DEF MessageComplete
<1>15. PICK g \in f .. Len(sent) : Whole(sent, at, g, pos2)
  <2>1. pos <= pos2
    BY <1>5, <1>9
  <2> QED
    BY <1>2, <1>5, <1>9, <2>1, SomeAreWhole
<1> DEFINE b2 == Begun(sent, at, g, pos2)
<1>16. IF msg = <<>>
       THEN g = f /\ b2 = pos2
       ELSE /\ Rest(Pieces(msg)) = SubSeq(stream, b2 + 1, pos2)
            /\ Decoded(Pieces(msg)) = Following(sent, f, g)
  <2>1. pos2 <= Len(stream) /\ msg = Trim(SubSeq(stream, Begun(sent, at, f, pos) + 1, pos2))
    BY <1>9 DEF L, b
  <2> HIDE DEF msg
  <2> QED
    BY <1>2, <1>5, <1>9, <1>15, <2>1, DataDecodes, SMTT(30)
<1> HIDE DEF msg, b2
<1>17. last_message' = SubSeq(stream, b2 + 1, pos2)
  <2>1. CASE msg = <<>>
    <3>1. SubSeq(stream, pos2 + 1, pos2) = <<>>
      BY <1>5, <1>9, EmptyPart
    <3> QED
      BY <1>14, <1>16, <2>1, <3>1
  <2>2. CASE msg # <<>>
    BY <1>14, <1>16, <2>2
  <2> QED
    BY <2>1, <2>2
<1>18. Framed' \in Seq(Seq(Kinds)) /\ Len(Framed') = g /\ \A k \in 1 .. g : Framed'[k] = sent[k]
  <2>1. CASE msg = <<>>
    <3>1. Framed' = Framed /\ g = f
      BY <1>4, <1>14, <1>16, <2>1 DEF Framed
    <3> QED
      BY <1>5, <1>6, <3>1 DEF f
  <2>2. CASE msg # <<>>
    <3> DEFINE new == Following(sent, f, g)
               m == g - f
    <3>1. m \in Nat /\ g \in Nat /\ f + m = g
      BY <1>6, <1>15
    <3>2. new \in Seq(Seq(Kinds)) /\ Len(new) = m /\ \A i \in 1 .. m : new[i] = sent[f + i]
      <4>1. \A i \in 1 .. m : sent[f + i] \in Seq(Kinds)
        <5> SUFFICES ASSUME NEW i \in 1 .. m PROVE sent[f + i] \in Seq(Kinds)
          OBVIOUS
        <5>1. f + i \in 1 .. Len(sent)
          BY <1>6, <1>15, <3>1
        <5>2. sent[f + i] \in Texts
          BY <1>1, <5>1, ElementOfSeq DEF TypeOK
        <5> QED
          BY <5>2, QueueAssumption
      <4>2. new = [i \in 1 .. m |-> sent[f + i]]
        BY DEF Following
      <4> HIDE DEF new, m
      <4> QED
        BY <3>1, <4>1, <4>2
    <3> HIDE DEF new, m
    <3>3. Framed' = Framed \o new
      <4>1. Framed' = dequeued \o (message_queue \o new)
        BY <1>4, <1>14, <1>16, <2>2 DEF Framed, new
      <4>2. dequeued \in Seq(Seq(Kinds)) /\ message_queue \in Seq(Seq(Kinds))
        BY <1>1 DEF TypeOK
      <4>3. (dequeued \o message_queue) \o new = dequeued \o (message_queue \o new)
        <5> DEFINE S == Seq(Kinds)
                   d == dequeued
                   q == message_queue
        <5>1. new \in Seq(S) /\ d \in Seq(S) /\ q \in Seq(S)
          BY <3>2, <4>2
        <5> HIDE DEF S, d, q
        <5>2. (d \o q) \o new = d \o (q \o new)
          BY <5>1, ConcatAssociative, SMTT(30)
        <5> QED
          BY <5>2 DEF d, q
      <4> QED
        BY <4>1, <4>3 DEF Framed
    <3> DEFINE F == Framed
    <3>4. F \in Seq(Seq(Kinds)) /\ Len(F) = f /\ \A k \in 1 .. f : F[k] = sent[k]
      BY <1>5, <1>6 DEF f
    <3> HIDE DEF F
    <3> DEFINE FF == F \o new
    <3>5. /\ FF \in Seq(Seq(Kinds)) /\ Len(FF) = f + m
          /\ \A i \in 1 .. f + m : FF[i] = IF i <= f THEN F[i] ELSE new[i - f]
      BY <3>2, <3>4, ConcatProperties, ZenonT(30)
    <3>6. Framed' = FF
      BY <3>3 DEF F
    <3> HIDE DEF FF
    <3>7. ASSUME NEW k \in 1 .. g PROVE FF[k] = sent[k]
      <4>1. CASE k <= f
        BY <1>6, <3>1, <3>4, <3>5, <4>1
      <4>2. CASE ~(k <= f)
        <5>1. k - f \in 1 .. m /\ f + (k - f) = k /\ k \in 1 .. f + m
          BY <1>6, <3>1, <4>2
        <5>2. FF[k] = new[k - f]
          BY <3>5, <4>2, <5>1
        <5> QED
          BY <3>2, <5>1, <5>2
      <4> QED
        BY <4>1, <4>2
    <3> QED
      BY <3>1, <3>5, <3>6, <3>7
  <2> QED
    BY <2>1, <2>2
<1>19. Reached(stream, at, pos2)'
  <2>1. /\ pos2 \in 0 .. Len(stream) /\ wire' = SubSeq(stream, pos2 + 1, Len(stream))
    BY <1>5, <1>9, <1>12 DEF L
  <2>2. Whole(sent', at, Len(Framed'), pos2)
    BY <1>4, <1>15, <1>18
  <2>3. \A k \in 1 .. Len(Framed') : Framed'[k] = sent'[k]
    BY <1>4, <1>18
  <2>4. last_message' = SubSeq(stream, Begun(sent', at, Len(Framed'), pos2) + 1, pos2)
    BY <1>4, <1>17, <1>18 DEF b2
  <2> QED
    BY <2>1, <2>2, <2>3, <2>4 DEF Reached
<1>20. Laid(sent, stream, at)'
  BY <1>2, <1>4
<1> QED
  BY <1>1, <1>19, <1>20 DEF IInv

(* dequeue moves the oldest message from the queue to those taken.         *)
LEMMA DequeueKeepsInv ==
    ASSUME IInv, Dequeue
    PROVE  IInv'
<1>1. TypeOK /\ TypeOK'
  BY DequeueKeepsType DEF IInv
<1>2. PICK stream, at, pos : Laid(sent, stream, at) /\ Reached(stream, at, pos)
  BY DEF IInv
<1>3. /\ message_queue # <<>> /\ dequeued' = Append(dequeued, Head(message_queue))
      /\ message_queue' = Tail(message_queue)
      /\ sent' = sent /\ wire' = wire /\ last_message' = last_message
  BY DEF Dequeue
<1>4. Framed' = Framed
  <2> DEFINE S == Seq(Kinds)
             d == dequeued
             m == message_queue
             h == Head(m)
             r == Tail(m)
  <2>1. d \in Seq(S) /\ m \in Seq(S) /\ m # <<>>
    BY <1>1, <1>3 DEF TypeOK
  <2> HIDE DEF S, d, m
  <2>2. /\ h \in S /\ r \in Seq(S) /\ Len(r) = Len(m) - 1
        /\ \A i \in 1 .. Len(r) : r[i] = m[i + 1]
    BY <2>1, HeadTailProperties
  <2>3. h = m[1] /\ Len(m) \in Nat /\ Len(m) >= 1 /\ Len(d) \in Nat
    BY <2>1, EmptySeq
  <2> HIDE DEF h, r
  <2> DEFINE a == Append(d, h)
             x == a \o r
             y == d \o m
  <2>4. /\ a \in Seq(S) /\ Len(a) = Len(d) + 1 /\ a[Len(d) + 1] = h
        /\ \A i \in 1 .. Len(d) : a[i] = d[i]
    BY <2>1, <2>2, AppendProperties
  <2> HIDE DEF a
  <2>5. /\ x \in Seq(S) /\ Len(x) = Len(a) + Len(r)
        /\ \A i \in 1 .. Len(a) + Len(r) : x[i] = IF i <= Len(a) THEN a[i] ELSE r[i - Len(a)]
    BY <2>2, <2>4, ConcatProperties
  <2>6. /\ y \in Seq(S) /\ Len(y) = Len(d) + Len(m)
        /\ \A i \in 1 .. Len(d) + Len(m) : y[i] = IF i <= Len(d) THEN d[i] ELSE m[i - Len(d)]
    BY <2>1, ConcatProperties
  <2> HIDE DEF x, y
  <2>7. Len(x) = Len(y)
    BY <2>2, <2>3, <2>4, <2>5, <2>6
  <2>8. ASSUME NEW i \in 1 .. Len(x) PROVE x[i] = y[i]
    <3>1. i \in 1 .. Len(a) + Len(r) /\ i \in 1 .. Len(d) + Len(m)
      BY <2>5, <2>6, <2>7
    <3>2. CASE i <= Len(d)
      BY <2>3, <2>4, <2>5, <2>6, <3>1, <3>2
    <3>3. CASE i = Len(d) + 1
      <4>1. x[i] = h
        BY <2>3, <2>4, <2>5, <3>1, <3>3
      <4>2. y[i] = m[1]
        BY <2>3, <2>6, <3>1, <3>3
      <4> QED
        BY <2>3, <4>1, <4>2
    <3>4. CASE i > Len(d) + 1
      <4> DEFINE j == i - Len(a)
      <4>1. j \in 1 .. Len(r) /\ j + 1 = i - Len(d)
        BY <2>2, <2>3, <2>4, <3>1, <3>4
      <4>2. x[i] = r[j] /\ y[i] = m[i - Len(d)]
        BY <2>3, <2>4, <2>5, <2>6, <3>1, <3>4
      <4> HIDE DEF j
      <4> QED
        BY <2>2, <4>1, <4>2
    <3> QED
      BY <2>3, <3>1, <3>2, <3>3, <3>4
  <2>9. x = y
    BY <2>5, <2>6, <2>7, <2>8, SeqEqual
  <2> QED
    BY <1>3, <2>9 DEF Framed, x, y, a, h, r, d, m
<1>5. Laid(sent, stream, at)' /\ Reached(stream, at, pos)'
  BY <1>2, <1>3, <1>4 DEF Reached
<1> QED
  BY <1>1, <1>5 DEF IInv

(* A text written behind what is laid out is laid out there.               *)
LEMMA SendLays ==
    ASSUME PlainTexts, NEW T, NEW stream, NEW at, Laid(T, stream, at),
           NEW text \in Texts, NEW sep \in Separators
    PROVE  \E at2 :
               /\ Laid(Append(T, text), (stream \o text) \o sep, at2)
               /\ \A k \in 1 .. Len(T) : at2[k] = at[k]
               /\ at2[Len(T) + 1] = Len(stream)
<1> DEFINE n == Len(T)
           L == Len(stream)
           m == Len(text)
           U == Append(T, text)
           st == stream \o text
           s2 == st \o sep
           at2 == [k \in 1 .. n + 1 |-> IF k <= n THEN at[k] ELSE L]
<1>1. /\ T \in Seq(Texts) /\ stream \in Seq(Kinds) /\ at \in [1 .. n -> Nat]
      /\ \A k \in 1 .. n :
            /\ at[k] + Len(T[k]) <= L
            /\ \A i \in 1 .. Len(T[k]) : stream[at[k] + i] = T[k][i]
      /\ \A k, l \in 1 .. n : k < l => at[k] + Len(T[k]) <= at[l]
      /\ \A p \in 1 .. L :
            \/ stream[p] = "space"
            \/ \E k \in 1 .. n : at[k] < p /\ p <= at[k] + Len(T[k])
  BY DEF Laid
<1>2. text \in Seq(Kinds) /\ m \in Nat /\ n \in Nat /\ L \in Nat
  BY <1>1, PlainText
<1>3. sep \in Seq(Kinds) /\ Len(sep) \in Nat /\ \A i \in 1 .. Len(sep) : sep[i] = "space"
  BY SeparatorType
<1>4. /\ st \in Seq(Kinds) /\ Len(st) = L + m
      /\ \A i \in 1 .. L + m : st[i] = IF i <= L THEN stream[i] ELSE text[i - L]
  BY <1>1, <1>2, ConcatProperties
<1> HIDE DEF st
<1>5. /\ s2 \in Seq(Kinds) /\ Len(s2) = Len(st) + Len(sep)
      /\ \A i \in 1 .. Len(st) + Len(sep) :
            s2[i] = IF i <= Len(st) THEN st[i] ELSE sep[i - Len(st)]
  BY <1>3, <1>4, ConcatProperties, ZenonT(30)
<1>6. /\ U \in Seq(Texts) /\ Len(U) = n + 1 /\ U[n + 1] = text
      /\ \A k \in 1 .. n : U[k] = T[k]
  BY <1>1, AppendProperties
<1>7. /\ at2 \in [1 .. n + 1 -> Nat] /\ at2[n + 1] = L
      /\ \A k \in 1 .. n : at2[k] = at[k]
  BY <1>1, <1>2
<1> HIDE DEF s2, U, at2, n, L, m
<1>8. /\ Len(s2) = L + m + Len(sep) /\ Len(s2) \in Nat /\ L + m <= Len(s2)
      /\ \A i \in 1 .. L : s2[i] = stream[i]
      /\ \A i \in 1 .. m : s2[L + i] = text[i]
      /\ \A i \in L + m + 1 .. Len(s2) : s2[i] = "space"
  <2>1. Len(s2) = L + m + Len(sep) /\ Len(s2) \in Nat /\ L + m <= Len(s2)
    BY <1>2, <1>3, <1>4, <1>5
  <2>2. ASSUME NEW i \in 1 .. L PROVE s2[i] = stream[i]
    BY <1>2, <1>3, <1>4, <1>5, <2>2
  <2>3. ASSUME NEW i \in 1 .. m PROVE s2[L + i] = text[i]
    <3>1. /\ L + i \in 1 .. L + m /\ L + i \in 1 .. Len(st) + Len(sep) /\ L + i <= Len(st)
          /\ ~(L + i <= L) /\ (L + i) - L = i
      BY <1>2, <1>3, <1>4
    <3> QED
      BY <1>4, <1>5, <3>1
  <2>4. ASSUME NEW i \in L + m + 1 .. Len(s2) PROVE s2[i] = "space"
    <3>1. /\ i \in 1 .. Len(st) + Len(sep) /\ ~(i <= Len(st)) /\ i - Len(st) \in 1 .. Len(sep)
      BY <1>2, <1>3, <1>4, <2>1
    <3> QED
      BY <1>3, <1>5, <3>1
  <2> QED
    BY <2>1, <2>2, <2>3, <2>4
<1>9. \A k \in 1 .. n : at[k] \in Nat /\ Len(T[k]) \in Nat /\ at[k] + Len(T[k]) <= L
  <2>1. \A k \in 1 .. n : T[k] \in Texts /\ at[k] \in Nat
    BY <1>1, SMTT(30) DEF n
  <2>2. \A t \in Texts : Len(t) \in Nat
    BY PlainText
  <2> QED
    BY <1>1, <2>1, <2>2
<1>10. \A k \in 1 .. n + 1 : k \in 1 .. n \/ k = n + 1
  BY <1>2
<1>11. ASSUME NEW k \in 1 .. n + 1
       PROVE  /\ at2[k] + Len(U[k]) <= Len(s2)
              /\ \A i \in 1 .. Len(U[k]) : s2[at2[k] + i] = U[k][i]
  <2>1. CASE k \in 1 .. n
    <3> DEFINE b == at[k]
               t == T[k]
               c == Len(t)
    <3>1. b \in Nat /\ c \in Nat /\ b + c <= L
      BY <1>9, <2>1
    <3>2. \A i \in 1 .. c : stream[b + i] = t[i]
      BY <1>1, <2>1
    <3>3. at2[k] = b /\ U[k] = t
      BY <1>6, <1>7, <2>1
    <3> HIDE DEF b, t
    <3>4. \A i \in 1 .. c : b + i \in 1 .. L
      BY <1>2, <3>1
    <3>5. \A i \in 1 .. c : s2[b + i] = t[i]
      BY <1>8, <3>2, <3>4
    <3>6. b + c <= Len(s2)
      BY <1>2, <1>8, <3>1
    <3> QED
      BY <3>3, <3>5, <3>6
  <2>2. CASE k = n + 1
    <3>1. at2[k] = L /\ U[k] = text
      BY <1>6, <1>7, <2>2
    <3> QED
      BY <1>8, <3>1 DEF m
  <2> QED
    BY <1>10, <2>1, <2>2
<1>12. ASSUME NEW k \in 1 .. n + 1, NEW l \in 1 .. n + 1, k < l
       PROVE  at2[k] + Len(U[k]) <= at2[l]
  <2>1. k \in 1 .. n /\ at2[k] = at[k] /\ U[k] = T[k]
    <3>1. k \in 1 .. n
      BY <1>2, <1>12
    <3> QED
      BY <1>6, <1>7, <3>1
  <2>2. CASE l \in 1 .. n
    BY <1>1, <1>7, <1>12, <2>1, <2>2
  <2>3. CASE l = n + 1
    BY <1>7, <1>9, <2>1, <2>3
  <2> QED
    BY <1>10, <2>2, <2>3
<1>13. ASSUME NEW p \in 1 .. Len(s2)
       PROVE  \/ s2[p] = "space"
              \/ \E k \in 1 .. n + 1 : at2[k] < p /\ p <= at2[k] + Len(U[k])
  <2>1. CASE p <= L
    <3>1. p \in 1 .. L /\ s2[p] = stream[p]
      BY <1>2, <1>8, <2>1
    <3>2. CASE stream[p] = "space"
      BY <3>1, <3>2
    <3>3. CASE stream[p] # "space"
      <4>1. PICK k \in 1 .. n : at[k] < p /\ p <= at[k] + Len(T[k])
        BY <1>1, <3>1, <3>3
      <4>2. k \in 1 .. n + 1 /\ at2[k] = at[k] /\ U[k] = T[k]
        BY <1>2, <1>6, <1>7
      <4> QED
        BY <4>1, <4>2
    <3> QED
      BY <3>2, <3>3
  <2>2. CASE L < p /\ p <= L + m
    <3>1. n + 1 \in 1 .. n + 1 /\ at2[n + 1] = L /\ Len(U[n + 1]) = m
      BY <1>2, <1>6, <1>7 DEF m
    <3> QED
      BY <2>2, <3>1
  <2>3. CASE L + m < p
    <3>1. p \in L + m + 1 .. Len(s2)
      BY <1>2, <1>8, <2>3
    <3> QED
      BY <1>8, <3>1
  <2> QED
    BY <1>2, <1>8, <2>1, <2>2, <2>3
<1>14. Laid(U, s2, at2)
  BY <1>5, <1>6, <1>7, <1>11, <1>12, <1>13 DEF Laid
<1>15. /\ Laid(U, s2, at2)
       /\ \A k \in 1 .. n : at2[k] = at[k]
       /\ at2[n + 1] = L
  BY <1>7, <1>14
<1> QED
  BY <1>15 DEF U, s2, st, n, L

(* A part of a text that is written on, up to where it was ...             *)
LEMMA PartBefore ==
    ASSUME NEW s \in Seq(Kinds), NEW t \in Seq(Kinds), NEW b \in Nat, NEW c \in Nat,
           b <= c, c <= Len(s)
    PROVE  SubSeq(s \o t, b + 1, c) = SubSeq(s, b + 1, c)
<1> DEFINE x == s \o t
           u == SubSeq(x, b + 1, c)
           v == SubSeq(s, b + 1, c)
<1>1. Len(s) \in Nat /\ Len(t) \in Nat
  OBVIOUS
<1>2. /\ x \in Seq(Kinds) /\ Len(x) = Len(s) + Len(t)
      /\ \A i \in 1 .. Len(s) + Len(t) : x[i] = IF i <= Len(s) THEN s[i] ELSE t[i - Len(s)]
  BY ConcatProperties
<1> HIDE DEF x
<1>3. c <= Len(x)
  BY <1>1, <1>2
<1>4. u \in Seq(Kinds) /\ Len(u) = c - b /\ \A i \in 1 .. c - b : u[i] = x[b + i]
  BY <1>2, <1>3, PartOf
<1>5. v \in Seq(Kinds) /\ Len(v) = c - b /\ \A i \in 1 .. c - b : v[i] = s[b + i]
  BY PartOf
<1> HIDE DEF u, v
<1>6. ASSUME NEW i \in 1 .. c - b PROVE u[i] = v[i]
  <2>1. b + i \in 1 .. Len(s) + Len(t) /\ b + i <= Len(s)
    BY <1>1
  <2> QED
    BY <1>2, <1>4, <1>5, <2>1
<1>7. u = v
  BY <1>4, <1>5, <1>6, SeqEqual
<1> QED
  BY <1>7 DEF u, v, x

(* ... and to its new end.                                                 *)
LEMMA PartBehind ==
    ASSUME NEW s \in Seq(Kinds), NEW t \in Seq(Kinds), NEW b \in Nat, b <= Len(s)
    PROVE  SubSeq(s, b + 1, Len(s)) \o t = SubSeq(s \o t, b + 1, Len(s \o t))
<1> DEFINE x == s \o t
           w == SubSeq(s, b + 1, Len(s))
           u == w \o t
           v == SubSeq(x, b + 1, Len(x))
<1>1. Len(s) \in Nat /\ Len(t) \in Nat
  OBVIOUS
<1>2. /\ x \in Seq(Kinds) /\ Len(x) = Len(s) + Len(t)
      /\ \A i \in 1 .. Len(s) + Len(t) : x[i] = IF i <= Len(s) THEN s[i] ELSE t[i - Len(s)]
  BY ConcatProperties
<1> HIDE DEF x
<1>3. w \in Seq(Kinds) /\ Len(w) = Len(s) - b /\ \A i \in 1 .. Len(s) - b : w[i] = s[b + i]
  <2>1. Len(s) <= Len(s)
    BY <1>1
  <2> QED
    BY <1>1, <2>1, PartOf
<1> HIDE DEF w
<1>4. /\ u \in Seq(Kinds) /\ Len(u) = Len(w) + Len(t)
      /\ \A i \in 1 .. Len(w) + Len(t) : u[i] = IF i <= Len(w) THEN w[i] ELSE t[i - Len(w)]
  BY <1>3, ConcatProperties
<1>5. v \in Seq(Kinds) /\ Len(v) = Len(x) - b /\ \A i \in 1 .. Len(x) - b : v[i] = x[b + i]
  <2>1. Len(x) \in Nat /\ b <= Len(x) /\ Len(x) <= Len(x)
    BY <1>1, <1>2
  <2> QED
    BY <1>2, <2>1, PartOf
<1> HIDE DEF u, v
<1>6. Len(u) = Len(v) /\ Len(u) = (Len(s) - b) + Len(t)
  BY <1>1, <1>2, <1>3, <1>4, <1>5
<1>7. ASSUME NEW i \in 1 .. Len(u) PROVE u[i] = v[i]
  <2>1. /\ i \in 1 .. Len(w) + Len(t) /\ i \in 1 .. Len(x) - b /\ b + i \in 1 .. Len(s) + Len(t)
        /\ i \in Nat
    BY <1>1, <1>2, <1>3, <1>4, <1>6
  <2>2. v[i] = x[b + i]
    BY <1>5, <2>1
  <2>3. CASE i <= Len(w)
    <3>1. i \in 1 .. Len(s) - b /\ b + i <= Len(s)
      BY <1>1, <1>3, <2>1, <2>3
    <3>2. u[i] = w[i] /\ w[i] = s[b + i]
      BY <1>3, <1>4, <2>1, <2>3, <3>1
    <3>3. x[b + i] = s[b + i]
      BY <1>2, <2>1, <3>1
    <3> QED
      BY <2>2, <3>2, <3>3
  <2>4. CASE ~(i <= Len(w))
    <3>1. ~(b + i <= Len(s)) /\ (b + i) - Len(s) = i - Len(w)
      BY <1>1, <1>3, <2>1, <2>4
    <3>2. u[i] = t[i - Len(w)]
      BY <1>4, <2>1, <2>4
    <3>3. x[b + i] = t[(b + i) - Len(s)]
      BY <1>2, <2>1, <3>1
    <3> QED
      BY <2>2, <3>1, <3>2, <3>3
  <2> QED
    BY <2>3, <2>4
<1>8. u = v
  BY <1>4, <1>5, <1>6, <1>7, SeqEqual
<1> QED
  BY <1>8 DEF u, v, w, x

(* What the peer writes is laid out behind what has come.                  *)
LEMMA SendKeepsInv ==
    ASSUME PlainTexts, IInv, Send
    PROVE  IInv'
<1>1. TypeOK /\ TypeOK'
  BY SendKeepsType DEF IInv
<1>2. PICK stream, at, pos : Laid(sent, stream, at) /\ Reached(stream, at, pos)
  BY DEF IInv
<1>3. PICK text \in Texts, sep \in Separators :
         sent' = Append(sent, text) /\ wire' = wire \o text \o sep
  BY DEF Send
<1>4. last_message' = last_message /\ Framed' = Framed
  BY DEF Send, Framed
<1> DEFINE f == Len(Framed)
           n == Len(sent)
           L == Len(stream)
           b == Begun(sent, at, f, pos)
           st == stream \o text
           s2 == st \o sep
<1>5. /\ stream \in Seq(Kinds) /\ L \in Nat /\ pos \in Nat /\ pos <= L
      /\ wire = SubSeq(stream, pos + 1, L) /\ Whole(sent, at, f, pos)
      /\ \A k \in 1 .. f : Framed[k] = sent[k]
      /\ last_message = SubSeq(stream, b + 1, pos)
  BY <1>2 DEF Laid, Reached
<1>6. sent \in Seq(Texts) /\ n \in Nat /\ f \in 0 .. n
  <2>1. sent \in Seq(Texts)
    BY <1>1 DEF TypeOK
  <2>2. f \in 0 .. n
    BY <1>5 DEF Whole
  <2> QED
    BY <2>1, <2>2
<1>7. /\ text \in Seq(Kinds) /\ Len(text) \in Nat /\ Len(text) >= 2 /\ sep \in Seq(Kinds)
      /\ Len(sep) \in Nat
  BY PlainText, SeparatorType
<1>8. PICK at2 : /\ Laid(Append(sent, text), s2, at2)
                 /\ \A k \in 1 .. n : at2[k] = at[k]
                 /\ at2[n + 1] = L
  BY <1>2, SendLays
<1>9. /\ Len(sent') = n + 1 /\ sent'[n + 1] = text
      /\ \A k \in 1 .. n : sent'[k] = sent[k]
  BY <1>3, <1>6, AppendProperties
<1>10. b \in Nat /\ b <= pos
  <2>1. PICK e : Spans(sent, stream, at, e)
    BY <1>2, LaidSpans
  <2>2. b \in 0 .. pos
    BY <1>5, <2>1, BegunIs
  <2> HIDE DEF b
  <2> QED
    BY <1>5, <2>2
<1>11. /\ st \in Seq(Kinds) /\ Len(st) = L + Len(text)
       /\ s2 \in Seq(Kinds) /\ Len(s2) = Len(st) + Len(sep)
  BY <1>5, <1>7, ConcatProperties
<1>12. wire' = SubSeq(s2, pos + 1, Len(s2))
  <2>1. wire \o text = SubSeq(st, pos + 1, Len(st))
    BY <1>5, <1>7, PartBehind
  <2>2. pos <= Len(st)
    BY <1>5, <1>7, <1>11
  <2> HIDE DEF st
  <2>3. SubSeq(st, pos + 1, Len(st)) \o sep = SubSeq(s2, pos + 1, Len(s2))
    BY <1>5, <1>7, <1>11, <2>2, PartBehind
  <2> QED
    BY <1>3, <2>1, <2>3 DEF s2
<1>13. Begun(sent', at2, f, pos) = b
  <2>1. CASE f < n
    <3>1. f + 1 \in 1 .. n /\ f < n + 1
      BY <1>6, <2>1
    <3>2. at2[f + 1] = at[f + 1]
      BY <1>8, <3>1
    <3> QED
      BY <1>9, <2>1, <3>1, <3>2 DEF Begun
  <2>2. CASE f = n
    <3>1. ~(f < n) /\ at2[f + 1] = L /\ ~(L < pos)
      BY <1>5, <1>6, <1>8, <2>2
    <3>2. b = pos
      BY <3>1 DEF Begun
    <3>3. Begun(sent', at2, f, pos) = pos
      BY <3>1 DEF Begun
    <3> QED
      BY <3>2, <3>3
  <2> QED
    BY <1>6, <2>1, <2>2
<1> HIDE DEF b
<1>14. last_message' = SubSeq(s2, b + 1, pos)
  <2>1. SubSeq(st, b + 1, pos) = SubSeq(stream, b + 1, pos)
    BY <1>5, <1>7, <1>10, PartBefore
  <2>2. pos <= Len(st)
    BY <1>5, <1>7, <1>11
  <2> HIDE DEF st
  <2>3. SubSeq(s2, b + 1, pos) = SubSeq(st, b + 1, pos)
    BY <1>5, <1>7, <1>10, <1>11, <2>2, PartBefore, SMTT(30)
  <2> QED
    BY <1>4, <1>5, <2>1, <2>3
<1>15. Whole(sent', at2, f, pos)
  <2>1. f \in 0 .. Len(sent')
    BY <1>6, <1>9
  <2>2. ASSUME NEW k \in 1 .. Len(sent')
        PROVE  k <= f <=> at2[k] + Len(sent'[k]) <= pos
    <3>1. CASE k \in 1 .. n
      <4>1. at2[k] = at[k] /\ sent'[k] = sent[k]
        BY <1>8, <1>9, <3>1
      <4> QED
        BY <1>5, <3>1, <4>1 DEF Whole
    <3>2. CASE k = n + 1
      <4>1. ~(k <= f)
        BY <1>6, <3>2
      <4>2. at2[k] + Len(sent'[k]) = L + Len(text)
        BY <1>8, <1>9, <3>2
      <4>3. ~(L + Len(text) <= pos)
        BY <1>5, <1>7
      <4> QED
        BY <4>1, <4>2, <4>3
    <3> QED
      BY <1>6, <1>9, <3>1, <3>2
  <2> QED
    BY <2>1, <2>2 DEF Whole
<1>16. \A k \in 1 .. f : Framed[k] = sent'[k]
  <2>1. \A k \in 1 .. f : k \in 1 .. n
    BY <1>6
  <2> QED
    BY <1>5, <1>9, <2>1
<1>17. pos \in 0 .. Len(s2)
  <2>1. Len(s2) = (L + Len(text)) + Len(sep)
    BY <1>11
  <2> HIDE DEF s2
  <2> QED
    BY <1>5, <1>7, <2>1
<1> HIDE DEF s2
<1>18. Reached(s2, at2, pos)'
  BY <1>4, <1>12, <1>13, <1>14, <1>15, <1>16, <1>17 DEF Reached
<1>19. Laid(sent, s2, at2)'
  BY <1>3, <1>8
<1> QED
  BY <1>1, <1>18, <1>19 DEF IInv

(* So all steps keep the invariant.                                        *)
LEMMA NextKeepsInv ==
    ASSUME PlainTexts, IInv, [Next]_vars
    PROVE  IInv'
<1>1. CASE Data
  BY <1>1, DataKeepsInv
<1>2. CASE Dequeue
  BY <1>2, DequeueKeepsInv
<1>3. CASE Send
  BY <1>3, SendKeepsInv
<1>4. CASE UNCHANGED vars
  <2>1. TypeOK /\ TypeOK'
    BY <1>4, NextKeepsType DEF IInv
  <2>2. Framed' = Framed
    BY <1>4 DEF vars, Framed
  <2>3. PICK stream, at, pos : Laid(sent, stream, at) /\ Reached(stream, at, pos)
    BY DEF IInv
  <2>4. Laid(sent, stream, at)' /\ Reached(stream, at, pos)'
    BY <1>4, <2>2, <2>3 DEF vars, Reached
  <2> QED
    BY <2>1, <2>4 DEF IInv
<1> QED
  BY <1>1, <1>2, <1>3, <1>4 DEF Next

-----------------------------------------------------------------------------
(* If the texts are those of plain objects, all the peer wrote is laid out *)
(* and reached up to some position, wherever the transport cut it.         *)
THEOREM Invariance ==
    ASSUME PlainTexts
    PROVE  Spec => []IInv
<1>1. IInv /\ [Next]_vars => IInv'
  BY NextKeepsInv
<1> QED
  BY <1>1, InitInv, PTL DEF Spec

(* A sequence that agrees with a longer one as far as it goes.             *)
LEMMA PrefixIs ==
    ASSUME NEW S, NEW s \in Seq(S), NEW t \in Seq(S), Len(s) <= Len(t),
           \A i \in 1 .. Len(s) : s[i] = t[i]
    PROVE  IsPrefix(s, t)
<1> DEFINE n == Len(s)
           v == SubSeq(t, 1, n)
<1>1. n \in Nat /\ n \in Int /\ 1 \in Int /\ Len(t) \in Nat
  OBVIOUS
<1>2. \A i \in 1 .. n : t[i] \in S
  <2>1. \A i \in 1 .. n : i \in 1 .. Len(t)
    BY <1>1
  <2> QED
    BY <2>1, ElementOfSeq
<1> HIDE DEF n
<1>3. /\ v \in Seq(S) /\ Len(v) = (IF 1 <= n THEN n - 1 + 1 ELSE 0)
      /\ \A i \in 1 .. n - 1 + 1 : v[i] = t[1 + i - 1]
  BY <1>1, <1>2, SubSeqProperties
<1> HIDE DEF v
<1>4. Len(v) = n /\ \A i \in 1 .. n : v[i] = t[i]
  <2>1. n - 1 + 1 = n /\ \A i \in 1 .. n : 1 + i - 1 = i
    BY <1>1
  <2> QED
    BY <1>1, <1>3, <2>1
<1>5. v = s
  <2>1. Len(v) = Len(s) /\ \A i \in 1 .. Len(v) : v[i] = s[i]
    BY <1>4 DEF n
  <2> QED
    BY <1>3, <2>1, SeqEqual
<1>6. SubSeq(s, 1, Len(s)) = s
  BY SubSeqFull
<1> QED
  BY <1>5, <1>6 DEF IsPrefix, v, n

(* However the transport cuts the stream, what message_complete enqueues   *)
(* are the messages of the peer, each once, in order and unchanged         *)
(* (add_data and message_complete, json-message-queue/index.js).           *)
THEOREM FramesAlwaysMessages ==
    ASSUME PlainTexts
    PROVE  Spec => []FramesAreMessages
<1>1. IInv => FramesAreMessages
  <2> SUFFICES ASSUME IInv PROVE FramesAreMessages
    OBVIOUS
  <2>1. PICK stream, at, pos : Laid(sent, stream, at) /\ Reached(stream, at, pos)
    BY DEF IInv
  <2> DEFINE F == Framed
             T == sent
  <2>2. F \in Seq(Seq(Kinds)) /\ Len(F) \in Nat
    BY FramedType DEF IInv
  <2>3. T \in Seq(Seq(Kinds))
    <3>1. T \in Seq(Texts) /\ Texts \subseteq Seq(Kinds)
      BY QueueAssumption DEF IInv, TypeOK
    <3>2. Len(T) \in Nat /\ T \in [1 .. Len(T) -> Texts]
      BY <3>1, LenProperties
    <3>3. T \in [1 .. Len(T) -> Seq(Kinds)]
      BY <3>1, <3>2
    <3> HIDE DEF T
    <3> QED
      BY <3>2, <3>3
  <2>4. Len(F) \in 0 .. Len(T) /\ \A k \in 1 .. Len(F) : F[k] = T[k]
    BY <2>1 DEF Reached, Whole
  <2> HIDE DEF F, T
  <2>5. Len(F) <= Len(T)
    BY <2>4
  <2>6. IsPrefix(F, T)
    BY <2>2, <2>3, <2>4, <2>5, PrefixIs
  <2> QED
    BY <2>6 DEF FramesAreMessages, F, T
<1> QED
  BY <1>1, Invariance, PTL

(* A message is enqueued with its last character: last_message is a proper *)
(* part of the next one, and nothing once all has arrived (the same).      *)
THEOREM NothingIsHeldBack ==
    ASSUME PlainTexts
    PROVE  Spec => []NothingHeldBack
<1>1. IInv => NothingHeldBack
  <2> SUFFICES ASSUME IInv PROVE NothingHeldBack
    OBVIOUS
  <2>1. PICK stream, at, pos : Laid(sent, stream, at) /\ Reached(stream, at, pos)
    BY DEF IInv
  <2> DEFINE f == Len(Framed)
             n == Len(sent)
             L == Len(stream)
             b == Begun(sent, at, f, pos)
  <2>2. /\ stream \in Seq(Kinds) /\ L \in Nat /\ pos \in Nat /\ pos <= L
        /\ wire = SubSeq(stream, pos + 1, L) /\ Whole(sent, at, f, pos)
        /\ last_message = SubSeq(stream, b + 1, pos)
    BY <2>1 DEF Laid, Reached
  <2>3. PICK e : Spans(sent, stream, at, e)
    BY <2>1, LaidSpans
  <2>4. /\ n \in Nat
        /\ \A k \in 1 .. n :
              /\ at[k] \in Nat /\ e[k] = at[k] + Len(sent[k]) /\ at[k] < e[k]
              /\ e[k] <= L /\ sent[k] \in Texts
              /\ \A p \in at[k] + 1 .. e[k] : stream[p] = sent[k][p - at[k]]
    BY <2>3 DEF Spans
  <2>5. f \in 0 .. n /\ \A k \in 1 .. n : k <= f <=> e[k] <= pos
    <3>1. f \in 0 .. n /\ \A k \in 1 .. n : k <= f <=> at[k] + Len(sent[k]) <= pos
      BY <2>2 DEF Whole
    <3> HIDE DEF f, n
    <3> QED
      BY <2>4, <3>1
  <2>6. ASSUME ~(f < n /\ at[f + 1] < pos) PROVE last_message = <<>>
    <3>1. b = pos
      BY <2>6 DEF Begun
    <3>2. SubSeq(stream, pos + 1, pos) = <<>>
      BY <2>2, EmptyPart
    <3> QED
      BY <2>2, <3>1, <3>2
  <2>7. ASSUME f < n PROVE IsStrictPrefix(last_message, sent[f + 1])
    <3> DEFINE t == sent[f + 1]
               o == at[f + 1]
    <3>1. /\ f + 1 \in 1 .. n /\ ~(f + 1 <= f)
      BY <2>4, <2>5, <2>7
    <3>2. /\ o \in Nat /\ e[f + 1] = o + Len(t) /\ t \in Texts /\ e[f + 1] <= L
          /\ ~(e[f + 1] <= pos)
          /\ \A p \in o + 1 .. e[f + 1] : stream[p] = t[p - o]
      BY <2>4, <2>5, <3>1
    <3>3. b = IF o < pos THEN o ELSE pos
      BY <2>7 DEF Begun
    <3> HIDE DEF t, o, b
    <3>4. t \in Seq(Kinds) /\ Len(t) \in Nat /\ Len(t) >= 2
      BY <3>2, PlainText
    <3> DEFINE u == SubSeq(stream, b + 1, pos)
    <3>5. b \in Nat /\ b <= pos /\ pos - b < Len(t)
      BY <2>2, <3>2, <3>3, <3>4
    <3>6. u \in Seq(Kinds) /\ Len(u) = pos - b /\ \A i \in 1 .. pos - b : u[i] = stream[b + i]
      BY <2>2, <3>5, PartOf
    <3> HIDE DEF u
    <3>7. ASSUME NEW i \in 1 .. Len(u) PROVE u[i] = t[i]
      <4>1. o < pos /\ b = o
        BY <2>2, <3>3, <3>6, <3>7
      <4>2. o + i \in o + 1 .. e[f + 1] /\ (o + i) - o = i
        BY <2>2, <3>2, <3>4, <3>5, <3>6, <4>1
      <4>3. stream[o + i] = t[i]
        BY <3>2, <4>2
      <4> QED
        BY <3>6, <4>1, <4>3
    <3>8. Len(u) < Len(t) /\ Len(u) <= Len(t)
      BY <2>2, <3>4, <3>5, <3>6
    <3>9. IsPrefix(u, t)
      BY <3>4, <3>6, <3>7, <3>8, PrefixIs
    <3>10. u # t
      BY <3>4, <3>8
    <3> QED
      BY <2>2, <3>9, <3>10 DEF IsStrictPrefix, t, u, b
  <2>8. wire = <<>> => f = n
    <3> SUFFICES ASSUME wire = <<>> PROVE f = n
      OBVIOUS
    <3>1. Len(SubSeq(stream, pos + 1, L)) = L - pos
      <4>1. L <= Len(stream)
        BY <2>2
      <4> HIDE DEF L
      <4> QED
        BY <2>2, <4>1, PartOf
    <3>2. L = pos
      <4>1. Len(wire) = 0
        OBVIOUS
      <4>2. L - pos = 0
        BY <2>2, <3>1, <4>1
      <4> HIDE DEF L
      <4> QED
        BY <2>2, <4>2
    <3> SUFFICES ASSUME f < n PROVE FALSE
      BY <2>4, <2>5
    <3>3. f + 1 \in 1 .. n /\ ~(f + 1 <= f)
      BY <2>4, <2>5
    <3>4. e[f + 1] <= L
      BY <2>4, <3>3
    <3> QED
      BY <2>5, <3>2, <3>3, <3>4
  <2> QED
    BY <2>6, <2>7, <2>8 DEF NothingHeldBack
<1> QED
  BY <1>1, Invariance, PTL
=============================================================================
