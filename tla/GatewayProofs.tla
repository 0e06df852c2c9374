------------------------------ MODULE GatewayProofs ------------------------------
(***************************************************************************)
(* Theorems about Gateway for any number of requests, models and targets,  *)
(* and any route and limits.  The invariant says what a request has asked  *)
(* for by the place it is at; that its plan holds what it may use, lemma   *)
(* PlanRouteIsUsable shows, by induction over the route.  And about the    *)
(* plan itself (DecidePlan): the order candidates are in, and the reason.  *)
(***************************************************************************)
EXTENDS Gateway, DecidePlan, FiniteSetTheorems, SequenceTheorems, WellFoundedInduction, TLAPS

(* A nonempty set of naturals has a least element. *)
LEMMA LeastNatural ==
  ASSUME NEW S \in SUBSET Nat, S # {}
  PROVE  \E x \in S : \A y \in S : x <= y
<1>1. PICK x \in S : \A y \in S : <<y, x>> \notin OpToRel(<, Nat)
  BY NatLessThanWellFounded, WFMin
<1>2. \A y \in S : ~(y < x)
  BY <1>1 DEF OpToRel
<1>3. QED
  BY <1>2

(* A set that holds zero, and with each number the next, holds them all. *)
LEMMA AllNaturals ==
  ASSUME NEW S, 0 \in S, \A n \in Nat : n \in S => n + 1 \in S
  PROVE  Nat \subseteq S
<1> SUFFICES ASSUME NEW k \in Nat \ S
             PROVE  FALSE
  OBVIOUS
<1>1. PICK n \in Nat \ S : \A y \in Nat \ S : n <= y
  <2>1. Nat \ S \in SUBSET Nat /\ Nat \ S # {}
    OBVIOUS
  <2>2. QED
    BY <2>1, LeastNatural
<1>2. n # 0
  BY <1>1
<1>3. n - 1 \in Nat /\ n - 1 \in S
  BY <1>1, <1>2
<1>4. (n - 1) + 1 \in S
  BY <1>3
<1>5. QED
  BY <1>1, <1>4

-----------------------------------------------------------------------------
(* The table that Those reads its last entry of. *)
Row(ms, S, g, n) ==
  IF n = 0 THEN <<>> ELSE IF ms[n] \in S THEN Append(g[n-1], ms[n]) ELSE g[n-1]
Table(ms, S, g) == g = [n \in 0..Len(ms) |-> Row(ms, S, g, n)]

(* There is such a table: row after row, from the ones before. *)
LEMMA TableExists ==
  ASSUME NEW M, NEW ms \in Seq(M), NEW S
  PROVE  \E g : Table(ms, S, g)
<1> DEFINE Upto(k) == \E g : g = [n \in 0..k |-> Row(ms, S, g, n)]
           All == {k \in Nat : Upto(k)}
<1>1. 0 \in All
  <2> DEFINE g == [n \in 0..0 |-> <<>>]
  <2>1. \A n \in 0..0 : Row(ms, S, g, n) = <<>>
    BY DEF Row
  <2>2. g = [n \in 0..0 |-> Row(ms, S, g, n)]
    BY <2>1
  <2> HIDE DEF g
  <2>3. QED
    BY <2>2
<1>2. ASSUME NEW k \in Nat, k \in All
      PROVE  k + 1 \in All
  <2>1. PICK g : g = [n \in 0..k |-> Row(ms, S, g, n)]
    BY <1>2
  <2> DEFINE h == [n \in 0..(k+1) |-> IF n = k + 1 THEN Row(ms, S, g, k + 1) ELSE g[n]]
  <2>2. ASSUME NEW n \in 0..(k+1)
        PROVE  h[n] = Row(ms, S, h, n)
    <3>1. n # 0 => n - 1 \in 0..k /\ h[n - 1] = g[n - 1]
      OBVIOUS
    <3>2. CASE n = k + 1
      BY <3>1, <3>2 DEF Row
    <3>3. CASE n # k + 1
      <4>1. n \in 0..k /\ h[n] = g[n]
        BY <3>3
      <4>2. g[n] = Row(ms, S, g, n)
        BY <2>1, <4>1
      <4>3. QED
        BY <3>1, <4>1, <4>2 DEF Row
    <3>4. QED
      BY <3>2, <3>3
  <2>3. h = [n \in 0..(k+1) |-> Row(ms, S, h, n)]
    <3>1. h = [n \in 0..(k+1) |-> h[n]]
      OBVIOUS
    <3> HIDE DEF h
    <3>2. QED
      BY <2>2, <3>1
  <2> HIDE DEF h
  <2>4. Upto(k + 1)
    BY <2>3
  <2>5. QED
    BY <2>4
<1>3. Len(ms) \in All
  <2> HIDE DEF All
  <2>1. Nat \subseteq All
    BY <1>1, <1>2, AllNaturals
  <2>2. QED
    BY <2>1
<1>4. QED
  BY <1>3 DEF Table

(* q are the members of S among the first n of ms, in their order: where h
   says they come from. *)
Picks(ms, S, q, n, h) ==
  /\ h \in [1..Len(q) -> 1..n]
  /\ \A j, k \in 1..Len(q) : j < k => h[j] < h[k]
  /\ \A k \in 1..Len(q) : ms[h[k]] = q[k] /\ ms[h[k]] \in S
  /\ \A i \in 1..n : ms[i] \in S => \E k \in 1..Len(q) : h[k] = i

(* One more row. *)
LEMMA PicksOneMore ==
  ASSUME NEW M, NEW ms \in Seq(M), NEW S, NEW n \in Nat, n + 1 <= Len(ms),
         NEW q \in Seq(M), NEW h, Picks(ms, S, q, n, h)
  PROVE  IF ms[n+1] \in S
         THEN \E hh : Picks(ms, S, Append(q, ms[n+1]), n + 1, hh)
         ELSE \E hh : Picks(ms, S, q, n + 1, hh)
<1>l. PICK L \in Nat : L = Len(q)
  OBVIOUS
<1>0. /\ h \in [1..L -> 1..n] /\ Len(q) = L
      /\ \A j, k \in 1..L : j < k => h[j] < h[k]
      /\ \A k \in 1..L : ms[h[k]] = q[k] /\ ms[h[k]] \in S
      /\ \A i \in 1..n : ms[i] \in S => \E k \in 1..L : h[k] = i
  BY <1>l DEF Picks
<1>1. CASE ms[n+1] \notin S
  <2>1. Picks(ms, S, q, n + 1, h)
    <3>1. h \in [1..L -> 1..(n+1)]
      BY <1>0
    <3>2. \A i \in 1..(n+1) : ms[i] \in S => i \in 1..n
      BY <1>1
    <3>3. QED
      BY <1>0, <3>1, <3>2 DEF Picks
  <2>2. QED
    BY <1>1, <2>1
<1>2. CASE ms[n+1] \in S
  <2> DEFINE r == Append(q, ms[n+1])
             hh == [k \in 1..(L+1) |-> IF k = L + 1 THEN n + 1 ELSE h[k]]
  <2>1. /\ Len(r) = L + 1 /\ r[L+1] = ms[n+1]
        /\ \A k \in 1..L : r[k] = q[k]
    BY <1>l, <1>0
  <2>2. /\ hh[L+1] = n + 1
        /\ \A k \in 1..L : hh[k] = h[k] /\ hh[k] \in 1..n
        /\ hh \in [1..(L+1) -> 1..(n+1)]
    <3>1. \A k \in 1..L : h[k] \in 1..n /\ k # L + 1 /\ k \in 1..(L+1)
      BY <1>0
    <3>2. ASSUME NEW k \in 1..(L+1)
          PROVE  hh[k] \in 1..(n+1)
      <4>1. k # L + 1 => k \in 1..L
        OBVIOUS
      <4>2. QED
        BY <3>1, <4>1
    <3>3. QED
      BY <3>1, <3>2
  <2> HIDE DEF r, hh
  <2>3. \A j, k \in 1..(L+1) : j < k => hh[j] < hh[k]
    <3>1. ASSUME NEW j \in 1..(L+1), NEW k \in 1..(L+1), j < k
          PROVE  hh[j] < hh[k]
      <4>1. j \in 1..L /\ hh[j] = h[j] /\ h[j] \in 1..n
        BY <1>0, <2>2, <3>1
      <4>2. CASE k = L + 1
        BY <2>2, <4>1, <4>2
      <4>3. CASE k # L + 1
        <5>1. k \in 1..L
          BY <1>0, <4>3
        <5>2. h[j] < h[k] /\ hh[k] = h[k]
          BY <1>0, <2>2, <3>1, <4>1, <5>1
        <5>3. QED
          BY <4>1, <5>2
      <4>4. QED
        BY <4>2, <4>3
    <3>2. QED
      BY <3>1
  <2>4. ASSUME NEW k \in 1..(L+1)
        PROVE  ms[hh[k]] = r[k] /\ ms[hh[k]] \in S
    <3>1. CASE k = L + 1
      BY <1>2, <2>1, <2>2, <3>1
    <3>2. CASE k # L + 1
      <4>1. k \in 1..L
        BY <1>0, <3>2
      <4>2. QED
        BY <1>0, <2>1, <2>2, <4>1
    <3>3. QED
      BY <3>1, <3>2
  <2>5. ASSUME NEW i \in 1..(n+1), ms[i] \in S
        PROVE  \E k \in 1..(L+1) : hh[k] = i
    <3>1. CASE i = n + 1
      <4>1. L + 1 \in 1..(L+1)
        BY <1>0
      <4>2. QED
        BY <2>2, <3>1, <4>1
    <3>2. CASE i # n + 1
      <4>1. i \in 1..n
        BY <3>2
      <4>2. PICK k \in 1..L : h[k] = i
        BY <1>0, <2>5, <4>1
      <4>3. k \in 1..(L+1) /\ hh[k] = i
        BY <1>0, <2>2, <4>2
      <4>4. QED
        BY <4>3
    <3>3. QED
      BY <3>1, <3>2
  <2>6. Picks(ms, S, r, n + 1, hh)
    BY <2>1, <2>2, <2>3, <2>4, <2>5 DEF Picks
  <2>7. Picks(ms, S, Append(q, ms[n+1]), n + 1, hh)
    BY <2>6 DEF r
  <2>8. QED
    BY <1>2, <2>7
<1>3. QED
  BY <1>1, <1>2

(* What Those is: the members of ms that are in S, each where it was among
   them. *)
LEMMA ThosePicks ==
  ASSUME NEW M, NEW ms \in Seq(M), NEW S
  PROVE  /\ Those(ms, S) \in Seq(M)
         /\ \E h : Picks(ms, S, Those(ms, S), Len(ms), h)
<1> DEFINE upTo == CHOOSE g : Table(ms, S, g)
           Good(k) == upTo[k] \in Seq(M) /\ \E h : Picks(ms, S, upTo[k], k, h)
           All == {k \in Nat : k <= Len(ms) => Good(k)}
<1>1. Those(ms, S) = upTo[Len(ms)]
  BY DEF Those, Table, Row
<1>2. Table(ms, S, upTo)
  BY TableExists, Zenon
<1> HIDE DEF upTo
<1>3. \A n \in 0..Len(ms) : upTo[n] = Row(ms, S, upTo, n)
  BY <1>2 DEF Table
<1>4. 0 \in All
  <2>1. upTo[0] = <<>>
    BY <1>3 DEF Row
  <2>2. Picks(ms, S, <<>>, 0, [k \in 1..0 |-> 0])
    BY DEF Picks
  <2>3. Good(0)
    <3>1. <<>> \in Seq(M)
      OBVIOUS
    <3>2. QED
      BY <2>1, <2>2, <3>1
  <2>4. QED
    BY <2>3
<1>5. ASSUME NEW n \in Nat, n \in All
      PROVE  n + 1 \in All
  <2> SUFFICES ASSUME n + 1 <= Len(ms)
               PROVE  Good(n + 1)
    OBVIOUS
  <2>1. Good(n)
    BY <1>5
  <2> DEFINE q == upTo[n]
  <2>2. PICK h : Picks(ms, S, q, n, h)
    BY <2>1
  <2>3. upTo[n+1] = IF ms[n+1] \in S THEN Append(q, ms[n+1]) ELSE q
    BY <1>3 DEF Row
  <2>4. ms[n+1] \in M
    OBVIOUS
  <2>5. q \in Seq(M)
    BY <2>1
  <2> HIDE DEF q
  <2>6. upTo[n+1] \in Seq(M)
    BY <2>3, <2>4, <2>5
  <2>7. \E hh : Picks(ms, S, upTo[n+1], n + 1, hh)
    BY <2>2, <2>3, <2>5, PicksOneMore
  <2>8. QED
    BY <2>6, <2>7
<1>6. Len(ms) \in All
  <2> HIDE DEF All
  <2>1. Nat \subseteq All
    BY <1>4, <1>5, AllNaturals
  <2>2. QED
    BY <2>1
<1>7. QED
  BY <1>1, <1>6

(* So it has those members, and no others. *)
LEMMA ThoseMembers ==
  ASSUME NEW M, NEW ms \in Seq(M), NEW S
  PROVE  /\ Those(ms, S) \in Seq(M \cap S)
         /\ ToSet(Those(ms, S)) = ToSet(ms) \cap S
<1> DEFINE q == Those(ms, S)
<1>1. q \in Seq(M)
  BY ThosePicks
<1>2. PICK h : Picks(ms, S, q, Len(ms), h)
  BY ThosePicks
<1> HIDE DEF q
<1>3. \A k \in 1..Len(q) : q[k] \in M \cap S
  BY <1>1, <1>2 DEF Picks
<1>4. q \in Seq(M \cap S)
  BY <1>1, <1>3
<1>5. ToSet(q) = ToSet(ms) \cap S
  <2>1. ToSet(q) \subseteq ToSet(ms) \cap S
    BY <1>1, <1>2 DEF Picks, ToSet
  <2>2. ASSUME NEW i \in 1..Len(ms), ms[i] \in S
        PROVE  ms[i] \in ToSet(q)
    <3>1. PICK k \in 1..Len(q) : h[k] = i
      BY <1>2, <2>2 DEF Picks
    <3>2. q[k] = ms[i]
      BY <1>2, <3>1 DEF Picks
    <3>3. QED
      BY <1>1, <3>2 DEF ToSet
  <2>3. QED
    BY <2>1, <2>2 DEF ToSet
<1>6. QED
  BY <1>4, <1>5 DEF q

(* The plan holds what the caller may use, and the first candidate is there. *)
UsablePlan(p, isTrusted) ==
  IF p.status = "planned"
  THEN /\ p.order \in Seq({m \in Models : Usable(m, isTrusted)}) /\ p.order # <<>>
       /\ p.order \in Seq(Models)
  ELSE p.status \in {"403", "413", "503"}

(* plan() for the model she names. *)
LEMMA PlanModelIsUsable ==
  ASSUME NEW m \in Models, NEW isTrusted \in BOOLEAN
  PROVE  UsablePlan(PlanModel(m, isTrusted), isTrusted)
<1>1. CASE TargetOf[m] \in Unset \/ ~Usable(m, isTrusted)
  BY <1>1 DEF PlanModel, Refused, UsablePlan
<1>2. CASE TargetOf[m] \notin Unset /\ Usable(m, isTrusted)
  <2>1. PlanModel(m, isTrusted) = Planned(<<m>>, "requested")
    BY <1>2 DEF PlanModel
  <2>2. <<m>> \in Seq({x \in Models : Usable(x, isTrusted)}) /\ <<m>> # <<>> /\ <<m>> \in Seq(Models)
    BY <1>2
  <2>3. QED
    BY <2>1, <2>2 DEF Planned, UsablePlan
<1>3. QED
  BY <1>1, <1>2

(* plan() for a route. *)
LEMMA PlanRouteIsUsable ==
  ASSUME NEW route \in Seq(Models), NEW isTrusted \in BOOLEAN, NEW long \in BOOLEAN, NEW ups
  PROVE  UsablePlan(PlanRoute(route, isTrusted, long, ups), isTrusted)
<1> DEFINE U == {m \in Models : Usable(m, isTrusted)}
           ms == Eligible(route, isTrusted)
           order == Order(ms, long, ups)
<1>1. ms \in Seq(U)
  <2>1. Those(route, U) \in Seq(Models \cap U)
    BY ThoseMembers
  <2>2. Models \cap U = U
    OBVIOUS
  <2>3. QED
    BY <2>1, <2>2 DEF Eligible
<1>2. ASSUME NEW standing
      PROVE  InStanding(ms, standing, long, ups) \in Seq(U)
  <2> HIDE DEF ms, U
  <2>1. InStanding(ms, standing, long, ups) \in Seq(U)
    BY <1>1, ThosePicks DEF InStanding
  <2>2. QED
    BY <2>1
<1> HIDE DEF ms
<1>3. order \in Seq(U)
  BY <1>2 DEF Order
<1> HIDE DEF order
<1>4. order \in Seq(Models)
  BY <1>3
<1>5. PlanRoute(route, isTrusted, long, ups)
        = IF order # <<>> THEN Planned(order, Reason(ms, order, long, ups))
          ELSE IF ms # <<>> THEN Refused("413") ELSE Refused("503")
  BY DEF PlanRoute, ms, order
<1>6. CASE order # <<>>
  BY <1>3, <1>4, <1>5, <1>6 DEF Planned, UsablePlan
<1>7. CASE order = <<>>
  BY <1>5, <1>7 DEF Refused, UsablePlan
<1>8. QED
  BY <1>6, <1>7

-----------------------------------------------------------------------------
(* Who joins a line is in it, once. *)
LEMMA AppendToLine ==
  ASSUME NEW S, NEW s \in Seq(S), NEW c \in S, IsInjective(s), c \notin ToSet(s)
  PROVE  /\ Append(s, c) \in Seq(S) /\ IsInjective(Append(s, c))
         /\ ToSet(Append(s, c)) = ToSet(s) \cup {c}
<1> DEFINE r == Append(s, c)
<1>l. PICK L \in Nat : L = Len(s)
  OBVIOUS
<1>1. /\ r \in Seq(S) /\ Len(r) = L + 1 /\ r[L+1] = c
      /\ \A i \in 1..L : r[i] = s[i]
      /\ DOMAIN r = 1..(L+1) /\ DOMAIN s = 1..L
  BY <1>l
<1> HIDE DEF r
<1>2. \A i \in 1..(L+1) : i = L + 1 \/ i \in 1..L
  OBVIOUS
<1>3. \A i \in 1..L : s[i] # c
  BY <1>1 DEF ToSet
<1>4. IsInjective(r)
  BY <1>1, <1>2, <1>3 DEF IsInjective
<1>5. ToSet(r) = ToSet(s) \cup {c}
  <2>1. L + 1 \in 1..(L+1) /\ \A i \in 1..L : i \in 1..(L+1)
    OBVIOUS
  <2>2. QED
    BY <1>1, <1>2, <2>1 DEF ToSet
<1>6. QED
  BY <1>1, <1>4, <1>5 DEF r

(* The place of an entry, and the sequence without it. *)
LEMMA WithoutPlace ==
  ASSUME NEW S, NEW s \in Seq(S), NEW i \in 1..Len(s), IsInjective(s)
  PROVE  /\ RemoveAt(s, i) \in Seq(S) /\ IsInjective(RemoveAt(s, i))
         /\ ToSet(RemoveAt(s, i)) = ToSet(s) \ {s[i]}
<1> DEFINE r == RemoveAt(s, i)
<1>l. PICK L \in Nat : L = Len(s)
  OBVIOUS
<1>0. i \in 1..L
  BY <1>l
<1>1. /\ r \in Seq(S) /\ DOMAIN r = 1..(L-1) /\ DOMAIN s = 1..L
      /\ \A k \in 1..(L-1) : r[k] = IF k < i THEN s[k] ELSE s[k+1]
  <2> DEFINE a == SubSeq(s, 1, i-1)
             b == SubSeq(s, i+1, L)
  <2>1. /\ a \in Seq(S) /\ Len(a) = i - 1
        /\ \A k \in 1..(i-1) : a[k] = s[k]
    BY <1>l, <1>0
  <2>2. /\ b \in Seq(S) /\ Len(b) = L - i
        /\ \A k \in 1..(L-i) : b[k] = s[k+i]
    BY <1>l, <1>0
  <2>3. r = a \o b
    BY <1>l DEF RemoveAt
  <2> HIDE DEF a, b, r
  <2>4. /\ r \in Seq(S) /\ Len(r) = L - 1
        /\ \A k \in 1..(L-1) : r[k] = IF k <= i - 1 THEN a[k] ELSE b[k - (i-1)]
    BY <1>0, <2>1, <2>2, <2>3, ConcatProperties
  <2>5. ASSUME NEW k \in 1..(L-1)
        PROVE  r[k] = IF k < i THEN s[k] ELSE s[k+1]
    <3>1. CASE k < i
      <4>1. k \in 1..(i-1) /\ k <= i - 1
        BY <1>0, <3>1
      <4>2. QED
        BY <2>1, <2>4, <3>1, <4>1
    <3>2. CASE ~(k < i)
      <4>1. k - (i-1) \in 1..(L-i) /\ ~(k <= i - 1) /\ (k - (i-1)) + i = k + 1
        BY <1>0, <3>2
      <4>2. r[k] = b[k - (i-1)] /\ b[k - (i-1)] = s[k+1]
        BY <2>2, <2>4, <4>1
      <4>3. QED
        BY <3>2, <4>2
    <3>3. QED
      BY <3>1, <3>2
  <2>6. QED
    BY <1>l, <2>4, <2>5
<1> HIDE DEF r
<1>2. IsInjective(r)
  <2>1. ASSUME NEW j \in 1..(L-1), NEW k \in 1..(L-1), r[j] = r[k]
        PROVE  j = k
    <3>1. \A x, y \in 1..L : s[x] = s[y] => x = y
      BY <1>1 DEF IsInjective
    <3>2. j \in 1..L /\ k \in 1..L /\ j + 1 \in 1..L /\ k + 1 \in 1..L
      BY <1>0
    <3>3. QED
      BY <1>0, <1>1, <2>1, <3>1, <3>2
  <2>2. QED
    BY <1>1, <2>1 DEF IsInjective
<1>3. ToSet(r) = ToSet(s) \ {s[i]}
  <2>1. ASSUME NEW k \in 1..(L-1)
        PROVE  r[k] \in ToSet(s) \ {s[i]}
    <3>1. PICK j \in 1..L : r[k] = s[j] /\ j # i
      <4>1. CASE k < i
        BY <1>0, <1>1, <4>1
      <4>2. CASE ~(k < i)
        <5>1. k + 1 \in 1..L /\ k + 1 # i
          BY <1>0, <4>2
        <5>2. QED
          BY <1>1, <4>2, <5>1
      <4>3. QED
        BY <4>1, <4>2
    <3>2. s[j] # s[i]
      BY <1>0, <1>1, <3>1 DEF IsInjective
    <3>3. QED
      BY <1>1, <3>1, <3>2 DEF ToSet
  <2>2. ASSUME NEW j \in 1..L, s[j] # s[i]
        PROVE  s[j] \in ToSet(r)
    <3>1. CASE j < i
      <4>1. j \in 1..(L-1) /\ r[j] = s[j]
        BY <1>0, <1>1, <3>1
      <4>2. QED
        BY <1>1, <4>1 DEF ToSet
    <3>2. CASE j > i
      <4>1. j - 1 \in 1..(L-1) /\ ~(j - 1 < i) /\ (j - 1) + 1 = j
        BY <1>0, <3>2
      <4>2. r[j - 1] = s[j]
        BY <1>1, <4>1
      <4>3. QED
        BY <1>1, <4>1, <4>2 DEF ToSet
    <3>3. QED
      BY <1>0, <2>2, <3>1, <3>2
  <2>3. QED
    BY <1>1, <2>1, <2>2 DEF ToSet
<1>4. QED
  BY <1>1, <1>2, <1>3 DEF r

(* Who leaves a line is in it no more, and the others are. *)
LEMMA RemoveFromLine ==
  ASSUME NEW S, NEW s \in Seq(S), NEW c \in ToSet(s), IsInjective(s)
  PROVE  /\ RemoveFirst(s, c) \in Seq(S) /\ IsInjective(RemoveFirst(s, c))
         /\ ToSet(RemoveFirst(s, c)) = ToSet(s) \ {c}
<1> DEFINE I == {i \in 1..Len(s) : s[i] = c}
<1>1. I # {} /\ I \in SUBSET Nat
  BY DEF ToSet
<1>2. \E i \in I : \A y \in I : i <= y
  BY <1>1, LeastNatural
<1>3. Min(I) \in I
  <2> HIDE DEF I
  <2>1. Min(I) = CHOOSE x \in I : \A y \in I : x <= y
    BY DEF Min
  <2>2. QED
    BY <1>2, <2>1
<1>4. RemoveFirst(s, c) = RemoveAt(s, Min(I))
  BY <1>1 DEF RemoveFirst, SelectInSeq
<1>5. QED
  <2> DEFINE i == Min(I)
  <2>1. i \in 1..Len(s) /\ s[i] = c
    BY <1>3
  <2> HIDE DEF i, I
  <2>2. RemoveFirst(s, c) = RemoveAt(s, i)
    BY <1>4 DEF i
  <2>3. QED
    BY <2>1, <2>2, WithoutPlace

(* ... whose front is let in. *)
LEMMA HeadOfLine ==
  ASSUME NEW S, NEW s \in Seq(S), s # <<>>, IsInjective(s)
  PROVE  /\ Head(s) \in ToSet(s)
         /\ Tail(s) \in Seq(S) /\ IsInjective(Tail(s))
         /\ ToSet(Tail(s)) = ToSet(s) \ {Head(s)}
<1>1. 1 \in 1..Len(s) /\ Head(s) = s[1]
  OBVIOUS
<1>2. Tail(s) = RemoveAt(s, 1)
  <2>1. SubSeq(s, 1, 1 - 1) = <<>>
    BY SubSeqEmpty
  <2>2. SubSeq(s, 1 + 1, Len(s)) = Tail(s)
    BY <1>1, SubSeqFull, HeadTailOfSubSeq
  <2>3. Tail(s) \in Seq(S)
    BY HeadTailProperties
  <2>4. <<>> \o Tail(s) = Tail(s)
    BY <2>3, ConcatEmptySeq
  <2>5. RemoveAt(s, 1) = <<>> \o Tail(s)
    BY <2>1, <2>2 DEF RemoveAt
  <2>6. QED
    BY <2>4, <2>5
<1>3. s[1] \in ToSet(s)
  BY <1>1 DEF ToSet
<1>4. /\ RemoveAt(s, 1) \in Seq(S) /\ IsInjective(RemoveAt(s, 1))
      /\ ToSet(RemoveAt(s, 1)) = ToSet(s) \ {s[1]}
  BY <1>1, WithoutPlace
<1>5. QED
  BY <1>1, <1>2, <1>3, <1>4

-----------------------------------------------------------------------------
Waits(t) == At(t, {"queued"})
Runs(t) == At(t, {"asking", "relaying"})
Active == {c \in Calls : stage[c] \notin {"idle", "ended"}}

(* The two sides of a target's gate. *)
WaitAt(t) ==
  waiting[t] = Cardinality(Waits(t)) /\ ToSet(line[t]) = Waits(t) /\ IsInjective(line[t])
RunAt(t) ==
  running[t] = Cardinality(Runs(t)) /\ inside[t] = Runs(t) /\ Together(t, inside[t])

(* The models of the first n candidates. *)
Firsts(c, n) == {plan[c][i] : i \in 1..n}

(* Where a call is says whom it has asked: the candidates before the one it
   waits for, then that one too.  Until it ends it has neither an answer to
   show nor a code or a finish, but for a stream that has begun; and how it
   ended is as FailureIsLastResort and NoFalseSuccess have it. *)
Placed(c) ==
  /\ \A i \in 1..Len(plan[c]) : Usable(plan[c][i], trusted[c])
  /\ stage[c] \in {"idle", "reading"} => plan[c] = <<>> /\ asked[c] = {} /\ seen[c] = NoModel
  /\ stage[c] \in {"queued", "asking", "relaying"} => pos[c] \in 1..Len(plan[c])
  /\ stage[c] = "queued" => asked[c] = Firsts(c, pos[c] - 1)
  /\ stage[c] \in {"asking", "relaying"} => asked[c] = Firsts(c, pos[c])
  /\ asked[c] \subseteq ToSet(plan[c])
Shown(c) ==
  /\ seen[c] # NoModel => stage[c] \in {"relaying", "ended"}
  /\ stage[c] = "relaying" => seen[c] # NoModel
  /\ stage[c] \notin {"relaying", "ended"} => code[c] = "500"
  /\ stage[c] # "ended" => finish[c] = "none"
EndedWell(c) ==
  stage[c] = "ended" =>
    /\ code[c] \in {"5xx", "502"} => asked[c] = ToSet(plan[c])
    /\ asked[c] # {} /\ finish[c] \notin {"error", "abort"} => seen[c] # NoModel /\ code[c] = "200"
CallIsSound(c) == Placed(c) /\ Shown(c) /\ EndedWell(c)

IInv ==
  /\ TypeOK
  /\ inflight = Cardinality(Active)
  /\ \A t \in Targets : WaitAt(t) /\ RunAt(t)
  /\ \A c \in Calls : CallIsSound(c)

(* A step is about one call; this is what it leaves alone of another. *)
Untouched(d) ==
  /\ stage'[d] = stage[d] /\ trusted'[d] = trusted[d] /\ plan'[d] = plan[d] /\ pos'[d] = pos[d]
  /\ asked'[d] = asked[d] /\ seen'[d] = seen[d] /\ code'[d] = code[d] /\ finish'[d] = finish[d]

(* A call that is left alone stays as it should be. *)
LEMMA UntouchedIsSound ==
  ASSUME NEW d \in Calls, CallIsSound(d), Untouched(d)
  PROVE  CallIsSound(d)'
<1>1. Placed(d)'
  <2>1. \A n : Firsts(d, n)' = Firsts(d, n)
    BY DEF Untouched, Firsts
  <2>2. QED
    BY <2>1 DEF CallIsSound, Untouched, Placed, ToSet
<1>2. Shown(d)'
  BY DEF CallIsSound, Untouched, Shown
<1>3. EndedWell(d)'
  BY DEF CallIsSound, Untouched, EndedWell, ToSet
<1>4. QED
  BY <1>1, <1>2, <1>3 DEF CallIsSound

(* Nobody moves but the call the step is about. *)
LEMMA PlacesMove ==
  ASSUME NEW c \in Calls, \A d \in Calls \ {c} : Untouched(d), NEW t, NEW S
  PROVE  At(t, S)' = IF stage'[c] \in S /\ Target(c)' = t THEN At(t, S) \cup {c}
                                                          ELSE At(t, S) \ {c}
<1>1. \A d \in Calls \ {c} : stage'[d] = stage[d] /\ Target(d)' = Target(d)
  BY DEF Untouched, Target, Model
<1>2. QED
  BY <1>1 DEF At

(* One more, one less. *)
LEMMA CountMoves ==
  ASSUME NEW S \in SUBSET Calls, NEW c \in Calls
  PROVE  /\ Cardinality(S) \in Nat
         /\ c \notin S => Cardinality(S \cup {c}) = Cardinality(S) + 1
         /\ c \in S => Cardinality(S \ {c}) = Cardinality(S) - 1 /\ Cardinality(S) > 0
<1>1. IsFiniteSet(S)
  BY GatewayAssumption, FS_Subset
<1>2. Cardinality(S) \in Nat /\ (S # {} => Cardinality(S) # 0)
  BY <1>1, FS_CardinalityType, FS_EmptySet
<1>3. c \notin S => Cardinality(S \cup {c}) = Cardinality(S) + 1
  BY <1>1, FS_AddElement
<1>4. c \in S => Cardinality(S \ {c}) = Cardinality(S) - 1
  BY <1>1, FS_RemoveElement
<1>5. QED
  BY <1>2, <1>3, <1>4

(* Fewer requests of those that may be at a target together may be there. *)
LEMMA TogetherLess ==
  ASSUME NEW t \in Targets, NEW S \in SUBSET Calls, Together(t, S), NEW T \in SUBSET S
  PROVE  Together(t, T)
<1>1. IsFiniteSet(S)
  BY GatewayAssumption, FS_Subset
<1>2. Cardinality(T) <= Cardinality(S) /\ Cardinality(S) \in Nat /\ Cardinality(T) \in Nat
  BY <1>1, FS_Subset, FS_CardinalityType
<1>3. Slots[t] \in Nat
  BY GatewayAssumption
<1>4. QED
  BY <1>2, <1>3 DEF Together

(* A target's line is as long as it was, or one longer or shorter. *)
LEMMA WaitStays ==
  ASSUME NEW t \in Targets, WaitAt(t), Waits(t)' = Waits(t),
         line'[t] = line[t], waiting'[t] = waiting[t]
  PROVE  WaitAt(t)'
  BY DEF WaitAt, ToSet, IsInjective

(* Who joins the line waits. *)
LEMMA WaitJoins ==
  ASSUME NEW t \in Targets, NEW c \in Calls, WaitAt(t), line[t] \in Seq(Calls),
         waiting[t] \in Nat, c \notin Waits(t), Waits(t)' = Waits(t) \cup {c},
         line'[t] = Append(line[t], c), waiting'[t] = waiting[t] + 1
  PROVE  WaitAt(t)' /\ line'[t] \in Seq(Calls) /\ waiting'[t] \in Nat
<1>1. Waits(t) \in SUBSET Calls
  BY DEF Waits, At
<1>2. Cardinality(Waits(t) \cup {c}) = Cardinality(Waits(t)) + 1
  BY <1>1, CountMoves
<1>3. /\ Append(line[t], c) \in Seq(Calls) /\ IsInjective(Append(line[t], c))
      /\ ToSet(Append(line[t], c)) = ToSet(line[t]) \cup {c}
  BY AppendToLine DEF WaitAt
<1>4. IsInjective(line[t])' /\ ToSet(line[t])' = ToSet(line[t]) \cup {c}
  BY <1>3 DEF IsInjective, ToSet
<1>5. QED
  BY <1>2, <1>3, <1>4 DEF WaitAt

(* Who leaves it, at its front or not, does not. *)
LEMMA WaitLeaves ==
  ASSUME NEW t \in Targets, NEW c \in Waits(t), WaitAt(t), line[t] \in Seq(Calls),
         waiting[t] \in Nat, Waits(t)' = Waits(t) \ {c}, waiting'[t] = waiting[t] - 1,
         \/ line'[t] = RemoveFirst(line[t], c)
         \/ line[t] # <<>> /\ c = Head(line[t]) /\ line'[t] = Tail(line[t])
  PROVE  WaitAt(t)' /\ line'[t] \in Seq(Calls) /\ waiting'[t] \in Nat
<1>1. Waits(t) \in SUBSET Calls
  BY DEF Waits, At
<1>2. Cardinality(Waits(t) \ {c}) = Cardinality(Waits(t)) - 1 /\ Cardinality(Waits(t)) > 0
  BY <1>1, CountMoves
<1>3. /\ line'[t] \in Seq(Calls) /\ IsInjective(line'[t])
      /\ ToSet(line'[t]) = ToSet(line[t]) \ {c}
  <2>1. CASE line'[t] = RemoveFirst(line[t], c)
    BY <2>1, RemoveFromLine DEF WaitAt
  <2>2. CASE line[t] # <<>> /\ c = Head(line[t]) /\ line'[t] = Tail(line[t])
    BY <2>2, HeadOfLine DEF WaitAt
  <2>3. QED
    BY <2>1, <2>2
<1>4. QED
  BY <1>2, <1>3 DEF WaitAt

(* Those past the gate are who they were, or one more, or one less. *)
LEMMA RunStays ==
  ASSUME NEW t \in Targets, RunAt(t), Runs(t)' = Runs(t), inside'[t] = inside[t],
         running'[t] = running[t], \A d \in Runs(t) : Model(d)' = Model(d)
  PROVE  RunAt(t)'
<1>1. Slots[t] # 0 => Cardinality(inside'[t]) <= Slots[t]
  BY DEF RunAt, Together
<1>2. Exclusive[t] => \A c, d \in inside'[t] : Model(c)' = Model(d)'
  BY DEF RunAt, Together
<1>3. QED
  BY <1>1, <1>2 DEF RunAt, Together

(* One that is let in fits, and is counted. *)
LEMMA RunJoins ==
  ASSUME NEW t \in Targets, NEW c \in Calls, RunAt(t), running[t] \in Nat, c \notin Runs(t),
         Runs(t)' = Runs(t) \cup {c}, inside'[t] = inside[t] \cup {c},
         running'[t] = running[t] + 1, Together(t, inside[t] \cup {c}),
         \A d \in Runs(t) \cup {c} : Model(d)' = Model(d)
  PROVE  RunAt(t)'
<1>1. Runs(t) \in SUBSET Calls
  BY DEF Runs, At
<1>2. Cardinality(Runs(t) \cup {c}) = Cardinality(Runs(t)) + 1
  BY <1>1, CountMoves
<1>3. inside'[t] = Runs(t) \cup {c} /\ Together(t, Runs(t) \cup {c})
  BY DEF RunAt
<1>4. Slots[t] # 0 => Cardinality(inside'[t]) <= Slots[t]
  BY <1>3 DEF Together
<1>5. Exclusive[t] => \A e, d \in inside'[t] : Model(e)' = Model(d)'
  BY <1>3 DEF Together
<1>6. QED
  BY <1>2, <1>3, <1>4, <1>5 DEF RunAt, Together

(* One that leaves makes room, and is counted off. *)
LEMMA RunLeaves ==
  ASSUME NEW t \in Targets, NEW c \in Runs(t), RunAt(t), running[t] \in Nat,
         Runs(t)' = Runs(t) \ {c}, inside'[t] = inside[t] \ {c},
         running'[t] = running[t] - 1,
         \A d \in Runs(t) \ {c} : Model(d)' = Model(d)
  PROVE  RunAt(t)' /\ running'[t] \in Nat
<1>1. Runs(t) \in SUBSET Calls /\ c \in Calls
  BY DEF Runs, At
<1>2. Cardinality(Runs(t) \ {c}) = Cardinality(Runs(t)) - 1 /\ Cardinality(Runs(t)) > 0
  BY <1>1, CountMoves
<1>3. inside'[t] = Runs(t) \ {c} /\ Together(t, Runs(t))
  BY DEF RunAt
<1>4. Together(t, Runs(t) \ {c})
  BY <1>1, <1>3, TogetherLess
<1>5. Slots[t] # 0 => Cardinality(inside'[t]) <= Slots[t]
  BY <1>3, <1>4 DEF Together
<1>6. Exclusive[t] => \A e, d \in inside'[t] : Model(e)' = Model(d)'
  BY <1>3, <1>4 DEF Together
<1>7. QED
  BY <1>2, <1>3, <1>5, <1>6 DEF RunAt, Together

-----------------------------------------------------------------------------
(* The parts of a step: what each does to the two sides of the gates, and to
   the requests in flight. *)

(* A step that queues nobody and takes nobody from a line. *)
LEMMA QuietLines ==
  ASSUME IInv, NEW c \in Calls, \A d \in Calls \ {c} : Untouched(d),
         stage[c] # "queued", stage'[c] # "queued", UNCHANGED <<line, waiting>>
  PROVE  \A t \in Targets : WaitAt(t)'
<1> SUFFICES ASSUME NEW t \in Targets
             PROVE  WaitAt(t)'
  OBVIOUS
<1>1. Waits(t)' = Waits(t) \ {c}
  BY PlacesMove DEF Waits
<1>2. c \notin Waits(t)
  BY DEF Waits, At
<1>3. QED
  BY <1>1, <1>2, WaitStays DEF IInv

(* A step that lets nobody past a gate or away from its target. *)
LEMMA QuietRuns ==
  ASSUME IInv, NEW c \in Calls, \A d \in Calls \ {c} : Untouched(d),
         UNCHANGED <<inside, running>>,
         \/ stage[c] \notin {"asking", "relaying"} /\ stage'[c] \notin {"asking", "relaying"}
         \/ stage[c] = "asking" /\ stage'[c] = "relaying" /\ UNCHANGED <<plan, pos>>
  PROVE  \A t \in Targets : RunAt(t)'
<1> SUFFICES ASSUME NEW t \in Targets
             PROVE  RunAt(t)'
  OBVIOUS
<1>1. CASE stage[c] \notin {"asking", "relaying"} /\ stage'[c] \notin {"asking", "relaying"}
  <2>1. c \notin Runs(t) /\ Runs(t) \subseteq Calls
    BY <1>1 DEF Runs, At
  <2>2. Runs(t)' = Runs(t) \ {c}
    BY <1>1, PlacesMove DEF Runs
  <2>3. \A d \in Runs(t) : Model(d)' = Model(d)
    BY <2>1 DEF Untouched, Model
  <2>4. QED
    BY <2>1, <2>2, <2>3, RunStays DEF IInv
<1>2. CASE stage[c] = "asking" /\ stage'[c] = "relaying" /\ UNCHANGED <<plan, pos>>
  <2>1. \A d \in Calls : Model(d)' = Model(d) /\ Target(d)' = Target(d)
    BY <1>2 DEF Model, Target
  <2>2. \A d \in Calls : stage'[d] \in {"asking", "relaying"} <=> stage[d] \in {"asking", "relaying"}
    BY <1>2 DEF Untouched
  <2>3. Runs(t)' = Runs(t) /\ Runs(t) \subseteq Calls
    BY <2>1, <2>2 DEF Runs, At
  <2>4. QED
    BY <2>1, <2>3, RunStays DEF IInv
<1>3. QED
  BY <1>1, <1>2

(* The target of a call that is at one. *)
LEMMA TargetType ==
  ASSUME IInv, NEW c \in Calls, stage[c] \in {"queued", "asking", "relaying"}
  PROVE  Model(c) \in Models /\ Target(c) \in Targets
<1>1. plan[c] \in Seq(Models) /\ pos[c] \in 1..Len(plan[c])
  BY DEF IInv, TypeOK, CallIsSound, Placed
<1>2. QED
  BY <1>1, RoutePlanAssumption DEF Model, Target

(* The finally clause of attempt(). *)
LEMMA LeaveGateRuns ==
  ASSUME IInv, NEW c \in Calls, \A d \in Calls \ {c} : Untouched(d),
         stage[c] \in {"asking", "relaying"}, stage'[c] \notin {"asking", "relaying"},
         LeaveGate(c)
  PROVE  /\ \A t \in Targets : RunAt(t)'
         /\ inside' \in [Targets -> SUBSET Calls] /\ running' \in [Targets -> Nat]
<1> DEFINE u == Target(c)
<1>0. /\ inside \in [Targets -> SUBSET Calls] /\ running \in [Targets -> Nat]
      /\ u \in Targets
      /\ inside' = [inside EXCEPT ![u] = @ \ {c}]
      /\ running' = [running EXCEPT ![u] = @ - 1]
  BY TargetType DEF IInv, TypeOK, LeaveGate
<1>1. ASSUME NEW t \in Targets
      PROVE  RunAt(t)' /\ running'[t] \in Nat
  <2>0. Runs(t) \subseteq Calls
    BY DEF Runs, At
  <2>1. Runs(t)' = Runs(t) \ {c}
    BY PlacesMove DEF Runs
  <2>2. \A d \in Runs(t) \ {c} : Model(d)' = Model(d)
    BY <2>0 DEF Untouched, Model
  <2>3. c \in Runs(t) <=> t = u
    BY DEF Runs, At
  <2> HIDE DEF u
  <2>4. CASE t = u
    <3>1. inside'[t] = inside[t] \ {c} /\ running'[t] = running[t] - 1 /\ running[t] \in Nat
      BY <1>0, <2>4
    <3>2. QED
      BY <2>1, <2>2, <2>3, <2>4, <3>1, RunLeaves DEF IInv
  <2>5. CASE t # u
    <3>1. inside'[t] = inside[t] /\ running'[t] = running[t] /\ running[t] \in Nat
      BY <1>0, <2>5
    <3>2. Runs(t)' = Runs(t) /\ \A d \in Runs(t) : Model(d)' = Model(d)
      BY <2>1, <2>2, <2>3, <2>5
    <3>3. QED
      BY <3>1, <3>2, RunStays DEF IInv
  <2>6. QED
    BY <2>4, <2>5
<1> HIDE DEF u
<1>2. QED
  BY <1>0, <1>1

(* attempt() up to the await at the gate. *)
LEMMA QueueWaits ==
  ASSUME IInv, NEW c \in Calls, \A d \in Calls \ {c} : Untouched(d),
         stage[c] # "queued", plan'[c] \in Seq(Models), NEW i \in 1..Len(plan'[c]),
         Queue(c, i)
  PROVE  /\ \A t \in Targets : WaitAt(t)'
         /\ line' \in [Targets -> Seq(Calls)] /\ waiting' \in [Targets -> Nat]
         /\ stage' \in [Calls -> Stages] /\ pos' \in [Calls -> Nat]
         /\ stage'[c] = "queued" /\ pos'[c] = i
<1>0. PICK u \in Targets : u = TargetOf[plan'[c][i]]
  BY RoutePlanAssumption
<1>1. /\ line \in [Targets -> Seq(Calls)] /\ waiting \in [Targets -> Nat]
      /\ stage \in [Calls -> Stages] /\ pos \in [Calls -> Nat]
      /\ stage' = [stage EXCEPT ![c] = "queued"] /\ pos' = [pos EXCEPT ![c] = i]
      /\ line' = [line EXCEPT ![u] = Append(@, c)]
      /\ waiting' = [waiting EXCEPT ![u] = @ + 1]
  BY <1>0 DEF Queue, IInv, TypeOK
<1>2. stage'[c] = "queued" /\ pos'[c] = i /\ stage' \in [Calls -> Stages] /\ pos' \in [Calls -> Nat]
  BY <1>1 DEF Stages
<1>3. Target(c)' = u
  BY <1>0, <1>2 DEF Target, Model
<1>4. ASSUME NEW t \in Targets
      PROVE  WaitAt(t)' /\ line'[t] \in Seq(Calls) /\ waiting'[t] \in Nat
  <2>1. c \notin Waits(t)
    BY DEF Waits, At
  <2>2. CASE t = u
    <3>1. Waits(t)' = Waits(t) \cup {c}
      BY <1>2, <1>3, <2>2, PlacesMove DEF Waits
    <3>2. /\ line'[t] = Append(line[t], c) /\ waiting'[t] = waiting[t] + 1
          /\ line[t] \in Seq(Calls) /\ waiting[t] \in Nat
      BY <1>1, <2>2
    <3>3. QED
      BY <2>1, <3>1, <3>2, WaitJoins DEF IInv
  <2>3. CASE t # u
    <3>1. Waits(t)' = Waits(t) \ {c}
      BY <1>3, <2>3, PlacesMove DEF Waits
    <3>2. line'[t] = line[t] /\ waiting'[t] = waiting[t] /\ line[t] \in Seq(Calls) /\ waiting[t] \in Nat
      BY <1>1, <2>3
    <3>3. QED
      BY <2>1, <3>1, <3>2, WaitStays DEF IInv
  <2>4. QED
    BY <2>2, <2>3
<1>5. QED
  BY <1>1, <1>2, <1>4

(* A request is in flight until it ends. *)
LEMMA ActiveMoves ==
  ASSUME IInv, NEW c \in Calls, \A d \in Calls \ {c} : Untouched(d)
  PROVE  /\ Active' = IF stage'[c] \in {"idle", "ended"} THEN Active \ {c} ELSE Active \cup {c}
         /\ Active \in SUBSET Calls /\ inflight = Cardinality(Active) /\ inflight \in Nat
  BY DEF Active, Untouched, IInv, TypeOK

(* handle() ends. *)
LEMMA EndCounts ==
  ASSUME IInv, NEW c \in Calls, \A d \in Calls \ {c} : Untouched(d),
         stage[c] \notin {"idle", "ended"}, NEW status, NEW how, End(c, status, how)
  PROVE  /\ inflight' = Cardinality(Active)' /\ inflight' \in Nat
         /\ stage'[c] = "ended" /\ stage' \in [Calls -> Stages]
         /\ code'[c] = status /\ finish'[c] = Recorded(asked[c] # {}, status, how)
<1>1. /\ stage'[c] = "ended" /\ stage' \in [Calls -> Stages]
      /\ code'[c] = status /\ finish'[c] = Recorded(asked[c] # {}, status, how)
      /\ inflight' = inflight - 1
  BY DEF End, IInv, TypeOK, Stages
<1>2. Active' = Active \ {c} /\ c \in Active
  BY <1>1, ActiveMoves DEF Active
<1>3. Active \in SUBSET Calls /\ inflight = Cardinality(Active) /\ inflight \in Nat
  BY ActiveMoves
<1>4. Cardinality(Active \ {c}) = Cardinality(Active) - 1 /\ Cardinality(Active) > 0
  BY <1>2, <1>3, CountMoves
<1>5. inflight' = Cardinality(Active)' /\ inflight' \in Nat
  BY <1>1, <1>2, <1>3, <1>4
<1>6. QED
  BY <1>1, <1>5

(* A step goes on while its call does. *)
LEMMA StillCounts ==
  ASSUME IInv, NEW c \in Calls, \A d \in Calls \ {c} : Untouched(d),
         stage[c] \notin {"idle", "ended"}, stage'[c] \notin {"idle", "ended"}, inflight' = inflight
  PROVE  inflight' = Cardinality(Active)'
<1>1. Active' = Active
  BY ActiveMoves DEF Active
<1>2. QED
  BY <1>1, ActiveMoves

(* What a step has to do for the invariant. *)
LEMMA StepKeeps ==
  ASSUME IInv, NEW c \in Calls, \A d \in Calls \ {c} : Untouched(d), TypeOK',
         inflight' = Cardinality(Active)', \A t \in Targets : WaitAt(t)' /\ RunAt(t)',
         CallIsSound(c)'
  PROVE  IInv'
<1>1. \A d \in Calls : CallIsSound(d)'
  BY UntouchedIsSound DEF IInv
<1>2. QED
  BY <1>1 DEF IInv

-----------------------------------------------------------------------------
Finishes == {"none", "stop", "error", "abort"}

(* A request that has an answer, or gives up, leaves its target and ends. *)
LEMMA AnswerKeepsIInv ==
  ASSUME IInv, NEW c \in Calls, stage[c] \in {"asking", "relaying"},
         NEW status \in Codes, NEW how \in Finishes, Answer(c, status, how),
         seen' \in [Calls -> Models \cup {NoModel}], \A d \in Calls \ {c} : seen'[d] = seen[d],
         status \in {"5xx", "502"} => ~MayRetry(c),
         Recorded(TRUE, status, how) \notin {"error", "abort"} => seen'[c] # NoModel /\ status = "200"
  PROVE  IInv'
<1>0. /\ LeaveGate(c) /\ End(c, status, how)
      /\ UNCHANGED <<up, trusted, plan, pos, line, asked, waiting>>
  BY DEF Answer
<1>1. TypeOK /\ Placed(c)
  BY DEF IInv, CallIsSound
<1>2. \A d \in Calls \ {c} : Untouched(d)
  BY <1>0, <1>1 DEF End, Untouched, TypeOK
<1>3. /\ inflight' = Cardinality(Active)' /\ inflight' \in Nat
      /\ stage'[c] = "ended" /\ stage' \in [Calls -> Stages]
      /\ code'[c] = status /\ finish'[c] = Recorded(asked[c] # {}, status, how)
  BY <1>0, <1>2, EndCounts
<1>4. code' \in [Calls -> Codes] /\ finish' \in [Calls -> Finishes]
  BY <1>0, <1>1 DEF End, Recorded, TypeOK, Finishes
<1>5. /\ \A t \in Targets : RunAt(t)'
      /\ inside' \in [Targets -> SUBSET Calls] /\ running' \in [Targets -> Nat]
  BY <1>0, <1>2, <1>3, LeaveGateRuns
<1>6. \A t \in Targets : WaitAt(t)'
  BY <1>0, <1>2, <1>3, QuietLines
<1>7. TypeOK'
  BY <1>0, <1>1, <1>3, <1>4, <1>5 DEF TypeOK, Finishes
<1>8. CallIsSound(c)'
  <2>1. plan[c] \in Seq(Models) /\ pos[c] \in 1..Len(plan[c]) /\ asked[c] = Firsts(c, pos[c])
    BY <1>1 DEF TypeOK, Placed
  <2>2. asked[c] # {}
    <3>1. 1 \in 1..pos[c]
      BY <2>1
    <3>2. plan[c][1] \in Firsts(c, pos[c])
      BY <3>1 DEF Firsts
    <3>3. QED
      BY <2>1, <3>2
  <2>3. ~MayRetry(c) => asked[c] = ToSet(plan[c])
    BY <2>1 DEF MayRetry, Firsts, ToSet
  <2>4. Placed(c)' /\ Shown(c)'
    BY <1>0, <1>1, <1>3 DEF Placed, Shown, ToSet
  <2>5. EndedWell(c)'
    <3>1. finish'[c] \notin {"error", "abort"} => seen'[c] # NoModel /\ status = "200"
      <4>1. (asked[c] # {}) = TRUE
        BY <2>2
      <4>2. finish'[c] = Recorded(TRUE, status, how)
        BY <1>3, <4>1
      <4>3. QED
        BY <4>2
    <3>2. status \in {"5xx", "502"} => asked'[c] = ToSet(plan[c])'
      BY <1>0, <2>3 DEF ToSet
    <3>3. QED
      BY <1>3, <3>1, <3>2 DEF EndedWell
  <2>6. QED
    BY <2>4, <2>5 DEF CallIsSound
<1>9. QED
  BY <1>2, <1>3, <1>5, <1>6, <1>7, <1>8, StepKeeps

(* One that ends before it is queued has asked nobody. *)
LEMMA EndEarlyKeepsIInv ==
  ASSUME IInv, NEW c \in Calls, stage[c] = "reading",
         NEW status \in Codes \ {"5xx", "502"}, NEW how \in Finishes, End(c, status, how),
         UNCHANGED <<up, trusted, plan, pos, line, inside, asked, seen, waiting, running>>
  PROVE  IInv'
<1>1. TypeOK /\ Placed(c) /\ Shown(c)
  BY DEF IInv, CallIsSound
<1>2. \A d \in Calls \ {c} : Untouched(d)
  BY <1>1 DEF End, Untouched, TypeOK
<1>3. /\ inflight' = Cardinality(Active)' /\ inflight' \in Nat
      /\ stage'[c] = "ended" /\ stage' \in [Calls -> Stages]
      /\ code'[c] = status /\ finish'[c] = Recorded(asked[c] # {}, status, how)
  BY <1>2, EndCounts
<1>4. code' \in [Calls -> Codes] /\ finish' \in [Calls -> Finishes]
  BY <1>1 DEF End, Recorded, TypeOK, Finishes
<1>5. TypeOK'
  BY <1>1, <1>3, <1>4 DEF TypeOK, Finishes
<1>6. \A t \in Targets : WaitAt(t)' /\ RunAt(t)'
  BY <1>2, <1>3, QuietLines, QuietRuns
<1>7. CallIsSound(c)'
  <2>1. Placed(c)' /\ Shown(c)'
    BY <1>1, <1>3 DEF Placed, Shown, ToSet
  <2>2. EndedWell(c)'
    BY <1>1, <1>3 DEF EndedWell, Placed
  <2>3. QED
    BY <2>1, <2>2 DEF CallIsSound
<1>8. QED
  BY <1>2, <1>3, <1>5, <1>6, <1>7, StepKeeps

(* One that fails before the caller saw anything goes to the next gate. *)
LEMMA NextCandidateKeepsIInv ==
  ASSUME IInv, NEW c \in Calls, stage[c] = "asking", NextCandidate(c)
  PROVE  IInv'
<1>0. /\ MayRetry(c) /\ LeaveGate(c) /\ Queue(c, pos[c] + 1)
      /\ UNCHANGED <<up, trusted, plan, asked, seen, code, finish, inflight>>
  BY DEF NextCandidate
<1>1. TypeOK /\ Placed(c) /\ Shown(c)
  BY DEF IInv, CallIsSound
<1>2. plan[c] \in Seq(Models) /\ pos[c] \in 1..Len(plan[c]) /\ asked[c] = Firsts(c, pos[c])
  BY <1>1 DEF TypeOK, Placed
<1>3. pos[c] + 1 \in 1..Len(plan'[c]) /\ plan'[c] = plan[c] /\ (pos[c] + 1) - 1 = pos[c]
  BY <1>0, <1>2 DEF MayRetry
<1>4. \A d \in Calls \ {c} : Untouched(d)
  BY <1>0, <1>1 DEF Queue, Untouched, TypeOK
<1>5. /\ \A t \in Targets : WaitAt(t)'
      /\ line' \in [Targets -> Seq(Calls)] /\ waiting' \in [Targets -> Nat]
      /\ stage' \in [Calls -> Stages] /\ pos' \in [Calls -> Nat]
      /\ stage'[c] = "queued" /\ pos'[c] = pos[c] + 1
  BY <1>0, <1>2, <1>3, <1>4, QueueWaits
<1>6. /\ \A t \in Targets : RunAt(t)'
      /\ inside' \in [Targets -> SUBSET Calls] /\ running' \in [Targets -> Nat]
  BY <1>0, <1>4, <1>5, LeaveGateRuns
<1>7. TypeOK'
  BY <1>0, <1>1, <1>5, <1>6 DEF TypeOK
<1>8. CallIsSound(c)'
  <2>1. Firsts(c, pos[c] - 1)' = Firsts(c, pos[c])
    BY <1>0, <1>3, <1>5 DEF Firsts
  <2>2. Placed(c)'
    BY <1>0, <1>1, <1>2, <1>3, <1>5, <2>1 DEF Placed, ToSet
  <2>3. Shown(c)' /\ EndedWell(c)'
    BY <1>0, <1>1, <1>5 DEF Shown, EndedWell
  <2>4. QED
    BY <2>2, <2>3 DEF CallIsSound
<1>9. inflight' = Cardinality(Active)'
  BY <1>0, <1>4, <1>5, StillCounts
<1>10. QED
  BY <1>4, <1>5, <1>6, <1>7, <1>8, <1>9, StepKeeps

-----------------------------------------------------------------------------
(* A request arrives; it may be anyone's, and has asked nobody. *)
LEMMA ArriveKeepsIInv ==
  ASSUME IInv, NEW c \in Calls, NEW isTrusted \in BOOLEAN, Arrive(c, isTrusted)
  PROVE  IInv'
<1>0. /\ stage[c] = "idle" /\ stage' = [stage EXCEPT ![c] = "reading"]
      /\ trusted' = [trusted EXCEPT ![c] = isTrusted] /\ inflight' = inflight + 1
      /\ UNCHANGED <<up, plan, pos, line, inside, asked, seen, code, finish, waiting, running>>
  BY DEF Arrive
<1>1. TypeOK /\ Placed(c) /\ Shown(c)
  BY DEF IInv, CallIsSound
<1>2. \A d \in Calls \ {c} : Untouched(d)
  BY <1>0, <1>1 DEF Untouched, TypeOK
<1>3. stage'[c] = "reading" /\ stage' \in [Calls -> Stages] /\ trusted' \in [Calls -> BOOLEAN]
  BY <1>0, <1>1 DEF TypeOK, Stages
<1>4. inflight' = Cardinality(Active)' /\ inflight' \in Nat
  <2>1. Active' = Active \cup {c} /\ c \notin Active
    BY <1>0, <1>2, <1>3, ActiveMoves DEF Active
  <2>2. Active \in SUBSET Calls /\ inflight = Cardinality(Active) /\ inflight \in Nat
    BY <1>2, ActiveMoves
  <2>3. Cardinality(Active \cup {c}) = Cardinality(Active) + 1
    BY <2>1, <2>2, CountMoves
  <2>4. QED
    BY <1>0, <2>1, <2>2, <2>3
<1>5. TypeOK'
  BY <1>0, <1>1, <1>3, <1>4 DEF TypeOK
<1>6. \A t \in Targets : WaitAt(t)' /\ RunAt(t)'
  BY <1>0, <1>2, <1>3, QuietLines, QuietRuns
<1>7. CallIsSound(c)'
  <2>1. Placed(c)'
    BY <1>0, <1>1, <1>3 DEF Placed, ToSet
  <2>2. Shown(c)' /\ EndedWell(c)'
    BY <1>0, <1>1, <1>3 DEF Shown, EndedWell
  <2>3. QED
    BY <2>1, <2>2 DEF CallIsSound
<1>8. QED
  BY <1>2, <1>4, <1>5, <1>6, <1>7, StepKeeps

(* plan() hands the request to the gate of its first candidate, or turns it
   away. *)
LEMMA PlanKeepsIInv ==
  ASSUME IInv, NEW c \in Calls, NEW p, UsablePlan(p, trusted[c]), Plan(c, p)
  PROVE  IInv'
<1>1. TypeOK /\ Placed(c) /\ Shown(c) /\ stage[c] = "reading"
  BY DEF IInv, CallIsSound, Plan
<1>2. CASE p.status = "planned"
  <2> DEFINE U == {m \in Models : Usable(m, trusted[c])}
  <2>0. /\ plan' = [plan EXCEPT ![c] = p.order] /\ Queue(c, 1)
        /\ UNCHANGED <<code, finish, inflight, up, trusted, inside, asked, seen, running>>
    BY <1>2 DEF Plan
  <2>1. p.order \in Seq(U) /\ p.order # <<>> /\ p.order \in Seq(Models)
    BY <1>2 DEF UsablePlan
  <2>2. plan' \in [Calls -> Seq(Models)] /\ plan'[c] = p.order
    BY <1>1, <2>0, <2>1 DEF TypeOK
  <2>3. /\ plan'[c] \in Seq(Models) /\ 1 \in 1..Len(plan'[c])
        /\ \A i \in 1..Len(plan'[c]) : plan'[c][i] \in U
    BY <2>1, <2>2
  <2>4. \A d \in Calls \ {c} : Untouched(d)
    BY <1>1, <2>0 DEF Queue, Untouched, TypeOK
  <2>5. /\ \A t \in Targets : WaitAt(t)'
        /\ line' \in [Targets -> Seq(Calls)] /\ waiting' \in [Targets -> Nat]
        /\ stage' \in [Calls -> Stages] /\ pos' \in [Calls -> Nat]
        /\ stage'[c] = "queued" /\ pos'[c] = 1
    BY <1>1, <2>0, <2>3, <2>4, QueueWaits
  <2>6. \A t \in Targets : RunAt(t)'
    BY <1>1, <2>0, <2>4, <2>5, QuietRuns
  <2>7. TypeOK'
    BY <1>1, <2>0, <2>2, <2>5 DEF TypeOK
  <2>8. inflight' = Cardinality(Active)'
    BY <1>1, <2>0, <2>4, <2>5, StillCounts
  <2>9. CallIsSound(c)'
    <3>1. Firsts(c, pos[c] - 1)' = {} /\ asked'[c] = {} /\ seen'[c] = NoModel
      BY <1>1, <2>0, <2>5 DEF Firsts, Placed
    <3>2. \A i \in 1..Len(plan'[c]) : Usable(plan'[c][i], trusted'[c])
      BY <2>0, <2>3
    <3>3. Placed(c)'
      BY <2>3, <2>5, <3>1, <3>2 DEF Placed, Usable
    <3>4. Shown(c)' /\ EndedWell(c)'
      BY <1>1, <2>0, <2>5 DEF Shown, EndedWell
    <3>5. QED
      BY <3>3, <3>4 DEF CallIsSound
  <2>10. QED
    BY <2>4, <2>5, <2>6, <2>7, <2>8, <2>9, StepKeeps
<1>3. CASE p.status # "planned"
  <2>1. /\ p.status \in Codes \ {"5xx", "502"} /\ "none" \in Finishes /\ End(c, p.status, "none")
        /\ UNCHANGED <<up, trusted, plan, pos, line, inside, asked, seen, waiting, running>>
    BY <1>3 DEF Plan, UsablePlan, Codes, Finishes
  <2>2. QED
    BY <1>1, <2>1, EndEarlyKeepsIInv
<1>4. QED
  BY <1>2, <1>3

(* The gate lets in the front of its line, if it goes with those inside. *)
LEMMA AdmitKeepsIInv ==
  ASSUME IInv, NEW u \in Targets, Admit(u)
  PROVE  IInv'
<1>1. TypeOK /\ WaitAt(u) /\ RunAt(u)
  BY DEF IInv
<1>2. line[u] \in Seq(Calls) /\ line[u] # <<>> /\ line \in [Targets -> Seq(Calls)]
  BY <1>1 DEF Admit, TypeOK
<1>3. PICK c \in Calls : c = Head(line[u])
  BY <1>2
<1>4. /\ Together(u, inside[u] \cup {c})
      /\ line' = [line EXCEPT ![u] = Tail(@)]
      /\ inside' = [inside EXCEPT ![u] = @ \cup {c}]
      /\ stage' = [stage EXCEPT ![c] = "asking"]
      /\ asked' = [asked EXCEPT ![c] = @ \cup {Model(c)}]
      /\ waiting' = [waiting EXCEPT ![u] = @ - 1]
      /\ running' = [running EXCEPT ![u] = @ + 1]
      /\ UNCHANGED <<up, trusted, plan, pos, seen, code, finish, inflight>>
  BY <1>3 DEF Admit
<1>5. c \in Waits(u)
  BY <1>1, <1>2, <1>3, HeadOfLine DEF WaitAt
<1>6. stage[c] = "queued" /\ Target(c) = u
  BY <1>5 DEF Waits, At
<1>7. Placed(c) /\ Shown(c) /\ Model(c) \in Models
  BY <1>6, TargetType DEF IInv, CallIsSound
<1>8. stage'[c] = "asking" /\ stage' \in [Calls -> Stages] /\ asked' \in [Calls -> SUBSET Models]
  BY <1>1, <1>4, <1>7 DEF TypeOK, Stages
<1>9. \A d \in Calls \ {c} : Untouched(d)
  BY <1>1, <1>4 DEF Untouched, TypeOK
<1>10. \A d \in Calls : Model(d)' = Model(d) /\ Target(d)' = Target(d)
  BY <1>4 DEF Model, Target
<1>11. ASSUME NEW t \in Targets
       PROVE  WaitAt(t)' /\ line'[t] \in Seq(Calls) /\ waiting'[t] \in Nat
  <2>1. Waits(t)' = Waits(t) \ {c}
    BY <1>8, <1>9, PlacesMove DEF Waits
  <2>2. CASE t = u
    <3>1. /\ line'[t] = Tail(line[t]) /\ waiting'[t] = waiting[t] - 1 /\ waiting[t] \in Nat
          /\ line[t] \in Seq(Calls)
      BY <1>1, <1>4, <2>2 DEF TypeOK
    <3>2. QED
      BY <1>2, <1>3, <1>5, <2>1, <2>2, <3>1, WaitLeaves DEF IInv
  <2>3. CASE t # u
    <3>1. /\ line'[t] = line[t] /\ waiting'[t] = waiting[t] /\ waiting[t] \in Nat
          /\ line[t] \in Seq(Calls)
      BY <1>1, <1>4, <2>3 DEF TypeOK
    <3>2. c \notin Waits(t)
      BY <1>6, <2>3 DEF Waits, At
    <3>3. QED
      BY <2>1, <3>1, <3>2, WaitStays DEF IInv
  <2>4. QED
    BY <2>2, <2>3
<1>12. ASSUME NEW t \in Targets
       PROVE  RunAt(t)' /\ running'[t] \in Nat
  <2>1. c \notin Runs(t) /\ Runs(t) \subseteq Calls
    BY <1>6 DEF Runs, At
  <2>2. CASE t = u
    <3>1. Runs(t)' = Runs(t) \cup {c}
      BY <1>6, <1>8, <1>9, <1>10, <2>2, PlacesMove DEF Runs
    <3>2. /\ inside'[t] = inside[t] \cup {c} /\ running'[t] = running[t] + 1
          /\ running[t] \in Nat
      BY <1>1, <1>4, <2>2 DEF TypeOK
    <3>3. \A d \in Runs(t) \cup {c} : Model(d)' = Model(d)
      BY <1>10, <2>1
    <3>4. RunAt(t)'
      BY <1>1, <1>4, <2>1, <2>2, <3>1, <3>2, <3>3, RunJoins
    <3>5. QED
      BY <3>2, <3>4
  <2>3. CASE t # u
    <3>1. Runs(t)' = Runs(t)
      BY <1>6, <1>9, <1>10, <2>1, <2>3, PlacesMove DEF Runs
    <3>2. inside'[t] = inside[t] /\ running'[t] = running[t] /\ running[t] \in Nat
      BY <1>1, <1>4, <2>3 DEF TypeOK
    <3>3. \A d \in Runs(t) : Model(d)' = Model(d)
      BY <1>10, <2>1
    <3>4. QED
      BY <3>1, <3>2, <3>3, RunStays DEF IInv
  <2>4. QED
    BY <2>2, <2>3
<1>13. TypeOK'
  <2>1. line' \in [Targets -> Seq(Calls)] /\ waiting' \in [Targets -> Nat]
    BY <1>1, <1>4, <1>11 DEF TypeOK
  <2>2. inside' \in [Targets -> SUBSET Calls] /\ running' \in [Targets -> Nat]
    BY <1>1, <1>4, <1>12 DEF TypeOK
  <2>3. QED
    BY <1>1, <1>4, <1>8, <2>1, <2>2 DEF TypeOK
<1>14. CallIsSound(c)'
  <2>1. plan[c] \in Seq(Models) /\ pos[c] \in 1..Len(plan[c]) /\ asked[c] = Firsts(c, pos[c] - 1)
    BY <1>1, <1>6, <1>7 DEF TypeOK, Placed
  <2>2. asked'[c] = Firsts(c, pos[c] - 1) \cup {plan[c][pos[c]]}
    BY <1>1, <1>4, <2>1 DEF TypeOK, Model
  <2>3. asked'[c] = Firsts(c, pos[c])
    <3>1. \A i \in 1..pos[c] : i = pos[c] \/ i \in 1..(pos[c] - 1)
      BY <2>1
    <3>2. \A i \in 1..(pos[c] - 1) : i \in 1..pos[c]
      BY <2>1
    <3>3. pos[c] \in 1..pos[c]
      BY <2>1
    <3>4. QED
      BY <2>2, <3>1, <3>2, <3>3 DEF Firsts
  <2>4. asked'[c] \subseteq ToSet(plan[c])
    BY <2>1, <2>3 DEF Firsts, ToSet
  <2>5. Firsts(c, pos[c])' = Firsts(c, pos[c]) /\ ToSet(plan[c])' = ToSet(plan[c])
    BY <1>4 DEF Firsts, ToSet
  <2>6. Placed(c)'
    BY <1>4, <1>7, <1>8, <2>1, <2>3, <2>4, <2>5 DEF Placed
  <2>7. Shown(c)' /\ EndedWell(c)'
    BY <1>4, <1>6, <1>7, <1>8 DEF Shown, EndedWell
  <2>8. QED
    BY <2>6, <2>7 DEF CallIsSound
<1>15. inflight' = Cardinality(Active)'
  BY <1>4, <1>6, <1>8, <1>9, StillCounts
<1>16. QED
  BY <1>9, <1>11, <1>12, <1>13, <1>14, <1>15, StepKeeps

(* A stream begins, and from then on there is no other candidate. *)
LEMMA StreamBeginsKeepsIInv ==
  ASSUME IInv, NEW c \in Calls, StreamBegins(c)
  PROVE  IInv'
<1>1. TypeOK /\ Placed(c) /\ Shown(c) /\ stage[c] = "asking"
  BY DEF IInv, CallIsSound, StreamBegins
<1>2. Model(c) \in Models /\ Model(c) # NoModel
  BY <1>1, TargetType, GatewayAssumption
<1>3. CASE /\ stage' = [stage EXCEPT ![c] = "relaying"]
           /\ code' = [code EXCEPT ![c] = "200"]
           /\ seen' = [seen EXCEPT ![c] = Model(c)]
           /\ UNCHANGED <<up, trusted, plan, pos, line, inside, asked, finish, gauges>>
  <2>1. \A d \in Calls \ {c} : Untouched(d)
    BY <1>1, <1>3 DEF Untouched, TypeOK
  <2>2. /\ stage'[c] = "relaying" /\ stage' \in [Calls -> Stages] /\ code' \in [Calls -> Codes]
        /\ seen'[c] # NoModel /\ seen' \in [Calls -> Models \cup {NoModel}]
        /\ UNCHANGED <<inflight, waiting, running>>
    BY <1>1, <1>2, <1>3 DEF TypeOK, Stages, Codes, gauges
  <2>3. \A t \in Targets : WaitAt(t)' /\ RunAt(t)'
    BY <1>1, <1>3, <2>1, <2>2, QuietLines, QuietRuns
  <2>4. TypeOK'
    BY <1>1, <1>3, <2>2 DEF TypeOK
  <2>5. inflight' = Cardinality(Active)'
    BY <1>1, <2>1, <2>2, StillCounts
  <2>6. CallIsSound(c)'
    <3>1. Firsts(c, pos[c])' = Firsts(c, pos[c]) /\ ToSet(plan[c])' = ToSet(plan[c])
      BY <1>3 DEF Firsts, ToSet
    <3>2. Placed(c)'
      BY <1>1, <1>3, <2>2, <3>1 DEF Placed
    <3>3. Shown(c)' /\ EndedWell(c)'
      BY <1>1, <1>3, <2>2 DEF Shown, EndedWell
    <3>4. QED
      BY <3>2, <3>3 DEF CallIsSound
  <2>7. QED
    BY <2>1, <2>3, <2>4, <2>5, <2>6, StepKeeps
<1>4. CASE Answer(c, code[c], finish[c]) /\ UNCHANGED seen
  <2>1. code[c] = "500" /\ finish[c] = "none"
    BY <1>1 DEF Shown
  <2>2. Answer(c, "500", "none") /\ "500" \in Codes /\ "none" \in Finishes
    BY <1>4, <2>1 DEF Codes, Finishes
  <2>3. Recorded(TRUE, "500", "none") = "error"
    BY DEF Recorded
  <2>4. QED
    BY <1>1, <1>4, <2>2, <2>3, AnswerKeepsIInv DEF TypeOK
<1>5. QED
  BY <1>3, <1>4 DEF StreamBegins

(* The ways a request gets, or does not get, its answer. *)
LEMMA NoAnswerKeepsIInv ==
  ASSUME IInv, NEW c \in Calls, NoAnswer(c)
  PROVE  IInv'
<1>1. TypeOK /\ stage[c] = "asking"
  BY DEF IInv, NoAnswer
<1>2. CASE NextCandidate(c)
  BY <1>1, <1>2, NextCandidateKeepsIInv
<1>3. CASE ~MayRetry(c) /\ Answer(c, "502", "error") /\ UNCHANGED seen
  <2>1. "502" \in Codes /\ "error" \in Finishes /\ Recorded(TRUE, "502", "error") = "error"
    BY DEF Codes, Finishes, Recorded
  <2>2. QED
    BY <1>1, <1>3, <2>1, AnswerKeepsIInv DEF TypeOK
<1>4. QED
  BY <1>2, <1>3 DEF NoAnswer

(* An error is relayed when nobody else is left to ask, or it is the caller's. *)
LEMMA ErrorAnswerKeepsIInv ==
  ASSUME IInv, NEW c \in Calls, ErrorAnswer(c)
  PROVE  IInv'
<1>1. TypeOK /\ stage[c] = "asking" /\ Model(c) \in Models
  BY TargetType DEF IInv, ErrorAnswer
<1>2. CASE NextCandidate(c)
  BY <1>1, <1>2, NextCandidateKeepsIInv
<1>3. ASSUME NEW status \in {"5xx", "4xx"}, status = "5xx" => ~MayRetry(c),
             Answer(c, status, "error"), seen' = [seen EXCEPT ![c] = Model(c)]
      PROVE  IInv'
  <2>1. status \in Codes /\ "error" \in Finishes /\ Recorded(TRUE, status, "error") = "error"
    BY DEF Codes, Finishes, Recorded
  <2>2. seen' \in [Calls -> Models \cup {NoModel}] /\ \A d \in Calls \ {c} : seen'[d] = seen[d]
    BY <1>1, <1>3 DEF TypeOK
  <2>3. QED
    BY <1>1, <1>3, <2>1, <2>2, AnswerKeepsIInv
<1>4. QED
  BY <1>2, <1>3 DEF ErrorAnswer

(* A whole answer is one the caller has seen. *)
LEMMA WholeAnswerKeepsIInv ==
  ASSUME IInv, NEW c \in Calls, WholeAnswer(c)
  PROVE  IInv'
<1>1. TypeOK /\ stage[c] = "asking" /\ Model(c) \in Models /\ Model(c) # NoModel
  BY TargetType, GatewayAssumption DEF IInv, WholeAnswer
<1>2. PICK stated \in {"stop", "error", "none"} : Answer(c, "200", stated)
  BY DEF WholeAnswer
<1>3. /\ seen' \in [Calls -> Models \cup {NoModel}] /\ seen'[c] # NoModel
      /\ \A d \in Calls \ {c} : seen'[d] = seen[d]
  BY <1>1 DEF TypeOK, WholeAnswer
<1>4. "200" \in Codes /\ stated \in Finishes
  BY DEF Codes, Finishes
<1>5. QED
  BY <1>1, <1>2, <1>3, <1>4, AnswerKeepsIInv

(* A stream that ends is one whose beginning the caller has seen. *)
LEMMA StreamEndsKeepsIInv ==
  ASSUME IInv, NEW c \in Calls, StreamEnds(c)
  PROVE  IInv'
<1>1. TypeOK /\ stage[c] = "relaying" /\ seen[c] # NoModel /\ seen' = seen
  BY DEF IInv, StreamEnds, CallIsSound, Shown
<1>2. CASE \E stated \in {"stop", "error", "none"} : Answer(c, "200", stated)
  <2>1. PICK stated \in {"stop", "error", "none"} : Answer(c, "200", stated)
    BY <1>2
  <2>2. "200" \in Codes /\ stated \in Finishes
    BY DEF Codes, Finishes
  <2>3. QED
    BY <1>1, <2>1, <2>2, AnswerKeepsIInv DEF TypeOK
<1>3. CASE Answer(c, "stream_error", "error")
  <2>1. /\ "stream_error" \in Codes /\ "error" \in Finishes
        /\ Recorded(TRUE, "stream_error", "error") = "error"
    BY DEF Codes, Finishes, Recorded
  <2>2. QED
    BY <1>1, <1>3, <2>1, AnswerKeepsIInv DEF TypeOK
<1>4. CASE Answer(c, "client_closed", "abort")
  <2>1. /\ "client_closed" \in Codes /\ "abort" \in Finishes
        /\ Recorded(TRUE, "client_closed", "abort") = "abort"
    BY DEF Codes, Finishes, Recorded
  <2>2. QED
    BY <1>1, <1>4, <2>1, AnswerKeepsIInv DEF TypeOK
<1>5. QED
  BY <1>2, <1>3, <1>4 DEF StreamEnds

(* A caller may hang up while the body is read, in a line, or at a target. *)
LEMMA HangUpKeepsIInv ==
  ASSUME IInv, NEW c \in Calls, HangUp(c)
  PROVE  IInv'
<1>0. /\ "client_closed" \in Codes /\ "abort" \in Finishes
      /\ \A sent \in BOOLEAN : Recorded(sent, "client_closed", "abort") = "abort"
  BY DEF Codes, Finishes, Recorded
<1>1. TypeOK /\ Placed(c) /\ Shown(c)
  BY DEF IInv, CallIsSound
<1>2. CASE stage[c] = "reading"
  BY <1>0, <1>2, EndEarlyKeepsIInv DEF HangUp
<1>3. CASE stage[c] \in {"asking", "relaying"}
  <2>1. Answer(c, "client_closed", "abort") /\ seen' = seen
    BY <1>3 DEF HangUp
  <2>2. QED
    BY <1>0, <1>1, <1>3, <2>1, AnswerKeepsIInv DEF TypeOK
<1>4. CASE stage[c] = "queued"
  <2>0. PICK u \in Targets : u = Target(c)
    BY <1>4, TargetType
  <2>1. /\ End(c, "client_closed", "abort")
        /\ line' = [line EXCEPT ![u] = RemoveFirst(@, c)]
        /\ waiting' = [waiting EXCEPT ![u] = @ - 1]
        /\ UNCHANGED <<up, trusted, plan, pos, inside, asked, seen, running>>
    BY <1>4, <2>0 DEF HangUp
  <2>2. \A d \in Calls \ {c} : Untouched(d)
    BY <1>1, <2>1 DEF End, Untouched, TypeOK
  <2>3. /\ inflight' = Cardinality(Active)' /\ inflight' \in Nat
        /\ stage'[c] = "ended" /\ stage' \in [Calls -> Stages]
        /\ code'[c] = "client_closed"
        /\ finish'[c] = Recorded(asked[c] # {}, "client_closed", "abort")
    BY <1>4, <2>1, <2>2, EndCounts
  <2>4. code' \in [Calls -> Codes] /\ finish' \in [Calls -> Finishes] /\ finish'[c] = "abort"
    BY <1>0, <1>1, <2>1, <2>3 DEF End, Recorded, TypeOK, Finishes
  <2>5. \A t \in Targets : RunAt(t)'
    BY <1>4, <2>1, <2>2, <2>3, QuietRuns
  <2>6. ASSUME NEW t \in Targets
        PROVE  WaitAt(t)' /\ line'[t] \in Seq(Calls) /\ waiting'[t] \in Nat
    <3>1. Waits(t)' = Waits(t) \ {c}
      BY <2>2, <2>3, PlacesMove DEF Waits
    <3>2. c \in Waits(t) <=> t = u
      BY <1>4, <2>0 DEF Waits, At
    <3>3. CASE t = u
      <4>1. /\ line'[t] = RemoveFirst(line[t], c) /\ waiting'[t] = waiting[t] - 1
            /\ line[t] \in Seq(Calls) /\ waiting[t] \in Nat
        BY <1>1, <2>1, <3>3 DEF TypeOK
      <4>2. QED
        BY <3>1, <3>2, <3>3, <4>1, WaitLeaves DEF IInv
    <3>4. CASE t # u
      <4>1. /\ line'[t] = line[t] /\ waiting'[t] = waiting[t]
            /\ line[t] \in Seq(Calls) /\ waiting[t] \in Nat
        BY <1>1, <2>1, <3>4 DEF TypeOK
      <4>2. Waits(t)' = Waits(t)
        BY <3>1, <3>2, <3>4
      <4>3. QED
        BY <4>1, <4>2, WaitStays DEF IInv
    <3>5. QED
      BY <3>3, <3>4
  <2>7. TypeOK'
    <3>1. line' \in [Targets -> Seq(Calls)] /\ waiting' \in [Targets -> Nat]
      BY <1>1, <2>1, <2>6 DEF TypeOK
    <3>2. QED
      BY <1>1, <2>1, <2>3, <2>4, <3>1 DEF TypeOK, Finishes
  <2>8. CallIsSound(c)'
    <3>1. Placed(c)' /\ Shown(c)'
      BY <1>1, <1>4, <2>1, <2>3 DEF Placed, Shown, ToSet
    <3>2. EndedWell(c)'
      BY <2>3, <2>4 DEF EndedWell
    <3>3. QED
      BY <3>1, <3>2 DEF CallIsSound
  <2>9. QED
    BY <2>2, <2>3, <2>5, <2>6, <2>7, <2>8, StepKeeps
<1>5. QED
  BY <1>2, <1>3, <1>4 DEF HangUp

(* A step that touches no call and no gate. *)
LEMMA QuietStep ==
  ASSUME IInv, up' \in [Targets -> BOOLEAN],
         UNCHANGED <<stage, trusted, plan, pos, line, inside, asked, seen, code, finish, gauges>>
  PROVE  IInv'
<1>1. UNCHANGED <<inflight, waiting, running>>
  BY DEF gauges
<1>2. TypeOK'
  BY <1>1 DEF IInv, TypeOK
<1>3. \A d \in Calls : CallIsSound(d)'
  BY UntouchedIsSound DEF IInv, Untouched
<1>4. Active' = Active
  BY DEF Active
<1>5. ASSUME NEW t \in Targets
      PROVE  WaitAt(t)' /\ RunAt(t)'
  <2>1. \A d \in Calls : Model(d)' = Model(d) /\ Target(d)' = Target(d)
    BY DEF Model, Target
  <2>2. Waits(t)' = Waits(t) /\ Runs(t)' = Runs(t) /\ Runs(t) \subseteq Calls
    BY <2>1 DEF Waits, Runs, At
  <2>3. QED
    BY <1>1, <2>1, <2>2, WaitStays, RunStays DEF IInv
<1>6. QED
  BY <1>1, <1>2, <1>3, <1>4, <1>5 DEF IInv

(* A request that names no model there is goes no further. *)
LEMMA TurnAwayKeepsIInv ==
  ASSUME IInv, NEW c \in Calls, TurnAway(c)
  PROVE  IInv'
<1>1. PICK status \in {"400", "404", "500"} : End(c, status, "none")
  BY DEF TurnAway
<1>2. /\ stage[c] = "reading"
      /\ UNCHANGED <<up, trusted, plan, pos, line, inside, asked, seen, waiting, running>>
  BY DEF TurnAway
<1>3. status \in Codes \ {"5xx", "502"} /\ "none" \in Finishes
  BY DEF Codes, Finishes
<1>4. QED
  BY <1>1, <1>2, <1>3, EndEarlyKeepsIInv

(* Every step of a request keeps the invariant. *)
LEMMA ServeKeepsIInv ==
  ASSUME IInv, NEW c \in Calls, Serve(c)
  PROVE  IInv'
<1>0. trusted[c] \in BOOLEAN /\ Route \in Seq(Models)
  BY GatewayAssumption DEF IInv, TypeOK
<1>1. ASSUME NEW m \in Models, Plan(c, PlanModel(m, trusted[c]))
      PROVE  IInv'
  BY <1>0, <1>1, PlanModelIsUsable, PlanKeepsIInv
<1>2. ASSUME NEW long \in BOOLEAN, Plan(c, PlanRoute(Route, trusted[c], long, up))
      PROVE  IInv'
  BY <1>0, <1>2, PlanRouteIsUsable, PlanKeepsIInv
<1>3. QED
  BY <1>1, <1>2, TurnAwayKeepsIInv, NoAnswerKeepsIInv, ErrorAnswerKeepsIInv,
     WholeAnswerKeepsIInv, StreamBeginsKeepsIInv, StreamEndsKeepsIInv DEF Serve

(* And so does every step of the gateway. *)
LEMMA NextKeepsIInv ==
  ASSUME IInv, [Next]_vars
  PROVE  IInv'
<1>1. ASSUME NEW c \in Calls, NEW isTrusted \in BOOLEAN, Arrive(c, isTrusted)
      PROVE  IInv'
  BY <1>1, ArriveKeepsIInv
<1>2. ASSUME NEW t \in Targets, Probe(t)
      PROVE  IInv'
  <2>1. up' \in [Targets -> BOOLEAN]
    BY <1>2 DEF Probe, IInv, TypeOK
  <2>2. UNCHANGED <<stage, trusted, plan, pos, line, inside, asked, seen, code, finish, gauges>>
    BY <1>2 DEF Probe
  <2>3. QED
    BY <2>1, <2>2, QuietStep
<1>3. CASE UNCHANGED vars
  <2>1. up' \in [Targets -> BOOLEAN]
    BY <1>3 DEF vars, IInv, TypeOK
  <2>2. UNCHANGED <<stage, trusted, plan, pos, line, inside, asked, seen, code, finish, gauges>>
    BY <1>3 DEF vars
  <2>3. QED
    BY <2>1, <2>2, QuietStep
<1>4. QED
  BY <1>1, <1>2, <1>3, ServeKeepsIInv, HangUpKeepsIInv, AdmitKeepsIInv DEF Next

(* Nobody has asked for anything when the gateway starts. *)
LEMMA InitIInv ==
  ASSUME Init
  PROVE  IInv
<1>1. TypeOK
  BY DEF Init, TypeOK, Stages, Codes
<1>2. Active = {} /\ \A t \in Targets : Waits(t) = {} /\ Runs(t) = {}
  BY DEF Init, Active, Waits, Runs, At
<1>3. Cardinality({}) = 0
  BY FS_EmptySet
<1>4. ASSUME NEW t \in Targets
      PROVE  WaitAt(t) /\ RunAt(t)
  <2>1. line[t] = <<>> /\ inside[t] = {} /\ waiting[t] = 0 /\ running[t] = 0
    BY DEF Init
  <2>2. ToSet(<<>>) = {} /\ IsInjective(<<>>)
    BY DEF ToSet, IsInjective
  <2>3. Together(t, {})
    BY <1>3, GatewayAssumption DEF Together
  <2>4. QED
    BY <1>2, <1>3, <2>1, <2>2, <2>3 DEF WaitAt, RunAt
<1>5. ASSUME NEW c \in Calls
      PROVE  CallIsSound(c)
  <2>1. /\ stage[c] = "idle" /\ plan[c] = <<>> /\ asked[c] = {} /\ seen[c] = NoModel
        /\ code[c] = "500" /\ finish[c] = "none"
    BY DEF Init
  <2>2. QED
    BY <2>1 DEF CallIsSound, Placed, Shown, EndedWell
<1>6. inflight = Cardinality(Active)
  BY <1>2, <1>3 DEF Init
<1>7. QED
  BY <1>1, <1>4, <1>5, <1>6 DEF IInv

-----------------------------------------------------------------------------
(* The invariant: where each request is, what it has asked and been shown,
   and what the gates and the gauges make of it, agree. *)
THEOREM RequestsStaySound == Spec => []IInv
<1>1. Init => IInv
  BY InitIInv
<1>2. IInv /\ [Next]_vars => IInv'
  BY NextKeepsIInv
<1>3. QED
  BY <1>1, <1>2, PTL DEF Spec

(* The gauges count every request once, at the target it is at, whichever way
   requests end, and no target's limit is passed. *)
THEOREM GaugesStayTrue == Spec => []GaugesAreTrue
<1>1. IInv => GaugesAreTrue
  BY DEF IInv, GaugesAreTrue, LimitsHold, WaitAt, RunAt, Waits, Runs, Active
<1>2. QED
  BY <1>1, RequestsStaySound, PTL

(* No request is ever sent to a target without a key, nor to one that costs
   money for a caller who is not trusted. *)
THEOREM MoneyIsForTheTrusted == Spec => []PaidForTheTrusted
<1>1. ASSUME IInv, NEW c \in Calls, NEW m \in asked[c]
      PROVE  TargetOf[m] \notin Unset /\ (TargetOf[m] \in Keyed => trusted[c])
  <2>1. Placed(c) /\ m \in ToSet(plan[c]) /\ plan[c] \in Seq(Models)
    BY <1>1 DEF IInv, TypeOK, CallIsSound, Placed
  <2>2. PICK i \in 1..Len(plan[c]) : plan[c][i] = m
    BY <2>1 DEF ToSet
  <2>3. QED
    BY <2>1, <2>2 DEF Placed, Usable
<1>2. IInv => PaidForTheTrusted
  BY <1>1 DEF PaidForTheTrusted
<1>3. QED
  BY <1>2, RequestsStaySound, PTL

(* An upstream's failure is the answer only when every candidate was asked. *)
THEOREM EveryCandidateIsTried == Spec => []FailureIsLastResort
<1>1. IInv => FailureIsLastResort
  BY DEF IInv, CallIsSound, EndedWell, FailureIsLastResort
<1>2. QED
  BY <1>1, RequestsStaySound, PTL

(* Who is counted as served has been served. *)
THEOREM SuccessIsAnAnswer == Spec => []NoFalseSuccess
<1>1. IInv => NoFalseSuccess
  BY DEF IInv, CallIsSound, EndedWell, NoFalseSuccess
<1>2. QED
  BY <1>1, RequestsStaySound, PTL

-----------------------------------------------------------------------------
(* Once the caller has seen something, nobody else is asked. *)
LEMMA NextKeepsAnswerer ==
  ASSUME IInv, [Next]_vars, NEW c \in Calls, seen[c] # NoModel
  PROVE  asked'[c] = asked[c] /\ seen'[c] = seen[c]
<1>0. TypeOK /\ stage[c] \in {"relaying", "ended"}
  BY DEF IInv, CallIsSound, Shown
<1>1. ASSUME NEW d \in Calls, Serve(d)
      PROVE  asked'[c] = asked[c] /\ seen'[c] = seen[c]
  <2>1. CASE stage[d] \in {"relaying", "ended"}
    <3>1. StreamEnds(d)
      BY <1>1, <2>1 DEF Serve, TurnAway, Plan, NoAnswer, ErrorAnswer, WholeAnswer, StreamBegins
    <3>2. QED
      BY <3>1 DEF StreamEnds, Answer
  <2>2. CASE stage[d] \notin {"relaying", "ended"}
    <3>1. d # c
      BY <1>0, <2>2
    <3>2. asked' = asked
      BY <1>1 DEF Serve, TurnAway, Plan, NoAnswer, ErrorAnswer, WholeAnswer, StreamBegins,
         StreamEnds, Answer, NextCandidate
    <3>3. seen' = seen \/ \E m : seen' = [seen EXCEPT ![d] = m]
      BY <1>1 DEF Serve, TurnAway, Plan, NoAnswer, ErrorAnswer, WholeAnswer, StreamBegins,
         StreamEnds, NextCandidate
    <3>4. QED
      BY <1>0, <3>1, <3>2, <3>3 DEF TypeOK
  <2>3. QED
    BY <2>1, <2>2
<1>2. ASSUME NEW d \in Calls, HangUp(d)
      PROVE  asked'[c] = asked[c] /\ seen'[c] = seen[c]
  BY <1>2 DEF HangUp, Answer
<1>3. ASSUME NEW d \in Calls, NEW isTrusted \in BOOLEAN, Arrive(d, isTrusted)
      PROVE  asked'[c] = asked[c] /\ seen'[c] = seen[c]
  BY <1>3 DEF Arrive
<1>4. ASSUME NEW u \in Targets, Admit(u)
      PROVE  asked'[c] = asked[c] /\ seen'[c] = seen[c]
  <2>1. line[u] \in Seq(Calls) /\ line[u] # <<>> /\ WaitAt(u)
    BY <1>0, <1>4 DEF IInv, Admit, TypeOK
  <2>2. PICK d \in Calls : d = Head(line[u])
    BY <2>1
  <2>3. d \in Waits(u)
    BY <2>1, <2>2, HeadOfLine DEF WaitAt
  <2>4. d # c
    BY <1>0, <2>3 DEF Waits, At
  <2>5. asked' = [asked EXCEPT ![d] = @ \cup {Model(d)}] /\ seen' = seen
    BY <1>4, <2>2 DEF Admit
  <2>6. QED
    BY <1>0, <2>4, <2>5 DEF TypeOK
<1>5. ASSUME NEW t \in Targets, Probe(t)
      PROVE  asked'[c] = asked[c] /\ seen'[c] = seen[c]
  BY <1>5 DEF Probe
<1>6. CASE UNCHANGED vars
  BY <1>6 DEF vars
<1>7. QED
  BY <1>1, <1>2, <1>3, <1>4, <1>5, <1>6 DEF Next

(* A request has one answerer: no other model is asked, and no other answer
   shown, once the caller has seen something of the first. *)
THEOREM OneAnswererOnly == Spec => OneAnswerer
<1>1. IInv /\ [Next]_vars
      => [\A c \in Calls : seen[c] # NoModel => asked'[c] = asked[c] /\ seen'[c] = seen[c]]_vars
  BY NextKeepsAnswerer
<1>2. QED
  BY <1>1, RequestsStaySound, PTL DEF Spec, OneAnswerer

-----------------------------------------------------------------------------
(* The plan for a request, in the terms it is made in. *)
May == {m \in Models : Usable(m, ask.trusted)}
Of(standing) == {m \in Models : Standing(m, ask.long, ask.up) = standing}
Eli == Those(ask.route, May)
UpOnes == Those(Eli, Of("ok"))
DownOnes == Those(Eli, Of("down"))

(* Where the usable models come from in the route, and those of a standing
   from among them. *)
LEMMA WhereFrom ==
  ASSUME ask \in PlanQuestions
  PROVE  /\ Eli \in Seq(Models) /\ UpOnes \in Seq(Models) /\ DownOnes \in Seq(Models)
         /\ \E h : Picks(ask.route, May, Eli, Len(ask.route), h)
         /\ \E h : Picks(Eli, Of("ok"), UpOnes, Len(Eli), h)
         /\ \E h : Picks(Eli, Of("down"), DownOnes, Len(Eli), h)
<1>1. ask.route \in Seq(Models)
  BY DEF PlanQuestions
<1>2. Eli \in Seq(Models) /\ \E h : Picks(ask.route, May, Eli, Len(ask.route), h)
  BY <1>1, ThosePicks DEF Eli
<1>3. UpOnes \in Seq(Models) /\ \E h : Picks(Eli, Of("ok"), UpOnes, Len(Eli), h)
  BY <1>2, ThosePicks DEF UpOnes
<1>4. DownOnes \in Seq(Models) /\ \E h : Picks(Eli, Of("down"), DownOnes, Len(Eli), h)
  BY <1>2, ThosePicks DEF DownOnes
<1>5. QED
  BY <1>2, <1>3, <1>4

(* A model's place in the route is the one it is at. *)
LEMMA PlaceIs ==
  ASSUME ask \in PlanQuestions, NEW i \in DOMAIN ask.route
  PROVE  Place(ask.route[i]) = i
<1>1. \A j \in DOMAIN ask.route : ask.route[j] = ask.route[i] => j = i
  BY DEF PlanQuestions, IsInjective
<1>2. QED
  BY <1>1 DEF Place

(* plan() in these terms. *)
LEMMA PlannedIs ==
  /\ Order(Eli, ask.long, ask.up) = UpOnes \o DownOnes
  /\ planned = IF UpOnes \o DownOnes # <<>>
               THEN Planned(UpOnes \o DownOnes,
                            Reason(Eli, UpOnes \o DownOnes, ask.long, ask.up))
               ELSE IF Eli # <<>> THEN Refused("413") ELSE Refused("503")
<1>1. Eligible(ask.route, ask.trusted) = Eli
  BY DEF Eligible, Eli, May
<1>2. /\ InStanding(Eli, "ok", ask.long, ask.up) = UpOnes
      /\ InStanding(Eli, "down", ask.long, ask.up) = DownOnes
  BY DEF InStanding, UpOnes, DownOnes, Of
<1>3. Order(Eli, ask.long, ask.up) = UpOnes \o DownOnes
  BY <1>2 DEF Order
<1>4. QED
  BY <1>1, <1>3 DEF planned, PlanRoute

(* The plan's candidates, and the place of each in the route. *)
Tried == UpOnes \o DownOnes
PlacesIn(p) ==
  /\ p \in [1..Len(Tried) -> 1..Len(ask.route)]
  /\ \A k \in 1..Len(Tried) :
       /\ ask.route[p[k]] = Tried[k] /\ Tried[k] \in May
       /\ Standing(Tried[k], ask.long, ask.up) = IF k <= Len(UpOnes) THEN "ok" ELSE "down"
  /\ \A j, k \in 1..Len(Tried) :
       j < k /\ (k <= Len(UpOnes) \/ j > Len(UpOnes)) => p[j] < p[k]
  /\ \A i \in 1..Len(ask.route) :
       ask.route[i] \in May /\ Standing(ask.route[i], ask.long, ask.up) \in {"ok", "down"}
         => \E k \in 1..Len(Tried) : p[k] = i

(* Those that are up and those that seem down are each in the route's order. *)
LEMMA TriedPlaces ==
  ASSUME ask \in PlanQuestions
  PROVE  /\ Tried \in Seq(Models) /\ \E p : PlacesIn(p)
<1>1. Eli \in Seq(Models) /\ UpOnes \in Seq(Models) /\ DownOnes \in Seq(Models)
  BY WhereFrom
<1>2. PICK e : Picks(ask.route, May, Eli, Len(ask.route), e)
  BY WhereFrom
<1>3. PICK u : Picks(Eli, Of("ok"), UpOnes, Len(Eli), u)
  BY WhereFrom
<1>4. PICK d : Picks(Eli, Of("down"), DownOnes, Len(Eli), d)
  BY WhereFrom
<1>r. ask.route \in Seq(Models) /\ Len(ask.route) \in Nat
  BY DEF PlanQuestions
<1>m. PICK R \in Nat, L \in Nat, U \in Nat, D \in Nat :
        R = Len(ask.route) /\ L = Len(Eli) /\ U = Len(UpOnes) /\ D = Len(DownOnes)
  BY <1>1, <1>r
<1>5. /\ e \in [1..L -> 1..R]
      /\ \A j, k \in 1..L : j < k => e[j] < e[k]
      /\ \A k \in 1..L : ask.route[e[k]] = Eli[k] /\ Eli[k] \in May
      /\ \A i \in 1..R : ask.route[i] \in May => \E k \in 1..L : e[k] = i
  BY <1>2, <1>m DEF Picks
<1>6. /\ u \in [1..U -> 1..L]
      /\ \A j, k \in 1..U : j < k => u[j] < u[k]
      /\ \A k \in 1..U : Eli[u[k]] = UpOnes[k] /\ UpOnes[k] \in Of("ok")
      /\ \A i \in 1..L : Eli[i] \in Of("ok") => \E k \in 1..U : u[k] = i
  BY <1>3, <1>m DEF Picks
<1>7. /\ d \in [1..D -> 1..L]
      /\ \A j, k \in 1..D : j < k => d[j] < d[k]
      /\ \A k \in 1..D : Eli[d[k]] = DownOnes[k] /\ DownOnes[k] \in Of("down")
      /\ \A i \in 1..L : Eli[i] \in Of("down") => \E k \in 1..D : d[k] = i
  BY <1>4, <1>m DEF Picks
<1>8. /\ Tried \in Seq(Models) /\ Len(Tried) = U + D
      /\ \A k \in 1..U : Tried[k] = UpOnes[k]
      /\ \A k \in 1..D : Tried[U + k] = DownOnes[k]
  BY <1>1, <1>m DEF Tried
<1> DEFINE at(k) == IF k <= U THEN u[k] ELSE d[k - U]
           p == [k \in 1..(U + D) |-> e[at(k)]]
<1>9. ASSUME NEW k \in 1..(U + D)
      PROVE  /\ at(k) \in 1..L /\ p[k] = e[at(k)] /\ p[k] \in 1..R
             /\ Eli[at(k)] = Tried[k]
             /\ ask.route[p[k]] = Tried[k] /\ Tried[k] \in May
             /\ Tried[k] \in Of(IF k <= U THEN "ok" ELSE "down")
  <2>1. CASE k <= U
    <3>1. k \in 1..U /\ at(k) = u[k]
      BY <1>m, <2>1
    <3>2. u[k] \in 1..L /\ Eli[u[k]] = UpOnes[k] /\ UpOnes[k] \in Of("ok")
      BY <1>6, <3>1
    <3>3. Tried[k] = UpOnes[k]
      BY <1>8, <3>1
    <3>4. QED
      BY <1>5, <2>1, <3>1, <3>2, <3>3
  <2>2. CASE ~(k <= U)
    <3>1. k - U \in 1..D /\ U + (k - U) = k
      BY <1>m, <2>2
    <3>2. d[k - U] \in 1..L /\ Eli[d[k - U]] = DownOnes[k - U] /\ DownOnes[k - U] \in Of("down")
      BY <1>7, <3>1
    <3>3. Tried[k] = DownOnes[k - U]
      BY <1>8, <3>1
    <3>4. QED
      BY <1>5, <2>2, <3>2, <3>3
  <2>3. QED
    BY <2>1, <2>2
<1>10. ASSUME NEW j \in 1..(U + D), NEW k \in 1..(U + D), j < k, k <= U \/ j > U
       PROVE  p[j] < p[k]
  <2>1. at(j) < at(k)
    <3>1. CASE k <= U
      BY <1>6, <1>10, <3>1
    <3>2. CASE j > U
      <4>1. j - U \in 1..D /\ k - U \in 1..D /\ j - U < k - U /\ ~(j <= U) /\ ~(k <= U)
        BY <1>m, <1>10, <3>2
      <4>2. QED
        BY <1>7, <4>1
    <3>3. QED
      BY <1>10, <3>1, <3>2
  <2>2. at(j) \in 1..L /\ at(k) \in 1..L /\ p[j] = e[at(j)] /\ p[k] = e[at(k)]
    BY <1>9
  <2> HIDE DEF at, p
  <2>3. QED
    BY <1>5, <2>1, <2>2
<1>11. ASSUME NEW i \in 1..R, ask.route[i] \in May,
              Standing(ask.route[i], ask.long, ask.up) \in {"ok", "down"}
       PROVE  \E k \in 1..(U + D) : p[k] = i
  <2>1. PICK l \in 1..L : e[l] = i
    BY <1>5, <1>11
  <2>2. Eli[l] = ask.route[i] /\ Eli[l] \in Models
    BY <1>1, <1>5, <1>m, <2>1
  <2>3. CASE Standing(ask.route[i], ask.long, ask.up) = "ok"
    <3>1. Eli[l] \in Of("ok")
      BY <2>2, <2>3 DEF Of
    <3>2. PICK k \in 1..U : u[k] = l
      BY <1>6, <3>1
    <3>3. k \in 1..(U + D) /\ at(k) = l
      BY <1>m, <3>2
    <3>4. QED
      BY <2>1, <3>3
  <2>4. CASE Standing(ask.route[i], ask.long, ask.up) = "down"
    <3>1. Eli[l] \in Of("down")
      BY <2>2, <2>4 DEF Of
    <3>2. PICK k \in 1..D : d[k] = l
      BY <1>7, <3>1
    <3>3. U + k \in 1..(U + D) /\ ~(U + k <= U) /\ (U + k) - U = k
      BY <1>m, <3>2
    <3>4. at(U + k) = l
      BY <3>2, <3>3
    <3>5. QED
      BY <2>1, <3>3, <3>4
  <2>5. QED
    BY <1>11, <2>3, <2>4
<1>12. PlacesIn(p)
  <2>1. \A k \in 1..(U + D) : /\ ask.route[p[k]] = Tried[k] /\ Tried[k] \in May
                              /\ p[k] \in 1..R
                              /\ Tried[k] \in Of(IF k <= U THEN "ok" ELSE "down")
    BY <1>9
  <2>2. \A k \in 1..(U + D) : Standing(Tried[k], ask.long, ask.up) = IF k <= U THEN "ok" ELSE "down"
    BY <2>1 DEF Of
  <2>3. p \in [1..(U + D) -> 1..R]
    BY <2>1
  <2> HIDE DEF p, at
  <2>4. QED
    BY <1>m, <1>8, <1>10, <1>11, <2>1, <2>2, <2>3 DEF PlacesIn
<1>13. QED
  BY <1>8, <1>12

(* A request is planned exactly when the route has a model for it; otherwise
   it is too long when one would do for a shorter request. *)
LEMMA StatusIs ==
  ASSUME NEW route \in Seq(Models), NEW isTrusted, NEW long, NEW ups
  PROVE  LET may == {m \in ToSet(route) : Usable(m, isTrusted)}
             fit == {m \in may : Standing(m, long, ups) # "too_long"}
             status == PlanRoute(route, isTrusted, long, ups).status
         IN  /\ status = "planned" <=> fit # {}
             /\ status = "413" <=> fit = {} /\ may # {}
<1> DEFINE ms == Eligible(route, isTrusted)
           oks == InStanding(ms, "ok", long, ups)
           downs == InStanding(ms, "down", long, ups)
           order == Order(ms, long, ups)
           may == {m \in ToSet(route) : Usable(m, isTrusted)}
           fit == {m \in may : Standing(m, long, ups) # "too_long"}
<1>0. ToSet(route) \subseteq Models
  BY DEF ToSet
<1>1. ms \in Seq(Models) /\ ToSet(ms) = may
  <2> DEFINE S == {m \in Models : Usable(m, isTrusted)}
  <2>1. Those(route, S) \in Seq(Models \cap S) /\ ToSet(Those(route, S)) = ToSet(route) \cap S
    BY ThoseMembers
  <2>2. Those(route, S) \in Seq(Models)
    BY <2>1
  <2>3. QED
    BY <1>0, <2>1, <2>2 DEF Eligible
<1> HIDE DEF ms
<1>2. ASSUME NEW standing
      PROVE  /\ InStanding(ms, standing, long, ups) \in Seq(Models)
             /\ ToSet(InStanding(ms, standing, long, ups))
                  = {m \in may : Standing(m, long, ups) = standing}
  <2> DEFINE S == {m \in Models : Standing(m, long, ups) = standing}
  <2>1. Those(ms, S) \in Seq(Models \cap S) /\ ToSet(Those(ms, S)) = ToSet(ms) \cap S
    BY <1>1, ThoseMembers
  <2>2. Those(ms, S) \in Seq(Models)
    BY <2>1
  <2>3. QED
    BY <1>0, <1>1, <2>1, <2>2 DEF InStanding
<1>3. /\ oks \in Seq(Models) /\ downs \in Seq(Models)
      /\ ToSet(oks) = {m \in may : Standing(m, long, ups) = "ok"}
      /\ ToSet(downs) = {m \in may : Standing(m, long, ups) = "down"}
  BY <1>2
<1>4. \A m : Standing(m, long, ups) \in {"ok", "down", "too_long"}
  BY DEF Standing
<1>5. fit = ToSet(oks) \cup ToSet(downs)
  BY <1>3, <1>4
<1> HIDE DEF oks, downs, may, fit
<1>6. order = oks \o downs
  BY DEF Order, oks, downs
<1>7. \A q \in Seq(Models) : q = <<>> <=> ToSet(q) = {}
  <2>1. ASSUME NEW q \in Seq(Models), q # <<>>
        PROVE  q[1] \in ToSet(q)
    BY <2>1 DEF ToSet
  <2>2. ToSet(<<>>) = {}
    BY DEF ToSet
  <2>3. QED
    BY <2>1, <2>2
<1>8. order = <<>> <=> fit = {}
  <2>1. oks \o downs = <<>> <=> oks = <<>> /\ downs = <<>>
    BY <1>3
  <2>2. QED
    BY <1>3, <1>5, <1>6, <1>7, <2>1
<1>9. ms = <<>> <=> may = {}
  BY <1>1, <1>7
<1>10. PlanRoute(route, isTrusted, long, ups)
         = IF order # <<>> THEN Planned(order, Reason(ms, order, long, ups))
           ELSE IF ms # <<>> THEN Refused("413") ELSE Refused("503")
  BY DEF PlanRoute, ms
<1> HIDE DEF order
<1>11. CASE order # <<>>
  BY <1>8, <1>10, <1>11 DEF Planned, may, fit
<1>12. CASE order = <<>>
  BY <1>8, <1>9, <1>10, <1>12 DEF Refused, may, fit
<1>13. QED
  BY <1>11, <1>12

(* The plan holds each candidate once, in the order it promises. *)
LEMMA OrderIsRight ==
  ASSUME ask \in PlanQuestions
  PROVE  EachIsTried
<1>r. /\ ask.route \in Seq(Models) /\ ask.trusted \in BOOLEAN /\ ask.long \in BOOLEAN
      /\ ask.up \in [Targets -> BOOLEAN]
  BY DEF PlanQuestions
<1>1. Tried \in Seq(Models)
  BY TriedPlaces
<1>2. PICK p : PlacesIn(p)
  BY TriedPlaces
<1>3. planned.order = Tried
  <2>1. CASE Tried # <<>>
    BY <2>1, PlannedIs DEF Planned, Tried
  <2>2. CASE Tried = <<>>
    BY <2>2, PlannedIs DEF Refused, Tried
  <2>3. QED
    BY <2>1, <2>2
<1>m. PICK R \in Nat, T \in Nat, U \in Nat :
        R = Len(ask.route) /\ T = Len(Tried) /\ U = Len(UpOnes)
  <2>1. UpOnes \in Seq(Models)
    BY WhereFrom
  <2>2. QED
    BY <1>1, <1>r, <2>1
<1>4. /\ p \in [1..T -> 1..R]
      /\ \A k \in 1..T :
           /\ ask.route[p[k]] = Tried[k] /\ Tried[k] \in May
           /\ Standing(Tried[k], ask.long, ask.up) = IF k <= U THEN "ok" ELSE "down"
      /\ \A j, k \in 1..T : j < k /\ (k <= U \/ j > U) => p[j] < p[k]
      /\ \A i \in 1..R :
           ask.route[i] \in May /\ Standing(ask.route[i], ask.long, ask.up) \in {"ok", "down"}
             => \E k \in 1..T : p[k] = i
  BY <1>2, <1>m DEF PlacesIn
<1>5. DOMAIN Tried = 1..T /\ DOMAIN ask.route = 1..R
  BY <1>1, <1>r, <1>m
<1>6. \A k \in 1..T : Place(Tried[k]) = p[k]
  <2>1. ASSUME NEW k \in 1..T
        PROVE  Place(Tried[k]) = p[k]
    <3>1. p[k] \in DOMAIN ask.route
      BY <1>4, <1>5
    <3>2. Place(ask.route[p[k]]) = p[k]
      BY <3>1, PlaceIs
    <3>3. QED
      BY <1>4, <3>2
  <2>2. QED
    BY <2>1
<1>7. \A m \in Models : /\ ask.up[TargetOf[m]] \in BOOLEAN
                        /\ Standing(m, ask.long, ask.up) = "ok" => IsUp(m)
                        /\ Standing(m, ask.long, ask.up) = "down" => ~IsUp(m)
  BY <1>r, RoutePlanAssumption DEF Standing, IsUp
<1>8. ToSet(Tried) = Candidates
  <2>1. ASSUME NEW k \in 1..T
        PROVE  Tried[k] \in Candidates
    <3>1. ask.route[p[k]] = Tried[k] /\ p[k] \in 1..R /\ Tried[k] \in May
      BY <1>4
    <3>2. Standing(Tried[k], ask.long, ask.up) # "too_long"
      BY <1>4
    <3>3. Tried[k] \in ToSet(ask.route)
      BY <1>5, <3>1 DEF ToSet
    <3>4. QED
      BY <3>1, <3>2, <3>3 DEF Candidates, May, Standing
  <2>2. ASSUME NEW m \in Candidates
        PROVE  m \in ToSet(Tried)
    <3>1. PICK i \in 1..R : ask.route[i] = m
      BY <1>5, <2>2 DEF Candidates, ToSet
    <3>2. m \in May
      BY <1>r, <1>5, <2>2, <3>1 DEF Candidates, May
    <3>3. Standing(m, ask.long, ask.up) \in {"ok", "down"}
      BY <2>2 DEF Candidates, Standing
    <3>4. PICK k \in 1..T : p[k] = i
      BY <1>4, <3>1, <3>2, <3>3
    <3>5. Tried[k] = m
      BY <1>4, <3>1, <3>4
    <3>6. QED
      BY <1>5, <3>5 DEF ToSet
  <2>3. QED
    BY <1>5, <2>1, <2>2 DEF ToSet
<1>9. ASSUME NEW i \in 1..T, NEW j \in 1..T, i < j
      PROVE  LET a == Tried[i]
                 b == Tried[j]
             IN  IF IsUp(a) = IsUp(b) THEN Place(a) < Place(b) ELSE IsUp(a)
  <2>1. Tried[i] \in Models /\ Tried[j] \in Models
    BY <1>1, <1>5
  <2>2. CASE j <= U
    <3>1. i <= U
      BY <1>9, <2>2
    <3>2. IsUp(Tried[i]) /\ IsUp(Tried[j])
      BY <1>4, <1>7, <2>1, <2>2, <3>1
    <3>3. Place(Tried[i]) < Place(Tried[j])
      BY <1>4, <1>6, <1>9, <2>2
    <3>4. QED
      BY <3>2, <3>3
  <2>3. CASE i > U
    <3>1. ~(j <= U) /\ ~(i <= U)
      BY <1>9, <2>3
    <3>2. ~IsUp(Tried[i]) /\ ~IsUp(Tried[j])
      BY <1>4, <1>7, <2>1, <3>1
    <3>3. Place(Tried[i]) < Place(Tried[j])
      BY <1>4, <1>6, <1>9, <2>3
    <3>4. IsUp(Tried[i]) \in BOOLEAN /\ IsUp(Tried[j]) \in BOOLEAN
      BY <1>7, <2>1 DEF IsUp
    <3>5. QED
      BY <3>2, <3>3, <3>4
  <2>4. CASE i <= U /\ ~(j <= U)
    <3>1. IsUp(Tried[i]) /\ ~IsUp(Tried[j])
      BY <1>4, <1>7, <2>1, <2>4
    <3>2. QED
      BY <3>1
  <2>5. QED
    BY <1>m, <2>2, <2>3, <2>4
<1>10. UpBeforeDown
  BY <1>3, <1>5, <1>9 DEF UpBeforeDown
<1>11. IsInjective(Tried)
  <2>1. ASSUME NEW i \in 1..T, NEW j \in 1..T, Tried[i] = Tried[j]
        PROVE  ~(i < j)
    <3>1. SUFFICES ASSUME i < j
                   PROVE  FALSE
      OBVIOUS
    <3>2. p[i] = p[j]
      BY <1>6, <2>1
    <3>3. ~(j <= U \/ i > U)
      <4>1. p[i] \in 1..R /\ p[j] \in 1..R
        BY <1>4
      <4>2. QED
        BY <1>4, <3>1, <3>2, <4>1
    <3>4. Standing(Tried[i], ask.long, ask.up) = "ok" /\ Standing(Tried[j], ask.long, ask.up) = "down"
      BY <1>4, <1>m, <3>3
    <3>5. QED
      BY <2>1, <3>4
  <2>2. \A i, j \in 1..T : Tried[i] = Tried[j] => i = j
    BY <2>1
  <2>3. QED
    BY <1>5, <2>2 DEF IsInjective
<1>12. /\ planned.status = "planned" <=> Candidates # {}
       /\ planned.status = "413" <=>
            /\ Candidates = {}
            /\ PlanRoute(ask.route, ask.trusted, FALSE, ask.up).status = "planned"
  <2> DEFINE may == {m \in ToSet(ask.route) : Usable(m, ask.trusted)}
             fit(long) == {m \in may : Standing(m, long, ask.up) # "too_long"}
  <2>1. /\ planned.status = "planned" <=> fit(ask.long) # {}
        /\ planned.status = "413" <=> fit(ask.long) = {} /\ may # {}
    BY <1>r, StatusIs DEF planned
  <2>2. PlanRoute(ask.route, ask.trusted, FALSE, ask.up).status = "planned" <=> fit(FALSE) # {}
    <3>1. ASSUME NEW b \in BOOLEAN
          PROVE  PlanRoute(ask.route, ask.trusted, b, ask.up).status = "planned" <=> fit(b) # {}
      BY <1>r, StatusIs
    <3> HIDE DEF fit
    <3>2. QED
      BY <3>1
  <2>3. fit(FALSE) = may
    BY DEF Standing
  <2>4. fit(ask.long) = Candidates
    BY DEF Standing, Candidates
  <2>5. QED
    BY <2>1, <2>2, <2>3, <2>4
<1>13. QED
  BY <1>3, <1>8, <1>10, <1>11, <1>12 DEF EachIsTried

(* The reason counted is why the models ahead in the route were passed over. *)
LEMMA ReasonIsRight ==
  ASSUME ask \in PlanQuestions
  PROVE  ReasonIsTrue
<1> SUFFICES ASSUME planned.status = "planned"
             PROVE  LET first == planned.order[1]
                        ahead == {m \in ToSet(ask.route) :
                                    Usable(m, ask.trusted) /\ Place(m) < Place(first)}
                    IN  IF ahead = {} THEN planned.reason = "first"
                        ELSE \/ planned.reason = "too_long" /\ \E m \in ahead : m \in Limited /\ ask.long
                             \/ planned.reason = "down" /\ \E m \in ahead : m \in Candidates /\ ~IsUp(m)
  BY DEF ReasonIsTrue
<1>r. ask.route \in Seq(Models) /\ ask.up \in [Targets -> BOOLEAN]
  BY DEF PlanQuestions
<1>1. Eli \in Seq(Models) /\ UpOnes \in Seq(Models) /\ DownOnes \in Seq(Models)
  BY WhereFrom
<1>2. PICK e : Picks(ask.route, May, Eli, Len(ask.route), e)
  BY WhereFrom
<1>3. PICK u : Picks(Eli, Of("ok"), UpOnes, Len(Eli), u)
  BY WhereFrom
<1>4. PICK d : Picks(Eli, Of("down"), DownOnes, Len(Eli), d)
  BY WhereFrom
<1>m. PICK R \in Nat, L \in Nat, U \in Nat, D \in Nat :
        R = Len(ask.route) /\ L = Len(Eli) /\ U = Len(UpOnes) /\ D = Len(DownOnes)
  BY <1>1, <1>r
<1>5. /\ e \in [1..L -> 1..R]
      /\ \A j, k \in 1..L : j < k => e[j] < e[k]
      /\ \A k \in 1..L : ask.route[e[k]] = Eli[k] /\ Eli[k] \in May
      /\ \A i \in 1..R : ask.route[i] \in May => \E k \in 1..L : e[k] = i
  BY <1>2, <1>m DEF Picks
<1>6. /\ u \in [1..U -> 1..L]
      /\ \A j, k \in 1..U : j < k => u[j] < u[k]
      /\ \A k \in 1..U : Eli[u[k]] = UpOnes[k]
      /\ \A i \in 1..L : Eli[i] \in Of("ok") => \E k \in 1..U : u[k] = i
  BY <1>3, <1>m DEF Picks
<1>7. /\ d \in [1..D -> 1..L]
      /\ \A j, k \in 1..D : j < k => d[j] < d[k]
      /\ \A k \in 1..D : Eli[d[k]] = DownOnes[k]
      /\ \A i \in 1..L : Eli[i] \in Of("down") => \E k \in 1..D : d[k] = i
  BY <1>4, <1>m DEF Picks
<1>8. Tried # <<>> /\ planned = Planned(Tried, Reason(Eli, Tried, ask.long, ask.up))
  BY PlannedIs DEF Tried, Refused
<1>9. planned.order = Tried /\ planned.reason = Reason(Eli, Tried, ask.long, ask.up)
  BY <1>8 DEF Planned
(* Each place among the usable models is a place of its own in the route. *)
<1>10. ASSUME NEW k \in 1..L
       PROVE  /\ e[k] \in 1..R /\ Place(Eli[k]) = e[k] /\ Eli[k] \in ToSet(ask.route)
              /\ Eli[k] \in Models /\ Usable(Eli[k], ask.trusted)
  <2>1. DOMAIN ask.route = 1..R
    BY <1>r, <1>m
  <2>2. e[k] \in DOMAIN ask.route /\ ask.route[e[k]] = Eli[k] /\ Eli[k] \in May
    BY <1>5, <2>1
  <2>3. Place(ask.route[e[k]]) = e[k]
    BY <2>2, PlaceIs
  <2>4. QED
    BY <2>1, <2>2, <2>3 DEF ToSet, May
<1>11. ASSUME NEW j \in 1..L, NEW k \in 1..L, Eli[j] = Eli[k]
       PROVE  j = k
  <2>1. e[j] = e[k] /\ e[j] \in 1..R /\ e[k] \in 1..R
    BY <1>10, <1>11
  <2>2. ~(j < k) /\ ~(k < j)
    BY <1>5, <2>1
  <2>3. QED
    BY <2>2
(* The one tried first is at place f: ahead of it none is up, and none seems
   down unless it is up itself. *)
<1>12. \E f \in 1..L :
         /\ Tried[1] = Eli[f]
         /\ \A i \in 1..L : i < f => Eli[i] \notin Of("ok")
         /\ Eli[f] \notin Of("ok") => \A i \in 1..L : i < f => Eli[i] \notin Of("down")
  <2>1. CASE U # 0
    <3>1. 1 \in 1..U /\ Tried[1] = UpOnes[1]
      BY <1>1, <1>m, <2>1 DEF Tried
    <3>2. u[1] \in 1..L /\ Eli[u[1]] = UpOnes[1]
      BY <1>6, <3>1
    <3>3. ASSUME NEW i \in 1..L, i < u[1], Eli[i] \in Of("ok")
          PROVE  FALSE
      <4>1. PICK k \in 1..U : u[k] = i
        BY <1>6, <3>3
      <4>2. k # 1 => 1 < k
        OBVIOUS
      <4>3. u[1] < u[k] \/ k = 1
        BY <1>6, <3>1, <4>2
      <4>4. QED
        BY <3>2, <3>3, <4>1, <4>3
    <3>4. UpOnes[1] \in Of("ok")
      BY <1>3, <1>m, <3>1 DEF Picks
    <3>5. QED
      BY <3>1, <3>2, <3>3, <3>4
  <2>2. CASE U = 0
    <3>1. UpOnes = <<>>
      <4>1. \A q \in Seq(Models) : Len(q) = 0 => q = <<>>
        OBVIOUS
      <4>2. QED
        BY <1>1, <1>m, <2>2, <4>1
    <3>2. D # 0 /\ Tried = DownOnes
      BY <1>1, <1>8, <1>m, <3>1 DEF Tried
    <3>3. 1 \in 1..D /\ d[1] \in 1..L /\ Eli[d[1]] = DownOnes[1]
      BY <1>7, <3>2
    <3>4. \A i \in 1..L : Eli[i] \notin Of("ok")
      BY <1>6, <2>2
    <3>5. ASSUME NEW i \in 1..L, i < d[1], Eli[i] \in Of("down")
          PROVE  FALSE
      <4>1. PICK k \in 1..D : d[k] = i
        BY <1>7, <3>5
      <4>2. k # 1 => 1 < k
        OBVIOUS
      <4>3. d[1] < d[k] \/ k = 1
        BY <1>7, <3>3, <4>2
      <4>4. QED
        BY <3>3, <3>5, <4>1, <4>3
    <3>6. QED
      BY <3>2, <3>3, <3>4, <3>5
  <2>3. QED
    BY <2>1, <2>2
<1>13. PICK f \in 1..L :
         /\ Tried[1] = Eli[f]
         /\ \A i \in 1..L : i < f => Eli[i] \notin Of("ok")
         /\ Eli[f] \notin Of("ok") => \A i \in 1..L : i < f => Eli[i] \notin Of("down")
  BY <1>12
<1> DEFINE ahead == {m \in ToSet(ask.route) :
                       Usable(m, ask.trusted) /\ Place(m) < Place(Tried[1])}
<1>14. Reason(Eli, Tried, ask.long, ask.up)
         = IF f = 1 THEN "first" ELSE Standing(Eli[f - 1], ask.long, ask.up)
  <2> DEFINE c == CHOOSE i \in DOMAIN Eli : Eli[i] = Tried[1]
  <2>1. DOMAIN Eli = 1..L
    BY <1>1, <1>m
  <2>2. c = f
    BY <1>11, <1>13, <2>1
  <2>3. Reason(Eli, Tried, ask.long, ask.up)
          = IF c = 1 THEN "first" ELSE Standing(Eli[c - 1], ask.long, ask.up)
    BY DEF Reason
  <2> HIDE DEF c
  <2>4. QED
    BY <2>2, <2>3
<1>15. CASE f = 1
  <2>1. ASSUME NEW m \in ahead
        PROVE  FALSE
    <3>1. DOMAIN ask.route = 1..R
      BY <1>r, <1>m
    <3>2. PICK i \in 1..R : ask.route[i] = m
      BY <3>1, <2>1 DEF ToSet
    <3>3. Place(ask.route[i]) = i
      BY <3>1, PlaceIs
    <3>4. ask.route[i] \in Models
      BY <1>r, <1>m
    <3>5. PICK k \in 1..L : e[k] = i
      BY <1>5, <2>1, <3>2, <3>4 DEF May
    <3>6. e[k] < e[f]
      BY <1>10, <1>13, <2>1, <3>2, <3>3, <3>5
    <3>7. k = f \/ e[f] < e[k]
      BY <1>5, <1>15
    <3>8. e[k] \in 1..R /\ e[f] \in 1..R
      BY <1>10
    <3>9. QED
      BY <3>6, <3>7, <3>8
  <2>2. QED
    BY <1>9, <1>14, <1>15, <2>1
<1>16. CASE f # 1
  <2>1. f - 1 \in 1..L /\ f - 1 < f
    BY <1>16
  <2> DEFINE m == Eli[f - 1]
  <2>2. m \in ToSet(ask.route) /\ m \in Models /\ Usable(m, ask.trusted)
    BY <1>10, <2>1
  <2>3. Place(m) < Place(Tried[1])
    <3>1. e[f - 1] < e[f]
      BY <1>5, <2>1
    <3>2. QED
      BY <1>10, <1>13, <2>1, <3>1
  <2>4. m \in ahead
    BY <2>2, <2>3
  <2>5. m \notin Of("ok")
    BY <1>13, <2>1
  <2> HIDE DEF m
  <2>6. planned.reason = Standing(m, ask.long, ask.up)
    BY <1>9, <1>14, <1>16 DEF m
  <2>7. Standing(m, ask.long, ask.up) \in {"too_long", "down"}
    BY <2>2, <2>5 DEF Of, Standing
  <2>8. CASE Standing(m, ask.long, ask.up) = "too_long"
    <3>1. m \in Limited /\ ask.long
      BY <2>8 DEF Standing
    <3>2. QED
      BY <1>9, <2>4, <2>6, <2>8, <3>1
  <2>9. CASE Standing(m, ask.long, ask.up) = "down"
    <3>1. ~(m \in Limited /\ ask.long) /\ ~IsUp(m)
      BY <2>9 DEF Standing, IsUp
    <3>2. m \in Candidates
      BY <2>2, <3>1 DEF Candidates
    <3>3. QED
      BY <1>9, <2>4, <2>6, <2>9, <3>1, <3>2
  <2>10. QED
    BY <2>7, <2>8, <2>9
<1>17. QED
  BY <1>15, <1>16

(* Any plan holds each candidate, once, those that seem down last, and only a
   request without a candidate is refused. *)
THEOREM EveryCandidateIsPlanned == AnyPlan => []EachIsTried
<1>1. ask \in PlanQuestions => EachIsTried
  BY OrderIsRight
<1>2. ask \in PlanQuestions /\ [ask' \in PlanQuestions]_ask => (ask \in PlanQuestions)'
  OBVIOUS
<1>3. QED
  BY <1>1, <1>2, PTL DEF AnyPlan

(* The reason that is counted for a plan is true of it. *)
THEOREM ReasonsAreTrue == AnyPlan => []ReasonIsTrue
<1>1. ask \in PlanQuestions => ReasonIsTrue
  BY ReasonIsRight
<1>2. ask \in PlanQuestions /\ [ask' \in PlanQuestions]_ask => (ask \in PlanQuestions)'
  OBVIOUS
<1>3. QED
  BY <1>1, <1>2, PTL DEF AnyPlan
================================================================================
