------------------------------- MODULE GateProofs -------------------------------
(***************************************************************************)
(* Theorems about Gate for every set of requests, every limit and both     *)
(* kinds of target.  Everything rests on lemma AdmitKeepsInv: one pass of  *)
(* _admit over a deque in order leaves the gate in order.                  *)
(***************************************************************************)
EXTENDS Gate, FiniteSetTheorems, WellFoundedInduction, TLAPS

(* A nonempty set of naturals has a least element. *)
LEMMA LeastNatural ==
  ASSUME NEW S \in SUBSET Nat, S # {}
  PROVE  \E x \in S : \A y \in S : x <= y
<1>1. PICK x \in S : \A y \in S : <<y, x>> \notin OpToRel(<, Nat)
  BY NatLessThanWellFounded, WFMin
<1>2. \A y \in S : ~(y < x)
  BY <1>1 DEF OpToRel
<1>3. QED
  BY <1>2

(* Another element adds one at most. *)
LEMMA CardinalityOneMore ==
  ASSUME NEW S, NEW x, IsFiniteSet(S)
  PROVE  Cardinality(S \cup {x}) <= Cardinality(S) + 1
<1>1. Cardinality(S) \in Nat
  BY FS_CardinalityType
<1>2. Cardinality(S \cup {x}) = IF x \in S THEN Cardinality(S) ELSE Cardinality(S) + 1
  BY FS_AddElement
<1>3. QED
  BY <1>1, <1>2

(* The entries of a deque. *)
Deque == Seq(Requests \cup {Gone})

(* The requests among the first entries are requests, and finitely many. *)
LEMMA CalledType ==
  ASSUME NEW w \in Deque, NEW k \in 0..Len(w)
  PROVE  /\ Called(w, k) \in SUBSET Requests
         /\ IsFiniteSet(Called(w, k))
         /\ Cardinality(Called(w, k)) \in Nat
<1>1. Called(w, k) \in SUBSET Requests
  BY DEF Called, Deque
<1>2. QED
  BY <1>1, GateAssumption, FS_Subset, FS_CardinalityType

(* Among the first k entries there is a last one that is a request, and it
   decides the model the gate remembers. *)
LEMMA LastCalled ==
  ASSUME NEW w \in Deque, NEW k \in 0..Len(w), NEW want, NEW mdl,
         Called(w, k) # {}
  PROVE  \E i \in 1..k : /\ w[i] # Gone
                         /\ \A j \in (i+1)..k : w[j] = Gone
                         /\ ModelAfter(w, want, mdl, k) = want[w[i]]
<1> DEFINE S == {d \in 0..k : k - d \in 1..k /\ w[k - d] # Gone}
           IsLast(i) == w[i] # Gone /\ \A j \in (i+1)..k : w[j] = Gone
<1>1. PICK i0 \in 1..k : w[i0] # Gone
  BY DEF Called
<1>2. k - i0 \in S
  BY <1>1
<1>3. PICK d \in S : \A e \in S : d <= e
  <2>1. S \in SUBSET Nat
    OBVIOUS
  <2>2. QED
    BY <2>1, <1>2, LeastNatural
<1>4. IsLast(k - d)
  <2>1. ASSUME NEW j \in (k - d + 1)..k, w[j] # Gone
        PROVE  FALSE
    <3>1. k - j \in S
      BY <2>1
    <3>2. QED
      BY <3>1, <1>3
  <2>2. QED
    BY <2>1, <1>3
<1>5. k - d \in 1..k
  BY <1>3
<1> DEFINE last == CHOOSE i \in 1..k : IsLast(i)
<1>6. last \in 1..k /\ IsLast(last)
  BY <1>4, <1>5, Zenon
<1>7. ModelAfter(w, want, mdl, k) = want[w[last]]
  BY DEF ModelAfter
<1>8. QED
  BY <1>6, <1>7

-----------------------------------------------------------------------------
(* A pass that takes k entries of an exclusive gate off the deque lets in
   requests for one model only, that of those inside if there are any. *)
LEMMA OneModelCalled ==
  ASSUME NEW w \in Deque, NEW k \in 0..Len(w), NEW want, NEW mdl, NEW n \in Nat,
         Exclusive,
         \A i \in 1..k : Passes(w, want, mdl, n, i)
  PROVE  /\ \A r \in Called(w, k) : n > 0 => want[r] = mdl
         /\ \A r, s \in Called(w, k) : want[r] = want[s]
<1>1. ASSUME NEW i \in 1..k, w[i] # Gone
      PROVE  \/ n = 0 /\ Called(w, i-1) = {}
             \/ Called(w, i-1) = {} /\ mdl = want[w[i]]
             \/ \E j \in 1..(i-1) : w[j] # Gone /\ want[w[j]] = want[w[i]]
  <2>1. Fits(n + Cardinality(Called(w, i-1)), ModelAfter(w, want, mdl, i-1), want[w[i]])
    BY <1>1 DEF Passes
  <2>2. i-1 \in 0..Len(w)
    OBVIOUS
  <2>3. CASE Called(w, i-1) = {}
    <3>1. Cardinality(Called(w, i-1)) = 0
      BY <2>3, FS_EmptySet
    <3>2. n = 0 \/ mdl = want[w[i]]
      BY <2>1, <2>3, <3>1 DEF Fits, ModelAfter
    <3>3. QED
      BY <2>3, <3>2
  <2>4. CASE Called(w, i-1) # {}
    <3>1. IsFiniteSet(Called(w, i-1)) /\ Cardinality(Called(w, i-1)) \in Nat
      BY <2>2, CalledType
    <3>2. Cardinality(Called(w, i-1)) # 0
      BY <3>1, <2>4, FS_EmptySet
    <3>3. ModelAfter(w, want, mdl, i-1) = want[w[i]]
      BY <2>1, <3>1, <3>2 DEF Fits
    <3>4. PICK j \in 1..(i-1) : w[j] # Gone /\ ModelAfter(w, want, mdl, i-1) = want[w[j]]
      BY <2>2, <2>4, LastCalled
    <3>5. QED
      BY <3>3, <3>4
  <2>5. QED
    BY <2>3, <2>4
<1>2. ASSUME NEW v,
             \A i \in 1..k : w[i] # Gone /\ Called(w, i-1) = {} => want[w[i]] = v
      PROVE  \A i \in 1..k : w[i] # Gone => want[w[i]] = v
  <2> DEFINE Bad == {i \in 1..k : w[i] # Gone /\ want[w[i]] # v}
  <2> SUFFICES ASSUME Bad # {}
               PROVE  FALSE
    OBVIOUS
  <2>1. PICK i \in Bad : \A j \in Bad : i <= j
    <3>1. Bad \in SUBSET Nat
      OBVIOUS
    <3>2. QED
      BY <3>1, LeastNatural
  <2>2. i \in 1..k /\ w[i] # Gone /\ want[w[i]] # v
    OBVIOUS
  <2>3. PICK j \in 1..(i-1) : w[j] # Gone /\ want[w[j]] = want[w[i]]
    BY <1>1, <1>2, <2>2
  <2>4. j \in Bad
    BY <2>2, <2>3
  <2>5. QED
    BY <2>1, <2>3, <2>4
<1>3. ASSUME NEW r \in Called(w, k), n > 0
      PROVE  want[r] = mdl
  <2>1. ASSUME NEW i \in 1..k, w[i] # Gone, Called(w, i-1) = {}
        PROVE  want[w[i]] = mdl
    <3>1. \A j \in 1..(i-1) : w[j] = Gone
      BY <2>1 DEF Called
    <3>2. QED
      BY <1>1, <1>3, <2>1, <3>1
  <2>2. \A i \in 1..k : w[i] # Gone => want[w[i]] = mdl
    BY <1>2, <2>1
  <2>3. QED
    BY <2>2 DEF Called
<1>4. ASSUME NEW r \in Called(w, k), NEW s \in Called(w, k)
      PROVE  want[r] = want[s]
  <2>1. PICK i0 \in 1..k : w[i0] # Gone
    BY <1>4 DEF Called
  <2> DEFINE Firsts == {i \in 1..k : w[i] # Gone}
  <2>2. PICK f \in Firsts : \A i \in Firsts : f <= i
    <3>1. Firsts \in SUBSET Nat /\ i0 \in Firsts
      BY <2>1
    <3>2. QED
      BY <3>1, LeastNatural
  <2>3. ASSUME NEW i \in 1..k, w[i] # Gone, Called(w, i-1) = {}
        PROVE  want[w[i]] = want[w[f]]
    <3>1. f <= i /\ f \in 1..k /\ w[f] # Gone
      BY <2>2, <2>3
    <3>2. f \notin 1..(i-1)
      BY <2>3, <3>1 DEF Called
    <3>3. f = i
      BY <3>1, <3>2
    <3>4. QED
      BY <3>3
  <2>4. \A i \in 1..k : w[i] # Gone => want[w[i]] = want[w[f]]
    BY <1>2, <2>3
  <2>5. QED
    BY <2>4 DEF Called
<1>5. QED
  BY <1>3, <1>4

-----------------------------------------------------------------------------
(* What _admit finds when it is called: w, want, n and place describe a gate
   in order. *)
InOrder(w, want, n, place) ==
  LET held == {r \in Requests : place[r] \in Holding} IN
  /\ w \in Deque
  /\ want \in [Requests -> Models]
  /\ place \in [Requests -> Places]
  /\ n \in Nat
  /\ n = Cardinality(held)
  /\ Slots # 0 => n <= Slots
  /\ Exclusive => \A r \in held : want[r] = model
  /\ \A r \in Requests : place[r] = "waiting" <=> \E i \in DOMAIN w : w[i] = r
  /\ \A i, j \in DOMAIN w : w[i] = w[j] /\ w[i] # Gone => i = j

(* One pass over a deque in order lets in what the limits allow. *)
LEMMA AdmitKeepsInv ==
  ASSUME TypeOK,
         NEW w, NEW want, NEW n, NEW place,
         InOrder(w, want, n, place),
         Admit(w, want, n, place)
  PROVE  Inv'
<1> DEFINE held == {r \in Requests : place[r] \in Holding}
<1>1. /\ w \in Deque
      /\ want \in [Requests -> Models]
      /\ place \in [Requests -> Places]
      /\ n \in Nat
      /\ n = Cardinality(held)
      /\ Slots # 0 => n <= Slots
      /\ Exclusive => \A r \in held : want[r] = model
      /\ \A r \in Requests : place[r] = "waiting" <=> \E i \in DOMAIN w : w[i] = r
      /\ \A i, j \in DOMAIN w : w[i] = w[j] /\ w[i] # Gone => i = j
  BY DEF InOrder
<1>2. PICK k \in 0..Len(w) :
        /\ \A i \in 1..k : Passes(w, want, model, n, i)
        /\ waiters' = SubSeq(w, k+1, Len(w))
        /\ running' = n + Cardinality(Called(w, k))
        /\ model' = ModelAfter(w, want, model, k)
        /\ wants' = want
        /\ at' = [r \in Requests |->
                    IF r \in Called(w, k)
                    THEN IF at[r] = "out" THEN "inside" ELSE "called"
                    ELSE place[r]]
  BY DEF Admit, Takes
<1> DEFINE C == Called(w, k)
<1>3. /\ C \in SUBSET Requests
      /\ IsFiniteSet(C)
      /\ Cardinality(C) \in Nat
  BY <1>1, CalledType
<1>4. \A r \in C : place[r] = "waiting"
  BY <1>1, <1>3 DEF Called, Deque
<1>5. Holders' = held \cup C
  BY <1>1, <1>2, <1>3, <1>4 DEF Holders, Holding
<1>6. held \cap C = {}
  BY <1>4 DEF Holding
<1>7. TypeOK'
  <2>1. model' \in Models \cup {NoModel}
    <3>1. CASE C = {}
      BY <1>2, <3>1 DEF ModelAfter, TypeOK
    <3>2. CASE C # {}
      <4>1. PICK i \in 1..k : w[i] # Gone /\ model' = want[w[i]]
        BY <1>1, <1>2, <3>2, LastCalled
      <4>2. w[i] \in Requests
        BY <1>1, <4>1 DEF Deque
      <4>3. QED
        BY <1>1, <4>1, <4>2
    <3>3. QED
      BY <3>1, <3>2
  <2>2. running' \in Nat
    BY <1>1, <1>2, <1>3
  <2>3. waiters' \in Seq(Requests \cup {Gone})
    BY <1>1, <1>2 DEF Deque
  <2>4. at' \in [Requests -> Places]
    BY <1>1, <1>2 DEF Places
  <2>5. QED
    BY <1>1, <1>2, <2>1, <2>2, <2>3, <2>4 DEF TypeOK
<1>8. Queued'
  <2>1. /\ DOMAIN waiters' = 1..(Len(w) - k)
        /\ \A i \in 1..(Len(w) - k) : waiters'[i] = w[i + k]
    BY <1>1, <1>2 DEF Deque
  <2>2. DOMAIN w = 1..Len(w)
    BY <1>1 DEF Deque
  <2>3. ASSUME NEW r \in Requests
        PROVE  at'[r] = "waiting" <=> \E i \in DOMAIN waiters' : waiters'[i] = r
    <3>1. CASE r \in C
      <4>1. at'[r] # "waiting"
        BY <1>2, <3>1
      <4>2. PICK j \in 1..k : w[j] = r
        BY <3>1 DEF Called
      <4>3. ASSUME NEW i \in DOMAIN waiters', waiters'[i] = r
            PROVE  FALSE
        <5>1. w[i + k] = w[j] /\ w[j] # Gone /\ i + k \in DOMAIN w /\ j \in DOMAIN w
          BY <2>1, <2>2, <4>2, <4>3, GateAssumption
        <5>2. i + k = j
          BY <1>1, <5>1
        <5>3. QED
          BY <5>2, <2>1, <4>2, <4>3
      <4>4. QED
        BY <4>1, <4>3
    <3>2. CASE r \notin C
      <4>1. at'[r] = place[r]
        BY <1>2, <3>2
      <4>2. \A i \in 1..k : w[i] # r
        BY <3>2, GateAssumption DEF Called
      <4>3. (\E i \in DOMAIN w : w[i] = r) <=> \E i \in 1..(Len(w) - k) : w[i + k] = r
        <5>1. ASSUME NEW i \in DOMAIN w, w[i] = r
              PROVE  i - k \in 1..(Len(w) - k) /\ w[(i - k) + k] = r
          BY <1>1, <2>2, <4>2, <5>1 DEF Deque
        <5>2. \A i \in 1..(Len(w) - k) : i + k \in DOMAIN w
          BY <1>1, <2>2 DEF Deque
        <5>3. QED
          BY <5>1, <5>2
      <4>4. QED
        BY <1>1, <2>1, <4>1, <4>3
    <3>3. QED
      BY <3>1, <3>2
  <2>4. \A i, j \in DOMAIN waiters' :
          waiters'[i] = waiters'[j] /\ waiters'[i] # Gone => i = j
    <3>1. \A i \in 1..(Len(w) - k) : i + k \in DOMAIN w
      BY <1>1, <2>2 DEF Deque
    <3>2. ASSUME NEW i \in 1..(Len(w) - k), NEW j \in 1..(Len(w) - k),
                 w[i + k] = w[j + k], w[i + k] # Gone
          PROVE  i = j
      <4>1. i + k = j + k
        BY <1>1, <3>1, <3>2
      <4>2. QED
        BY <4>1
    <3>3. QED
      BY <2>1, <3>2
  <2>5. QED
    BY <2>3, <2>4 DEF Queued
<1>9. NoSlotLeak'
  <2>1. IsFiniteSet(held)
    BY GateAssumption, FS_Subset
  <2>2. Cardinality(held \cup C) = Cardinality(held) + Cardinality(C) - Cardinality(held \cap C)
    BY <1>3, <2>1, FS_Union
  <2>3. Cardinality(held \cap C) = 0
    BY <1>6, FS_EmptySet
  <2>4. Cardinality(held \cup C) = n + Cardinality(C)
    BY <1>1, <1>3, <2>2, <2>3
  <2>5. QED
    BY <1>2, <1>5, <2>4 DEF NoSlotLeak
<1>10. SlotsRespected'
  <2> SUFFICES ASSUME Slots # 0
               PROVE  running' <= Slots
    BY <1>9 DEF SlotsRespected, NoSlotLeak
  <2>1. CASE C = {}
    BY <1>1, <1>2, <2>1, FS_EmptySet
  <2>2. CASE C # {}
    <3>1. PICK i \in 1..k : w[i] # Gone /\ \A j \in (i+1)..k : w[j] = Gone
      <4>1. w \in Deque
        BY <1>1
      <4>2. \E i \in 1..k : /\ w[i] # Gone
                            /\ \A j \in (i+1)..k : w[j] = Gone
                            /\ ModelAfter(w, want, model, k) = want[w[i]]
        <5>1. Called(w, k) # {}
          BY <2>2
        <5>2. QED
          BY <4>1, <5>1, LastCalled, SMTT(60)
      <4>3. QED
        BY <4>2
    <3>2. n + Cardinality(Called(w, i-1)) < Slots
      BY <1>2, <3>1 DEF Passes, Fits
    <3>3. C = Called(w, i-1) \cup {w[i]}
      <4>1. \A j \in 1..k : w[j] # Gone => j \in 1..(i-1) \/ j = i
        BY <3>1
      <4>2. QED
        BY <3>1, <4>1 DEF Called
    <3>4. /\ IsFiniteSet(Called(w, i-1))
          /\ Cardinality(Called(w, i-1)) \in Nat
      BY <1>1, CalledType
    <3>5. Cardinality(C) <= Cardinality(Called(w, i-1)) + 1
      <4>1. Cardinality(Called(w, i-1) \cup {w[i]}) <= Cardinality(Called(w, i-1)) + 1
        BY <3>4, CardinalityOneMore
      <4>2. QED
        BY <3>3, <4>1
    <3>6. QED
      BY <1>1, <1>2, <1>3, <3>2, <3>4, <3>5, GateAssumption
  <2>3. QED
    BY <2>1, <2>2
<1>11. ModelIsTheirs'
  <2> SUFFICES ASSUME Exclusive, NEW r \in held \cup C
               PROVE  want[r] = model'
    BY <1>2, <1>5 DEF ModelIsTheirs
  <2>1. CASE C = {}
    BY <1>1, <1>2, <2>1 DEF ModelAfter
  <2>2. CASE C # {}
    <3>1. PICK i \in 1..k : w[i] # Gone /\ model' = want[w[i]]
      BY <1>1, <1>2, <2>2, LastCalled
    <3>2. w[i] \in C
      BY <3>1 DEF Called
    <3>3. /\ \A q \in C : n > 0 => want[q] = model
          /\ \A q, s \in C : want[q] = want[s]
      <4>1. \A i1 \in 1..k : Passes(w, want, model, n, i1)
        BY <1>2
      <4>2. w \in Deque /\ n \in Nat /\ k \in 0..Len(w)
        BY <1>1
      <4>3. QED
        BY <4>1, <4>2, OneModelCalled, Zenon
    <3>4. CASE r \in C
      BY <3>1, <3>2, <3>3, <3>4
    <3>5. CASE r \in held
      <4>1. IsFiniteSet(held)
        BY GateAssumption, FS_Subset
      <4>2. n # 0
        BY <1>1, <3>5, <4>1, FS_EmptySet
      <4>3. want[w[i]] = model
        BY <1>1, <3>2, <3>3, <4>2
      <4>4. QED
        BY <1>1, <3>1, <3>5, <4>3
    <3>6. QED
      BY <3>4, <3>5
  <2>3. QED
    BY <2>1, <2>2
<1>12. QED
  BY <1>7, <1>8, <1>9, <1>10, <1>11 DEF Inv

-----------------------------------------------------------------------------
(* What each caller of _admit hands it is in order. *)
LEMMA EnterInOrder ==
  ASSUME Inv, NEW r \in Requests, NEW m \in Models, at[r] = "out"
  PROVE  InOrder(Append(waiters, r), [wants EXCEPT ![r] = m], running,
                 [at EXCEPT ![r] = "waiting"])
<1> DEFINE w == Append(waiters, r)
           want == [wants EXCEPT ![r] = m]
           place == [at EXCEPT ![r] = "waiting"]
           held == {q \in Requests : place[q] \in Holding}
<1>1. TypeOK /\ Queued /\ NoSlotLeak /\ SlotsRespected /\ ModelIsTheirs
  BY DEF Inv
<1>2. held = Holders
  BY <1>1 DEF TypeOK, Holders, Holding
<1>3. w \in Deque /\ Len(w) = Len(waiters) + 1 /\ DOMAIN w = 1..Len(w)
  BY <1>1 DEF TypeOK, Deque
<1>4. /\ DOMAIN waiters = 1..Len(waiters)
      /\ Len(waiters) \in Nat
      /\ \A i \in 1..Len(waiters) : w[i] = waiters[i]
      /\ w[Len(waiters) + 1] = r
  BY <1>1 DEF TypeOK
<1>5. want \in [Requests -> Models] /\ place \in [Requests -> Places]
  BY <1>1 DEF TypeOK, Places
<1>6. running \in Nat /\ running = Cardinality(held) /\ (Slots # 0 => running <= Slots)
  BY <1>1, <1>2 DEF TypeOK, NoSlotLeak, SlotsRespected
<1>7. Exclusive => \A q \in held : want[q] = model
  BY <1>1, <1>2 DEF TypeOK, ModelIsTheirs, Holders, Holding
<1>8. \A i \in DOMAIN waiters : waiters[i] # r
  BY <1>1 DEF Queued
<1>9. ASSUME NEW q \in Requests
      PROVE  place[q] = "waiting" <=> \E i \in DOMAIN w : w[i] = q
  <2>1. CASE q = r
    BY <1>1, <1>3, <1>4, <2>1 DEF TypeOK
  <2>2. CASE q # r
    <3>1. place[q] = at[q]
      BY <1>1, <2>2 DEF TypeOK
    <3>2. at[q] = "waiting" <=> \E i \in DOMAIN waiters : waiters[i] = q
      BY <1>1 DEF Queued
    <3>3. QED
      BY <1>3, <1>4, <2>2, <3>1, <3>2
  <2>3. QED
    BY <2>1, <2>2
<1>10. ASSUME NEW i \in DOMAIN w, NEW j \in DOMAIN w, w[i] = w[j], w[i] # Gone
       PROVE  i = j
  <2>1. CASE i \in DOMAIN waiters /\ j \in DOMAIN waiters
    BY <1>1, <1>4, <1>10, <2>1 DEF Queued
  <2>2. CASE i \notin DOMAIN waiters \/ j \notin DOMAIN waiters
    <3>1. w[i] = r /\ w[j] = r
      BY <1>3, <1>4, <1>10, <2>2
    <3>2. i \notin DOMAIN waiters /\ j \notin DOMAIN waiters
      BY <1>4, <1>8, <3>1
    <3>3. QED
      BY <1>3, <1>4, <3>2
  <2>3. QED
    BY <2>1, <2>2
<1>11. QED
  BY <1>3, <1>5, <1>6, <1>7, <1>9, <1>10 DEF InOrder

(* Whoever gives a slot back leaves the deque in order and the count exact. *)
LEMMA GiveBackInOrder ==
  ASSUME Inv, NEW r \in Requests, at[r] \in {"inside", "refused"}
  PROVE  InOrder(waiters, wants, running - 1, [at EXCEPT ![r] = "out"])
<1> DEFINE place == [at EXCEPT ![r] = "out"]
           held == {q \in Requests : place[q] \in Holding}
<1>1. TypeOK /\ Queued /\ NoSlotLeak /\ SlotsRespected /\ ModelIsTheirs
  BY DEF Inv
<1>2. held = Holders \ {r} /\ r \in Holders
  BY <1>1 DEF TypeOK, Holders, Holding
<1>3. IsFiniteSet(Holders) /\ Cardinality(Holders) \in Nat
  BY GateAssumption, FS_Subset, FS_CardinalityType DEF Holders
<1>4. IsFiniteSet(held) /\ Cardinality(held) = running - 1
  BY <1>1, <1>2, <1>3, FS_RemoveElement DEF NoSlotLeak
<1>5. Cardinality(held) \in Nat
  BY <1>4, FS_CardinalityType
<1>6. running \in Nat /\ (Slots # 0 => running <= Slots)
  BY <1>1 DEF TypeOK, NoSlotLeak, SlotsRespected
<1>7. /\ running - 1 \in Nat
      /\ running - 1 = Cardinality(held)
      /\ Slots # 0 => running - 1 <= Slots
  BY <1>4, <1>5, <1>6, GateAssumption
<1>8. Exclusive => \A q \in held : wants[q] = model
  BY <1>1, <1>2 DEF ModelIsTheirs
<1>9. /\ waiters \in Deque
      /\ wants \in [Requests -> Models]
      /\ place \in [Requests -> Places]
  BY <1>1 DEF TypeOK, Deque, Places
<1>10. /\ \A q \in Requests : place[q] = "waiting" <=> \E i \in DOMAIN waiters : waiters[i] = q
       /\ \A i, j \in DOMAIN waiters : waiters[i] = waiters[j] /\ waiters[i] # Gone => i = j
  BY <1>1 DEF TypeOK, Queued
<1>11. QED
  BY <1>7, <1>8, <1>9, <1>10 DEF InOrder

(* A request that was dropped from the deque and goes away changes nothing. *)
LEMMA DroppedInOrder ==
  ASSUME Inv, NEW r \in Requests, at[r] = "dropped"
  PROVE  InOrder(waiters, wants, running, [at EXCEPT ![r] = "out"])
<1> DEFINE place == [at EXCEPT ![r] = "out"]
           held == {q \in Requests : place[q] \in Holding}
<1>1. TypeOK /\ Queued /\ NoSlotLeak /\ SlotsRespected /\ ModelIsTheirs
  BY DEF Inv
<1>2. held = Holders
  BY <1>1 DEF TypeOK, Holders, Holding
<1>3. /\ running \in Nat
      /\ running = Cardinality(held)
      /\ Slots # 0 => running <= Slots
      /\ Exclusive => \A q \in held : wants[q] = model
  BY <1>1, <1>2 DEF TypeOK, NoSlotLeak, SlotsRespected, ModelIsTheirs
<1>4. /\ waiters \in Deque
      /\ wants \in [Requests -> Models]
      /\ place \in [Requests -> Places]
  BY <1>1 DEF TypeOK, Deque, Places
<1>5. /\ \A q \in Requests : place[q] = "waiting" <=> \E i \in DOMAIN waiters : waiters[i] = q
      /\ \A i, j \in DOMAIN waiters : waiters[i] = waiters[j] /\ waiters[i] # Gone => i = j
  BY <1>1 DEF TypeOK, Queued
<1>6. QED
  BY <1>3, <1>4, <1>5 DEF InOrder

-----------------------------------------------------------------------------
(* The invariant holds at the start and every step keeps it. *)
LEMMA InitInv == Init => Inv
<1> SUFFICES ASSUME Init
             PROVE  Inv
  OBVIOUS
<1>1. Holders = {} /\ Cardinality(Holders) = 0
  BY FS_EmptySet DEF Init, Holders, Holding
<1>2. TypeOK
  BY DEF Init, TypeOK, Places
<1>3. Queued
  BY DEF Init, Queued
<1>4. NoSlotLeak /\ SlotsRespected /\ ModelIsTheirs
  BY <1>1, GateAssumption DEF Init, NoSlotLeak, SlotsRespected, ModelIsTheirs
<1>5. QED
  BY <1>2, <1>3, <1>4 DEF Inv

(* Waking a granted request keeps the invariant. *)
LEMMA WakeInv ==
  ASSUME Inv, NEW r \in Requests, Wake(r)
  PROVE  Inv'
<1>1. TypeOK /\ Queued /\ NoSlotLeak /\ SlotsRespected /\ ModelIsTheirs
  BY DEF Inv
<1>2. TypeOK'
  BY <1>1 DEF Wake, TypeOK, Places
<1>3. Holders' = Holders
  BY <1>1 DEF Wake, TypeOK, Holders, Holding
<1>4. Queued'
  BY <1>1 DEF Wake, TypeOK, Queued
<1>5. NoSlotLeak' /\ SlotsRespected' /\ ModelIsTheirs'
  BY <1>1, <1>3 DEF Wake, NoSlotLeak, SlotsRespected, ModelIsTheirs
<1>6. QED
  BY <1>2, <1>4, <1>5 DEF Inv

(* A caller that hangs up while it waits keeps the invariant. *)
LEMMA CancelInv ==
  ASSUME Inv, NEW r \in Requests, Cancel(r)
  PROVE  Inv'
<1>1. TypeOK /\ Queued /\ NoSlotLeak /\ SlotsRespected /\ ModelIsTheirs
  BY DEF Inv
<1>2. CASE /\ at[r] = "waiting"
           /\ at' = [at EXCEPT ![r] = "dropped"]
           /\ waiters' = [i \in DOMAIN waiters |-> IF waiters[i] = r THEN Gone ELSE waiters[i]]
           /\ UNCHANGED <<model, running, wants>>
  <2>1. Len(waiters) \in Nat /\ DOMAIN waiters = 1..Len(waiters)
    BY <1>1 DEF TypeOK
  <2>2. waiters' \in Seq(Requests \cup {Gone})
    <3>1. waiters' \in [1..Len(waiters) -> Requests \cup {Gone}]
      BY <1>1, <1>2, <2>1 DEF TypeOK
    <3>2. QED
      BY <2>1, <3>1
  <2>3. TypeOK'
    BY <1>1, <1>2, <2>2 DEF TypeOK, Places
  <2>4. Holders' = Holders
    BY <1>1, <1>2 DEF TypeOK, Holders, Holding
  <2>5. ASSUME NEW q \in Requests
        PROVE  at'[q] = "waiting" <=> \E i \in DOMAIN waiters' : waiters'[i] = q
    <3>1. CASE q = r
      <4>1. at'[q] # "waiting"
        BY <1>1, <1>2, <3>1 DEF TypeOK
      <4>2. \A i \in DOMAIN waiters' : waiters'[i] # q
        BY <1>2, <3>1, GateAssumption
      <4>3. QED
        BY <4>1, <4>2
    <3>2. CASE q # r
      <4>1. at'[q] = at[q]
        BY <1>1, <1>2, <3>2 DEF TypeOK
      <4>2. DOMAIN waiters' = DOMAIN waiters
        BY <1>2
      <4>3. \A i \in DOMAIN waiters : waiters'[i] = q <=> waiters[i] = q
        BY <1>2, <3>2, GateAssumption
      <4>4. QED
        BY <1>1, <4>1, <4>2, <4>3 DEF Queued
    <3>3. QED
      BY <3>1, <3>2
  <2>6. \A i, j \in DOMAIN waiters' : waiters'[i] = waiters'[j] /\ waiters'[i] # Gone => i = j
    BY <1>1, <1>2 DEF Queued
  <2>7. NoSlotLeak' /\ SlotsRespected' /\ ModelIsTheirs'
    BY <1>1, <1>2, <2>4 DEF NoSlotLeak, SlotsRespected, ModelIsTheirs
  <2>8. QED
    BY <2>3, <2>5, <2>6, <2>7 DEF Inv, Queued
<1>3. CASE /\ at[r] = "called"
           /\ at' = [at EXCEPT ![r] = "refused"]
           /\ UNCHANGED <<model, running, waiters, wants>>
  <2>1. TypeOK'
    BY <1>1, <1>3 DEF TypeOK, Places
  <2>2. Holders' = Holders
    BY <1>1, <1>3 DEF TypeOK, Holders, Holding
  <2>3. Queued'
    BY <1>1, <1>3 DEF TypeOK, Queued
  <2>4. NoSlotLeak' /\ SlotsRespected' /\ ModelIsTheirs'
    BY <1>1, <1>3, <2>2 DEF NoSlotLeak, SlotsRespected, ModelIsTheirs
  <2>5. QED
    BY <2>1, <2>3, <2>4 DEF Inv
<1>4. QED
  BY <1>2, <1>3 DEF Cancel

(* Every step keeps the invariant. *)
LEMMA StepInv == Inv /\ [Next]_vars => Inv'
<1> SUFFICES ASSUME Inv, [Next]_vars
             PROVE  Inv'
  OBVIOUS
<1>1. TypeOK
  BY DEF Inv
<1>2. ASSUME NEW r \in Requests, NEW m \in Models, Enter(r, m)
      PROVE  Inv'
  BY <1>1, <1>2, EnterInOrder, AdmitKeepsInv DEF Enter
<1>3. ASSUME NEW r \in Requests, Wake(r)
      PROVE  Inv'
  BY <1>3, WakeInv
<1>4. ASSUME NEW r \in Requests, Cancel(r)
      PROVE  Inv'
  BY <1>4, CancelInv
<1>5. ASSUME NEW r \in Requests, Unwind(r)
      PROVE  Inv'
  <2>1. CASE at[r] = "dropped" /\ Admit(waiters, wants, running, [at EXCEPT ![r] = "out"])
    BY <1>1, <2>1, DroppedInOrder, AdmitKeepsInv
  <2>2. CASE at[r] = "refused" /\ GiveBack(r)
    BY <1>1, <2>2, GiveBackInOrder, AdmitKeepsInv DEF GiveBack
  <2>3. QED
    BY <1>5, <2>1, <2>2 DEF Unwind
<1>6. ASSUME NEW r \in Requests, Leave(r)
      PROVE  Inv'
  BY <1>1, <1>6, GiveBackInOrder, AdmitKeepsInv DEF Leave, GiveBack
<1>7. CASE UNCHANGED vars
  BY <1>7 DEF vars, Inv, TypeOK, Queued, NoSlotLeak, SlotsRespected, ModelIsTheirs, Holders
<1>8. QED
  BY <1>2, <1>3, <1>4, <1>5, <1>6, <1>7 DEF Next

(* Type correctness, with a count that is never negative. *)
THEOREM TypeCorrect == Spec => []TypeOK
<1>1. Inv => TypeOK
  BY DEF Inv
<1>2. QED
  BY <1>1, InitInv, StepInv, PTL DEF Spec

(* The invariant holds throughout. *)
THEOREM Invariance == Spec => []Inv
BY InitInv, StepInv, PTL DEF Spec

(* No slot leaks, however the callers hang up: the count the limits are
   checked against is the number of requests that hold a slot. *)
THEOREM NoSlotIsLeaked == Spec => []NoSlotLeak
<1>1. Inv => NoSlotLeak
  BY DEF Inv
<1>2. QED
  BY <1>1, InitInv, StepInv, PTL DEF Spec

(* At most Slots requests are at a target at once. *)
THEOREM SlotsAreRespected == Spec => []SlotsRespected
<1>1. Inv => SlotsRespected
  BY DEF Inv
<1>2. QED
  BY <1>1, InitInv, StepInv, PTL DEF Spec

(* An exclusive target never has requests for two models. *)
THEOREM OneModelRuns == Spec => []OneModelAtATime
<1>1. Inv => OneModelAtATime
  BY DEF Inv, ModelIsTheirs, OneModelAtATime
<1>2. QED
  BY <1>1, InitInv, StepInv, PTL DEF Spec

-----------------------------------------------------------------------------
(* A pass of _admit ends with a head that does not fit, or with no one. *)
LEMMA AdmitLeavesNoTurn ==
  ASSUME NEW w \in Deque, NEW want, NEW n \in Nat, NEW place,
         Admit(w, want, n, place)
  PROVE  NoLostTurn'
<1>1. PICK k \in 0..Len(w) :
        /\ k < Len(w) => ~Passes(w, want, model, n, k+1)
        /\ waiters' = SubSeq(w, k+1, Len(w))
        /\ running' = n + Cardinality(Called(w, k))
        /\ model' = ModelAfter(w, want, model, k)
        /\ wants' = want
  BY DEF Admit, Takes
<1> SUFFICES ASSUME waiters' # <<>>
             PROVE  /\ Head(waiters') # Gone
                    /\ ~Fits(running', model', wants'[Head(waiters')])
  BY DEF NoLostTurn
<1>2. k < Len(w) /\ Head(waiters') = w[k+1]
  BY <1>1 DEF Deque
<1>3. (k + 1) - 1 = k
  OBVIOUS
<1>4. w[k+1] # Gone /\ ~Fits(n + Cardinality(Called(w, k)), ModelAfter(w, want, model, k), want[w[k+1]])
  BY <1>1, <1>2, <1>3 DEF Passes
<1>5. QED
  BY <1>1, <1>2, <1>4

(* No step leaves one waiting at the front who would fit. *)
LEMMA StepNoLostTurn == Inv /\ NoLostTurn /\ [Next]_vars => NoLostTurn'
<1> SUFFICES ASSUME Inv, NoLostTurn, [Next]_vars
             PROVE  NoLostTurn'
  OBVIOUS
<1>1. TypeOK
  BY DEF Inv
<1>2. ASSUME NEW r \in Requests, NEW m \in Models, Enter(r, m)
      PROVE  NoLostTurn'
  BY <1>2, EnterInOrder, AdmitLeavesNoTurn DEF Enter, InOrder
<1>3. ASSUME NEW r \in Requests, Wake(r)
      PROVE  NoLostTurn'
  BY <1>1, <1>3 DEF Wake, NoLostTurn, TypeOK
<1>4. ASSUME NEW r \in Requests, Cancel(r)
      PROVE  NoLostTurn'
  <2>1. CASE /\ at[r] = "waiting"
             /\ at' = [at EXCEPT ![r] = "dropped"]
             /\ waiters' = [i \in DOMAIN waiters |-> IF waiters[i] = r THEN Gone ELSE waiters[i]]
             /\ UNCHANGED <<model, running, wants>>
    <3> SUFFICES ASSUME waiters' # <<>>
                 PROVE  IF Head(waiters') = Gone
                        THEN \E q \in Requests : at'[q] = "dropped"
                        ELSE ~Fits(running', model', wants'[Head(waiters')])
      BY DEF NoLostTurn
    <3>1. at'[r] = "dropped"
      BY <1>1, <2>1 DEF TypeOK
    <3>2. CASE Head(waiters') = Gone
      BY <3>1, <3>2
    <3>3. CASE Head(waiters') # Gone
      <4>1. Len(waiters) \in Nat /\ DOMAIN waiters = 1..Len(waiters)
        BY <1>1 DEF TypeOK
      <4>2. waiters # <<>> /\ Len(waiters) > 0 /\ 1 \in DOMAIN waiters
        BY <1>1, <2>1, <4>1 DEF TypeOK
      <4>3. Head(waiters') = waiters'[1] /\ Head(waiters) = waiters[1]
        BY <1>1, <2>1, <4>1, <4>2 DEF TypeOK
      <4>4. waiters'[1] = IF waiters[1] = r THEN Gone ELSE waiters[1]
        BY <2>1, <4>2
      <4>5. Head(waiters') = Head(waiters) /\ Head(waiters) # Gone
        BY <3>3, <4>3, <4>4
      <4>6. ~Fits(running, model, wants[Head(waiters)])
        BY <4>2, <4>5 DEF NoLostTurn
      <4>7. QED
        BY <2>1, <3>3, <4>5, <4>6
    <3>4. QED
      BY <3>2, <3>3
  <2>2. CASE /\ at[r] = "called"
             /\ at' = [at EXCEPT ![r] = "refused"]
             /\ UNCHANGED <<model, running, waiters, wants>>
    BY <1>1, <2>2 DEF NoLostTurn, TypeOK
  <2>3. QED
    BY <1>4, <2>1, <2>2 DEF Cancel
<1>5. ASSUME NEW r \in Requests, Unwind(r)
      PROVE  NoLostTurn'
  <2>1. CASE at[r] = "dropped" /\ Admit(waiters, wants, running, [at EXCEPT ![r] = "out"])
    BY <2>1, DroppedInOrder, AdmitLeavesNoTurn DEF InOrder
  <2>2. CASE at[r] = "refused" /\ GiveBack(r)
    BY <2>2, GiveBackInOrder, AdmitLeavesNoTurn DEF InOrder, GiveBack
  <2>3. QED
    BY <1>5, <2>1, <2>2 DEF Unwind
<1>6. ASSUME NEW r \in Requests, Leave(r)
      PROVE  NoLostTurn'
  BY <1>6, GiveBackInOrder, AdmitLeavesNoTurn DEF InOrder, Leave, GiveBack
<1>7. CASE UNCHANGED vars
  BY <1>7 DEF vars, NoLostTurn
<1>8. QED
  BY <1>2, <1>3, <1>4, <1>5, <1>6, <1>7 DEF Next

(* No wake-up is lost: the first in the deque has to wait, or has hung up
   and is about to be taken off. *)
THEOREM NoTurnIsLost == Spec => []NoLostTurn
<1>1. Init => NoLostTurn
  BY DEF Init, NoLostTurn
<1>2. QED
  BY <1>1, InitInv, StepInv, StepNoLostTurn, PTL DEF Spec

-----------------------------------------------------------------------------
(* A pass of _admit that lets r in lets in, too, every request that stands
   ahead of r in the deque. *)
LEMMA AdmitInTurn ==
  ASSUME NEW w \in Deque, NEW want, NEW n \in Nat, NEW place,
         Admit(w, want, n, place),
         NEW r \in Requests, at'[r] \in {"called", "inside"},
         place[r] \notin {"called", "inside"},
         NEW i \in DOMAIN w, w[i] \in Requests, \A j \in 1..i : w[j] # r
  PROVE  at'[w[i]] # "waiting"
<1>1. PICK k \in 0..Len(w) :
        at' = [q \in Requests |-> IF q \in Called(w, k)
                                  THEN IF at[q] = "out" THEN "inside" ELSE "called"
                                  ELSE place[q]]
  BY DEF Admit
<1>2. r \in Called(w, k)
  BY <1>1
<1>3. PICK j \in 1..k : w[j] = r
  BY <1>2 DEF Called
<1>4. i \in 1..k
  BY <1>3 DEF Deque
<1>5. w[i] \in Called(w, k)
  BY <1>4, GateAssumption DEF Called
<1>6. QED
  BY <1>1, <1>5

(* First come, first served: nobody gets in ahead of a request that came
   before and still waits. *)
THEOREM NobodyOvertakes == Spec => NoOvertaking
<1> DEFINE InTurn == \A r \in Requests :
                       at[r] \in {"out", "waiting"} /\ at'[r] \in {"called", "inside"}
                         => \A s \in Ahead(r) : at'[s] # "waiting"
<1>1. ASSUME Inv, Next
      PROVE  InTurn
  <2> SUFFICES ASSUME NEW r \in Requests, at[r] \in {"out", "waiting"},
                      at'[r] \in {"called", "inside"},
                      NEW i \in DOMAIN waiters, waiters[i] \in Requests,
                      \A j \in 1..i : waiters[j] # r
               PROVE  at'[waiters[i]] # "waiting"
    BY DEF Ahead
  <2>1. TypeOK
    BY <1>1 DEF Inv
  <2>2. ASSUME NEW q \in Requests, NEW m \in Models, Enter(q, m)
        PROVE  at'[waiters[i]] # "waiting"
    <3> DEFINE w == Append(waiters, q)
               place == [at EXCEPT ![q] = "waiting"]
               want == [wants EXCEPT ![q] = m]
    <3>1. w \in Deque /\ running \in Nat /\ Admit(w, want, running, place)
      BY <1>1, <2>2, EnterInOrder DEF Enter, InOrder
    <3>2. i \in DOMAIN w /\ \A j \in 1..i : w[j] = waiters[j]
      BY <2>1 DEF TypeOK
    <3>3. w[i] = waiters[i]
      BY <2>1, <3>2 DEF TypeOK
    <3>4. place[r] \notin {"called", "inside"}
      BY <2>1 DEF TypeOK
    <3>5. w[i] \in Requests /\ \A j \in 1..i : w[j] # r
      BY <3>2, <3>3
    <3>6. at'[w[i]] # "waiting"
      BY <3>1, <3>2, <3>4, <3>5, AdmitInTurn
    <3>7. QED
      BY <3>3, <3>6
  <2>3. ASSUME NEW q \in Requests, NEW n \in Nat,
               Admit(waiters, wants, n, [at EXCEPT ![q] = "out"])
        PROVE  at'[waiters[i]] # "waiting"
    <3>1. waiters \in Deque
      BY <2>1 DEF TypeOK, Deque
    <3>2. [at EXCEPT ![q] = "out"][r] \notin {"called", "inside"}
      BY <2>1 DEF TypeOK
    <3>3. QED
      BY <2>3, <3>1, <3>2, AdmitInTurn
  <2>4. ASSUME NEW q \in Requests, Wake(q)
        PROVE  FALSE
    BY <2>1, <2>4 DEF Wake, TypeOK
  <2>5. ASSUME NEW q \in Requests, Cancel(q)
        PROVE  FALSE
    BY <2>1, <2>5 DEF Cancel, TypeOK
  <2>6. ASSUME NEW q \in Requests, Unwind(q)
        PROVE  at'[waiters[i]] # "waiting"
    <3>1. CASE at[q] = "dropped" /\ Admit(waiters, wants, running, [at EXCEPT ![q] = "out"])
      BY <1>1, <2>3, <3>1, DroppedInOrder DEF InOrder
    <3>2. CASE at[q] = "refused" /\ GiveBack(q)
      BY <1>1, <2>3, <3>2, GiveBackInOrder DEF InOrder, GiveBack
    <3>3. QED
      BY <2>6, <3>1, <3>2 DEF Unwind
  <2>7. ASSUME NEW q \in Requests, Leave(q)
        PROVE  at'[waiters[i]] # "waiting"
    BY <1>1, <2>3, <2>7, GiveBackInOrder DEF InOrder, Leave, GiveBack
  <2>8. QED
    BY <1>1, <2>2, <2>4, <2>5, <2>6, <2>7 DEF Next
<1>2. Inv /\ [Next]_vars => [InTurn]_vars
  BY <1>1
<1>3. QED
  BY <1>2, InitInv, StepInv, PTL DEF Spec, NoOvertaking

-----------------------------------------------------------------------------
(* The requests that stand in the deque w where no r has come yet. *)
Before(w, r) ==
  {s \in Requests : \E i \in DOMAIN w : w[i] = s /\ \A j \in 1..i : w[j] # r}

(* The line and its order when the deque is w and place is where each request
   is: what Waiting and Behind are for the state of the gate. *)
InLine(place) == {r \in Requests : place[r] = "waiting"}
Order(w, place) ==
  [r \in Requests |-> IF place[r] = "waiting" THEN Before(w, r) ELSE {}]

(* The refinement mapping in these terms. *)
LEMMA Mapping ==
  /\ Waiting = InLine(at)
  /\ Behind = Order(waiters, at)
<1>1. \A r : Ahead(r) = Before(waiters, r)
  BY DEF Ahead, Before
<1>2. QED
  BY <1>1 DEF Waiting, InLine, Behind, Order

(* Admission counts as Gate does. *)
LEMMA SameCount ==
  ASSUME NEW S
  PROVE  A!Cardinality(S) = Cardinality(S)
BY DEF A!Cardinality, Cardinality

(* What _admit lets in beside those that hold a slot may be in together. *)
LEMMA LimitsTogether ==
  ASSUME Inv
  PROVE  A!Together(Holders, wants)
BY SameCount DEF Inv, SlotsRespected, ModelIsTheirs, A!Together

(* One pass of _admit over a deque in order lets in the front of the line. *)
LEMMA AdmitIsLetIn ==
  ASSUME TypeOK,
         NEW w, NEW want, NEW n, NEW place,
         InOrder(w, want, n, place),
         Admit(w, want, n, place)
  PROVE  A!LetIn(InLine(place), Order(w, place),
                 {r \in Requests : place[r] \in Holding}, want)
<1> DEFINE held == {r \in Requests : place[r] \in Holding}
<1>1. /\ w \in Deque
      /\ place \in [Requests -> Places]
      /\ \A r \in Requests : place[r] = "waiting" <=> \E i \in DOMAIN w : w[i] = r
      /\ \A i, j \in DOMAIN w : w[i] = w[j] /\ w[i] # Gone => i = j
  BY DEF InOrder
<1>2. PICK k \in 0..Len(w) :
        /\ waiters' = SubSeq(w, k+1, Len(w))
        /\ wants' = want
        /\ at' = [r \in Requests |->
                    IF r \in Called(w, k)
                    THEN IF at[r] = "out" THEN "inside" ELSE "called"
                    ELSE place[r]]
  BY DEF Admit
<1> DEFINE C == Called(w, k)
<1>3. C \in SUBSET Requests
  BY <1>1, CalledType
<1>4. DOMAIN w = 1..Len(w) /\ Len(w) \in Nat
  BY <1>1 DEF Deque
<1>5. C \in SUBSET InLine(place)
  BY <1>1, <1>3, <1>4 DEF Called, InLine
<1>6. Holders' = held \cup C
  BY <1>1, <1>2, <1>3 DEF Holders, Holding
<1>7. Waiting' = InLine(place) \ C
  BY <1>2, <1>3 DEF Waiting, InLine
<1>8. ASSUME NEW r \in C
      PROVE  Before(w, r) \subseteq C
  <2>1. PICK j \in 1..k : w[j] = r
    BY <1>8 DEF Called
  <2>2. SUFFICES ASSUME NEW i \in DOMAIN w, w[i] \in Requests, \A m \in 1..i : w[m] # r
                 PROVE  w[i] \in C
    BY DEF Before
  <2>3. i \in 1..k
    BY <1>4, <2>1, <2>2
  <2>4. QED
    BY <2>2, <2>3, GateAssumption DEF Called
<1>9. ASSUME NEW r \in InLine(place) \ C
      PROVE  Before(waiters', r) = Before(w, r) \ C
  <2>1. /\ DOMAIN waiters' = 1..(Len(w) - k)
        /\ \A i \in 1..(Len(w) - k) : waiters'[i] = w[i + k]
    BY <1>1, <1>2 DEF Deque
  <2>2. \A i \in 1..k : w[i] # r
    BY <1>9, GateAssumption DEF Called, InLine
  <2>3. ASSUME NEW s \in Before(waiters', r)
        PROVE  s \in Before(w, r) \ C
    <3>1. PICK i \in 1..(Len(w) - k) : w[i + k] = s /\ \A j \in 1..i : waiters'[j] # r
      BY <2>1, <2>3 DEF Before
    <3>2. s \in Requests
      BY <2>3 DEF Before
    <3>3. ASSUME NEW j \in 1..(i + k)
          PROVE  w[j] # r
      <4>1. CASE j \in 1..k
        BY <2>2, <4>1
      <4>2. CASE j \notin 1..k
        <5>1. j - k \in 1..i /\ j - k \in 1..(Len(w) - k) /\ (j - k) + k = j
          BY <1>4, <4>2
        <5>2. waiters'[j - k] = w[j] /\ waiters'[j - k] # r
          BY <2>1, <3>1, <5>1
        <5>3. QED
          BY <5>2
      <4>3. QED
        BY <4>1, <4>2
    <3>4. i + k \in DOMAIN w
      BY <1>4
    <3>5. s \in Before(w, r)
      BY <3>1, <3>2, <3>3, <3>4 DEF Before
    <3>6. ASSUME s \in C
          PROVE  FALSE
      <4>1. PICK j \in 1..k : w[j] = s
        BY <3>6 DEF Called
      <4>2. j \in DOMAIN w /\ w[j] = w[i + k] /\ w[j] # Gone
        BY <1>4, <3>1, <3>2, <4>1, GateAssumption
      <4>3. j = i + k
        BY <1>1, <3>4, <4>2
      <4>4. QED
        BY <4>3
    <3>7. QED
      BY <3>5, <3>6
  <2>4. ASSUME NEW s \in Before(w, r) \ C
        PROVE  s \in Before(waiters', r)
    <3>1. PICK i \in DOMAIN w : w[i] = s /\ \A j \in 1..i : w[j] # r
      BY <2>4 DEF Before
    <3>2. s \in Requests
      BY <2>4 DEF Before
    <3>3. i \notin 1..k
      BY <2>4, <3>1, <3>2, GateAssumption DEF Called
    <3>4. i - k \in 1..(Len(w) - k) /\ (i - k) + k = i
      BY <1>4, <3>3
    <3>5. waiters'[i - k] = s
      BY <2>1, <3>1, <3>4
    <3>6. ASSUME NEW j \in 1..(i - k)
          PROVE  waiters'[j] # r
      <4>1. j \in 1..(Len(w) - k) /\ j + k \in 1..i
        BY <1>4
      <4>2. QED
        BY <2>1, <3>1, <4>1
    <3>7. QED
      BY <2>1, <3>2, <3>4, <3>5, <3>6 DEF Before
  <2>5. QED
    BY <2>3, <2>4
<1>10. Behind' = [r \in Requests |-> Order(w, place)[r] \ C]
  <2>1. Behind' = [r \in Requests |-> IF at'[r] = "waiting" THEN Before(waiters', r) ELSE {}]
    <3>1. \A r : Ahead(r)' = Before(waiters', r)
      BY DEF Ahead, Before
    <3>2. QED
      BY <3>1 DEF Behind
  <2>2. ASSUME NEW r \in Requests
        PROVE  (IF at'[r] = "waiting" THEN Before(waiters', r) ELSE {}) = Order(w, place)[r] \ C
    <3>1. CASE r \in InLine(place) \ C
      <4>1. at'[r] = "waiting" /\ Order(w, place)[r] = Before(w, r)
        BY <1>2, <3>1 DEF InLine, Order
      <4>2. QED
        BY <1>9, <3>1, <4>1
    <3>2. CASE r \in C
      <4>1. at'[r] # "waiting" /\ Order(w, place)[r] = Before(w, r)
        BY <1>2, <1>5, <3>2 DEF InLine, Order
      <4>2. QED
        BY <1>8, <3>2, <4>1
    <3>3. CASE r \notin InLine(place)
      <4>1. at'[r] # "waiting" /\ Order(w, place)[r] = {}
        BY <1>2, <1>5, <3>3 DEF InLine, Order
      <4>2. QED
        BY <4>1
    <3>4. QED
      BY <3>1, <3>2, <3>3
  <2>3. QED
    BY <2>1, <2>2
<1>11. \A r \in C : Order(w, place)[r] \subseteq C
  BY <1>5, <1>8 DEF InLine, Order
<1>12. A!Together(held \cup C, want)
  <2>1. Inv'
    BY AdmitKeepsInv
  <2>2. Slots # 0 => Cardinality(Holders') <= Slots
    BY <2>1 DEF Inv, SlotsRespected
  <2>3. Exclusive => \A r, s \in Holders' : wants'[r] = wants'[s]
    BY <2>1 DEF Inv, ModelIsTheirs
  <2>4. QED
    BY <1>2, <1>6, <2>2, <2>3, SameCount DEF A!Together
<1>13. QED
  BY <1>2, <1>5, <1>6, <1>7, <1>10, <1>11, <1>12 DEF A!LetIn

(* enter() up to its await is an arrival at the end of the line. *)
LEMMA EnterIsArrive ==
  ASSUME Inv, NEW r \in Requests, NEW m \in Models, Enter(r, m)
  PROVE  A!Arrive(r, m)
<1> DEFINE w == Append(waiters, r)
           place == [at EXCEPT ![r] = "waiting"]
           want == [wants EXCEPT ![r] = m]
<1>1. TypeOK /\ Queued
  BY DEF Inv
<1>2. at[r] = "out" /\ Admit(w, want, running, place)
  BY DEF Enter
<1>3. A!LetIn(InLine(place), Order(w, place), {q \in Requests : place[q] \in Holding}, want)
  <2>1. InOrder(w, want, running, place)
    BY <1>2, EnterInOrder
  <2>2. QED
    BY <1>1, <1>2, <2>1, AdmitIsLetIn
<1>4. r \notin Holders \cup Waiting
  BY <1>2 DEF Holders, Holding, Waiting
<1>5. {q \in Requests : place[q] \in Holding} = Holders
  BY <1>1, <1>2 DEF TypeOK, Holders, Holding
<1>6. InLine(place) = Waiting \cup {r}
  BY <1>1 DEF TypeOK, InLine, Waiting
<1>7. /\ DOMAIN waiters = 1..Len(waiters)
      /\ DOMAIN w = 1..(Len(waiters) + 1)
      /\ Len(waiters) \in Nat
      /\ \A i \in 1..Len(waiters) : w[i] = waiters[i]
      /\ w[Len(waiters) + 1] = r
  BY <1>1 DEF TypeOK
<1>8. \A i \in DOMAIN waiters : waiters[i] # r
  BY <1>1, <1>2 DEF Queued
<1>9. Before(w, r) = Waiting
  <2>1. ASSUME NEW s \in Before(w, r)
        PROVE  s \in Waiting
    <3>1. PICK i \in DOMAIN w : w[i] = s /\ \A j \in 1..i : w[j] # r
      BY <2>1 DEF Before
    <3>2. s \in Requests
      BY <2>1 DEF Before
    <3>3. i \in DOMAIN waiters /\ waiters[i] = s
      BY <1>7, <3>1
    <3>4. QED
      BY <1>1, <3>2, <3>3 DEF Queued, Waiting
  <2>2. ASSUME NEW s \in Waiting
        PROVE  s \in Before(w, r)
    <3>1. s \in Requests
      BY <2>2 DEF Waiting
    <3>2. PICK i \in DOMAIN waiters : waiters[i] = s
      BY <1>1, <2>2 DEF Queued, Waiting
    <3>3. w[i] = s /\ i \in DOMAIN w
      BY <1>7, <3>2
    <3>4. \A j \in 1..i : w[j] # r
      BY <1>7, <1>8, <3>2
    <3>5. QED
      BY <3>1, <3>3, <3>4 DEF Before
  <2>3. QED
    BY <2>1, <2>2
<1>10. ASSUME NEW q \in Waiting
       PROVE  Before(w, q) = Before(waiters, q)
  <2>1. PICK n \in DOMAIN waiters : waiters[n] = q
    BY <1>1 DEF Queued, Waiting
  <2>2. \A i \in DOMAIN w : (\A j \in 1..i : w[j] # q) => i \in DOMAIN waiters
    BY <1>7, <2>1
  <2>3. \A i \in DOMAIN waiters : i \in DOMAIN w /\ \A j \in 1..i : w[j] = waiters[j]
    BY <1>7
  <2>4. \A i \in DOMAIN waiters : w[i] = waiters[i]
    BY <1>7
  <2>5. QED
    BY <2>2, <2>3, <2>4 DEF Before
<1>11. Order(w, place) = [Behind EXCEPT ![r] = Waiting]
  <2>1. ASSUME NEW q \in Requests
        PROVE  (IF place[q] = "waiting" THEN Before(w, q) ELSE {})
               = IF q = r THEN Waiting ELSE Behind[q]
    <3>1. CASE q = r
      BY <1>1, <1>9, <3>1 DEF TypeOK
    <3>2. CASE q # r
      <4>1. place[q] = at[q]
        BY <1>1, <3>2 DEF TypeOK
      <4>2. CASE at[q] = "waiting"
        <5>1. q \in Waiting
          BY <4>2 DEF Waiting
        <5>2. Behind[q] = Before(waiters, q)
          BY <4>2, Mapping DEF Order
        <5>3. QED
          BY <1>10, <3>2, <4>1, <4>2, <5>1, <5>2
      <4>3. CASE at[q] # "waiting"
        <5>1. Behind[q] = {}
          BY <4>3, Mapping DEF Order
        <5>2. QED
          BY <3>2, <4>1, <4>3, <5>1
      <4>4. QED
        BY <4>2, <4>3
    <3>3. QED
      BY <3>1, <3>2
  <2>2. Order(w, place) = [q \in Requests |-> IF q = r THEN Waiting ELSE Behind[q]]
    BY <2>1 DEF Order
  <2>3. Behind = [q \in Requests |-> Behind[q]]
    BY DEF Behind
  <2>4. QED
    BY <2>2, <2>3
<1>12. QED
  BY <1>3, <1>4, <1>5, <1>6, <1>11 DEF A!Arrive

(* Where the waiting and those inside are stays as it is, whoever else is
   taken out. *)
LEMMA OutIsOut ==
  ASSUME TypeOK, NEW r \in Requests, at[r] # "waiting"
  PROVE  LET place == [at EXCEPT ![r] = "out"] IN
         /\ InLine(place) = Waiting
         /\ Order(waiters, place) = Behind
         /\ {q \in Requests : place[q] \in Holding} = Holders \ {r}
<1> DEFINE place == [at EXCEPT ![r] = "out"]
<1>1. \A q \in Requests : place[q] = "waiting" <=> at[q] = "waiting"
  BY DEF TypeOK
<1>2. InLine(place) = Waiting
  BY <1>1 DEF InLine, Waiting
<1>3. Order(waiters, place) = Behind
  BY <1>1, Mapping DEF Order
<1>4. {q \in Requests : place[q] \in Holding} = Holders \ {r}
  BY DEF TypeOK, Holders, Holding
<1>5. QED
  BY <1>2, <1>3, <1>4

(* leave(), after a request or on behalf of one that hung up when its turn
   had come, is a departure. *)
LEMMA GiveBackIsDepart ==
  ASSUME Inv, NEW r \in Requests, at[r] \in {"inside", "refused"}, GiveBack(r)
  PROVE  A!Depart(r)
<1> DEFINE place == [at EXCEPT ![r] = "out"]
<1>1. TypeOK
  BY DEF Inv
<1>2. InOrder(waiters, wants, running - 1, place)
  BY GiveBackInOrder
<1>3. A!LetIn(InLine(place), Order(waiters, place),
              {q \in Requests : place[q] \in Holding}, wants)
  BY <1>1, <1>2, AdmitIsLetIn DEF GiveBack
<1>4. A!LetIn(Waiting, Behind, Holders \ {r}, wants)
  <2>1. /\ InLine(place) = Waiting
        /\ Order(waiters, place) = Behind
        /\ {q \in Requests : place[q] \in Holding} = Holders \ {r}
    BY <1>1, OutIsOut
  <2>2. QED
    BY <1>3, <2>1
<1>5. r \in Holders
  BY DEF Holders, Holding
<1>6. QED
  BY <1>4, <1>5 DEF A!Depart

(* A request whose turn was cancelled has the gate look at its line. *)
LEMMA DroppedIsLetIn ==
  ASSUME Inv, NEW r \in Requests, at[r] = "dropped",
         Admit(waiters, wants, running, [at EXCEPT ![r] = "out"])
  PROVE  A!LetIn(Waiting, Behind, Holders, wants)
<1> DEFINE place == [at EXCEPT ![r] = "out"]
<1>1. TypeOK
  BY DEF Inv
<1>2. InOrder(waiters, wants, running, place)
  BY DroppedInOrder
<1>3. A!LetIn(InLine(place), Order(waiters, place),
              {q \in Requests : place[q] \in Holding}, wants)
  BY <1>1, <1>2, AdmitIsLetIn
<1>4. /\ InLine(place) = Waiting
      /\ Order(waiters, place) = Behind
      /\ {q \in Requests : place[q] \in Holding} = Holders \ {r}
  BY <1>1, OutIsOut
<1>5. Holders \ {r} = Holders
  BY DEF Holders, Holding
<1>6. QED
  BY <1>3, <1>4, <1>5

(* A request that hangs up in the line gives up its place, and nobody goes in
   for that. *)
LEMMA HangUpIsGiveUp ==
  ASSUME Inv, NEW r \in Requests, at[r] = "waiting",
         at' = [at EXCEPT ![r] = "dropped"],
         waiters' = [i \in DOMAIN waiters |-> IF waiters[i] = r THEN Gone ELSE waiters[i]],
         UNCHANGED <<model, running, wants>>
  PROVE  A!GiveUp(r)
<1>1. TypeOK
  BY DEF Inv
<1>2. Holders' = Holders
  BY <1>1 DEF TypeOK, Holders, Holding
<1>3. Waiting' = Waiting \ {r}
  BY <1>1 DEF TypeOK, Waiting
<1>4. r \in Waiting
  BY DEF Waiting
<1> DEFINE left == [s \in Requests |-> IF s = r THEN {} ELSE Behind[s] \ {r}]
<1>5. Behind' = left
  <2>1. \A q \in Requests : Behind'[q] = IF at'[q] = "waiting" THEN Before(waiters', q) ELSE {}
    <3>1. \A q : Ahead(q)' = Before(waiters', q)
      BY DEF Ahead, Before
    <3>2. QED
      BY <3>1 DEF Behind
  <2>2. Behind' = [q \in Requests |-> Behind'[q]]
    BY DEF Behind
  <2>3. ASSUME NEW q \in Requests
        PROVE  Behind'[q] = left[q]
    <3>1. CASE q = r
      <4>1. at'[q] # "waiting"
        BY <1>1, <3>1 DEF TypeOK
      <4>2. QED
        BY <2>1, <3>1, <4>1
    <3>2. CASE q # r /\ at[q] # "waiting"
      <4>1. at'[q] # "waiting" /\ Behind[q] = {}
        BY <1>1, <3>2 DEF TypeOK, Behind
      <4>2. QED
        BY <2>1, <3>2, <4>1
    <3>3. CASE q # r /\ at[q] = "waiting"
      <4>1. at'[q] = "waiting" /\ Behind[q] = Before(waiters, q)
        BY <1>1, <3>3, Mapping DEF TypeOK, Order
      <4>2. \A i \in DOMAIN waiters : waiters'[i] = q <=> waiters[i] = q
        BY <3>3, GateAssumption
      <4>3. DOMAIN waiters' = DOMAIN waiters /\ \A i \in DOMAIN waiters : 1..i \subseteq DOMAIN waiters
        BY <1>1 DEF TypeOK
      <4>4. \A i \in DOMAIN waiters : (\A j \in 1..i : waiters'[j] # q)
                                       <=> \A j \in 1..i : waiters[j] # q
        BY <4>2, <4>3
      <4>5. \A s \in Requests, i \in DOMAIN waiters :
              waiters'[i] = s <=> waiters[i] = s /\ s # r
        BY GateAssumption
      <4>6. Before(waiters', q) = Before(waiters, q) \ {r}
        <5>1. \A s \in Requests :
                (\E i \in DOMAIN waiters' : waiters'[i] = s /\ \A j \in 1..i : waiters'[j] # q)
                <=> /\ s # r
                    /\ \E i \in DOMAIN waiters : waiters[i] = s /\ \A j \in 1..i : waiters[j] # q
          BY <4>3, <4>4, <4>5, ZenonT(60)
        <5>2. \A s \in Requests : s \in Before(waiters', q) <=> s # r /\ s \in Before(waiters, q)
          BY <5>1 DEF Before
        <5>3. Before(waiters', q) \subseteq Requests /\ Before(waiters, q) \subseteq Requests
          BY DEF Before
        <5>4. QED
          BY <5>2, <5>3
      <4>7. QED
        BY <2>1, <3>3, <4>1, <4>6
    <3>4. QED
      BY <3>1, <3>2, <3>3
  <2>4. QED
    BY <2>2, <2>3
<1>6. A!LetIn(Waiting \ {r}, left, Holders, wants)
  <2>1. A!Together(Holders \cup {}, wants)
    BY LimitsTogether
  <2>2. Behind' = [q \in Requests |-> left[q] \ {}]
    BY <1>5
  <2>3. {} \in SUBSET (Waiting \ {r}) /\ \A q \in {} : left[q] \subseteq {}
    OBVIOUS
  <2>4. Holders' = Holders \cup {} /\ Waiting' = (Waiting \ {r}) \ {} /\ wants' = wants
    BY <1>2, <1>3
  <2>5. QED
    BY <2>1, <2>2, <2>3, <2>4 DEF A!LetIn
<1>7. QED
  BY <1>4, <1>6 DEF A!GiveUp

(* What the abstract admission speaks of does not change when a request goes
   from one way of holding a slot to another. *)
LEMMA HoldingOn ==
  ASSUME Inv, NEW r \in Requests, at[r] \in Holding,
         NEW h \in Holding, at' = [at EXCEPT ![r] = h],
         waiters' = waiters, wants' = wants
  PROVE  UNCHANGED A!vars
<1>1. TypeOK
  BY DEF Inv
<1>2. \A q \in Requests : /\ at'[q] = "waiting" <=> at[q] = "waiting"
                          /\ at'[q] \in Holding <=> at[q] \in Holding
  BY <1>1 DEF TypeOK, Holding
<1>3. Holders' = Holders /\ Waiting' = Waiting
  BY <1>2 DEF Holders, Waiting
<1>4. Behind' = Behind
  <2>1. \A q : Ahead(q)' = Ahead(q)
    BY DEF Ahead
  <2>2. QED
    BY <1>2, <2>1 DEF Behind
<1>5. QED
  BY <1>3, <1>4 DEF A!vars

(* A step of the gate is a step, or no step, of the abstract admission. *)
LEMMA StepIsAdmission == Inv /\ [Next]_vars => [A!Next]_(A!vars)
<1> SUFFICES ASSUME Inv, [Next]_vars
             PROVE  A!Next \/ UNCHANGED A!vars
  OBVIOUS
<1>1. ASSUME NEW r \in Requests, NEW m \in Models, Enter(r, m)
      PROVE  A!Next
  BY <1>1, EnterIsArrive DEF A!Next
<1>2. ASSUME NEW r \in Requests, Wake(r)
      PROVE  UNCHANGED A!vars
  BY <1>2, HoldingOn DEF Wake, Holding
<1>3. ASSUME NEW r \in Requests, Cancel(r)
      PROVE  A!Next \/ UNCHANGED A!vars
  <2>1. CASE /\ at[r] = "waiting"
             /\ at' = [at EXCEPT ![r] = "dropped"]
             /\ waiters' = [i \in DOMAIN waiters |-> IF waiters[i] = r THEN Gone ELSE waiters[i]]
             /\ UNCHANGED <<model, running, wants>>
    BY <2>1, HangUpIsGiveUp DEF A!Next
  <2>2. CASE /\ at[r] = "called"
             /\ at' = [at EXCEPT ![r] = "refused"]
             /\ UNCHANGED <<model, running, waiters, wants>>
    BY <2>2, HoldingOn DEF Holding
  <2>3. QED
    BY <1>3, <2>1, <2>2 DEF Cancel
<1>4. ASSUME NEW r \in Requests, Unwind(r)
      PROVE  A!Next
  <2>1. CASE at[r] = "dropped" /\ Admit(waiters, wants, running, [at EXCEPT ![r] = "out"])
    BY <2>1, DroppedIsLetIn DEF A!Next
  <2>2. CASE at[r] = "refused" /\ GiveBack(r)
    BY <2>2, GiveBackIsDepart DEF A!Next
  <2>3. QED
    BY <1>4, <2>1, <2>2 DEF Unwind
<1>5. ASSUME NEW r \in Requests, Leave(r)
      PROVE  A!Next
  BY <1>5, GiveBackIsDepart DEF Leave, A!Next
<1>6. CASE UNCHANGED vars
  <2>1. Holders' = Holders /\ Waiting' = Waiting
    BY <1>6 DEF vars, Holders, Waiting
  <2>2. Behind' = Behind
    BY <1>6 DEF vars, Behind, Ahead
  <2>3. QED
    BY <1>6, <2>1, <2>2 DEF vars, A!vars
<1>7. QED
  BY <1>1, <1>2, <1>3, <1>4, <1>5, <1>6 DEF Next

(* The gate keeps the promise Admission makes: with its futures, its deque and
   its callers that hang up anywhere, it lets in the front of the line and
   never more than may be in together. *)
THEOREM GateIsAdmission == Spec => IsAdmission
<1>1. Init => A!Init
  <2>1. Init => Waiting = {} /\ Holders = {}
    BY DEF Init, Waiting, Holders, Holding
  <2>2. Init => Behind = [r \in Requests |-> {}]
    BY DEF Init, Behind
  <2>3. QED
    BY <2>1, <2>2 DEF Init, A!Init
<1>2. QED
  BY <1>1, InitInv, StepInv, StepIsAdmission, PTL DEF Spec, IsAdmission, A!Spec
===============================================================================
