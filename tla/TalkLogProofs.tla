------------------------------ MODULE TalkLogProofs ------------------------------
(***************************************************************************)
(* Theorems about TalkLog for any entries and any number of failures.      *)
(***************************************************************************)
EXTENDS TalkLog, FiniteSetTheorems, TLAPS

(* What the writing thread has read from the spool, and not appended, is in hand. *)
SpoolIsCovered ==
  unreadable = 0 /\ pc \in {"writing", "spooling"} =>
    ToSet(spool) \subseteq ToSet(log) \cup ToSet(hand)

(* As long as only the vault fails: all that was said, in order. *)
AllInOrder ==
  trouble = 0 /\ unreadable = 0 =>
    /\ pc \in {"writing", "spooling"} => log \o hand = said
    /\ pc = "free" => log \o spool = said
    /\ pc = "down" => log = <<>> /\ spool = <<>> /\ said = <<>>

IInv == TypeOK /\ SpoolIsCovered /\ AllInOrder

-----------------------------------------------------------------------------
(* Sequences. *)
LEMMA ElementsOfConcat ==
  ASSUME NEW S, NEW s \in Seq(S), NEW t \in Seq(S)
  PROVE  ToSet(s \o t) = ToSet(s) \cup ToSet(t)
<1>1. ASSUME NEW x \in ToSet(s \o t)
      PROVE  x \in ToSet(s) \cup ToSet(t)
  <2>1. PICK i \in 1..(Len(s) + Len(t)) : x = (s \o t)[i]
    BY DEF ToSet
  <2>2. CASE i <= Len(s)
    BY <2>1, <2>2 DEF ToSet
  <2>3. CASE i > Len(s)
    <3>1. i - Len(s) \in 1..Len(t) /\ x = t[i - Len(s)]
      BY <2>1, <2>3
    <3>2. QED
      BY <3>1 DEF ToSet
  <2>4. QED
    BY <2>1, <2>2, <2>3
<1>2. ASSUME NEW x \in ToSet(s)
      PROVE  x \in ToSet(s \o t)
  <2>1. PICK i \in 1..Len(s) : x = s[i]
    BY DEF ToSet
  <2>2. i \in 1..(Len(s) + Len(t)) /\ x = (s \o t)[i]
    BY <2>1
  <2>3. QED
    BY <2>2 DEF ToSet
<1>3. ASSUME NEW x \in ToSet(t)
      PROVE  x \in ToSet(s \o t)
  <2>1. PICK i \in 1..Len(t) : x = t[i]
    BY DEF ToSet
  <2>2. Len(s) + i \in 1..(Len(s) + Len(t)) /\ x = (s \o t)[Len(s) + i]
    BY <2>1
  <2>3. QED
    BY <2>2 DEF ToSet
<1>4. QED
  BY <1>1, <1>2, <1>3

(* A sequence is a prefix of itself with another behind it. *)
LEMMA PrefixOfConcat ==
  ASSUME NEW S, NEW s \in Seq(S), NEW t \in Seq(S)
  PROVE  IsPrefix(s, s \o t)
  BY DEF IsPrefix

(* Append adds one element. *)
LEMMA ElementsOfAppend ==
  ASSUME NEW S, NEW s \in Seq(S), NEW x \in S
  PROVE  ToSet(Append(s, x)) = ToSet(s) \cup {x}
<1>1. Append(s, x) = s \o <<x>> /\ <<x>> \in Seq(S)
  OBVIOUS
<1>2. ToSet(<<x>>) = {x}
  BY DEF ToSet
<1>3. ToSet(s \o <<x>>) = ToSet(s) \cup ToSet(<<x>>)
  BY <1>1, ElementsOfConcat, ZenonT(60)
<1>4. QED
  BY <1>1, <1>2, <1>3, Zenon

(* Appending to the second of two sequences appends to both. *)
LEMMA AppendAfterConcat ==
  ASSUME NEW S, NEW s \in Seq(S), NEW t \in Seq(S), NEW x \in S
  PROVE  s \o Append(t, x) = Append(s \o t, x)
  OBVIOUS

(* An element moves from the head of one sequence to the end of another. *)
LEMMA HeadMoves ==
  ASSUME NEW S, NEW s \in Seq(S), NEW t \in Seq(S), t # <<>>
  PROVE  /\ Head(t) \in S /\ Tail(t) \in Seq(S)
         /\ Append(s, Head(t)) \o Tail(t) = s \o t
         /\ ToSet(t) = {Head(t)} \cup ToSet(Tail(t))
<1>1. Head(t) \in S /\ t = <<Head(t)>> \o Tail(t)
  OBVIOUS
<1>2. Append(s, Head(t)) \o Tail(t) = s \o t
  OBVIOUS
<1>3. Tail(t) \in Seq(S)
  OBVIOUS
<1>4. <<Head(t)>> \in Seq(S)
  BY <1>1
<1>5. ToSet(<<Head(t)>>) = {Head(t)}
  BY DEF ToSet
<1>6. ToSet(<<Head(t)>> \o Tail(t)) = ToSet(<<Head(t)>>) \cup ToSet(Tail(t))
  BY <1>3, <1>4, ElementsOfConcat, ZenonT(60)
<1>7. ToSet(t) = {Head(t)} \cup ToSet(Tail(t))
  BY <1>1, <1>5, <1>6, Zenon
<1>8. QED
  BY <1>1, <1>2, <1>3, <1>7, Zenon

(* What is read of a sequence from its start is a sequence. *)
LEMMA SubSeqIsPart ==
  ASSUME NEW S, NEW s \in Seq(S), NEW k \in 0..Len(s)
  PROVE  SubSeq(s, 1, k) \in Seq(S)
  OBVIOUS

(* Appending a new element repeats nothing. *)
LEMMA AppendKeepsInjective ==
  ASSUME NEW S, NEW s \in Seq(S), IsInjective(s), NEW x \in S, x \notin ToSet(s)
  PROVE  IsInjective(Append(s, x))
<1>1. \A i \in 1..Len(s) : Append(s, x)[i] = s[i] /\ s[i] # x
  BY DEF ToSet
<1>2. Append(s, x)[Len(s) + 1] = x /\ DOMAIN Append(s, x) = 1..(Len(s) + 1)
  OBVIOUS
<1>3. QED
  BY <1>1, <1>2 DEF IsInjective

-----------------------------------------------------------------------------
(* What has been read from the spool, which is all of it if it could be read. *)
LEMMA SpooledIsSpool ==
  ASSUME NEW held, Spooled(held), unreadable' = 0, unreadable \in Nat
  PROVE  held = spool /\ unreadable = 0
  BY DEF Spooled

(* A new entry behind the spooled ones keeps the invariant. *)
LEMMA SayKeepsIInv ==
  ASSUME IInv, NEW e \in Entries, Say(e)
  PROVE  IInv'
<1>1. PICK k \in 0..Len(spool) :
        Spooled(SubSeq(spool, 1, k)) /\ hand' = Append(SubSeq(spool, 1, k), e)
  BY DEF Say
<1> DEFINE held == SubSeq(spool, 1, k)
<1>2. /\ pc = "free" /\ pc' = "writing" /\ e \notin ToSet(said) /\ said' = Append(said, e)
      /\ UNCHANGED <<log, spool, trouble>>
  BY DEF Say
<1>3. /\ log \in Seq(Entries) /\ spool \in Seq(Entries) /\ said \in Seq(Entries)
      /\ IsInjective(said) /\ unreadable \in Nat
  BY DEF IInv, TypeOK
<1>4. held \in Seq(Entries)
  BY <1>3, SubSeqIsPart
<1>5. Spooled(held) /\ hand' = Append(held, e)
  BY <1>1
<1> HIDE DEF held
<1>6. hand' \in Seq(Entries) /\ said' \in Seq(Entries) /\ IsInjective(said')
  BY <1>2, <1>3, <1>4, <1>5, AppendKeepsInjective
<1>7. unreadable' \in 0..MaxUnreadable
  BY <1>5, TalkLogAssumption DEF Spooled, IInv, TypeOK
<1>8. TypeOK'
  BY <1>2, <1>6, <1>7 DEF IInv, TypeOK
<1>9. SpoolIsCovered'
  <2> SUFFICES ASSUME unreadable' = 0
               PROVE  ToSet(spool) \subseteq ToSet(hand')
    BY <1>2 DEF SpoolIsCovered
  <2>1. hand' = Append(spool, e)
    BY <1>3, <1>5, SpooledIsSpool
  <2>2. ToSet(hand') = ToSet(spool) \cup {e}
    BY <1>3, <2>1, ElementsOfAppend
  <2>3. QED
    BY <2>2
<1>10. AllInOrder'
  <2> SUFFICES ASSUME trouble = 0, unreadable' = 0
               PROVE  log \o hand' = said'
    BY <1>2 DEF AllInOrder
  <2>1. held = spool /\ unreadable = 0
    BY <1>3, <1>5, SpooledIsSpool
  <2>2. log \o spool = said
    BY <1>2, <2>1 DEF IInv, AllInOrder
  <2>3. log \o Append(spool, e) = Append(log \o spool, e)
    BY <1>3, AppendAfterConcat
  <2>4. QED
    BY <1>2, <1>5, <2>1, <2>2, <2>3, Zenon
<1>11. QED
  BY <1>8, <1>9, <1>10 DEF IInv

(* An entry that goes into the vault keeps the invariant. *)
LEMMA AppendKeepsIInv ==
  ASSUME IInv, AppendEntry
  PROVE  IInv'
<1>1. /\ pc = "writing" /\ hand # <<>> /\ log' = Append(log, Head(hand)) /\ hand' = Tail(hand)
      /\ UNCHANGED <<spool, pc, said, trouble, unreadable>>
  BY DEF AppendEntry
<1>2. log \in Seq(Entries) /\ hand \in Seq(Entries)
  BY DEF IInv, TypeOK
<1>3. /\ Head(hand) \in Entries /\ Tail(hand) \in Seq(Entries)
      /\ Append(log, Head(hand)) \o Tail(hand) = log \o hand
      /\ ToSet(hand) = {Head(hand)} \cup ToSet(Tail(hand))
  BY <1>1, <1>2, HeadMoves
<1>4. ToSet(log') = ToSet(log) \cup {Head(hand)} /\ log' \in Seq(Entries)
  BY <1>1, <1>2, <1>3, ElementsOfAppend
<1>5. TypeOK'
  BY <1>1, <1>3, <1>4 DEF IInv, TypeOK
<1>6. SpoolIsCovered'
  <2>1. ToSet(log') \cup ToSet(hand') = ToSet(log) \cup ToSet(hand)
    BY <1>1, <1>3, <1>4
  <2>2. QED
    BY <1>1, <2>1 DEF IInv, SpoolIsCovered
<1>7. AllInOrder'
  <2>1. log' \o hand' = log \o hand
    BY <1>1, <1>3, Zenon
  <2>2. QED
    BY <1>1, <2>1 DEF IInv, AllInOrder
<1>8. QED
  BY <1>5, <1>6, <1>7 DEF IInv

(* Replacing the spool by what was refused keeps the invariant. *)
LEMMA SpoolKeepsIInv ==
  ASSUME IInv, Spool
  PROVE  IInv'
<1>1. /\ pc = "spooling" /\ pc' = "free" /\ hand' = <<>> /\ UNCHANGED <<log, said, unreadable>>
      /\ (spool' = hand /\ trouble' = trouble) \/ (trouble' = trouble + 1 /\ spool' = spool)
      /\ trouble' \in 0..MaxTrouble
  BY TalkLogAssumption DEF Spool, Trouble, IInv, TypeOK
<1>2. TypeOK'
  BY <1>1 DEF IInv, TypeOK
<1>3. SpoolIsCovered'
  BY <1>1 DEF SpoolIsCovered
<1>4. AllInOrder'
  BY <1>1 DEF IInv, TypeOK, AllInOrder
<1>5. QED
  BY <1>2, <1>3, <1>4 DEF IInv

(* Removing the spool keeps the invariant: all of it is in the vault. *)
LEMMA ClearKeepsIInv ==
  ASSUME IInv, Clear
  PROVE  IInv'
<1>1. /\ pc = "writing" /\ pc' = "free" /\ hand = <<>> /\ UNCHANGED <<log, hand, said, unreadable>>
      /\ (spool' = <<>> /\ trouble' = trouble) \/ (trouble' = trouble + 1 /\ spool' = spool)
      /\ trouble' \in 0..MaxTrouble
  BY TalkLogAssumption DEF Clear, Trouble, IInv, TypeOK
<1>2. TypeOK'
  BY <1>1 DEF IInv, TypeOK
<1>3. SpoolIsCovered'
  BY <1>1 DEF SpoolIsCovered
<1>4. AllInOrder'
  <2> SUFFICES ASSUME trouble' = 0, unreadable' = 0
               PROVE  log \o spool' = said
    BY <1>1 DEF AllInOrder
  <2>1. spool' = hand /\ trouble = 0
    BY <1>1 DEF IInv, TypeOK
  <2>2. QED
    BY <1>1, <2>1, Zenon DEF IInv, AllInOrder
<1>5. QED
  BY <1>2, <1>3, <1>4 DEF IInv

(* A bridge that starts and reads the spool keeps the invariant. *)
LEMMA StartKeepsIInv ==
  ASSUME IInv, Start
  PROVE  IInv'
<1>1. PICK k \in 0..Len(spool) : Spooled(SubSeq(spool, 1, k)) /\ hand' = SubSeq(spool, 1, k)
  BY DEF Start
<1>2. /\ pc = "down" /\ pc' = IF hand' = <<>> THEN "free" ELSE "writing"
      /\ UNCHANGED <<log, spool, said, trouble>>
  BY DEF Start
<1>3. spool \in Seq(Entries) /\ unreadable \in Nat
  BY DEF IInv, TypeOK
<1>4. hand' \in Seq(Entries)
  BY <1>1, <1>3, SubSeqIsPart
<1>5. unreadable' \in 0..MaxUnreadable
  BY <1>1, TalkLogAssumption DEF Spooled, IInv, TypeOK
<1>6. TypeOK'
  BY <1>2, <1>4, <1>5 DEF IInv, TypeOK
<1>7. unreadable' = 0 => hand' = spool /\ unreadable = 0
  BY <1>1, <1>3, SpooledIsSpool
<1>8. SpoolIsCovered'
  BY <1>2, <1>7 DEF SpoolIsCovered
<1>9. AllInOrder'
  <2> SUFFICES ASSUME trouble = 0, unreadable' = 0
               PROVE  pc' = "free" /\ log \o spool = said
    BY <1>2 DEF AllInOrder
  <2>1. log = <<>> /\ spool = <<>> /\ said = <<>>
    BY <1>2, <1>7 DEF IInv, AllInOrder
  <2>2. QED
    BY <1>2, <1>7, <2>1
<1>10. QED
  BY <1>6, <1>8, <1>9 DEF IInv

(* Every step keeps the invariant. *)
LEMMA NextKeepsIInv ==
  ASSUME IInv, [Next]_vars
  PROVE  IInv'
<1>1. CASE Refuse
  BY <1>1 DEF IInv, TypeOK, SpoolIsCovered, AllInOrder, Refuse
<1>2. CASE Crash
  <2>1. trouble' = trouble + 1 /\ trouble' \in 0..MaxTrouble
    BY <1>2, TalkLogAssumption DEF Crash, Trouble, IInv, TypeOK
  <2>2. TypeOK'
    BY <1>2, <2>1 DEF IInv, TypeOK, Crash
  <2>3. SpoolIsCovered' /\ AllInOrder'
    BY <1>2, <2>1 DEF IInv, TypeOK, SpoolIsCovered, AllInOrder, Crash
  <2>4. QED
    BY <2>2, <2>3 DEF IInv
<1>3. CASE UNCHANGED vars
  BY <1>3 DEF IInv, TypeOK, SpoolIsCovered, AllInOrder, vars
<1>4. QED
  BY <1>1, <1>2, <1>3, SayKeepsIInv, AppendKeepsIInv, SpoolKeepsIInv, ClearKeepsIInv,
     StartKeepsIInv DEF Next

(* The invariant holds in every reachable state. *)
LEMMA SpecKeepsIInv == Spec => []IInv
<1>1. Init => IInv
  <2> SUFFICES ASSUME Init PROVE IInv
    OBVIOUS
  <2>1. <<>> \in Seq(Entries) /\ IsInjective(<<>>)
    BY DEF IsInjective
  <2>2. TypeOK
    BY <2>1, TalkLogAssumption DEF Init, TypeOK
  <2>3. QED
    BY <2>2 DEF Init, IInv, SpoolIsCovered, AllInOrder
<1>2. IInv /\ [Next]_vars => IInv'
  BY NextKeepsIInv
<1>3. QED
  BY <1>1, <1>2, PTL DEF Spec

-----------------------------------------------------------------------------
(***************************************************************************)
(* As long as nothing but the vault fails, the log is what was said, in    *)
(* order, up to what waits in the spool or in hand (log_talk, _write_talk  *)
(* and flush_talk).                                                        *)
(***************************************************************************)
THEOREM TheLogIsInOrder == Spec => []InOrder
<1>1. ASSUME IInv, trouble = 0, unreadable = 0
      PROVE  /\ IsPrefix(log, said) /\ (pc = "free" => log \o spool = said)
             /\ \A e \in ToSet(said) : e \in Durable \/ e \in ToSet(hand)
  <2>1. log \in Seq(Entries) /\ spool \in Seq(Entries) /\ hand \in Seq(Entries)
    BY <1>1 DEF IInv, TypeOK
  <2>2. PICK rest \in {spool, hand} : said = log \o rest
    <3>1. CASE pc = "down"
      <4>1. said = log \o spool
        BY <1>1, <3>1 DEF IInv, AllInOrder
      <4>2. QED
        BY <4>1
    <3>2. CASE pc # "down"
      BY <1>1, <3>2, Zenon DEF IInv, TypeOK, AllInOrder
    <3>3. QED
      BY <3>1, <3>2
  <2>3. rest \in Seq(Entries)
    BY <2>1, <2>2, Zenon
  <2>4. IsPrefix(log, log \o rest)
    BY <2>1, <2>3, PrefixOfConcat, ZenonT(60)
  <2>5. ToSet(log \o rest) = ToSet(log) \cup ToSet(rest)
    BY <2>1, <2>3, ElementsOfConcat, ZenonT(60)
  <2>6. IsPrefix(log, said) /\ ToSet(said) = ToSet(log) \cup ToSet(rest)
    BY <2>2, <2>4, <2>5, Zenon
  <2>7. QED
    BY <1>1, <2>6, Zenon DEF IInv, AllInOrder, Durable
<1>2. IInv => InOrder
  BY <1>1 DEF IInv, InOrder, NothingIsLost
<1>3. QED
  BY <1>2, SpecKeepsIInv, PTL

(***************************************************************************)
(* While the spool can be read, nothing that the vault or the spool has is *)
(* lost by any step, the replacement and the removal of the spool included *)
(* (_write_talk), and a crash between any two.                             *)
(***************************************************************************)
THEOREM DurableIsKept == Spec => DurableStays
<1>1. IInv /\ [Next]_vars => [unreadable = 0 => Durable \subseteq Durable']_vars
  <2> SUFFICES ASSUME IInv, Next, unreadable = 0
               PROVE  ToSet(log) \cup ToSet(spool) \subseteq ToSet(log') \cup ToSet(spool')
    BY DEF Durable
  <2>1. CASE AppendEntry
    <3>1. log' = Append(log, Head(hand)) /\ spool' = spool
      BY <2>1 DEF AppendEntry
    <3>2. Head(hand) \in Entries /\ log \in Seq(Entries)
      BY <2>1, HeadMoves DEF IInv, TypeOK, AppendEntry
    <3>3. ToSet(log') = ToSet(log) \cup {Head(hand)}
      BY <3>1, <3>2, ElementsOfAppend
    <3>4. QED
      BY <3>1, <3>3
  <2>2. CASE Spool
    BY <2>2 DEF IInv, SpoolIsCovered, Spool
  <2>3. CASE Clear
    <3>1. ToSet(hand) = {}
      BY <2>3 DEF Clear, ToSet
    <3>2. QED
      BY <2>3, <3>1 DEF IInv, SpoolIsCovered, Clear
  <2>4. QED
    BY <2>1, <2>2, <2>3 DEF Next, Say, Refuse, Crash, Start
<1>2. QED
  BY <1>1, SpecKeepsIInv, PTL DEF Spec, DurableStays

-----------------------------------------------------------------------------
(* What trouble may cost.  The thread with the lock has in hand at most one
   entry that is nowhere else, and will append each one it has only once. *)
Ahead == IF pc \in {"writing", "spooling"} THEN hand ELSE spool
Lost == ToSet(said) \ (Durable \cup ToSet(hand))

NothingMadeUp == ToSet(log) \cup ToSet(spool) \cup ToSet(hand) \subseteq ToSet(said)
NoneTwice == IsInjective(spool) /\ IsInjective(hand)
OneAtRisk == \E x : ToSet(hand) \subseteq Durable \cup {x}
LoggedFewTimes ==
  \A e \in Entries : Times(log, e) + (IF e \in ToSet(Ahead) THEN 1 ELSE 0) <= 1 + trouble
LostFew == Cardinality(Lost) <= trouble

CostIsLow ==
  unreadable = 0 => NothingMadeUp /\ NoneTwice /\ OneAtRisk /\ LoggedFewTimes /\ LostFew

(* The tail of a sequence that repeats nothing is without its head. *)
LEMMA TailOfInjective ==
  ASSUME NEW S, NEW s \in Seq(S), s # <<>>, IsInjective(s)
  PROVE  Head(s) \notin ToSet(Tail(s)) /\ IsInjective(Tail(s))
<1>l. PICK L \in Nat : L = Len(s)
  OBVIOUS
<1>1. /\ L > 0 /\ Head(s) = s[1] /\ DOMAIN s = 1..L /\ DOMAIN Tail(s) = 1..(L-1)
      /\ \A i \in 1..(L-1) : Tail(s)[i] = s[i+1]
  BY <1>l
<1>2. \A i \in 1..(L-1) : i + 1 \in 1..L /\ i + 1 # 1
  BY <1>1
<1>3. \A i, j \in 1..L : s[i] = s[j] => i = j
  BY <1>1 DEF IsInjective
<1>4. 1 \in 1..L
  BY <1>1
<1>5. Head(s) \notin ToSet(Tail(s))
  BY <1>1, <1>2, <1>3, <1>4 DEF ToSet
<1>6. IsInjective(Tail(s))
  <2>1. ASSUME NEW i \in 1..(L-1), NEW j \in 1..(L-1), Tail(s)[i] = Tail(s)[j]
        PROVE  i = j
    <3>1. s[i+1] = s[j+1]
      BY <1>1, <2>1
    <3>2. i + 1 = j + 1
      BY <1>2, <1>3, <3>1
    <3>3. QED
      BY <3>2
  <2>2. QED
    BY <1>1, <2>1 DEF IsInjective
<1>7. QED
  BY <1>5, <1>6

(* How often an entry is in a log that grows. *)
LEMMA TimesGrows ==
  ASSUME NEW S, NEW s \in Seq(S), NEW x \in S, NEW e
  PROVE  /\ Times(s, e) \in Nat
         /\ Times(Append(s, x), e) = Times(s, e) + (IF x = e THEN 1 ELSE 0)
<1> DEFINE At == {i \in DOMAIN s : s[i] = e}
<1>1. /\ DOMAIN s = 1..Len(s) /\ Len(s) \in Nat /\ DOMAIN Append(s, x) = 1..(Len(s) + 1)
      /\ \A i \in 1..Len(s) : Append(s, x)[i] = s[i] /\ i \in 1..(Len(s) + 1)
      /\ Append(s, x)[Len(s) + 1] = x
  OBVIOUS
<1>2. IsFiniteSet(1..Len(s)) /\ At \subseteq 1..Len(s)
  BY <1>1, FS_Interval
<1>3. IsFiniteSet(At) /\ Len(s) + 1 \notin At
  BY <1>1, <1>2, FS_Subset
<1>4. {i \in DOMAIN Append(s, x) : Append(s, x)[i] = e} = IF x = e THEN At \cup {Len(s) + 1} ELSE At
  <2>1. \A i \in 1..(Len(s) + 1) : i \in 1..Len(s) \/ i = Len(s) + 1
    BY <1>1
  <2>2. Len(s) + 1 \in 1..(Len(s) + 1)
    BY <1>1
  <2>3. QED
    BY <1>1, <2>1, <2>2
<1> HIDE DEF At
<1>5. Cardinality(At) \in Nat /\ Cardinality(At \cup {Len(s) + 1}) = Cardinality(At) + 1
  BY <1>3, FS_CardinalityType, FS_AddElement
<1>6. Times(s, e) = Cardinality(At)
  BY DEF Times, At
<1>7. Times(Append(s, x), e) = Cardinality(IF x = e THEN At \cup {Len(s) + 1} ELSE At)
  BY <1>4 DEF Times
<1>8. QED
  BY <1>5, <1>6, <1>7

(* It is there no time if it is not there. *)
LEMMA TimesOfAbsent ==
  ASSUME NEW s, NEW e, e \notin ToSet(s)
  PROVE  Times(s, e) = 0
<1>1. {i \in DOMAIN s : s[i] = e} = {}
  BY DEF ToSet
<1>2. QED
  BY <1>1, FS_EmptySet DEF Times

(* The lost ones are finitely many, and one more adds at most one. *)
LEMMA LostGrows ==
  ASSUME NEW A \in SUBSET Entries, NEW x, NEW B, B \subseteq A \cup {x}
  PROVE  /\ IsFiniteSet(A) /\ Cardinality(A) \in Nat
         /\ Cardinality(B) \in Nat /\ Cardinality(B) <= Cardinality(A) + 1
         /\ B \subseteq A => Cardinality(B) <= Cardinality(A)
<1>1. IsFiniteSet(A)
  BY TalkLogAssumption, FS_Subset
<1>2. IsFiniteSet(A \cup {x}) /\ Cardinality(A \cup {x}) <= Cardinality(A) + 1
  <2>1. Cardinality(A) \in Nat
    BY <1>1, FS_CardinalityType
  <2>2. /\ IsFiniteSet(A \cup {x})
        /\ Cardinality(A \cup {x}) = IF x \in A THEN Cardinality(A) ELSE Cardinality(A) + 1
    BY <1>1, FS_AddElement, ZenonT(30)
  <2>3. QED
    BY <2>1, <2>2
<1>3. Cardinality(B) \in Nat /\ Cardinality(B) <= Cardinality(A \cup {x})
  BY <1>2, FS_Subset, FS_CardinalityType
<1>4. B \subseteq A => Cardinality(B) <= Cardinality(A)
  BY <1>1, FS_Subset
<1>5. Cardinality(A) \in Nat /\ Cardinality(A \cup {x}) \in Nat
  BY <1>1, <1>2, FS_CardinalityType
<1>6. QED
  BY <1>1, <1>2, <1>3, <1>4, <1>5

(* A step that loses nothing, and one that loses one entry to trouble. *)
LEMMA LostStaysFew ==
  ASSUME TypeOK, LostFew, TypeOK', NEW x, Lost' \subseteq Lost \cup {x},
         \/ Lost' \subseteq Lost /\ trouble' = trouble
         \/ trouble' = trouble + 1
  PROVE  LostFew'
<1>1. Lost \in SUBSET Entries /\ trouble \in Nat /\ trouble' \in Nat
  BY DEF Lost, TypeOK, ToSet
<1> DEFINE B == Lost'
<1>2. /\ Cardinality(Lost) \in Nat /\ Cardinality(B) \in Nat
      /\ Cardinality(B) <= Cardinality(Lost) + 1
      /\ B \subseteq Lost => Cardinality(B) <= Cardinality(Lost)
  BY <1>1, LostGrows
<1>3. Cardinality(B) <= trouble'
  BY <1>1, <1>2 DEF LostFew
<1>4. QED
  BY <1>3 DEF LostFew

(* A new entry behind the spooled ones. *)
LEMMA SayCost ==
  ASSUME IInv, IInv', CostIsLow, NEW e \in Entries, Say(e), unreadable' = 0
  PROVE  CostIsLow'
<1>1. PICK k \in 0..Len(spool) :
        Spooled(SubSeq(spool, 1, k)) /\ hand' = Append(SubSeq(spool, 1, k), e)
  BY DEF Say
<1>2. /\ pc = "free" /\ pc' = "writing" /\ e \notin ToSet(said) /\ said' = Append(said, e)
      /\ UNCHANGED <<log, spool, trouble>>
  BY DEF Say
<1>3. /\ log \in Seq(Entries) /\ spool \in Seq(Entries) /\ said \in Seq(Entries)
      /\ hand = <<>> /\ unreadable \in Nat /\ trouble \in Nat
  BY <1>2 DEF IInv, TypeOK
<1>4. hand' = Append(spool, e) /\ unreadable = 0
  BY <1>1, <1>3, SpooledIsSpool
<1>5. NothingMadeUp /\ NoneTwice /\ LoggedFewTimes /\ LostFew
  BY <1>4 DEF CostIsLow
<1>6. /\ ToSet(hand') = ToSet(spool) \cup {e} /\ ToSet(said') = ToSet(said) \cup {e}
      /\ ToSet(hand) = {}
  <2>1. ToSet(<<>>) = {}
    BY DEF ToSet
  <2>2. QED
    BY <1>2, <1>3, <1>4, <2>1, ElementsOfAppend
<1>7. NothingMadeUp'
  BY <1>2, <1>5, <1>6 DEF NothingMadeUp
<1>8. NoneTwice'
  <2>1. e \notin ToSet(spool) /\ IsInjective(spool)
    BY <1>2, <1>5 DEF NothingMadeUp, NoneTwice
  <2>2. IsInjective(Append(spool, e))
    BY <1>3, <2>1, AppendKeepsInjective
  <2>3. QED
    BY <1>2, <1>4, <2>1, <2>2, Zenon DEF NoneTwice
<1>9. OneAtRisk'
  <2>1. ToSet(hand') \subseteq Durable' \cup {e}
    BY <1>2, <1>6 DEF Durable
  <2>2. QED
    BY <2>1 DEF OneAtRisk
<1>10. LoggedFewTimes'
  <2>1. Ahead = spool /\ Ahead' = hand'
    BY <1>2 DEF Ahead
  <2>2. Times(log, e) = 0
    BY <1>2, <1>5, TimesOfAbsent DEF NothingMadeUp
  <2>3. ASSUME NEW f \in Entries
        PROVE  Times(log, f) + (IF f \in ToSet(hand') THEN 1 ELSE 0) <= 1 + trouble
    <3>1. CASE f = e
      BY <1>3, <1>6, <2>2, <3>1
    <3>2. CASE f # e
      <4>1. Times(log, f) + (IF f \in ToSet(spool) THEN 1 ELSE 0) <= 1 + trouble
        BY <1>5, <2>1 DEF LoggedFewTimes
      <4>2. f \in ToSet(hand') <=> f \in ToSet(spool)
        BY <1>6, <3>2
      <4>3. QED
        BY <4>1, <4>2
    <3>3. QED
      BY <3>1, <3>2
  <2>4. QED
    BY <1>2, <2>1, <2>3 DEF LoggedFewTimes
<1>11. LostFew'
  <2>1. Lost' \subseteq Lost
    BY <1>2, <1>6 DEF Lost, Durable
  <2>2. QED
    BY <1>2, <1>5, <2>1, LostStaysFew DEF IInv
<1>12. QED
  BY <1>7, <1>8, <1>9, <1>10, <1>11 DEF CostIsLow

(* An entry goes from the hand into the vault. *)
LEMMA AppendCost ==
  ASSUME IInv, IInv', CostIsLow, AppendEntry, unreadable = 0
  PROVE  CostIsLow'
<1>1. /\ pc = "writing" /\ hand # <<>> /\ log' = Append(log, Head(hand)) /\ hand' = Tail(hand)
      /\ UNCHANGED <<spool, pc, said, trouble, unreadable>>
  BY DEF AppendEntry
<1>2. /\ log \in Seq(Entries) /\ hand \in Seq(Entries) /\ trouble \in Nat
  BY DEF IInv, TypeOK
<1>3. NothingMadeUp /\ NoneTwice /\ OneAtRisk /\ LoggedFewTimes /\ LostFew
  BY DEF CostIsLow
<1>4. PICK x \in Entries : x = Head(hand) /\ ToSet(hand) = {x} \cup ToSet(hand')
  BY <1>1, <1>2, HeadMoves
<1>5. ToSet(log') = ToSet(log) \cup {x}
  BY <1>1, <1>2, <1>4, ElementsOfAppend
<1>6. x \notin ToSet(hand') /\ IsInjective(hand')
  BY <1>1, <1>2, <1>3, <1>4, TailOfInjective DEF NoneTwice
<1>7. NothingMadeUp'
  BY <1>1, <1>3, <1>4, <1>5 DEF NothingMadeUp
<1>8. NoneTwice'
  BY <1>1, <1>3, <1>6 DEF NoneTwice
<1>9. OneAtRisk'
  <2>1. PICK y : ToSet(hand) \subseteq Durable \cup {y}
    BY <1>3 DEF OneAtRisk
  <2>2. ToSet(hand') \subseteq Durable' \cup {y}
    BY <1>1, <1>4, <1>5, <2>1 DEF Durable
  <2>3. QED
    BY <2>2 DEF OneAtRisk
<1>10. LoggedFewTimes'
  <2>1. Ahead = hand /\ Ahead' = hand'
    BY <1>1 DEF Ahead
  <2>2. ASSUME NEW f \in Entries
        PROVE  Times(log', f) + (IF f \in ToSet(hand') THEN 1 ELSE 0) <= 1 + trouble
    <3>1. Times(log, f) + (IF f \in ToSet(hand) THEN 1 ELSE 0) <= 1 + trouble
      BY <1>3, <2>1 DEF LoggedFewTimes
    <3>2. /\ Times(log', f) = Times(log, f) + (IF x = f THEN 1 ELSE 0)
          /\ Times(log, f) \in Nat
      BY <1>1, <1>2, <1>4, TimesGrows
    <3>3. CASE f = x
      <4>1. f \in ToSet(hand) /\ f \notin ToSet(hand')
        BY <1>4, <1>6, <3>3
      <4>2. QED
        BY <3>1, <3>2, <3>3, <4>1
    <3>4. CASE f # x
      <4>1. f \in ToSet(hand) <=> f \in ToSet(hand')
        BY <1>4, <3>4
      <4>2. QED
        BY <3>1, <3>2, <3>4, <4>1
    <3>5. QED
      BY <3>3, <3>4
  <2>3. QED
    BY <1>1, <2>1, <2>2 DEF LoggedFewTimes
<1>11. LostFew'
  <2>1. Lost' \subseteq Lost
    BY <1>1, <1>4, <1>5 DEF Lost, Durable
  <2>2. QED
    BY <1>1, <1>3, <2>1, LostStaysFew DEF IInv
<1>12. QED
  BY <1>7, <1>8, <1>9, <1>10, <1>11 DEF CostIsLow

(* The thread is done: what it still had replaces the spool, or is lost to
   trouble; or the bridge dies, and what was in hand with it. *)
LEMMA EmptyHandCost ==
  ASSUME IInv, IInv', CostIsLow, unreadable = 0, UNCHANGED <<log, said, unreadable>>,
         hand' = <<>>, pc' \in {"free", "down"},
         \/ spool' = hand /\ trouble' = trouble /\ pc \in {"writing", "spooling"}
         \/ spool' = spool /\ trouble' = trouble + 1
  PROVE  CostIsLow'
<1>1. ToSet(<<>>) = {} /\ IsInjective(<<>>)
  BY DEF ToSet, IsInjective
<1>2. NothingMadeUp /\ NoneTwice /\ OneAtRisk /\ LoggedFewTimes /\ LostFew
  BY DEF CostIsLow
<1>3. log \in Seq(Entries) /\ trouble \in Nat
  BY DEF IInv, TypeOK
<1>4. NothingMadeUp' /\ NoneTwice' /\ OneAtRisk'
  BY <1>1, <1>2 DEF NothingMadeUp, NoneTwice, OneAtRisk
<1>5. Ahead' = spool'
  BY DEF Ahead
<1>6. PICK x : ToSet(hand) \subseteq Durable \cup {x}
  BY <1>2 DEF OneAtRisk
<1>7. CASE spool' = hand /\ trouble' = trouble /\ pc \in {"writing", "spooling"}
  <2>1. Ahead' = Ahead
    BY <1>5, <1>7 DEF Ahead
  <2>2. LoggedFewTimes'
    BY <1>2, <1>7, <2>1 DEF LoggedFewTimes, Times
  <2>3. ToSet(spool) \subseteq ToSet(log) \cup ToSet(hand)
    BY <1>7 DEF IInv, SpoolIsCovered
  <2>4. Lost' \subseteq Lost
    BY <1>7, <2>3 DEF Lost, Durable
  <2>5. LostFew'
    BY <1>2, <1>7, <2>4, LostStaysFew DEF IInv
  <2>6. QED
    BY <1>4, <2>2, <2>5 DEF CostIsLow
<1>8. CASE spool' = spool /\ trouble' = trouble + 1
  <2>1. ASSUME NEW f \in Entries
        PROVE  Times(log, f) + (IF f \in ToSet(spool') THEN 1 ELSE 0) <= 1 + trouble'
    <3>1. Times(log, f) \in Nat
      BY <1>3, TimesGrows
    <3>2. Times(log, f) + (IF f \in ToSet(Ahead) THEN 1 ELSE 0) <= 1 + trouble
      BY <1>2 DEF LoggedFewTimes
    <3>3. QED
      BY <1>3, <1>8, <3>1, <3>2
  <2>2. LoggedFewTimes'
    BY <1>5, <2>1 DEF LoggedFewTimes
  <2>3. Lost' \subseteq Lost \cup {x}
    BY <1>1, <1>6, <1>8 DEF Lost, Durable
  <2>4. LostFew'
    BY <1>2, <1>8, <2>3, LostStaysFew DEF IInv
  <2>5. QED
    BY <1>4, <2>2, <2>4 DEF CostIsLow
<1>9. QED
  BY <1>7, <1>8

(* A bridge that starts has the spool in hand. *)
LEMMA StartCost ==
  ASSUME IInv, IInv', CostIsLow, Start, unreadable' = 0
  PROVE  CostIsLow'
<1>1. PICK k \in 0..Len(spool) : Spooled(SubSeq(spool, 1, k)) /\ hand' = SubSeq(spool, 1, k)
  BY DEF Start
<1>2. /\ pc = "down" /\ pc' = IF hand' = <<>> THEN "free" ELSE "writing"
      /\ UNCHANGED <<log, spool, said, trouble>>
  BY DEF Start
<1>3. unreadable \in Nat /\ hand = <<>>
  BY <1>2 DEF IInv, TypeOK
<1>4. hand' = spool /\ unreadable = 0
  BY <1>1, <1>3, SpooledIsSpool
<1>5. NothingMadeUp /\ NoneTwice /\ LoggedFewTimes /\ LostFew
  BY <1>4 DEF CostIsLow
<1>6. NothingMadeUp' /\ NoneTwice' /\ OneAtRisk'
  BY <1>2, <1>4, <1>5 DEF NothingMadeUp, NoneTwice, OneAtRisk, Durable
<1>7. LoggedFewTimes'
  <2>1. Ahead' = Ahead
    BY <1>2, <1>4 DEF Ahead
  <2>2. QED
    BY <1>2, <1>5, <2>1 DEF LoggedFewTimes, Times
<1>8. LostFew'
  <2>1. ToSet(hand) = {}
    BY <1>3 DEF ToSet
  <2>2. Lost' \subseteq Lost
    BY <1>2, <1>4, <2>1 DEF Lost, Durable
  <2>3. QED
    BY <1>2, <1>5, <2>2, LostStaysFew DEF IInv
<1>9. QED
  BY <1>6, <1>7, <1>8 DEF CostIsLow

(* A step that moves no entry. *)
LEMMA QuietCost ==
  ASSUME CostIsLow, UNCHANGED <<log, spool, hand, said, trouble, unreadable>>,
         pc' = pc \/ (pc = "writing" /\ pc' = "spooling")
  PROVE  CostIsLow'
<1>1. Ahead' = Ahead /\ Durable' = Durable
  BY DEF Ahead, Durable
<1>2. Lost' = Lost
  BY <1>1 DEF Lost
<1>3. QED
  BY <1>1, <1>2 DEF CostIsLow, NothingMadeUp, NoneTwice, OneAtRisk, LoggedFewTimes, LostFew, Times

(* Every step keeps the cost low. *)
LEMMA NextKeepsCost ==
  ASSUME IInv, IInv', CostIsLow, [Next]_vars
  PROVE  CostIsLow'
<1> SUFFICES ASSUME unreadable' = 0
             PROVE  CostIsLow'
  BY DEF CostIsLow
<1>1. ASSUME NEW e \in Entries, Say(e)
      PROVE  CostIsLow'
  BY <1>1, SayCost
<1>2. CASE AppendEntry
  BY <1>2, AppendCost DEF AppendEntry
<1>3. CASE Refuse
  BY <1>3, QuietCost DEF Refuse
<1>4. CASE Spool \/ Clear \/ Crash
  <2>1. unreadable = 0 /\ UNCHANGED <<log, said, unreadable>> /\ hand' = <<>>
    BY <1>4 DEF Spool, Clear, Crash
  <2>2. /\ pc' \in {"free", "down"}
        /\ \/ spool' = hand /\ trouble' = trouble /\ pc \in {"writing", "spooling"}
           \/ spool' = spool /\ trouble' = trouble + 1
    BY <1>4 DEF Spool, Clear, Crash, Trouble
  <2>3. QED
    BY <2>1, <2>2, EmptyHandCost
<1>5. CASE Start
  BY <1>5, StartCost
<1>6. CASE UNCHANGED vars
  <2>1. UNCHANGED <<log, spool, hand, said, trouble, unreadable>> /\ pc' = pc
    BY <1>6 DEF vars
  <2>2. QED
    BY <2>1, QuietCost
<1>7. QED
  BY <1>1, <1>2, <1>3, <1>4, <1>5, <1>6 DEF Next

(***************************************************************************)
(* While the spool can be read, each crash and each spool write that fails *)
(* costs at most one entry, and logs any entry at most once more           *)
(* (_write_talk).                                                          *)
(***************************************************************************)
THEOREM TroubleStaysCheap == Spec => []TroubleCostsLittle
<1>1. Init => CostIsLow
  <2> SUFFICES ASSUME Init PROVE CostIsLow
    OBVIOUS
  <2>1. ToSet(<<>>) = {} /\ IsInjective(<<>>)
    BY DEF ToSet, IsInjective
  <2>2. Lost = {} /\ Cardinality({}) = 0
    BY <2>1, FS_EmptySet DEF Init, Lost
  <2>3. \A e : Times(<<>>, e) = 0
    BY <2>1, TimesOfAbsent
  <2>4. QED
    BY <2>1, <2>2, <2>3 DEF Init, CostIsLow, NothingMadeUp, NoneTwice, OneAtRisk,
       LoggedFewTimes, LostFew, Ahead
<1>2. IInv /\ IInv' /\ CostIsLow /\ [Next]_vars => CostIsLow'
  BY NextKeepsCost
<1>3. IInv /\ CostIsLow => TroubleCostsLittle
  <2> SUFFICES ASSUME IInv, CostIsLow, unreadable = 0
               PROVE  /\ \A e \in Entries : Times(log, e) <= 1 + trouble
                      /\ Cardinality(Lost) <= trouble
    BY DEF TroubleCostsLittle, Lost
  <2>1. log \in Seq(Entries) /\ trouble \in Nat
    BY DEF IInv, TypeOK
  <2>2. ASSUME NEW e \in Entries
        PROVE  Times(log, e) <= 1 + trouble
    <3>1. Times(log, e) \in Nat
      BY <2>1, TimesGrows
    <3>2. Times(log, e) + (IF e \in ToSet(Ahead) THEN 1 ELSE 0) <= 1 + trouble
      BY DEF CostIsLow, LoggedFewTimes
    <3>3. QED
      BY <2>1, <3>1, <3>2
  <2>3. QED
    BY <2>2 DEF CostIsLow, LostFew
<1>4. QED
  BY <1>1, <1>2, <1>3, SpecKeepsIInv, PTL DEF Spec
=============================================================================
