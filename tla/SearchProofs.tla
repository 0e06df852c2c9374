------------------------------ MODULE SearchProofs ------------------------------
(***************************************************************************)
(* A theorem about Search for every number of notes, threads, edits and    *)
(* failures.                                                               *)
(***************************************************************************)
EXTENDS Search, TLAPS

(* A thread that has read the vectors has read the latest, or knows an age that
   is no longer the file's. *)
ThreadIsHonest(t) ==
  thread[t].at = "read" /\ thread[t].stamp = commits => thread[t].rows = vecs

IInv ==
  /\ CopyIsHonest
  /\ \A t \in Threads : ThreadIsHonest(t)

(* The text of a note that is not there is a text. *)
LEMMA NothingType == None \in Texts /\ Nothing \in [Notes -> Texts]
<1>1. None \in Texts
  BY SearchAssumption DEF None, Text, Texts
<1>2. QED
  BY <1>1 DEF Nothing

(* The times of texts are times. *)
LEMMA TimesType ==
  ASSUME NEW texts \in [Notes -> Texts]
  PROVE  Times(texts) \in [Notes -> 0..MaxEdits]
  BY DEF Times, Texts

(* A note that is saved stays within the bound on edits. *)
LEMMA SaveType ==
  ASSUME TypeOK, NEW n \in Notes, Save(n)
  PROVE  vault' \in [Notes -> Texts] /\ edits' \in 0..MaxEdits
<1>1. edits' \in 0..MaxEdits
  BY SearchAssumption DEF TypeOK, Save
<1>2. \A says \in BOOLEAN : Text(edits', edits', says) \in Texts
  BY <1>1 DEF Text, Texts
<1>3. QED
  BY <1>1, <1>2, NothingType DEF TypeOK, Save

(* A request that has read the time of the index is one again. *)
LEMMA StampType ==
  ASSUME NEW c \in Nat, NEW rows,
         NEW f \in [at : {"free", "stat", "read"}, stamp : 0..c, rows : rows]
  PROVE  [f EXCEPT !.at = "stat", !.stamp = c] \in
           [at : {"free", "stat", "read"}, stamp : 0..c, rows : rows]
<1> DEFINE g == [f EXCEPT !.at = "stat"]
<1>1. g \in [at : {"free", "stat", "read"}, stamp : 0..c, rows : rows]
  OBVIOUS
<1>2. [f EXCEPT !.at = "stat", !.stamp = c] = [g EXCEPT !.stamp = c]
  OBVIOUS
<1> HIDE DEF g
<1>3. QED
  BY <1>1, <1>2

(* What does not touch the vectors and the copies of them. *)
LEMMA OthersKeepIInv ==
  ASSUME IInv, TypeOK', UNCHANGED <<vecs, commits, caching>>
  PROVE  IInv'
  BY DEF IInv, CopyIsHonest, ThreadIsHonest, caching

(* A commit makes every copy older than the file. *)
LEMMA CommitsKeepIInv ==
  ASSUME IInv, TypeOK', commits' = commits + 1, UNCHANGED caching
  PROVE  IInv'
<1>1. cached.stamp # commits' /\ \A t \in Threads : thread[t].stamp # commits'
  BY DEF IInv, CopyIsHonest, TypeOK
<1>2. QED
  BY <1>1 DEF IInv, CopyIsHonest, ThreadIsHonest, caching

-----------------------------------------------------------------------------
(* Her edits and the indexer keep the invariant: they leave the vectors alone. *)
LEMMA IndexerKeepsIInv ==
  ASSUME IInv, \/ \E n \in Notes : Edit(n) \/ IndexTorn(n)
               \/ Index \/ RestartIndexer
  PROVE  IInv'
<1> USE DEF IInv, CopyIsHonest
<1>1. ASSUME NEW n \in Notes, Edit(n)
      PROVE  IInv'
  <2>1. vault' \in [Notes -> Texts] /\ edits' \in 0..MaxEdits
    BY <1>1, SaveType DEF Edit
  <2>2. TypeOK'
    BY <1>1, <2>1 DEF TypeOK, Edit, embedding, caching
  <2>3. QED
    BY <1>1, <2>2, OthersKeepIInv DEF Edit, embedding
<1>2. ASSUME NEW n \in Notes, IndexTorn(n)
      PROVE  IInv'
  <2>1. vault' \in [Notes -> Texts] /\ edits' \in 0..MaxEdits
    BY <1>2, SaveType DEF IndexTorn
  <2>2. [vault[n] EXCEPT !.at = vault'[n].at] \in Texts
    <3>1. vault[n] \in Texts /\ vault'[n].at \in 0..MaxEdits
      BY <2>1 DEF TypeOK, Texts
    <3>2. QED
      BY <3>1 DEF Texts
  <2>3. draft' \in [Notes -> Texts] /\ missed' \subseteq Notes
    BY <1>2, <2>2 DEF TypeOK, IndexTorn
  <2>4. TypeOK'
    BY <1>2, <2>1, <2>3 DEF TypeOK, IndexTorn, embedding, caching
  <2>5. QED
    BY <1>2, <2>4, OthersKeepIInv DEF IndexTorn, embedding
<1>3. CASE Walk \/ WalkAll
  <2>1. walked' \in [Notes -> 0..MaxEdits] /\ toIndex' \subseteq Notes
    BY <1>3, TimesType DEF TypeOK, Walk, WalkAll
  <2>2. TypeOK'
    BY <1>3, <2>1 DEF TypeOK, Walk, WalkAll, embedding, caching
  <2>3. QED
    BY <1>3, <2>2, OthersKeepIInv DEF Walk, WalkAll, embedding
<1>4. ASSUME NEW n \in Notes, IndexFile(n)
      PROVE  IInv'
  <2>1. draft' \in [Notes -> Texts] /\ missed' \subseteq Notes
    BY <1>4, NothingType DEF TypeOK, IndexFile
  <2>2. trouble' \in 0..MaxTrouble
    BY <1>4, SearchAssumption DEF TypeOK, IndexFile, Trouble
  <2>3. TypeOK'
    BY <1>4, <2>1, <2>2 DEF TypeOK, IndexFile, embedding, caching
  <2>4. QED
    BY <1>4, <2>3, OthersKeepIInv DEF IndexFile, embedding
<1>5. CASE Commit
  <2>1. seen' \in [Notes -> 0..MaxEdits] /\ walked' \in [Notes -> 0..MaxEdits]
    BY <1>5, TimesType, NothingType DEF TypeOK, Commit, Seen
  <2>2. TypeOK'
    BY <1>5, <2>1 DEF TypeOK, Commit, embedding, caching
  <2>3. QED
    BY <1>5, <2>2, OthersKeepIInv DEF Commit, embedding
<1>6. CASE RestartIndexer
  <2>1. seen' \in [Notes -> 0..MaxEdits] /\ walked' \in [Notes -> 0..MaxEdits]
    BY <1>6, TimesType, NothingType DEF RestartIndexer
  <2>2. trouble' \in 0..MaxTrouble
    BY <1>6, SearchAssumption DEF TypeOK, RestartIndexer, Trouble
  <2>3. TypeOK'
    BY <1>6, <2>1, <2>2 DEF TypeOK, RestartIndexer, embedding, caching
  <2>4. QED
    BY <1>6, <2>3, OthersKeepIInv DEF RestartIndexer, embedding
<1>7. QED
  BY <1>1, <1>2, <1>3, <1>4, <1>5, <1>6 DEF Index

(* The embedder keeps the invariant: a commit takes a number no copy has. *)
LEMMA EmbedderKeepsIInv ==
  ASSUME IInv, Sync \/ Abort \/ \E n \in Notes : Embed(n)
  PROVE  IInv'
<1> USE DEF IInv, CopyIsHonest
<1>1. CASE Sync
  <2> DEFINE gone == {n \in Notes : vecs[n] # None} \ Wanted(index)
  <2>1. /\ vecs' = [n \in Notes |-> IF n \in gone THEN None ELSE vecs[n]]
        /\ commits' = IF gone = {} THEN commits ELSE commits + 1
        /\ UNCHANGED <<vault, edits, indexing, caching, trouble>>
    BY <1>1 DEF Sync
  <2>2. vecs' \in [Notes -> Texts]
    BY <2>1, NothingType DEF TypeOK
  <2>3. commits' \in Nat /\ commits <= commits'
    BY <2>1 DEF TypeOK
  <2>4. current' \in [Notes -> Texts] /\ toEmbed' \subseteq Notes
    BY <1>1 DEF Sync, TypeOK, Wanted
  <2>5. cached'.stamp \in 0..commits'
    BY <2>1, <2>3 DEF TypeOK, caching
  <2>6. thread' \in [Threads -> [at : {"free", "stat", "read"}, stamp : 0..commits',
                                 rows : [Notes -> Texts]]]
    BY <2>1, <2>3 DEF TypeOK, caching
  <2>7. TypeOK'
    BY <2>1, <2>2, <2>3, <2>4, <2>5, <2>6 DEF TypeOK, indexing, caching
  <2>8. CASE gone = {}
    <3>1. vecs' = vecs /\ commits' = commits
      BY <2>1, <2>8 DEF TypeOK
    <3>2. QED
      BY <2>1, <2>7, <3>1, OthersKeepIInv
  <2>9. CASE gone # {}
    BY <2>1, <2>7, <2>9, CommitsKeepIInv
  <2>10. QED
    BY <2>8, <2>9
<1>2. ASSUME NEW n \in Notes, Embed(n)
      PROVE  IInv'
  <2>1. /\ vecs' = [vecs EXCEPT ![n] = current[n]] /\ commits' = commits + 1
        /\ toEmbed' \subseteq toEmbed
        /\ UNCHANGED <<vault, edits, indexing, current, caching, trouble>>
    BY <1>2 DEF Embed
  <2>2. vecs' \in [Notes -> Texts] /\ commits' \in Nat /\ commits <= commits'
    BY <2>1 DEF TypeOK
  <2>3. cached'.stamp \in 0..commits'
    BY <2>1, <2>2 DEF TypeOK, caching
  <2>4. thread' \in [Threads -> [at : {"free", "stat", "read"}, stamp : 0..commits',
                                 rows : [Notes -> Texts]]]
    BY <2>1, <2>2 DEF TypeOK, caching
  <2>5. TypeOK'
    BY <2>1, <2>2, <2>3, <2>4 DEF TypeOK, indexing, caching
  <2>6. QED
    BY <2>1, <2>5, CommitsKeepIInv
<1>3. CASE Abort
  <2>1. TypeOK'
    BY <1>3, NothingType DEF TypeOK, Abort, indexing, caching
  <2>2. QED
    BY <1>3, <2>1, OthersKeepIInv DEF Abort
<1>4. QED
  BY <1>1, <1>2, <1>3

(* A request keeps the invariant, whatever other requests do meanwhile. *)
LEMMA BridgeKeepsIInv ==
  ASSUME IInv, NEW t \in Threads, Ask(t)
  PROVE  IInv'
<1> USE DEF IInv, CopyIsHonest
<1> DEFINE Steps == [at : {"free", "stat", "read"}, stamp : 0..commits, rows : [Notes -> Texts]]
<1>1. Free \in Steps /\ [Free EXCEPT !.at = "stat", !.stamp = commits] \in Steps
  <2>1. commits \in Nat
    BY DEF TypeOK
  <2>2. Free \in Steps
    BY <2>1, NothingType DEF Free
  <2>3. [Free EXCEPT !.at = "stat", !.stamp = commits] \in Steps
    BY <2>1, <2>2, StampType
  <2>4. QED
    BY <2>2, <2>3
<1>2. CASE Stat(t)
  <2>1. thread' = [thread EXCEPT ![t] = [Free EXCEPT !.at = "stat", !.stamp = commits]]
        /\ UNCHANGED <<vault, edits, indexing, embedding, cached, trouble>>
    BY <1>2 DEF Stat
  <2>2. thread' \in [Threads -> Steps]
    BY <1>1, <2>1 DEF TypeOK
  <2>3. TypeOK'
    BY <2>1, <2>2 DEF TypeOK, indexing, embedding
  <2>4. thread'[t].at # "read" /\ \A s \in Threads \ {t} : thread'[s] = thread[s]
    BY <2>1 DEF TypeOK, Free
  <2>5. QED
    BY <2>1, <2>3, <2>4 DEF ThreadIsHonest, embedding
<1>3. CASE Select(t)
  <2>1. thread' = [thread EXCEPT ![t].at = "read", ![t].rows = vecs]
        /\ UNCHANGED <<vault, edits, indexing, embedding, cached, trouble>>
    BY <1>3 DEF Select
  <2>2. /\ thread'[t] \in Steps /\ thread'[t].rows = vecs
        /\ \A s \in Threads \ {t} : thread'[s] = thread[s]
    BY <2>1 DEF TypeOK
  <2>3. thread' \in [Threads -> Steps]
    BY <2>1, <2>2 DEF TypeOK
  <2>4. TypeOK'
    BY <2>1, <2>3 DEF TypeOK, indexing, embedding
  <2>5. QED
    BY <2>1, <2>2, <2>4 DEF ThreadIsHonest, embedding
<1>4. CASE Replace(t)
  <2>1. /\ thread[t].at = "read"
        /\ cached' = [stamp |-> thread[t].stamp, rows |-> thread[t].rows]
        /\ thread' = [thread EXCEPT ![t] = Free]
        /\ UNCHANGED <<vault, edits, indexing, embedding, trouble>>
    BY <1>4 DEF Replace, Copied
  <2>2. thread' \in [Threads -> Steps] /\ cached'.stamp \in 0..commits
        /\ cached'.rows \in [Notes -> Texts]
    BY <1>1, <2>1 DEF TypeOK
  <2>3. TypeOK'
    BY <2>1, <2>2 DEF TypeOK, indexing, embedding
  <2>4. cached'.stamp = commits => cached'.rows = vecs
    BY <2>1 DEF ThreadIsHonest
  <2>5. thread'[t].at # "read" /\ \A s \in Threads \ {t} : thread'[s] = thread[s]
    BY <2>1 DEF TypeOK, Free
  <2>6. QED
    BY <2>1, <2>3, <2>4, <2>5 DEF ThreadIsHonest, embedding
<1>5. QED
  BY <1>2, <1>3, <1>4 DEF Ask

(***************************************************************************)
(* A copy of the vectors that is as old as the file is the file, for any   *)
(* number of threads that replace it and commits between any two of their  *)
(* steps: the age is looked up before the rows are read (vectors in        *)
(* embed.py), never after.                                                 *)
(***************************************************************************)
THEOREM TheCopyIsHonest == Spec => []CopyIsHonest
<1>1. Init => IInv
  <2> SUFFICES ASSUME Init PROVE IInv
    OBVIOUS
  <2>1. Times(Nothing) \in [Notes -> 0..MaxEdits]
    BY NothingType, TimesType
  <2>2. thread \in [Threads -> [at : {"free", "stat", "read"}, stamp : 0..0,
                                rows : [Notes -> Texts]]]
    BY NothingType DEF Init, Free
  <2>3. TypeOK
    BY <2>1, <2>2, NothingType, SearchAssumption DEF Init, TypeOK
  <2>4. \A t \in Threads : thread[t].at = "free"
    BY DEF Init, Free
  <2>5. QED
    BY <2>3, <2>4 DEF Init, IInv, CopyIsHonest, ThreadIsHonest
<1>2. IInv /\ [Next]_vars => IInv'
  <2>1. IInv /\ UNCHANGED vars => IInv'
    <3> SUFFICES ASSUME IInv, UNCHANGED vars PROVE IInv'
      OBVIOUS
    <3>1. TypeOK'
      BY DEF IInv, CopyIsHonest, TypeOK, vars, indexing, embedding, caching
    <3>2. QED
      BY <3>1, OthersKeepIInv DEF vars, embedding
  <2>2. QED
    BY <2>1, IndexerKeepsIInv, EmbedderKeepsIInv, BridgeKeepsIInv DEF Next
<1>3. IInv => CopyIsHonest
  BY DEF IInv
<1>4. QED
  BY <1>1, <1>2, <1>3, PTL DEF Spec
=============================================================================
