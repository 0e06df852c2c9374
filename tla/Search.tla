--------------------------------- MODULE Search ---------------------------------
(***************************************************************************)
(* How a note of the vault comes to be found by meaning: the indexer (in   *)
(* modules/system/brain.nix) keeps the text of each note in a database,    *)
(* the embedder (sync of brain/embed.py) keeps a vector of each text that  *)
(* says something, and threads of the bridge compare with the vectors they *)
(* have in memory (vectors of brain/embed.py).                             *)
(*                                                                         *)
(* Three processes, two databases and a cache, each the last one's copy.   *)
(* A commit is one step; whatever was not committed dies with its process. *)
(* No note is written twice in one second.                                 *)
(***************************************************************************)
EXTENDS Integers, FiniteSets, FiniteSetsExt

CONSTANTS
  N,            \* the notes are 1..N, in the order of their paths
  Threads,      \* of the bridge
  MaxEdits,     \* bound of the model on what she writes
  MaxTrouble    \* bound of the model on reads that fail and on restarts

ASSUME SearchAssumption ==
  /\ N \in Nat /\ IsFiniteSet(Threads)
  /\ MaxEdits \in Nat /\ MaxTrouble \in Nat

Notes == 1..N

VARIABLES
  vault,        \* the text of each note
  edits,
  index,        \* the indexer's database ...
  draft,        \* ... with what is not committed yet
  walked, seen, \* the times it found in this walk of the vault, and in the last
  toIndex,      \* the notes left in this round; "asleep" and "starting" are others
  indexer,
  vecs,         \* the embedder's database: of which text the vector is
  commits,      \* how often it was written: what its mtime tells
  current,      \* the texts of this round of the embedder
  toEmbed,
  cached,       \* the bridge's copy of vecs, and of which mtime it is
  thread,       \* what a thread knows that brings the copy up to date
  trouble,
  missed        \* notes whose read went wrong since they last changed

indexing  == <<index, draft, walked, seen, toIndex, indexer, missed>>
embedding == <<vecs, commits, current, toEmbed>>
caching   == <<cached, thread>>
vars == <<vault, edits, indexing, embedding, caching, trouble>>

(* A text, or its copy with the time it is taken to be of; says: it is no stub,
   no log and not empty. *)
Text(t, at, says) == [text |-> t, at |-> at, says |-> says]
Texts == [text : 0..MaxEdits, at : 0..MaxEdits, says : BOOLEAN]
None == Text(0, 0, FALSE)
Nothing == [n \in Notes |-> None]
Times(texts) == [n \in Notes |-> texts[n].at]

(* wanted *)
Wanted(texts) == {n \in Notes : texts[n].says}

Trouble == trouble < MaxTrouble /\ trouble' = trouble + 1

(* She writes, replaces or deletes a note. *)
Save(n) ==
  /\ edits < MaxEdits
  /\ edits' = edits + 1
  /\ \E new \in {None} \cup {Text(edits', edits', says) : says \in BOOLEAN} :
       new # vault[n] /\ vault' = [vault EXCEPT ![n] = new]

Edit(n) ==
  /\ Save(n)
  /\ missed' = missed \ {n}
  /\ UNCHANGED <<index, draft, walked, seen, toIndex, indexer, embedding, caching, trouble>>

-----------------------------------------------------------------------------
(* Definitions named Fault... are wrong versions of the definition after
   them; each refutes a property when put in its place. *)

(* run: the walk of each minute, and what differs from the last one. *)
Walk ==
  /\ indexer = "asleep"
  /\ walked' = Times(vault)
  /\ toIndex' = {n \in Notes : walked'[n] # seen[n]}
  /\ indexer' = "indexing"
  /\ UNCHANGED <<vault, edits, index, draft, seen, missed, embedding, caching, trouble>>

(* full_reindex at the start walks as well, and takes everything. *)
WalkAll ==
  /\ indexer = "starting"
  /\ walked' = Times(vault)
  /\ toIndex' = Notes
  /\ indexer' = "reindexing"
  /\ UNCHANGED <<vault, edits, index, draft, seen, missed, embedding, caching, trouble>>

(* index_file, or the removal of a note that was not there in the walk.  One
   that cannot be read is left as it was, and after a start tried again. *)
IndexFile(n) ==
  /\ n \in toIndex
  /\ toIndex' = toIndex \ {n}
  /\ \/ /\ draft' = [draft EXCEPT ![n] = IF walked[n] = 0 THEN None ELSE vault[n]]
        /\ UNCHANGED <<missed, trouble>>
     \/ /\ walked[n] # 0 /\ vault[n] # None
        /\ Trouble
        /\ missed' = IF indexer = "indexing" THEN missed \cup {n} ELSE missed
        /\ UNCHANGED draft
  /\ UNCHANGED <<vault, edits, index, walked, seen, indexer, embedding, caching>>

(* She saves the note, or deletes it, after its text is read and before its
   time is: the old text counts as the new one.  Torn in a round, it is read
   again in the next, but the embedder, which compares times, may have been
   there; torn at the start, its new time counts as seen. *)
IndexTorn(n) ==
  /\ n \in toIndex /\ walked[n] # 0 /\ vault[n] # None
  /\ toIndex' = toIndex \ {n}
  /\ Save(n)
  /\ IF vault'[n] = None THEN UNCHANGED <<draft, missed>>
     ELSE /\ draft' = [draft EXCEPT ![n] = [vault[n] EXCEPT !.at = vault'[n].at]]
          /\ missed' = missed \cup {n}
  /\ UNCHANGED <<index, walked, seen, indexer, embedding, caching, trouble>>

(* mtimes: after the first round what the database says, later the walk. *)
Seen == IF indexer = "reindexing" THEN Times(draft) ELSE walked

Commit ==
  /\ indexer \in {"indexing", "reindexing"}
  /\ toIndex = {}
  /\ index' = draft
  /\ seen' = Seen
  /\ walked' = Times(Nothing)
  /\ indexer' = "asleep"
  /\ UNCHANGED <<vault, edits, draft, toIndex, missed, embedding, caching, trouble>>

RestartIndexer ==
  /\ Trouble
  /\ draft' = index
  /\ walked' = Times(Nothing) /\ seen' = Times(Nothing)
  /\ toIndex' = {}
  /\ indexer' = "starting"
  /\ UNCHANGED <<vault, edits, index, missed, embedding, caching>>

-----------------------------------------------------------------------------
(* sync starts: the index is read, and the vectors of what is no longer wanted
   are deleted. *)
Sync ==
  /\ toEmbed = {}
  /\ current' = index
  /\ LET gone == {n \in Notes : vecs[n] # None} \ Wanted(index) IN
     /\ vecs' = [n \in Notes |-> IF n \in gone THEN None ELSE vecs[n]]
     /\ commits' = IF gone = {} THEN commits ELSE commits + 1
  /\ toEmbed' = {n \in Wanted(index) : vecs[n].at # index[n].at}
  /\ <<current', toEmbed', commits'>> # <<current, toEmbed, commits>>
  /\ UNCHANGED <<vault, edits, indexing, caching, trouble>>

(* The vector is stored with the time the note has by now. *)
FaultEmbed(n) ==
  /\ toEmbed # {} /\ n = Min(toEmbed)
  /\ vecs' = [vecs EXCEPT ![n] = [current[n] EXCEPT !.at = index[n].at]]
  /\ commits' = commits + 1
  /\ toEmbed' = toEmbed \ {n}
  /\ UNCHANGED <<vault, edits, indexing, current, caching, trouble>>

(* The next note gets its vector, which is committed at once. *)
Embed(n) ==
  /\ toEmbed # {} /\ n = Min(toEmbed)
  /\ vecs' = [vecs EXCEPT ![n] = current[n]]
  /\ commits' = commits + 1
  /\ toEmbed' = toEmbed \ {n}
  /\ UNCHANGED <<vault, edits, indexing, current, caching, trouble>>

(* mimir cannot be reached, or the embedder is restarted: the round ends. *)
Abort ==
  /\ toEmbed # {}
  /\ toEmbed' = {}
  /\ current' = Nothing
  /\ UNCHANGED <<vault, edits, indexing, vecs, commits, caching, trouble>>

-----------------------------------------------------------------------------
Free == [at |-> "free", stamp |-> 0, rows |-> Nothing]

(* vectors: when the file is not as old as the copy ... *)
Stat(t) ==
  /\ thread[t].at = "free"
  /\ commits # cached.stamp
  /\ thread' = [thread EXCEPT ![t] = [Free EXCEPT !.at = "stat", !.stamp = commits]]
  /\ UNCHANGED <<vault, edits, indexing, embedding, cached, trouble>>

(* ... it is read anew, ... *)
Select(t) ==
  /\ thread[t].at = "stat"
  /\ thread' = [thread EXCEPT ![t].at = "read", ![t].rows = vecs]
  /\ UNCHANGED <<vault, edits, indexing, embedding, cached, trouble>>

(* The age is looked up when the copy is stored. *)
FaultCopied(t) == [stamp |-> commits, rows |-> thread[t].rows]

Copied(t) == [stamp |-> thread[t].stamp, rows |-> thread[t].rows]

(* ... and replaces the copy, whatever other threads have put there. *)
Replace(t) ==
  /\ thread[t].at = "read"
  /\ cached' = Copied(t)
  /\ thread' = [thread EXCEPT ![t] = Free]
  /\ UNCHANGED <<vault, edits, indexing, embedding, trouble>>

Init ==
  /\ vault = Nothing /\ edits = 0
  /\ index = Nothing /\ draft = Nothing /\ walked = Times(Nothing) /\ seen = Times(Nothing)
  /\ toIndex = {} /\ indexer = "starting" /\ missed = {}
  /\ vecs = Nothing /\ commits = 0 /\ current = Nothing /\ toEmbed = {}
  /\ cached = [stamp |-> 0, rows |-> Nothing]
  /\ thread = [t \in Threads |-> Free]
  /\ trouble = 0

Index == Walk \/ WalkAll \/ (\E n \in Notes : IndexFile(n)) \/ Commit
Ask(t) == Stat(t) \/ Select(t) \/ Replace(t)

Next ==
  \/ \E n \in Notes : Edit(n) \/ Embed(n) \/ IndexTorn(n)
  \/ Index \/ RestartIndexer
  \/ Sync \/ Abort
  \/ \E t \in Threads : Ask(t)

Spec == Init /\ [][Next]_vars

(***************************************************************************)
(* Indexer and embedder go round every minute; mimir answers again and     *)
(* again, whichever note it is asked for; the bridge is asked.             *)
(***************************************************************************)
FairSpec ==
  /\ Spec
  /\ WF_vars(Index) /\ WF_vars(Sync)
  /\ \A n \in Notes : SF_vars(Embed(n))
  /\ \A t \in Threads : WF_vars(Ask(t))

-----------------------------------------------------------------------------
(***************************************************************************)
(* "Every stored vector, reloaded only when the file has changed"          *)
(* (vectors): a copy that looks up to date is, although threads replace    *)
(* each other's and the embedder commits between any two of their steps.   *)
(***************************************************************************)
TypeOK ==
  /\ {vault, index, draft, vecs, current, cached.rows} \subseteq [Notes -> Texts]
  /\ {walked, seen} \subseteq [Notes -> 0..MaxEdits]
  /\ edits \in 0..MaxEdits /\ trouble \in 0..MaxTrouble
  /\ commits \in Nat /\ cached.stamp \in 0..commits
  /\ toIndex \cup toEmbed \cup missed \subseteq Notes
  /\ indexer \in {"starting", "reindexing", "asleep", "indexing"}
  /\ thread \in [Threads -> [at : {"free", "stat", "read"}, stamp : 0..commits,
                              rows : [Notes -> Texts]]]

CopyIsHonest ==
  /\ TypeOK
  /\ cached.stamp = commits => cached.rows = vecs

(***************************************************************************)
(* What she wrote last is what is found in the end, and nothing that she   *)
(* has deleted or that says nothing, through restarts, unreachable servers *)
(* and edits at any moment; only a note that could not be read, or was     *)
(* saved between the two reads of it, may wait for its next change.        *)
(***************************************************************************)
FoundInTheEnd ==
  <>[](\A n \in Notes \ missed :
         cached.rows[n] = IF vault[n].says THEN vault[n] ELSE None)
=============================================================================
