---------------------------------- MODULE Inbox ----------------------------------
(***************************************************************************)
(* The inbox sweep (sweep, file_capture, dispatch and settle of            *)
(* muninn/inbox.py) on captures that she goes on editing meanwhile, with a *)
(* writer and a bridge that may fail, and a sweep that may be killed.      *)
(*                                                                         *)
(* A capture is a file (an inode) that a name in _inbox links.  Its        *)
(* content is what it is good for and a version that every save raises;    *)
(* editors save in place, through a descriptor they keep, or put a new     *)
(* file under the name.  The lock lets one sweep work at a time, and the   *)
(* one that waited lists the inbox anew: one sweeper is all there is.      *)
(***************************************************************************)
EXTENDS Integers, Sequences, FiniteSets

CONSTANTS
  Names,        \* names in _inbox
  Files,        \* inodes
  NoFile,
  MaxEdits,     \* bound of the model on saves of a file
  MaxTrouble    \* bound of the model on failures, kills included

ASSUME InboxAssumption ==
  /\ IsFiniteSet(Names) /\ Names # {} /\ IsFiniteSet(Files)
  /\ NoFile \notin Files
  /\ MaxEdits \in Nat /\ MaxTrouble \in Nat

VARIABLES
  inbox,        \* [Names -> file linked there, or NoFile]
  content,      \* [Files -> [kind, version]]
  kept,         \* the files linked in the archive, each as an original.md
  life,         \* "unused", "written", or "gone": its last link she took away
  filed,        \* how many notes each file has become
  ran,          \* how often the bridge acted on each file as a task
  lost,         \* how often the bridge's answer about a file did not arrive
  late,         \* requests of each file the sweep gave up that the bridge still has
  pc,           \* where the sweep is
  todo,         \* names it listed and has not dealt with
  tries,        \* 2 for a name that changed under its first try
  cap,          \* the capture in hand
  reply,        \* the bridge's answer, when there is one
  trouble

vault == <<inbox, content, kept, life>>
hands == <<todo, tries, cap>>
vars == <<vault, filed, ran, lost, late, pc, hands, reply, trouble>>

(* A request is a capture that begins with todo: or jev:.  "blank" is empty or
   too large to be a note. *)
Kinds == {"note", "request", "blank"}
Contents == [kind: Kinds, version: 0..MaxEdits]

NoCapture ==
  [name |-> CHOOSE n \in Names : TRUE, file |-> NoFile,
   raw |-> [kind |-> "blank", version |-> 0], moved |-> NoFile, claimed |-> FALSE,
   changed |-> FALSE]

Stages == {"idle", "next", "asking", "checking", "moving", "verifying", "posting", "posted",
           "answered", "writing", "restoring"}

Linked(n) == inbox[n] # NoFile
InInbox(f) == \E n \in Names : inbox[n] = f
-----------------------------------------------------------------------------
(* She writes a capture: in place if its editor has it open, wherever it is. *)
Edited(f, kind) ==
  /\ life[f] = "written"
  /\ content[f].version < MaxEdits
  /\ content' = [content EXCEPT ![f] = [kind |-> kind, version |-> @.version + 1]]

Save(f, kind) ==
  /\ Edited(f, kind)
  /\ UNCHANGED <<inbox, kept, life, filed, ran, lost, late, pc, hands, reply, trouble>>

(* She puts a file under a name, a new capture or instead of the one there. *)
Put(n, f, kind) ==
  /\ life[f] = "unused"
  /\ inbox' = [inbox EXCEPT ![n] = f]
  /\ content' = [content EXCEPT ![f] = [kind |-> kind, version |-> 0]]
  /\ life' = [g \in Files |->
                CASE g = f -> "written"
                  [] g = inbox[n] /\ g \notin kept -> "gone"
                  [] OTHER -> life[g]]
  /\ UNCHANGED <<kept, filed, ran, lost, late, pc, hands, reply, trouble>>

-----------------------------------------------------------------------------
(* Definitions named Fault... are wrong versions of the definition after
   them; each refutes a property when put in its place. *)

(* sweep: the names, listed under the lock. *)
List ==
  /\ pc = "idle"
  /\ \E n \in Names : Linked(n)
  /\ pc' = "next"
  /\ todo' = {n \in Names : Linked(n)}
  /\ UNCHANGED <<vault, filed, ran, lost, late, tries, cap, reply, trouble>>

(* Every name has been dealt with: the report is written. *)
Report ==
  /\ pc = "next" /\ todo = {}
  /\ pc' = "idle"
  /\ cap' = NoCapture
  /\ UNCHANGED <<vault, filed, ran, lost, late, todo, tries, reply, trouble>>

(* On to the next name. *)
Done(n) ==
  /\ pc' = "next"
  /\ todo' = todo \ {n}
  /\ tries' = [tries EXCEPT ![n] = 1]

(* What changed in the sweep's hands is tried once more. *)
Again(n) ==
  IF tries[n] = 1
  THEN pc' = "next" /\ tries' = [tries EXCEPT ![n] = 2] /\ UNCHANGED todo
  ELSE Done(n)

(* file_capture raises.  What is claimed is put back first. *)
Raise(changed) ==
  IF cap.claimed THEN pc' = "restoring" /\ UNCHANGED <<todo, tries>>
  ELSE IF changed THEN Again(cap.name) ELSE Done(cap.name)

(* Something fails that is not the sweep's to prevent. *)
Trouble == trouble < MaxTrouble /\ trouble' = trouble + 1

(* The bridge is asked before the capture is claimed. *)
FaultFirst(kind) ==
  CASE kind = "note" -> "asking" [] kind = "request" -> "posting" [] OTHER -> "checking"

(* A note is thought over before it is claimed, what else there is is not. *)
First(kind) == IF kind = "note" THEN "asking" ELSE "checking"

(* file_capture up to its first call or check: the text is in hand. *)
Read(n) ==
  /\ pc = "next" /\ n \in todo
  /\ \A m \in todo : tries[m] = 2 => m = n
  /\ IF Linked(n)
     THEN /\ cap' = [name |-> n, file |-> inbox[n], raw |-> content[inbox[n]],
                     moved |-> NoFile, claimed |-> FALSE, changed |-> FALSE]
          /\ pc' = First(content[inbox[n]].kind)
          /\ UNCHANGED <<todo, tries>>
     ELSE Done(n) /\ UNCHANGED cap
  /\ UNCHANGED <<vault, filed, ran, lost, late, reply, trouble>>

(* Jev and the writer: whatever the writer says there is a note to file,
   only a writer out of reach is an error. *)
Ask ==
  /\ pc = "asking"
  /\ \/ /\ pc' = IF cap.claimed THEN "writing" ELSE "checking"
        /\ UNCHANGED <<todo, tries, trouble>>
     \/ Trouble /\ Raise(FALSE)
  /\ UNCHANGED <<vault, filed, ran, lost, late, cap, reply>>

(* A save lands while read_note reads the capture. *)
ReadTorn(n, kind) ==
  /\ pc = "next" /\ n \in todo
  /\ \A m \in todo : tries[m] = 2 => m = n
  /\ Linked(n) /\ Edited(inbox[n], kind)
  /\ Again(n)
  /\ UNCHANGED <<inbox, kept, life, filed, ran, lost, late, cap, reply, trouble>>

(* claim: unchanged. *)
Check ==
  /\ pc = "checking"
  /\ IF inbox[cap.name] = cap.file /\ content[cap.file] = cap.raw
     THEN pc' = "moving" /\ UNCHANGED <<todo, tries>>
     ELSE Raise(Linked(cap.name))
  /\ UNCHANGED <<vault, filed, ran, lost, late, cap, reply, trouble>>

(* The snapshot is all there is to keep, the name is unlinked. *)
FaultMove ==
  /\ pc = "moving"
  /\ inbox' = [inbox EXCEPT ![cap.name] = NoFile]
  /\ kept' = kept \cup {cap.file}
  /\ cap' = [cap EXCEPT !.claimed = TRUE, !.moved = cap.file]
  /\ pc' = "verifying"
  /\ UNCHANGED <<content, life, todo, tries, filed, ran, lost, late, reply, trouble>>

(* claim: the rename takes whatever file the name links by now. *)
Move ==
  /\ pc = "moving"
  /\ IF Linked(cap.name)
     THEN /\ inbox' = [inbox EXCEPT ![cap.name] = NoFile]
          /\ kept' = kept \cup {inbox[cap.name]}
          /\ cap' = [cap EXCEPT !.claimed = TRUE, !.moved = inbox[cap.name]]
          /\ pc' = "verifying"
          /\ UNCHANGED <<todo, tries>>
     ELSE Raise(FALSE) /\ UNCHANGED <<inbox, kept, cap>>
  /\ UNCHANGED <<content, life, filed, ran, lost, late, reply, trouble>>

(* What no note can be made of is an error. *)
FaultVerifyBlank ==
  /\ pc = "verifying"
  /\ IF cap.moved # cap.file \/ content[cap.moved] # cap.raw \/ cap.raw.kind = "blank"
     THEN Raise(FALSE)
     ELSE /\ pc' = IF cap.raw.kind = "request" THEN "posting" ELSE "writing"
          /\ UNCHANGED <<todo, tries>>
  /\ UNCHANGED <<vault, filed, ran, lost, late, cap, reply, trouble>>

(* What was moved is not looked at again. *)
FaultVerify ==
  /\ pc = "verifying"
  /\ CASE cap.raw.kind = "blank" -> Done(cap.name)
       [] cap.raw.kind = "request" -> pc' = "posting" /\ UNCHANGED <<todo, tries>>
       [] cap.raw.kind = "note" -> pc' = "writing" /\ UNCHANGED <<todo, tries>>
  /\ UNCHANGED <<vault, filed, ran, lost, late, cap, reply, trouble>>

(* claim: is it what was read?  Then a blank one is set aside by that. *)
Verify ==
  /\ pc = "verifying"
  /\ IF cap.moved # cap.file \/ content[cap.moved] # cap.raw
     THEN Raise(FALSE)
     ELSE CASE cap.raw.kind = "blank" -> Done(cap.name)
            [] cap.raw.kind = "request" -> pc' = "posting" /\ UNCHANGED <<todo, tries>>
            [] cap.raw.kind = "note" -> pc' = "writing" /\ UNCHANGED <<todo, tries>>
  /\ UNCHANGED <<vault, filed, ran, lost, late, cap, reply, trouble>>

(* A save lands while read_note reads what was moved. *)
VerifyTorn(kind) ==
  /\ pc = "verifying"
  /\ Edited(cap.moved, kind)
  /\ Raise(TRUE)
  /\ cap' = [cap EXCEPT !.changed = TRUE]
  /\ UNCHANGED <<inbox, kept, life, filed, ran, lost, late, reply, trouble>>

-----------------------------------------------------------------------------
(* dispatch: the request goes out, or finds nobody. *)
Post ==
  /\ pc = "posting"
  /\ \/ pc' = "posted" /\ UNCHANGED <<todo, tries, trouble>>
     \/ Trouble /\ Raise(FALSE)
  /\ UNCHANGED <<vault, filed, ran, lost, late, cap, reply>>

(* The bridge acts on the request, is too busy, cannot, or takes it for a note. *)
BridgeActs ==
  /\ pc = "posted"
  /\ pc' = "answered"
  /\ \/ /\ reply' = "ran"
        /\ ran' = [ran EXCEPT ![cap.file] = @ + 1]
        /\ UNCHANGED trouble
     \/ reply' = "plain" /\ UNCHANGED <<ran, trouble>>
     \/ reply' \in {"busy", "refused"} /\ Trouble /\ UNCHANGED ran
  /\ UNCHANGED <<vault, filed, lost, late, hands>>

(* The time is up or the connection breaks: no answer, whatever the bridge
   has done or may yet do. *)
NoAnswer ==
  /\ pc \in {"posted", "answered"}
  /\ Trouble
  /\ lost' = [lost EXCEPT ![cap.file] = @ + 1]
  /\ late' = IF pc = "posted" THEN [late EXCEPT ![cap.file] = @ + 1] ELSE late
  /\ reply' = "none"
  /\ Raise(FALSE)
  /\ UNCHANGED <<vault, filed, ran, cap>>

(* The bridge comes to a request nobody waits for any more. *)
BridgeActsLate(f) ==
  /\ late[f] > 0
  /\ late' = [late EXCEPT ![f] = @ - 1]
  /\ ran' \in {ran, [ran EXCEPT ![f] = @ + 1]}
  /\ UNCHANGED <<vault, filed, lost, pc, hands, reply, trouble>>

(* settle *)
Settle ==
  /\ pc = "answered"
  /\ reply' = "none"
  /\ CASE reply = "ran" -> Done(cap.name)
       [] reply = "plain" -> pc' = "asking" /\ UNCHANGED <<todo, tries>>
       [] OTHER -> Raise(FALSE)
  /\ UNCHANGED <<vault, filed, ran, lost, late, cap, trouble>>

(* The note is written, under a name nobody has taken, or cannot be. *)
Write ==
  /\ pc = "writing"
  /\ \/ /\ filed' = [filed EXCEPT ![cap.file] = @ + 1]
        /\ Done(cap.name)
        /\ UNCHANGED trouble
     \/ Trouble /\ Raise(FALSE) /\ UNCHANGED filed
  /\ UNCHANGED <<vault, ran, lost, late, cap, reply>>

(* The except clause: link the original back, unless the name is taken. *)
Restore ==
  /\ pc = "restoring"
  /\ inbox' = IF Linked(cap.name) THEN inbox ELSE [inbox EXCEPT ![cap.name] = cap.moved]
  /\ IF cap.changed THEN Again(cap.name) ELSE Done(cap.name)
  /\ UNCHANGED <<content, kept, life, filed, ran, lost, late, cap, reply, trouble>>

(* The sweep is killed, or the host goes down. *)
Kill ==
  /\ pc # "idle"
  /\ Trouble
  /\ pc' = "idle"
  /\ todo' = {}
  /\ tries' = [n \in Names |-> 1]
  /\ cap' = NoCapture
  /\ reply' = "none"
  /\ late' = IF pc = "posted" THEN [late EXCEPT ![cap.file] = @ + 1] ELSE late
  /\ UNCHANGED <<vault, filed, ran, lost>>

Init ==
  /\ inbox = [n \in Names |-> NoFile]
  /\ content = [f \in Files |-> [kind |-> "blank", version |-> 0]]
  /\ kept = {}
  /\ life = [f \in Files |-> "unused"]
  /\ filed = [f \in Files |-> 0]
  /\ ran = [f \in Files |-> 0]
  /\ lost = [f \in Files |-> 0]
  /\ late = [f \in Files |-> 0]
  /\ pc = "idle"
  /\ todo = {}
  /\ tries = [n \in Names |-> 1]
  /\ cap = NoCapture
  /\ reply = "none"
  /\ trouble = 0

Sweep ==
  \/ List \/ Report \/ (\E n \in Names : Read(n))
  \/ Ask \/ Check \/ Move \/ Verify \/ Post \/ Settle \/ Write \/ Restore

Next ==
  \/ \E f \in Files, kind \in Kinds : Save(f, kind) \/ \E n \in Names : Put(n, f, kind)
  \/ \E kind \in Kinds : VerifyTorn(kind) \/ \E n \in Names : ReadTorn(n, kind)
  \/ Sweep \/ BridgeActs \/ NoAnswer \/ Kill
  \/ \E f \in Files : BridgeActsLate(f)

Spec == Init /\ [][Next]_vars

(***************************************************************************)
(* The path unit and the poll start a sweep while there are captures, and  *)
(* its calls all have timeouts.  She owes it nothing.                      *)
(***************************************************************************)
FairSpec == Spec /\ WF_vars(Sweep) /\ WF_vars(BridgeActs)

-----------------------------------------------------------------------------
(* Every variable has its type. *)
TypeOK ==
  /\ inbox \in [Names -> Files \cup {NoFile}]
  /\ content \in [Files -> Contents]
  /\ kept \subseteq Files
  /\ life \in [Files -> {"unused", "written", "gone"}]
  /\ filed \in [Files -> Nat] /\ ran \in [Files -> Nat]
  /\ lost \in [Files -> Nat] /\ late \in [Files -> Nat]
  /\ pc \in Stages
  /\ todo \subseteq Names /\ tries \in [Names -> 1..2]
  /\ cap \in [name: Names, file: Files \cup {NoFile}, raw: Contents,
              moved: Files \cup {NoFile}, claimed: BOOLEAN, changed: BOOLEAN]
  /\ reply \in {"none", "ran", "plain", "busy", "refused"}
  /\ trouble \in Nat

(***************************************************************************)
(* "Never unlink a capture after a check: that loses racing edits", and "a *)
(* new capture at the original name always wins" (file_capture): a file    *)
(* she wrote and did not take away herself is in the inbox or the archive, *)
(* whatever she does between any two steps of the sweep.                   *)
(***************************************************************************)
NoCaptureLost ==
  /\ TypeOK
  /\ \A f \in Files : life[f] = "written" => f \in kept \/ InInbox(f)

(***************************************************************************)
(* "Full originals are archived" (docs): what was filed or handed to the   *)
(* bridge as a task has its original in the archive, and not that of a     *)
(* capture which took its place at the last moment.                        *)
(***************************************************************************)
OriginalKept == \A f \in Files : filed[f] + ran[f] > 0 => f \in kept

(***************************************************************************)
(* "Claim before the bridge acts" (file_capture): a capture has one        *)
(* outcome, a note or a task run, kills and edits notwithstanding, unless  *)
(* an answer of the bridge was lost; and then one more for each.           *)
(***************************************************************************)
OneOutcome == \A f \in Files : filed[f] + ran[f] <= 1 + lost[f]

(***************************************************************************)
(* "So it neither waits here for ever ..." (file_capture): once she leaves *)
(* it alone and the writer and the bridge answer, the inbox gets empty and    *)
(* stays so.                                                               *)
(***************************************************************************)
EveryCaptureLeaves == <>[](\A n \in Names : ~Linked(n))

(***************************************************************************)
(* "Everything that lands in the inbox is filed" (inbox.py): with the      *)
(* sweep at rest, a capture that is not in the inbox became a note, ran,   *)
(* or was blank.  Does not hold: a sweep killed after the claim leaves the *)
(* archived original, and nothing looks for it there.                      *)
(***************************************************************************)
EverythingIsFiled ==
  pc = "idle" =>
    \A f \in Files :
      life[f] = "written" /\ ~InInbox(f) /\ content[f].kind = "note" /\ content[f].version = 0
        => filed[f] > 0
=============================================================================
