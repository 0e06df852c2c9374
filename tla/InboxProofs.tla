------------------------------ MODULE InboxProofs ------------------------------
(***************************************************************************)
(* Theorems about Inbox for any captures, names and number of failures.    *)
(* The invariant says where the file in the sweep's hands is, and how many *)
(* outcomes each file may still come to.  And about a run of the dead-link *)
(* fixer (DecideLinks) for every vault: where the scan finds a name before *)
(* the run and after it.                                                   *)
(***************************************************************************)
EXTENDS Inbox, DecideLinks, WellFoundedInduction, TLAPS

(* The stages in which the file that was moved is in the sweep's hands, and
   nowhere else but in the archive. *)
Holding ==
  \/ pc \in {"verifying", "posting", "posted", "answered", "writing", "restoring"}
  \/ pc = "asking" /\ cap.claimed

(* It is in no name then, and from the second check on it is what was read. *)
HandIsSound ==
  /\ pc \in {"asking", "checking", "moving"} \/ Holding => cap.file \in Files
  /\ pc \in {"checking", "moving"} => ~cap.claimed
  /\ Holding => cap.claimed /\ cap.moved \in kept /\ ~InInbox(cap.moved)
  /\ pc \in {"asking", "posting", "posted", "answered", "writing"} /\ Holding =>
       cap.moved = cap.file

(* A file has one name. *)
OneName == \A m, n \in Names : Linked(m) /\ inbox[m] = inbox[n] => m = n

(* What is in the inbox or the archive has been written. *)
WasWritten == \A f \in Files : f \in kept \/ InInbox(f) => life[f] # "unused"

(* The sweep may come to act on f, once more or for the first time. *)
Open(f) ==
  \/ life[f] = "unused" \/ InInbox(f)
  \/ Holding /\ cap.moved = f /\ ~(pc = "answered" /\ reply = "ran")

(* Each outcome of a file beyond its first, and each the bridge may still come
   to, is paid for by an answer that was lost; one that is open has had none
   but those. *)
Outcomes(f) == filed[f] + ran[f] + late[f]
OutcomesAreFew(f) ==
  /\ Outcomes(f) > 0 => f \in kept
  /\ Outcomes(f) <= IF Open(f) THEN lost[f] ELSE 1 + lost[f]

IInv ==
  /\ NoCaptureLost
  /\ HandIsSound
  /\ OneName /\ WasWritten
  /\ \A f \in Files : OutcomesAreFew(f)

-----------------------------------------------------------------------------
(* The sweep goes on to the next name. *)
LEMMA DoneType ==
  ASSUME TypeOK, NEW n \in Names, Done(n)
  PROVE  pc' = "next" /\ todo' \subseteq Names /\ tries' \in [Names -> 1..2]
  BY DEF TypeOK, Done

(* ... or to the same one again. *)
LEMMA AgainType ==
  ASSUME TypeOK, NEW n \in Names, Again(n)
  PROVE  pc' = "next" /\ todo' \subseteq Names /\ tries' \in [Names -> 1..2]
  BY DoneType DEF TypeOK, Again

(* What was claimed is put back after an error, and nothing else. *)
LEMMA RaiseType ==
  ASSUME TypeOK, NEW changed, Raise(changed)
  PROVE  /\ pc' = IF cap.claimed THEN "restoring" ELSE "next"
         /\ todo' \subseteq Names /\ tries' \in [Names -> 1..2]
<1>1. cap.name \in Names
  BY DEF TypeOK
<1>2. QED
  BY <1>1, DoneType, AgainType DEF Raise, TypeOK

(* NoCapture is a capture. *)
LEMMA NoCaptureType ==
  NoCapture \in [name: Names, file: Files \cup {NoFile}, raw: Contents,
                 moved: Files \cup {NoFile}, claimed: BOOLEAN, changed: BOOLEAN]
<1>1. (CHOOSE n \in Names : TRUE) \in Names
  BY InboxAssumption
<1>2. [kind |-> "blank", version |-> 0] \in Contents
  BY InboxAssumption DEF Contents, Kinds
<1>3. QED
  BY <1>1, <1>2 DEF NoCapture

(* An edit raises the version of the file's content. *)
LEMMA EditType ==
  ASSUME TypeOK, NEW f \in Files, NEW kind \in Kinds, Edited(f, kind)
  PROVE  content' \in [Files -> Contents]
<1>1. content[f].version + 1 \in 0..MaxEdits
  BY InboxAssumption DEF TypeOK, Edited, Contents
<1>2. [kind |-> kind, version |-> content[f].version + 1] \in Contents
  BY <1>1 DEF Contents
<1>3. QED
  BY <1>2 DEF TypeOK, Edited

(* A step that moves no file and comes to no outcome keeps the invariant, if
   it keeps to what is in hand and opens nothing anew. *)
LEMMA QuietStep ==
  ASSUME IInv, TypeOK', HandIsSound', UNCHANGED <<inbox, kept, life, filed, ran, lost, late>>,
         \A f \in Files : Open(f)' => Open(f)
  PROVE  IInv'
<1>1. NoCaptureLost'
  BY DEF IInv, NoCaptureLost, InInbox
<1>2. OneName' /\ WasWritten'
  BY DEF IInv, OneName, Linked, WasWritten, InInbox
<1>3. ASSUME NEW f \in Files
      PROVE  OutcomesAreFew(f)'
  BY <1>3 DEF IInv, NoCaptureLost, TypeOK, OutcomesAreFew, Outcomes
<1>4. QED
  BY <1>1, <1>2, <1>3 DEF IInv

(* Whatever comes of a step, an error puts back what is in hand. *)
LEMMA RaiseStep ==
  ASSUME IInv, NEW changed, Raise(changed), pc \in Stages \ {"idle", "next"},
         pc \in {"asking", "checking", "moving"} \/ Holding, cap' = cap,
         UNCHANGED <<inbox, kept>>
  PROVE  /\ HandIsSound'
         /\ Holding' = cap.claimed /\ (Holding' => pc' = "restoring")
<1>1. pc' = IF cap.claimed THEN "restoring" ELSE "next"
  BY RaiseType DEF IInv, NoCaptureLost
<1>2. cap.claimed = Holding
  BY DEF IInv, HandIsSound, Holding, NoCaptureLost, TypeOK
<1>3. QED
  BY <1>1, <1>2 DEF IInv, HandIsSound, Holding, InInbox

(* An error at a time when the bridge has not acted puts back what is in hand,
   and so it may be tried again. *)
LEMMA GiveUpStep ==
  ASSUME IInv, TypeOK', NEW changed, Raise(changed), pc \in Stages \ {"idle", "next"},
         pc \in {"asking", "checking", "moving"} \/ Holding, cap' = cap,
         pc # "answered" \/ reply # "ran",
         UNCHANGED <<inbox, kept, life, filed, ran, lost, late>>
  PROVE  IInv'
<1>1. HandIsSound' /\ Holding' = cap.claimed /\ (Holding' => pc' = "restoring")
  BY RaiseStep
<1>2. cap.claimed = Holding
  BY DEF IInv, HandIsSound, Holding, NoCaptureLost, TypeOK
<1>3. \A f \in Files : Open(f)' => Open(f)
  BY <1>1, <1>2 DEF Open, InInbox
<1>4. QED
  BY <1>1, <1>3, QuietStep

(* The types after something has failed. *)
LEMMA GiveUpType ==
  ASSUME IInv, Trouble, Raise(FALSE)
  PROVE  /\ trouble' \in Nat /\ pc' \in Stages
         /\ todo' \subseteq Names /\ tries' \in [Names -> 1..2]
<1>1. TypeOK
  BY DEF IInv, NoCaptureLost
<1>2. /\ pc' = IF cap.claimed THEN "restoring" ELSE "next"
      /\ todo' \subseteq Names /\ tries' \in [Names -> 1..2]
  BY <1>1, RaiseType
<1>3. trouble' \in Nat
  BY <1>1 DEF Trouble, TypeOK
<1>4. QED
  BY <1>2, <1>3 DEF Stages

-----------------------------------------------------------------------------
(* At the start nothing has been written and nobody is at work. *)
LEMMA InitIInv == Init => IInv
<1> SUFFICES ASSUME Init
             PROVE  IInv
  OBVIOUS
<1>1. TypeOK
  <2>1. [kind |-> "blank", version |-> 0] \in Contents
    BY InboxAssumption DEF Contents, Kinds
  <2>2. QED
    BY <2>1, NoCaptureType DEF Init, TypeOK, Stages
<1>2. QED
  BY <1>1, InboxAssumption
  DEF Init, IInv, NoCaptureLost, HandIsSound, Holding, OneName, Linked, InInbox, Open, Outcomes,
      OutcomesAreFew, WasWritten

(* Her saves in place change a text and nothing else. *)
LEMMA SaveKeepsIInv ==
  ASSUME IInv, NEW f \in Files, NEW kind \in Kinds, Save(f, kind)
  PROVE  IInv'
<1>1. TypeOK'
  BY EditType DEF IInv, NoCaptureLost, TypeOK, Save, hands
<1>2. HandIsSound' /\ \A g \in Files : Open(g)' => Open(g)
  BY DEF IInv, HandIsSound, Holding, InInbox, Open, Save, hands
<1>3. QED
  BY <1>1, <1>2, QuietStep DEF Save

(* A file she puts under a name has had no outcome, and none but the one she
   takes away loses its name. *)
LEMMA PutKeepsIInv ==
  ASSUME IInv, NEW n \in Names, NEW f \in Files, NEW kind \in Kinds, Put(n, f, kind)
  PROVE  IInv'
<1>1. TypeOK'
  <2>1. [kind |-> kind, version |-> 0] \in Contents
    BY InboxAssumption DEF Contents
  <2>2. life' \in [Files -> {"unused", "written", "gone"}]
    BY DEF IInv, NoCaptureLost, TypeOK, Put
  <2>3. QED
    BY <2>1, <2>2 DEF IInv, NoCaptureLost, TypeOK, Put, hands
<1>0. /\ inbox \in [Names -> Files \cup {NoFile}] /\ life[f] = "unused"
      /\ inbox' = [inbox EXCEPT ![n] = f]
      /\ life' = [g \in Files |-> CASE g = f -> "written"
                                   [] g = inbox[n] /\ g \notin kept -> "gone"
                                   [] OTHER -> life[g]]
  BY DEF Put, IInv, NoCaptureLost, TypeOK
<1>2. /\ inbox'[n] = f /\ \A m \in Names \ {n} : inbox'[m] = inbox[m]
      /\ life[f] = "unused" /\ life'[f] = "written"
      /\ \A g \in Files \ {f} : life'[g] = life[g] \/ (g = inbox[n] /\ g \notin kept /\ life'[g] = "gone")
      /\ UNCHANGED <<kept, filed, ran, lost, late, pc, cap, reply>>
  <2>1. inbox'[n] = f /\ \A m \in Names \ {n} : inbox'[m] = inbox[m]
    <3>1. inbox \in [Names -> Files \cup {NoFile}] /\ inbox' = [inbox EXCEPT ![n] = f]
      BY <1>0
    <3>2. QED
      BY <3>1
  <2>2. life'[f] = "written"
    <3>1. inbox[n] # f
      BY <1>0 DEF IInv, WasWritten, InInbox
    <3>2. QED
      BY <1>0, <3>1
  <2>3. ASSUME NEW g \in Files \ {f}
        PROVE  life'[g] = life[g] \/ (g = inbox[n] /\ g \notin kept /\ life'[g] = "gone")
    <3>1. CASE g = inbox[n] /\ g \notin kept
      BY <1>0, <3>1
    <3>2. CASE ~(g = inbox[n] /\ g \notin kept)
      BY <1>0, <3>2
    <3>3. QED
      BY <3>1, <3>2
  <2>4. UNCHANGED <<kept, filed, ran, lost, late, pc, cap, reply>>
    BY DEF Put, hands
  <2>5. QED
    BY <1>0, <2>1, <2>2, <2>3, <2>4
<1>3. f \notin kept /\ ~InInbox(f) /\ f # NoFile
  BY <1>2, InboxAssumption DEF IInv, WasWritten
<1>4. \A g \in Files \ {f} : InInbox(g)' => InInbox(g)
  BY <1>2 DEF InInbox
<1>5. NoCaptureLost'
  <2>1. ASSUME NEW g \in Files, life'[g] = "written"
        PROVE  g \in kept' \/ InInbox(g)'
    <3>1. CASE g = f
      BY <1>2, <3>1 DEF InInbox
    <3>2. CASE g # f
      <4>1. life[g] = "written" /\ (g \in kept \/ InInbox(g)) /\ (g # inbox[n] \/ g \in kept)
        BY <1>0, <2>1, <3>2 DEF IInv, NoCaptureLost
      <4>2. InInbox(g) /\ g # inbox[n] => InInbox(g)'
        BY <1>2 DEF InInbox
      <4>3. QED
        BY <1>2, <4>1, <4>2
    <3>3. QED
      BY <3>1, <3>2
  <2>2. QED
    BY <1>1, <2>1 DEF NoCaptureLost
<1>6. OneName' /\ WasWritten'
  <2>1. OneName'
    BY <1>2, <1>3 DEF IInv, OneName, Linked, InInbox
  <2>2. WasWritten'
    BY <1>2, <1>4 DEF IInv, WasWritten
  <2>3. QED
    BY <2>1, <2>2
<1>7. HandIsSound' /\ Holding' = Holding
  BY <1>2, <1>3, <1>4 DEF IInv, HandIsSound, Holding, NoCaptureLost, TypeOK
<1>8. ASSUME NEW g \in Files
      PROVE  OutcomesAreFew(g)'
  <2>1. Open(g)' => Open(g)
    BY <1>2, <1>4, <1>7 DEF Open
  <2>2. QED
    BY <1>2, <2>1 DEF IInv, NoCaptureLost, TypeOK, OutcomesAreFew, Outcomes
<1>9. QED
  BY <1>5, <1>6, <1>7, <1>8 DEF IInv

(* Between two names nothing is in hand; what is read then is still there. *)
LEMMA ListKeepsIInv ==
  ASSUME IInv, List \/ Report
  PROVE  IInv'
<1>1. TypeOK'
  BY NoCaptureType DEF IInv, NoCaptureLost, TypeOK, List, Report, vault, Stages
<1>2. HandIsSound' /\ \A f \in Files : Open(f)' => Open(f)
  BY DEF IInv, HandIsSound, Holding, Open, InInbox, List, Report, vault
<1>3. QED
  BY <1>1, <1>2, QuietStep DEF List, Report, vault

(* So it is when the sweep reads the next capture, or finds it gone. *)
LEMMA ReadKeepsIInv ==
  ASSUME IInv, NEW n \in Names, Read(n)
  PROVE  IInv'
<1>1. CASE Linked(n)
  <2>1. /\ cap' = [name |-> n, file |-> inbox[n], raw |-> content[inbox[n]],
                   moved |-> NoFile, claimed |-> FALSE, changed |-> FALSE]
        /\ pc' \in {"asking", "checking"}
        /\ inbox[n] \in Files
    BY <1>1 DEF Read, First, Linked, IInv, NoCaptureLost, TypeOK
  <2>2. TypeOK'
    BY <1>1, <2>1 DEF Read, IInv, NoCaptureLost, TypeOK, Stages, vault
  <2>3. HandIsSound' /\ \A f \in Files : Open(f)' => Open(f)
    BY <1>1, <2>1 DEF Read, HandIsSound, Holding, Open, InInbox, vault
  <2>4. QED
    BY <2>2, <2>3, QuietStep DEF Read, vault
<1>2. CASE ~Linked(n)
  <2>1. pc' = "next" /\ todo' \subseteq Names /\ tries' \in [Names -> 1..2] /\ cap' = cap
    BY <1>2, DoneType DEF Read, IInv, NoCaptureLost
  <2>2. TypeOK'
    BY <2>1 DEF Read, IInv, NoCaptureLost, TypeOK, Stages, vault
  <2>3. HandIsSound' /\ \A f \in Files : Open(f)' => Open(f)
    BY <2>1 DEF Read, HandIsSound, Holding, Open, InInbox, vault
  <2>4. QED
    BY <2>2, <2>3, QuietStep DEF Read, vault
<1>3. QED
  BY <1>1, <1>2

(* A save that tears a read leaves the sweep where it was, or goes on. *)
LEMMA ReadTornKeepsIInv ==
  ASSUME IInv, NEW n \in Names, NEW kind \in Kinds, ReadTorn(n, kind)
  PROVE  IInv'
<1>1. pc' = "next" /\ todo' \subseteq Names /\ tries' \in [Names -> 1..2] /\ cap' = cap
  BY AgainType DEF ReadTorn, IInv, NoCaptureLost
<1>2. content' \in [Files -> Contents]
  BY EditType DEF ReadTorn, Linked, IInv, NoCaptureLost, TypeOK
<1>3. TypeOK'
  BY <1>1, <1>2 DEF ReadTorn, IInv, NoCaptureLost, TypeOK, Stages
<1>4. HandIsSound' /\ \A f \in Files : Open(f)' => Open(f)
  BY <1>1 DEF ReadTorn, HandIsSound, Holding, Open, InInbox
<1>5. QED
  BY <1>3, <1>4, QuietStep DEF ReadTorn

(* Jev and the writer leave the file where it is, or an error puts it back. *)
LEMMA AskKeepsIInv ==
  ASSUME IInv, Ask
  PROVE  IInv'
<1>1. CASE pc' = (IF cap.claimed THEN "writing" ELSE "checking") /\ UNCHANGED <<todo, tries, trouble>>
  <2>1. TypeOK'
    BY <1>1 DEF Ask, IInv, NoCaptureLost, TypeOK, Stages, vault
  <2>2. HandIsSound' /\ \A f \in Files : Open(f)' => Open(f)
    BY <1>1 DEF Ask, IInv, HandIsSound, Holding, Open, InInbox, vault
  <2>3. QED
    BY <2>1, <2>2, QuietStep DEF Ask, vault
<1>2. CASE Trouble /\ Raise(FALSE)
  <2>0. /\ trouble' \in Nat /\ pc' \in Stages
        /\ todo' \subseteq Names /\ tries' \in [Names -> 1..2]
    BY <1>2, GiveUpType
  <2>1. TypeOK'
    BY <2>0 DEF Ask, IInv, NoCaptureLost, TypeOK, vault
  <2>2. QED
    BY <1>2, <2>1, GiveUpStep DEF Ask, vault, Stages
<1>3. QED
  BY <1>1, <1>2 DEF Ask

(* The first check of claim moves nothing. *)
LEMMA CheckKeepsIInv ==
  ASSUME IInv, Check
  PROVE  IInv'
<1>1. CASE pc' = "moving" /\ UNCHANGED <<todo, tries>>
  <2>1. TypeOK'
    BY <1>1 DEF Check, IInv, NoCaptureLost, TypeOK, Stages, vault
  <2>2. HandIsSound' /\ \A f \in Files : Open(f)' => Open(f)
    BY <1>1 DEF Check, IInv, HandIsSound, Holding, Open, InInbox, vault
  <2>3. QED
    BY <2>1, <2>2, QuietStep DEF Check, vault
<1>2. CASE Raise(Linked(cap.name))
  <2>0. TypeOK
    BY DEF IInv, NoCaptureLost
  <2>1. /\ pc' = IF cap.claimed THEN "restoring" ELSE "next"
        /\ todo' \subseteq Names /\ tries' \in [Names -> 1..2]
    BY <1>2, <2>0, RaiseType
  <2>2. TypeOK'
    BY <2>0, <2>1 DEF Check, TypeOK, Stages, vault
  <2>3. QED
    BY <1>2, <2>2, GiveUpStep DEF Check, vault, Stages
<1>3. QED
  BY <1>1, <1>2 DEF Check

(* The request on its way leaves the file where it is. *)
LEMMA PostKeepsIInv ==
  ASSUME IInv, Post
  PROVE  IInv'
<1>1. CASE pc' = "posted" /\ UNCHANGED <<todo, tries, trouble>>
  <2>1. TypeOK'
    BY <1>1 DEF Post, IInv, NoCaptureLost, TypeOK, Stages, vault
  <2>2. HandIsSound' /\ \A f \in Files : Open(f)' => Open(f)
    BY <1>1 DEF Post, IInv, HandIsSound, Holding, Open, InInbox, vault
  <2>3. QED
    BY <2>1, <2>2, QuietStep DEF Post, vault
<1>2. CASE Trouble /\ Raise(FALSE)
  <2>0. /\ trouble' \in Nat /\ pc' \in Stages
        /\ todo' \subseteq Names /\ tries' \in [Names -> 1..2]
    BY <1>2, GiveUpType
  <2>1. TypeOK'
    BY <2>0 DEF Post, IInv, NoCaptureLost, TypeOK, vault
  <2>2. Holding
    BY DEF Post, Holding
  <2>3. QED
    BY <1>2, <2>1, <2>2, GiveUpStep DEF Post, vault, Stages
<1>3. QED
  BY <1>1, <1>2 DEF Post

(* What the rename takes is in the archive from then on, and in no name. *)
LEMMA MoveKeepsIInv ==
  ASSUME IInv, Move
  PROVE  IInv'
<1>0. TypeOK
  BY DEF IInv, NoCaptureLost
<1>1. CASE Linked(cap.name)
  <2>0. PICK f \in Files : f = inbox[cap.name]
    BY <1>0, <1>1 DEF Linked, TypeOK
  <2>1. /\ f = inbox[cap.name] /\ InInbox(f) /\ cap.name \in Names
        /\ inbox' = [inbox EXCEPT ![cap.name] = NoFile]
        /\ kept' = kept \cup {f}
        /\ cap' = [cap EXCEPT !.claimed = TRUE, !.moved = f]
        /\ pc = "moving" /\ pc' = "verifying"
        /\ UNCHANGED <<content, life, todo, tries, filed, ran, lost, late, reply, trouble>>
    BY <1>0, <1>1, <2>0 DEF Move, Linked, InInbox, TypeOK
  <2>2. TypeOK'
    BY <1>0, <2>1 DEF TypeOK, Stages
  <2>3. /\ ~InInbox(f)'
        /\ \A g \in Files \ {f} : InInbox(g)' = InInbox(g)
    <3>1. f # NoFile /\ \A m \in Names \ {cap.name} : inbox[m] # f
      BY <1>1, <2>1, InboxAssumption DEF IInv, OneName, Linked
    <3>2. /\ inbox'[cap.name] = NoFile
          /\ \A m \in Names \ {cap.name} : inbox'[m] = inbox[m]
      BY <1>0, <2>1 DEF TypeOK
    <3>3. ~InInbox(f)'
      BY <3>1, <3>2, <2>1 DEF InInbox
    <3>4. ASSUME NEW g \in Files \ {f}
          PROVE  InInbox(g)' = InInbox(g)
      BY <2>1, <3>2, <3>4, InboxAssumption DEF InInbox
    <3>5. QED
      BY <3>3, <3>4
  <2>4. cap'.file = cap.file /\ cap'.claimed /\ cap'.moved = f
    <3>1. cap \in [name: Names, file: Files \cup {NoFile}, raw: Contents,
                   moved: Files \cup {NoFile}, claimed: BOOLEAN, changed: BOOLEAN]
      BY <1>0 DEF TypeOK
    <3>2. QED
      BY <2>1, <3>1
  <2>5. HandIsSound'
    BY <2>1, <2>3, <2>4 DEF IInv, HandIsSound, Holding
  <2>6. OneName'
    BY <1>0, <2>1 DEF IInv, OneName, Linked, TypeOK
  <2>7. WasWritten'
    BY <2>1, <2>3 DEF IInv, WasWritten
  <2>8. NoCaptureLost'
    BY <2>1, <2>2, <2>3 DEF IInv, NoCaptureLost
  <2>9. ASSUME NEW g \in Files
        PROVE  OutcomesAreFew(g)'
    <3>1. Open(g)' => Open(g)
      BY <2>1, <2>3, <2>4 DEF Open, Holding
    <3>2. QED
      BY <1>0, <2>1, <3>1 DEF IInv, TypeOK, OutcomesAreFew, Outcomes
  <2>10. QED
    BY <2>5, <2>6, <2>7, <2>8, <2>9 DEF IInv
<1>2. CASE Raise(FALSE) /\ UNCHANGED <<inbox, kept, cap>>
  <2>1. /\ pc' = IF cap.claimed THEN "restoring" ELSE "next"
        /\ todo' \subseteq Names /\ tries' \in [Names -> 1..2]
    BY <1>0, <1>2, RaiseType
  <2>2. TypeOK'
    BY <1>0, <1>2, <2>1 DEF Move, TypeOK, Stages
  <2>3. QED
    BY <1>2, <2>2, GiveUpStep DEF Move, Stages
<1>3. QED
  BY <1>1, <1>2 DEF Move

(* What is not the text that was read goes back, what is goes on. *)
LEMMA VerifyKeepsIInv ==
  ASSUME IInv, Verify
  PROVE  IInv'
<1>0. TypeOK /\ Holding
  BY DEF IInv, NoCaptureLost, Verify, Holding
<1>1. CASE Raise(FALSE)
  <2>1. /\ pc' = IF cap.claimed THEN "restoring" ELSE "next"
        /\ todo' \subseteq Names /\ tries' \in [Names -> 1..2]
    BY <1>0, <1>1, RaiseType
  <2>2. TypeOK'
    BY <1>0, <2>1 DEF Verify, TypeOK, Stages, vault
  <2>3. QED
    BY <1>0, <1>1, <2>2, GiveUpStep DEF Verify, Stages, vault
<1>2. CASE cap.moved = cap.file /\ pc' \in {"posting", "writing", "next"}
            /\ todo' \subseteq Names /\ tries' \in [Names -> 1..2]
  <2>1. TypeOK'
    BY <1>0, <1>2 DEF Verify, TypeOK, Stages, vault
  <2>2. HandIsSound' /\ \A f \in Files : Open(f)' => Open(f)
    BY <1>2 DEF Verify, IInv, HandIsSound, Holding, Open, InInbox, vault
  <2>3. QED
    BY <2>1, <2>2, QuietStep DEF Verify, vault
<1>3. QED
  <2>1. Done(cap.name) => pc' = "next" /\ todo' \subseteq Names /\ tries' \in [Names -> 1..2]
    <3>1. cap.name \in Names
      BY <1>0 DEF TypeOK
    <3>2. QED
      BY <1>0, <3>1, DoneType
  <2>2. todo \subseteq Names /\ tries \in [Names -> 1..2] /\ cap.raw.kind \in Kinds
    BY <1>0 DEF TypeOK, Contents
  <2>3. CASE cap.moved # cap.file \/ content[cap.moved] # cap.raw
    BY <1>1, <2>3 DEF Verify
  <2>4. CASE cap.moved = cap.file /\ content[cap.moved] = cap.raw
    BY <1>2, <2>1, <2>2, <2>4 DEF Verify, Kinds
  <2>5. QED
    BY <2>3, <2>4

(* A save that lands in what was moved sends it back. *)
LEMMA VerifyTornKeepsIInv ==
  ASSUME IInv, NEW kind \in Kinds, VerifyTorn(kind)
  PROVE  IInv'
<1>0. TypeOK /\ cap.claimed /\ cap.moved \in Files /\ Holding
  BY DEF IInv, NoCaptureLost, TypeOK, VerifyTorn, HandIsSound, Holding
<1>1. content' \in [Files -> Contents]
  BY <1>0, EditType DEF VerifyTorn
<1>2. pc' = "restoring" /\ UNCHANGED <<todo, tries>>
  BY <1>0 DEF VerifyTorn, Raise
<1>3. cap' \in [name: Names, file: Files \cup {NoFile}, raw: Contents,
                moved: Files \cup {NoFile}, claimed: BOOLEAN, changed: BOOLEAN]
      /\ cap'.file = cap.file /\ cap'.moved = cap.moved /\ cap'.claimed
  BY <1>0 DEF VerifyTorn, TypeOK
<1>4. TypeOK'
  BY <1>0, <1>1, <1>2, <1>3 DEF VerifyTorn, TypeOK, Stages
<1>5. HandIsSound' /\ \A f \in Files : Open(f)' => Open(f)
  BY <1>0, <1>2, <1>3 DEF VerifyTorn, IInv, HandIsSound, Holding, Open, InInbox
<1>6. QED
  BY <1>4, <1>5, QuietStep DEF VerifyTorn

-----------------------------------------------------------------------------
(* What the bridge does closes the file in hand: nothing is done with it but
   to set it aside. *)
LEMMA BridgeActsKeepsIInv ==
  ASSUME IInv, BridgeActs
  PROVE  IInv'
<1>0. /\ TypeOK /\ Holding /\ pc = "posted" /\ pc' = "answered"
      /\ cap.file \in Files /\ cap.moved = cap.file /\ cap.file \in kept /\ ~InInbox(cap.file)
      /\ UNCHANGED <<vault, filed, lost, late, hands>>
  BY DEF IInv, NoCaptureLost, BridgeActs, Holding, HandIsSound
<1>1. \/ reply' = "ran" /\ ran' = [ran EXCEPT ![cap.file] = @ + 1] /\ UNCHANGED trouble
      \/ reply' \in {"plain", "busy", "refused"} /\ ran' = ran /\ trouble' \in {trouble, trouble + 1}
  BY DEF BridgeActs, Trouble
<1>2. TypeOK'
  <2>1. ran' \in [Files -> Nat] /\ trouble' \in Nat
        /\ reply' \in {"none", "ran", "plain", "busy", "refused"}
    BY <1>0, <1>1 DEF TypeOK
  <2>2. QED
    BY <1>0, <2>1 DEF TypeOK, Stages, vault, hands
<1>3. HandIsSound' /\ Holding'
  BY <1>0 DEF IInv, HandIsSound, Holding, InInbox, vault, hands
<1>4. NoCaptureLost' /\ OneName' /\ WasWritten'
  BY <1>0, <1>2 DEF IInv, NoCaptureLost, OneName, Linked, WasWritten, InInbox, vault
<1>5. ASSUME NEW f \in Files
      PROVE  OutcomesAreFew(f)'
  <2>1. CASE f = cap.file /\ reply' = "ran"
    <3>1. Open(f)
      BY <1>0, <2>1 DEF Open
    <3>2. ran'[f] = ran[f] + 1
      BY <1>0, <1>1, <2>1 DEF TypeOK
    <3>3. Outcomes(f)' = 1 + Outcomes(f) /\ Outcomes(f) \in Nat
      BY <1>0, <3>2 DEF Outcomes, TypeOK
    <3>4. Outcomes(f) <= lost[f] /\ lost' = lost /\ lost[f] \in Nat
      BY <1>0, <3>1 DEF IInv, OutcomesAreFew, TypeOK
    <3>5. ~Open(f)'
      <4>1. life[f] # "unused"
        BY <1>0, <2>1 DEF IInv, WasWritten
      <4>2. QED
        BY <1>0, <2>1, <4>1 DEF Open, InInbox, vault
    <3>6. QED
      BY <1>0, <2>1, <3>3, <3>4, <3>5 DEF OutcomesAreFew, vault
  <2>2. CASE ~(f = cap.file /\ reply' = "ran")
    <3>1. ran'[f] = ran[f]
      BY <1>0, <1>1, <2>2 DEF TypeOK
    <3>2. Open(f)' => Open(f)
      BY <1>0 DEF Open, InInbox, Holding, vault, hands
    <3>3. QED
      BY <1>0, <3>1, <3>2 DEF IInv, OutcomesAreFew, Outcomes, TypeOK, vault
  <2>3. QED
    BY <2>1, <2>2
<1>6. QED
  BY <1>3, <1>4, <1>5 DEF IInv

(* An answer that does not come pays for the outcome there was or may yet be,
   and the file goes back to its name. *)
LEMMA NoAnswerKeepsIInv ==
  ASSUME IInv, NoAnswer
  PROVE  IInv'
<1>0. /\ TypeOK /\ Holding /\ pc \in {"posted", "answered"} /\ cap.claimed
      /\ cap.file \in Files /\ cap.moved = cap.file /\ cap.file \in kept /\ ~InInbox(cap.file)
      /\ lost' = [lost EXCEPT ![cap.file] = @ + 1]
      /\ late' = (IF pc = "posted" THEN [late EXCEPT ![cap.file] = @ + 1] ELSE late)
      /\ reply' = "none"
      /\ UNCHANGED <<vault, filed, ran, cap>>
  BY DEF IInv, NoCaptureLost, NoAnswer, Holding, HandIsSound
<1>1. /\ trouble' \in Nat /\ pc' \in Stages
      /\ todo' \subseteq Names /\ tries' \in [Names -> 1..2]
  BY GiveUpType DEF NoAnswer
<1>2. pc' = "restoring"
  BY <1>0 DEF NoAnswer, Raise
<1>3. TypeOK'
  <2>1. lost' \in [Files -> Nat] /\ late' \in [Files -> Nat]
    BY <1>0 DEF TypeOK
  <2>2. QED
    BY <1>0, <1>1, <2>1 DEF TypeOK, vault
<1>4. HandIsSound' /\ Holding'
  BY <1>0, <1>2 DEF IInv, HandIsSound, Holding, InInbox, vault
<1>5. NoCaptureLost' /\ OneName' /\ WasWritten'
  BY <1>0, <1>3 DEF IInv, NoCaptureLost, OneName, Linked, WasWritten, InInbox, vault
<1>6. ASSUME NEW f \in Files
      PROVE  OutcomesAreFew(f)'
  <2>1. CASE f = cap.file
    <3>1. /\ lost'[f] = lost[f] + 1 /\ lost[f] \in Nat /\ Outcomes(f) \in Nat
          /\ late'[f] = (IF pc = "posted" THEN late[f] + 1 ELSE late[f])
      BY <1>0, <2>1 DEF TypeOK, Outcomes
    <3>2. Outcomes(f)' = IF pc = "posted" THEN Outcomes(f) + 1 ELSE Outcomes(f)
      BY <1>0, <3>1 DEF Outcomes, TypeOK
    <3>3. pc = "posted" => Open(f)
      BY <1>0, <2>1 DEF Open
    <3>4. Outcomes(f) <= IF pc = "posted" THEN lost[f] ELSE 1 + lost[f]
      BY <3>1, <3>3 DEF IInv, OutcomesAreFew
    <3>5. Outcomes(f)' <= lost'[f] /\ Outcomes(f)' \in Nat /\ lost'[f] \in Nat
      BY <1>0, <3>1, <3>2, <3>4
    <3>6. f \in kept'
      BY <1>0, <2>1 DEF vault
    <3>7. QED
      BY <3>5, <3>6 DEF OutcomesAreFew
  <2>2. CASE f # cap.file
    <3>1. lost'[f] = lost[f] /\ late'[f] = late[f]
      BY <1>0, <2>2 DEF TypeOK
    <3>2. Open(f)' => Open(f)
      BY <1>0, <2>2 DEF Open, InInbox, vault
    <3>3. QED
      BY <1>0, <3>1, <3>2 DEF IInv, OutcomesAreFew, Outcomes, TypeOK, vault
  <2>3. QED
    BY <2>1, <2>2
<1>7. QED
  BY <1>4, <1>5, <1>6 DEF IInv

(* A late request is an outcome already counted. *)
LEMMA BridgeActsLateKeepsIInv ==
  ASSUME IInv, NEW g \in Files, BridgeActsLate(g)
  PROVE  IInv'
<1>0. /\ TypeOK /\ late[g] > 0
      /\ late' = [late EXCEPT ![g] = @ - 1]
      /\ ran' \in {ran, [ran EXCEPT ![g] = @ + 1]}
      /\ UNCHANGED <<vault, filed, lost, pc, hands, reply, trouble>>
  BY DEF IInv, NoCaptureLost, BridgeActsLate
<1>1. TypeOK'
  <2>1. late' \in [Files -> Nat] /\ ran' \in [Files -> Nat]
    BY <1>0 DEF TypeOK
  <2>2. QED
    BY <1>0, <2>1 DEF TypeOK, vault, hands
<1>2. HandIsSound' /\ NoCaptureLost' /\ OneName' /\ WasWritten'
  BY <1>0, <1>1 DEF IInv, HandIsSound, Holding, NoCaptureLost, OneName, Linked, WasWritten, InInbox,
                    vault, hands
<1>3. ASSUME NEW f \in Files
      PROVE  OutcomesAreFew(f)'
  <2>1. Open(f)' = Open(f)
    BY <1>0 DEF Open, Holding, InInbox, vault, hands
  <2>2. late'[f] + ran'[f] <= late[f] + ran[f] /\ late'[f] \in Nat /\ ran'[f] \in Nat
    BY <1>0 DEF TypeOK
  <2>3. Outcomes(f)' <= Outcomes(f) /\ Outcomes(f)' \in Nat /\ Outcomes(f) \in Nat
    BY <1>0, <2>2 DEF Outcomes, TypeOK
  <2>4. lost[f] \in Nat /\ lost' = lost /\ kept' = kept
    BY <1>0 DEF TypeOK, vault
  <2>5. QED
    BY <2>1, <2>3, <2>4 DEF IInv, OutcomesAreFew
<1>4. QED
  BY <1>2, <1>3 DEF IInv

(* An answer settles the file, sends it to the writer, or sends it back. *)
LEMMA SettleKeepsIInv ==
  ASSUME IInv, Settle
  PROVE  IInv'
<1>0. /\ TypeOK /\ Holding /\ pc = "answered" /\ reply' = "none" /\ cap.name \in Names
      /\ UNCHANGED <<vault, filed, ran, lost, late, cap, trouble>>
  BY DEF IInv, NoCaptureLost, TypeOK, Settle, Holding
<1>1. CASE reply \in {"ran", "plain"}
  <2>1. /\ pc' \in {"next", "asking"} /\ (reply = "ran" => pc' = "next")
        /\ todo' \subseteq Names /\ tries' \in [Names -> 1..2]
    <3>1. CASE reply = "ran"
      BY <1>0, <3>1, DoneType DEF Settle
    <3>2. CASE reply = "plain"
      <4>1. pc' = "asking" /\ UNCHANGED <<todo, tries>>
        BY <3>2 DEF Settle
      <4>2. QED
        BY <1>0, <3>2, <4>1 DEF TypeOK
    <3>3. QED
      BY <1>1, <3>1, <3>2
  <2>2. TypeOK'
    BY <1>0, <2>1 DEF TypeOK, Stages, vault
  <2>3. HandIsSound' /\ \A f \in Files : Open(f)' => Open(f)
    BY <1>0, <1>1, <2>1 DEF IInv, HandIsSound, Holding, Open, InInbox, vault
  <2>4. QED
    BY <1>0, <2>2, <2>3, QuietStep DEF vault
<1>2. CASE reply \notin {"ran", "plain"}
  <2>1. Raise(FALSE)
    BY <1>2 DEF Settle
  <2>2. /\ pc' = IF cap.claimed THEN "restoring" ELSE "next"
        /\ todo' \subseteq Names /\ tries' \in [Names -> 1..2]
    BY <1>0, <2>1, RaiseType
  <2>3. TypeOK'
    BY <1>0, <2>2 DEF TypeOK, Stages, vault
  <2>4. QED
    BY <1>0, <1>2, <2>1, <2>3, GiveUpStep DEF Stages, vault
<1>3. QED
  BY <1>1, <1>2

(* The note is an outcome, and with it the sweep lets go of the file. *)
LEMMA WriteKeepsIInv ==
  ASSUME IInv, Write
  PROVE  IInv'
<1>0. /\ TypeOK /\ Holding /\ pc = "writing" /\ cap.name \in Names
      /\ cap.file \in Files /\ cap.moved = cap.file /\ cap.file \in kept /\ ~InInbox(cap.file)
      /\ UNCHANGED <<vault, ran, lost, late, cap, reply>>
  BY DEF IInv, NoCaptureLost, TypeOK, Write, Holding, HandIsSound
<1>1. CASE Trouble /\ Raise(FALSE) /\ UNCHANGED filed
  <2>1. /\ trouble' \in Nat /\ pc' \in Stages
        /\ todo' \subseteq Names /\ tries' \in [Names -> 1..2]
    BY <1>1, GiveUpType
  <2>2. TypeOK'
    BY <1>0, <1>1, <2>1 DEF TypeOK, vault
  <2>3. QED
    BY <1>0, <1>1, <2>2, GiveUpStep DEF Stages, vault
<1>2. CASE filed' = [filed EXCEPT ![cap.file] = @ + 1] /\ Done(cap.name) /\ UNCHANGED trouble
  <2>1. pc' = "next" /\ todo' \subseteq Names /\ tries' \in [Names -> 1..2]
    BY <1>0, <1>2, DoneType
  <2>2. TypeOK'
    <3>1. filed' \in [Files -> Nat]
      BY <1>0, <1>2 DEF TypeOK
    <3>2. QED
      BY <1>0, <1>2, <2>1, <3>1 DEF TypeOK, Stages, vault
  <2>3. HandIsSound' /\ NoCaptureLost' /\ OneName' /\ WasWritten' /\ ~Holding'
    BY <1>0, <2>1, <2>2 DEF IInv, HandIsSound, Holding, NoCaptureLost, OneName, Linked, WasWritten,
                            InInbox, vault
  <2>4. ASSUME NEW f \in Files
        PROVE  OutcomesAreFew(f)'
    <3>1. CASE f = cap.file
      <4>1. Open(f)
        BY <1>0, <3>1 DEF Open
      <4>2. filed'[f] = filed[f] + 1
        BY <1>0, <1>2, <3>1 DEF TypeOK
      <4>3. Outcomes(f)' = 1 + Outcomes(f) /\ Outcomes(f) \in Nat
        BY <1>0, <4>2 DEF Outcomes, TypeOK
      <4>4. Outcomes(f) <= lost[f] /\ lost' = lost /\ lost[f] \in Nat
        BY <1>0, <4>1 DEF IInv, OutcomesAreFew, TypeOK
      <4>5. ~Open(f)'
        <5>1. life[f] # "unused"
          BY <1>0, <3>1 DEF IInv, WasWritten
        <5>2. QED
          BY <1>0, <2>3, <3>1, <5>1 DEF Open, InInbox, vault
      <4>6. f \in kept'
        BY <1>0, <3>1 DEF vault
      <4>7. QED
        BY <4>3, <4>4, <4>5, <4>6 DEF OutcomesAreFew
    <3>2. CASE f # cap.file
      <4>1. filed'[f] = filed[f]
        BY <1>0, <1>2, <3>2 DEF TypeOK
      <4>2. Open(f)' => Open(f)
        BY <1>0, <2>3 DEF Open, InInbox, vault
      <4>3. QED
        BY <1>0, <4>1, <4>2 DEF IInv, OutcomesAreFew, Outcomes, TypeOK, vault
    <3>3. QED
      BY <3>1, <3>2
  <2>5. QED
    BY <2>3, <2>4 DEF IInv
<1>3. QED
  BY <1>1, <1>2 DEF Write

(* What is in hand gets its name back unless another file has it by now, and
   the archive keeps it either way. *)
LEMMA RestoreKeepsIInv ==
  ASSUME IInv, Restore
  PROVE  IInv'
<1>0. /\ TypeOK /\ Holding /\ pc = "restoring" /\ cap.name \in Names
      /\ cap.moved \in Files /\ cap.moved \in kept /\ ~InInbox(cap.moved)
      /\ inbox' = (IF Linked(cap.name) THEN inbox ELSE [inbox EXCEPT ![cap.name] = cap.moved])
      /\ UNCHANGED <<content, kept, life, filed, ran, lost, late, cap, reply, trouble>>
  BY DEF IInv, NoCaptureLost, TypeOK, Restore, Holding, HandIsSound
<1>1. pc' = "next" /\ todo' \subseteq Names /\ tries' \in [Names -> 1..2]
  <2>1. CASE cap.changed
    BY <1>0, <2>1, AgainType DEF Restore
  <2>2. CASE ~cap.changed
    BY <1>0, <2>2, DoneType DEF Restore
  <2>3. QED
    BY <2>1, <2>2
<1>2. TypeOK'
  <2>1. inbox' \in [Names -> Files \cup {NoFile}]
    BY <1>0 DEF TypeOK
  <2>2. QED
    BY <1>0, <1>1, <2>1 DEF TypeOK, Stages
<1>3. /\ \A m \in Names : inbox[m] # NoFile => inbox'[m] = inbox[m]
      /\ \A m \in Names : inbox'[m] = inbox[m] \/ (m = cap.name /\ inbox'[m] = cap.moved)
  BY <1>0 DEF TypeOK, Linked
<1>4. \A f \in Files : InInbox(f) => InInbox(f)'
  BY <1>3, InboxAssumption DEF InInbox
<1>5. \A f \in Files : InInbox(f)' => InInbox(f) \/ f = cap.moved
  BY <1>3 DEF InInbox
<1>6. HandIsSound' /\ ~Holding'
  BY <1>1 DEF HandIsSound, Holding
<1>7. NoCaptureLost' /\ WasWritten'
  BY <1>0, <1>2, <1>4, <1>5 DEF IInv, NoCaptureLost, WasWritten
<1>8. OneName'
  BY <1>0, <1>3 DEF IInv, OneName, Linked, InInbox
<1>9. ASSUME NEW f \in Files
      PROVE  OutcomesAreFew(f)'
  <2>1. Open(f)' => Open(f)
    BY <1>0, <1>5, <1>6 DEF Open
  <2>2. QED
    BY <1>0, <2>1 DEF IInv, OutcomesAreFew, Outcomes, TypeOK
<1>10. QED
  BY <1>6, <1>7, <1>8, <1>9 DEF IInv

(* Killed, the sweep leaves what it held in the archive, and the bridge with
   the request it was given, if it was. *)
LEMMA KillKeepsIInv ==
  ASSUME IInv, Kill
  PROVE  IInv'
<1>0. /\ TypeOK /\ trouble' \in Nat /\ pc' = "idle" /\ todo' = {}
      /\ tries' = [n \in Names |-> 1] /\ cap' = NoCapture /\ reply' = "none"
      /\ late' = (IF pc = "posted" THEN [late EXCEPT ![cap.file] = @ + 1] ELSE late)
      /\ UNCHANGED <<vault, filed, ran, lost>>
  BY DEF IInv, NoCaptureLost, TypeOK, Kill, Trouble
<1>1. pc = "posted" => /\ Holding /\ cap.file \in Files /\ cap.moved = cap.file
                       /\ cap.file \in kept /\ ~InInbox(cap.file)
  BY DEF IInv, HandIsSound, Holding
<1>2. TypeOK'
  <2>1. late' \in [Files -> Nat]
    BY <1>0, <1>1 DEF TypeOK
  <2>2. tries' \in [Names -> 1..2] /\ todo' \subseteq Names /\ pc' \in Stages
    BY <1>0 DEF Stages
  <2>3. QED
    BY <1>0, <2>1, <2>2, NoCaptureType DEF TypeOK, vault
<1>3. HandIsSound' /\ ~Holding'
  BY <1>0 DEF HandIsSound, Holding
<1>4. NoCaptureLost' /\ OneName' /\ WasWritten'
  BY <1>0, <1>2 DEF IInv, NoCaptureLost, OneName, Linked, WasWritten, InInbox, vault
<1>5. ASSUME NEW f \in Files
      PROVE  OutcomesAreFew(f)'
  <2>1. Open(f)' => Open(f)
    BY <1>0, <1>3 DEF Open, InInbox, vault
  <2>2. CASE f = cap.file /\ pc = "posted"
    <3>1. Open(f) /\ f \in kept'
      BY <1>0, <1>1, <2>2 DEF Open, vault
    <3>2. late'[f] = late[f] + 1
      BY <1>0, <2>2 DEF TypeOK
    <3>3. Outcomes(f)' = 1 + Outcomes(f) /\ Outcomes(f) \in Nat
      BY <1>0, <3>2 DEF Outcomes, TypeOK
    <3>4. Outcomes(f) <= lost[f] /\ lost' = lost /\ lost[f] \in Nat
      BY <1>0, <3>1 DEF IInv, OutcomesAreFew, TypeOK
    <3>5. ~Open(f)'
      <4>1. life[f] # "unused"
        BY <1>1, <2>2 DEF IInv, WasWritten
      <4>2. QED
        BY <1>0, <1>1, <1>3, <2>2, <4>1 DEF Open, InInbox, vault
    <3>6. QED
      BY <3>1, <3>3, <3>4, <3>5 DEF OutcomesAreFew
  <2>3. CASE ~(f = cap.file /\ pc = "posted")
    <3>1. late'[f] = late[f]
      BY <1>0, <1>1, <2>3 DEF TypeOK
    <3>2. QED
      BY <1>0, <2>1, <3>1 DEF IInv, OutcomesAreFew, Outcomes, TypeOK, vault
  <2>4. QED
    BY <2>2, <2>3
<1>6. QED
  BY <1>3, <1>4, <1>5 DEF IInv

-----------------------------------------------------------------------------
(* Every step keeps the invariant. *)
LEMMA NextKeepsIInv == IInv /\ [Next]_vars => IInv'
<1> SUFFICES ASSUME IInv, [Next]_vars
             PROVE  IInv'
  OBVIOUS
<1>1. ASSUME NEW f \in Files, NEW kind \in Kinds,
             Save(f, kind) \/ \E n \in Names : Put(n, f, kind)
      PROVE  IInv'
  BY <1>1, SaveKeepsIInv, PutKeepsIInv
<1>2. ASSUME NEW kind \in Kinds, VerifyTorn(kind) \/ \E n \in Names : ReadTorn(n, kind)
      PROVE  IInv'
  BY <1>2, VerifyTornKeepsIInv, ReadTornKeepsIInv
<1>3. CASE Sweep
  BY <1>3, ListKeepsIInv, ReadKeepsIInv, AskKeepsIInv, CheckKeepsIInv, MoveKeepsIInv,
     VerifyKeepsIInv, PostKeepsIInv, SettleKeepsIInv, WriteKeepsIInv, RestoreKeepsIInv
  DEF Sweep
<1>4. CASE BridgeActs \/ NoAnswer \/ Kill
  BY <1>4, BridgeActsKeepsIInv, NoAnswerKeepsIInv, KillKeepsIInv
<1>5. ASSUME NEW f \in Files, BridgeActsLate(f)
      PROVE  IInv'
  BY <1>5, BridgeActsLateKeepsIInv
<1>6. CASE UNCHANGED vars
  <2>1. TypeOK'
    BY <1>6 DEF IInv, NoCaptureLost, TypeOK, vars, vault, hands
  <2>2. HandIsSound' /\ \A f \in Files : Open(f)' => Open(f)
    BY <1>6 DEF IInv, HandIsSound, Holding, Open, InInbox, vars, vault, hands
  <2>3. QED
    BY <1>6, <2>1, <2>2, QuietStep DEF vars, vault
<1>7. QED
  BY <1>1, <1>2, <1>3, <1>4, <1>5, <1>6 DEF Next

(* Where the file in hand is, and how many outcomes each file may come to,
   holds whatever she, the sweep and the bridge do. *)
THEOREM HandStaysSound == Spec => []IInv
<1>1. IInv /\ [Next]_vars => IInv'
  BY NextKeepsIInv
<1>2. QED
  BY <1>1, InitIInv, PTL DEF Spec

(* file_capture never loses a capture she has written, for any number of
   names, files, edits, failures and kills. *)
THEOREM CapturesAreNeverLost == Spec => []NoCaptureLost
<1>1. IInv => NoCaptureLost
  BY DEF IInv
<1>2. QED
  BY <1>1, HandStaysSound, PTL

(* What was filed or run has its own original in the archive. *)
THEOREM OriginalsAreKept == Spec => []OriginalKept
<1>1. IInv => OriginalKept
  <2> SUFFICES ASSUME IInv, NEW f \in Files, filed[f] + ran[f] > 0
               PROVE  f \in kept
    BY DEF OriginalKept
  <2>1. filed[f] \in Nat /\ ran[f] \in Nat /\ late[f] \in Nat
    BY DEF IInv, NoCaptureLost, TypeOK
  <2>2. QED
    BY <2>1 DEF IInv, OutcomesAreFew, Outcomes
<1>2. QED
  BY <1>1, HandStaysSound, PTL

(* A capture becomes one note or runs once, but for an answer of the bridge
   that was lost. *)
THEOREM CapturesHaveOneOutcome == Spec => []OneOutcome
<1>1. IInv => OneOutcome
  <2> SUFFICES ASSUME IInv, NEW f \in Files
               PROVE  filed[f] + ran[f] <= 1 + lost[f]
    BY DEF OneOutcome
  <2>1. filed[f] \in Nat /\ ran[f] \in Nat /\ late[f] \in Nat /\ lost[f] \in Nat
    BY DEF IInv, NoCaptureLost, TypeOK
  <2>2. QED
    BY <2>1 DEF IInv, OutcomesAreFew, Outcomes
<1>2. QED
  BY <1>1, HandStaysSound, PTL

-----------------------------------------------------------------------------
(* The vault's other agent, the dead-link fixer: where a name is found.  Every
   note is in a folder that is walked. *)
Placed(v) == \A p \in DOMAIN v : p = Path(p.in, p.title) /\ p.in \in ToSet(ask.walk)
Titled(v) == {p.title : p \in DOMAIN v}

(* p is the last of its name that is walked. *)
LastOf(v, p) ==
  /\ p \in DOMAIN v
  /\ \E i \in DOMAIN ask.walk :
       /\ ask.walk[i] = p.in
       /\ \A j \in DOMAIN ask.walk : Path(ask.walk[j], p.title) \in DOMAIN v => j <= i

(* Some number is the least of any. *)
LEMMA LeastOne ==
  ASSUME NEW T \in SUBSET Nat, T # {}
  PROVE  \E n \in T : \A m \in T : n <= m
<1>1. PICK n \in T : \A m \in T : <<m, n>> \notin OpToRel(<, Nat)
  BY NatLessThanWellFounded, WFMin
<1>2. \A m \in T : ~(m < n)
  BY <1>1 DEF OpToRel
<1>3. QED
  BY <1>2

(* Of some places in a sequence one is the last. *)
LEMMA LastPlace ==
  ASSUME NEW n \in Nat, NEW I \in SUBSET (1..n), I # {}
  PROVE  Max(I) \in I /\ \A j \in I : j <= Max(I)
<1>1. {n - i : i \in I} \in SUBSET Nat /\ {n - i : i \in I} # {}
  <2>1. \A i \in I : n - i \in Nat
    OBVIOUS
  <2>2. PICK i \in I : TRUE
    OBVIOUS
  <2>3. QED
    BY <2>1, <2>2
<1>2. PICK d \in {n - i : i \in I} : \A m \in {n - i : i \in I} : d <= m
  BY <1>1, LeastOne
<1>3. PICK i \in I : d = n - i
  BY <1>2
<1>4. \A j \in I : n - i <= n - j
  BY <1>2, <1>3
<1>5. \A j \in I : i >= j
  BY <1>3, <1>4
<1>6. Max(I) \in I /\ \A j \in I : Max(I) >= j
  BY <1>3, <1>5 DEF Max
<1>7. QED
  BY <1>6

(* The scan finds the last of every name, and no other name. *)
LEMMA ScanFinds ==
  ASSUME ask.walk \in Seq(STRING), NEW v, Placed(v)
  PROVE  /\ DOMAIN Noted(v) = Titled(v)
         /\ \A t \in Titled(v) :
              Noted(v)[t] = Path(Noted(v)[t].in, t) /\ LastOf(v, Noted(v)[t])
<1>1. DOMAIN Noted(v) = Titled(v)
  BY DEF Noted, Walked, Titled
<1>2. ASSUME NEW t \in Titled(v)
      PROVE  Noted(v)[t] = Path(Noted(v)[t].in, t) /\ LastOf(v, Noted(v)[t])
  <2> DEFINE I == {i \in DOMAIN ask.walk : Path(ask.walk[i], t) \in DOMAIN v}
  <2>1. Noted(v)[t] = Path(ask.walk[Max(I)], t)
    BY DEF Noted, Walked, Titled
  <2>2. I # {}
    <3>1. PICK p \in DOMAIN v : p.title = t
      BY DEF Titled
    <3>2. p = Path(p.in, t) /\ p.in \in ToSet(ask.walk)
      BY <3>1 DEF Placed
    <3>3. PICK i \in DOMAIN ask.walk : ask.walk[i] = p.in
      BY <3>2 DEF ToSet
    <3>4. QED
      BY <3>1, <3>2, <3>3
  <2>3. Len(ask.walk) \in Nat /\ I \in SUBSET (1..Len(ask.walk))
    OBVIOUS
  <2>4. Max(I) \in I /\ \A j \in I : j <= Max(I)
    BY <2>2, <2>3, LastPlace
  <2>5. PICK m \in I : m = Max(I)
    BY <2>4
  <2>6. Noted(v)[t] = Path(ask.walk[m], t) /\ Path(ask.walk[m], t) \in DOMAIN v
    BY <2>1, <2>5
  <2>7. \A j \in DOMAIN ask.walk : Path(ask.walk[j], t) \in DOMAIN v => j <= m
    BY <2>4, <2>5
  <2>8. Path(ask.walk[m], t).in = ask.walk[m] /\ Path(ask.walk[m], t).title = t
    BY DEF Path
  <2>9. QED
    BY <2>5, <2>6, <2>7, <2>8 DEF LastOf
<1>3. QED
  BY <1>1, <1>2

(* What is last is what the scan finds. *)
LEMMA LastIsFound ==
  ASSUME ask.walk \in Seq(STRING), NEW v, Placed(v), NEW p, LastOf(v, p)
  PROVE  Noted(v)[p.title] = p
<1> DEFINE q == Noted(v)[p.title]
<1>1. p \in DOMAIN v /\ p.title \in Titled(v) /\ p = Path(p.in, p.title)
  BY DEF LastOf, Titled, Placed
<1>2. q = Path(q.in, p.title) /\ LastOf(v, q)
  BY <1>1, ScanFinds
<1>3. q.title = p.title
  BY <1>2 DEF Path
<1> HIDE DEF q
<1>4. PICK i \in DOMAIN ask.walk :
        /\ ask.walk[i] = p.in
        /\ \A j \in DOMAIN ask.walk : Path(ask.walk[j], p.title) \in DOMAIN v => j <= i
  BY DEF LastOf
<1>5. PICK k \in DOMAIN ask.walk :
        /\ q \in DOMAIN v /\ ask.walk[k] = q.in
        /\ \A j \in DOMAIN ask.walk : Path(ask.walk[j], p.title) \in DOMAIN v => j <= k
  BY <1>2, <1>3 DEF LastOf
<1>6. i <= k /\ k <= i
  BY <1>1, <1>2, <1>4, <1>5
<1>7. i = k
  BY <1>6
<1>8. QED
  BY <1>1, <1>2, <1>4, <1>5, <1>7 DEF q

(* It is still the last among fewer notes, if it is there. *)
LEMMA LastAmongFewer ==
  ASSUME NEW v, NEW w, NEW p \in DOMAIN v, LastOf(w, p),
         \A q \in DOMAIN v : q.title = p.title => q \in DOMAIN w
  PROVE  LastOf(v, p)
<1>1. PICK i \in DOMAIN ask.walk :
        /\ ask.walk[i] = p.in
        /\ \A j \in DOMAIN ask.walk : Path(ask.walk[j], p.title) \in DOMAIN w => j <= i
  BY DEF LastOf
<1>2. \A j : Path(ask.walk[j], p.title).title = p.title
  BY DEF Path
<1>3. QED
  BY <1>1, <1>2 DEF LastOf

(* What a run finds, writes and leaves. *)
found == Noted(ask.vault)
unwritten == Missing(ask.vault, found)
written == Written(Stubs(unwritten), hers)
TheReport == Path("Resources", FixerReport)

(* What is there after the run. *)
LEMMA WhatIsFixed ==
  ASSUME IsFixQuestion(ask)
  PROVE  /\ DOMAIN fixed = DOMAIN hers \cup written \cup {TheReport}
         /\ \A p \in DOMAIN hers : p # TheReport => fixed[p] = hers[p]
         /\ \A p \in written : p # TheReport => fixed[p] = Stub(p.title, unwritten)
         /\ [to |-> Home, md |-> FALSE] \in fixed[TheReport]
         /\ written \cap DOMAIN hers = {}
<1> DEFINE dead == Dead(ask.vault, found)
           suggested == UNION {Near(d.to, found) : d \in dead \ unwritten}
           report == Plain({d.from : d \in dead} \cup suggested
                             \cup {p.title : p \in written} \cup {Home})
<1>1. fixed = [p \in DOMAIN hers \cup written \cup {TheReport} |->
                 IF p.title = FixerReport /\ p.in = "Resources" THEN report
                 ELSE IF p \in written THEN Stub(p.title, unwritten) ELSE hers[p]]
  BY DEF fixed, Fixed, found, unwritten, written, Noted, TheReport
<1>2. \A p \in DOMAIN hers \cup written :
        p.title = FixerReport /\ p.in = "Resources" => p = TheReport
  <2>1. \A p \in DOMAIN hers : p = Path(p.in, p.title)
    BY DEF IsFixQuestion, IsVault, hers, Path
  <2>2. \A p \in written : p = Path(p.in, p.title)
    BY DEF written, Written, Stubs, Path
  <2>3. QED
    BY <2>1, <2>2 DEF TheReport
<1>3. TheReport.title = FixerReport /\ TheReport.in = "Resources"
  BY DEF TheReport, Path
<1>4. [to |-> Home, md |-> FALSE] \in report
  BY DEF Plain
<1>5. written \cap DOMAIN hers = {}
  BY DEF written, Written
<1> HIDE DEF report
<1>6. QED
  BY <1>1, <1>2, <1>3, <1>4, <1>5

(* Nothing of hers is written over. *)
LEMMA NothingIsOverwritten ==
  ASSUME IsFixQuestion(ask)
  PROVE  NothingOverwritten
<1>1. \A p \in DOMAIN hers : p # TheReport => p \in DOMAIN fixed /\ fixed[p] = hers[p]
  BY WhatIsFixed
<1>2. QED
  BY <1>1 DEF NothingOverwritten, TheReport

(* Every note before and after the run is in a folder that is walked. *)
LEMMA AllArePlaced ==
  ASSUME IsFixQuestion(ask)
  PROVE  /\ ask.walk \in Seq(STRING)
         /\ Placed(ask.vault) /\ Placed(hers) /\ Placed(fixed)
         /\ DOMAIN ask.vault \subseteq DOMAIN hers /\ DOMAIN hers \subseteq DOMAIN fixed
         /\ \A p \in DOMAIN ask.vault : hers[p] = ask.vault[p]
         /\ Calm => \A p \in DOMAIN hers \ DOMAIN ask.vault : hers[p] = {} /\ p.in # "MOCs"
<1>1. /\ ask.walk \in Seq(STRING) /\ "Resources" \in ToSet(ask.walk)
      /\ \A p \in DOMAIN ask.vault \cup DOMAIN ask.added : p.in \in ToSet(ask.walk)
      /\ Calm => \A p \in DOMAIN ask.added : ask.added[p] = {} /\ p.in # "MOCs"
  BY DEF IsFixQuestion, Calm
<1>2. \A p \in DOMAIN ask.vault \cup DOMAIN ask.added : p = Path(p.in, p.title)
  BY DEF IsFixQuestion, IsVault, Path
<1>3. /\ DOMAIN hers = DOMAIN ask.vault \cup DOMAIN ask.added
      /\ \A p \in DOMAIN hers :
           hers[p] = IF p \in DOMAIN ask.vault THEN ask.vault[p] ELSE ask.added[p]
  BY DEF hers
<1>4. \A p \in written \cup {TheReport} : p = Path(p.in, p.title) /\ p.in = "Resources"
  BY DEF written, Written, Stubs, Path, TheReport
<1>5. DOMAIN fixed = DOMAIN hers \cup written \cup {TheReport}
  BY WhatIsFixed
<1>6. Placed(ask.vault) /\ Placed(hers)
  BY <1>1, <1>2, <1>3 DEF Placed
<1>7. Placed(fixed)
  BY <1>1, <1>4, <1>5, <1>6 DEF Placed
<1>8. QED
  BY <1>1, <1>3, <1>5, <1>6, <1>7

(* A stub is named for what no note that was found is called. *)
LEMMA StubsAreNew ==
  ASSUME IsFixQuestion(ask), NEW p \in written
  PROVE  p.title \notin Titled(ask.vault)
<1>1. PICK d \in unwritten : p.title = d.to
  BY DEF written, Written, Stubs, Path
<1>2. d.to \notin DOMAIN found
  BY DEF unwritten, Missing, Dead
<1>3. QED
  BY <1>1, <1>2, AllArePlaced, ScanFinds DEF found

(* What a stub links to is there, with the home page. *)
LEMMA StubLinks ==
  ASSUME IsFixQuestion(ask), NEW t, NEW l \in Stub(t, unwritten)
  PROVE  l.to = Home \/ l.to \in Titled(ask.vault)
<1>1. \A d \in unwritten : d.from \in Titled(ask.vault)
  BY AllArePlaced, ScanFinds DEF unwritten, Missing, Dead, Filed, found
<1>2. QED
  BY <1>1 DEF Stub, Plain

(* The run finds notes of a hub's name where they were. *)
LEMMA HubsStay ==
  ASSUME IsFixQuestion(ask), Calm
  PROVE  Hubs(Noted(hers)) \subseteq Hubs(Noted(fixed))
<1> SUFFICES ASSUME NEW h \in Hubs(Noted(hers))
             PROVE  h \in Hubs(Noted(fixed))
  OBVIOUS
<1>1. h \in Titled(hers) /\ Noted(hers)[h].in = "MOCs"
  BY AllArePlaced, ScanFinds DEF Hubs
<1>2. Path("MOCs", h) \in DOMAIN hers
  BY <1>1, AllArePlaced, ScanFinds DEF LastOf
<1>3. Path("MOCs", h).in = "MOCs" /\ Path("MOCs", h).title = h
  BY DEF Path
<1>4. Path("MOCs", h) \in DOMAIN ask.vault
  BY <1>2, <1>3, AllArePlaced
<1>5. h \in Titled(ask.vault)
  BY <1>3, <1>4 DEF Titled
<1>6. h # FixerReport
  BY <1>4 DEF Calm
<1>7. TheReport.title = FixerReport
  BY DEF TheReport, Path
<1>8. \A q \in DOMAIN fixed : q.title = h => q \in DOMAIN hers
  BY <1>5, <1>6, <1>7, StubsAreNew, WhatIsFixed
<1>9. h \in Titled(fixed)
  BY <1>1, AllArePlaced DEF Titled
<1>10. LastOf(fixed, Noted(fixed)[h]) /\ Noted(fixed)[h] = Path(Noted(fixed)[h].in, h)
  BY <1>9, AllArePlaced, ScanFinds
<1>11. PICK p : p = Noted(fixed)[h] /\ p.title = h
  BY <1>10 DEF Path
<1>12. p \in DOMAIN hers
  BY <1>8, <1>10, <1>11 DEF LastOf
<1>13. LastOf(hers, p)
  BY <1>10, <1>11, <1>12, AllArePlaced, LastAmongFewer
<1>14. Noted(hers)[h] = p
  BY <1>11, <1>13, AllArePlaced, LastIsFound
<1>15. QED
  BY <1>1, <1>9, <1>11, <1>14, AllArePlaced, ScanFinds DEF Hubs

(* A dead link that is left is one the fixer leaves to her. *)
LEMMA DeadAreHers ==
  ASSUME IsFixQuestion(ask), Calm, NEW d \in Dead(fixed, Noted(fixed))
  PROVE  d.to \in Unsafe \/ Near(d.to, Noted(fixed)) # {}
<1> DEFINE p == Noted(fixed)[d.from]
<1>1. /\ d.from \in Filed(Noted(fixed)) /\ d.to \in Titles \ DOMAIN Noted(fixed)
      /\ d.to \in LinkedTo(fixed[p])
  BY DEF Dead
<1>2. /\ d.from \in Titled(fixed) /\ d.from \notin Plumbing \cup {FixerReport} /\ p.in \notin Logs
      /\ d.to \notin Titled(fixed)
  BY <1>1, AllArePlaced, ScanFinds DEF Filed
<1>3. p = Path(p.in, d.from) /\ LastOf(fixed, p)
  BY <1>2, AllArePlaced, ScanFinds
<1>4. p.title = d.from
  BY <1>3 DEF Path
<1>5. PICK l \in fixed[p] : l.to = d.to
  BY <1>1 DEF LinkedTo
<1> HIDE DEF p
<1>6. p # TheReport
  BY <1>2, <1>4 DEF TheReport, Path
<1>7. Titled(ask.vault) \subseteq Titled(fixed) /\ Titled(hers) \subseteq Titled(fixed)
  BY AllArePlaced DEF Titled
<1>8. Home \in Titled(fixed)
  BY <1>7, AllArePlaced, ScanFinds DEF Hubs, Calm
<1>9. p \notin written
  <2> SUFFICES ASSUME p \in written
               PROVE  FALSE
    OBVIOUS
  <2>1. l \in Stub(p.title, unwritten)
    BY <1>5, <1>6, WhatIsFixed
  <2>2. QED
    BY <1>2, <1>5, <1>7, <1>8, <2>1, StubLinks
<1>10. p \in DOMAIN hers /\ fixed[p] = hers[p]
  BY <1>3, <1>6, <1>9, WhatIsFixed DEF LastOf
<1>11. p \in DOMAIN ask.vault /\ fixed[p] = ask.vault[p]
  BY <1>5, <1>10, AllArePlaced
<1>12. LastOf(ask.vault, p)
  BY <1>3, <1>11, AllArePlaced, LastAmongFewer
<1>13. found[d.from] = p /\ d.from \in DOMAIN found
  <2>1. d.from \in Titled(ask.vault)
    BY <1>4, <1>11 DEF Titled
  <2>2. d.from \in DOMAIN found
    BY <2>1, AllArePlaced, ScanFinds DEF found
  <2>3. found[p.title] = p
    BY <1>12, AllArePlaced, LastIsFound DEF found
  <2>4. QED
    BY <1>4, <2>2, <2>3
<1>14. d.to \notin DOMAIN found /\ DOMAIN found \subseteq DOMAIN Noted(fixed)
  BY <1>2, <1>7, AllArePlaced, ScanFinds DEF found
<1>15. [from |-> d.from, to |-> d.to] \in Dead(ask.vault, found)
  <2>1. d.from \in Filed(found)
    BY <1>2, <1>13 DEF Filed
  <2>2. d.to \in LinkedTo(ask.vault[found[d.from]])
    BY <1>5, <1>11, <1>13 DEF LinkedTo
  <2>3. QED
    BY <1>1, <1>14, <2>1, <2>2 DEF Dead
<1>16. CASE Near(d.to, found) # {}
  BY <1>14, <1>16 DEF Near
<1>17. CASE Near(d.to, found) = {} /\ d.to \notin Unsafe
  <2>1. [from |-> d.from, to |-> d.to] \in unwritten
    BY <1>15, <1>17 DEF unwritten, Missing
  <2>2. Path("Resources", d.to) \in Stubs(unwritten)
    BY <1>17, <2>1 DEF Stubs
  <2>3. Path("Resources", d.to) \in DOMAIN fixed
    BY <2>2, WhatIsFixed DEF written, Written
  <2>4. Path("Resources", d.to).title = d.to
    BY DEF Path
  <2>5. QED
    BY <1>2, <2>3, <2>4 DEF Titled
<1>18. QED
  BY <1>16, <1>17

(* No orphan is made: what the run writes has the home page. *)
LEMMA OrphansAreHers ==
  ASSUME IsFixQuestion(ask), Calm
  PROVE  Orphans(fixed, Noted(fixed)) \subseteq Orphans(hers, Noted(hers))
<1> SUFFICES ASSUME NEW n \in Orphans(fixed, Noted(fixed))
             PROVE  n \in Orphans(hers, Noted(hers))
  OBVIOUS
<1> DEFINE p == Noted(fixed)[n]
<1>1. /\ n \in DOMAIN Noted(fixed) \ Plumbing /\ p.in \in {"Areas", "Resources", "root"}
      /\ ~\E l \in fixed[p] : ~l.md /\ l.to \in Hubs(Noted(fixed))
  BY DEF Orphans
<1>2. n \in Titled(fixed) /\ p = Path(p.in, n) /\ LastOf(fixed, p)
  BY <1>1, AllArePlaced, ScanFinds
<1>3. p.title = n
  BY <1>2 DEF Path
<1>4. Home \in Hubs(Noted(fixed))
  BY HubsStay DEF Calm
<1> HIDE DEF p
<1>5. [to |-> Home, md |-> FALSE] \notin fixed[p]
  <2> DEFINE home == [to |-> Home, md |-> FALSE]
  <2>1. ~home.md /\ home.to = Home
    OBVIOUS
  <2> HIDE DEF home
  <2>2. QED
    BY <1>1, <1>4, <2>1 DEF home
<1>6. p # TheReport
  BY <1>5, WhatIsFixed
<1>7. p \notin written
  BY <1>5, <1>6, WhatIsFixed DEF Stub, Plain
<1>8. p \in DOMAIN hers /\ fixed[p] = hers[p]
  BY <1>2, <1>6, <1>7, WhatIsFixed DEF LastOf
<1>9. LastOf(hers, p)
  BY <1>2, <1>8, AllArePlaced, LastAmongFewer
<1>10. Noted(hers)[n] = p
  BY <1>3, <1>9, AllArePlaced, LastIsFound
<1>11. n \in DOMAIN Noted(hers)
  <2>1. n \in Titled(hers)
    BY <1>3, <1>8 DEF Titled
  <2>2. QED
    BY <2>1, AllArePlaced, ScanFinds
<1>12. ~\E l \in hers[p] : ~l.md /\ l.to \in Hubs(Noted(hers))
  BY <1>1, <1>8, HubsStay
<1>13. QED
  BY <1>1, <1>10, <1>11, <1>12 DEF Orphans

(* A second run finds nothing to write but the report. *)
LEMMA AgainIsTheSame ==
  ASSUME IsFixQuestion(ask), Calm,
         NEW p \in DOMAIN again, p.title # FixerReport
  PROVE  p \in DOMAIN fixed /\ again[p] = fixed[p]
<1> DEFINE missing == Missing(fixed, Noted(fixed))
           stubs == Written(Stubs(missing), fixed)
<1>1. \A d \in missing : d.to \in Unsafe
  BY DeadAreHers DEF Missing
<1>2. stubs = {}
  BY <1>1 DEF Written, Stubs
<1>3. PICK report :
        again = [q \in DOMAIN fixed \cup stubs \cup {TheReport} |->
                   IF q.title = FixerReport /\ q.in = "Resources" THEN report
                   ELSE IF q \in stubs THEN Stub(q.title, missing) ELSE fixed[q]]
  BY DEF again, Fixed, Noted, TheReport
<1> HIDE DEF stubs
<1>4. p # TheReport
  BY DEF TheReport, Path
<1>5. QED
  BY <1>2, <1>3, <1>4

(* After a run there is nothing of its kind to do. *)
LEMMA TheFixerSettles ==
  ASSUME IsFixQuestion(ask)
  PROVE  FixerSettles
<1> SUFFICES ASSUME Calm
             PROVE  /\ \A d \in Dead(fixed, Noted(fixed)) :
                         d.to \in Unsafe \/ Near(d.to, Noted(fixed)) # {}
                    /\ \A d \in Listed(fixed, Noted(fixed)) :
                         \/ d.link.md \/ d.link.to \in Unsafe
                         \/ Near(d.link.to, Noted(fixed)) # {}
                         \/ d.from \notin Filed(Noted(fixed))
                    /\ Orphans(fixed, Noted(fixed)) \subseteq Orphans(hers, Noted(hers))
                    /\ \A p \in DOMAIN again :
                         p.title # FixerReport => p \in DOMAIN fixed /\ again[p] = fixed[p]
  BY DEF FixerSettles
<1>1. \A d \in Dead(fixed, Noted(fixed)) : d.to \in Unsafe \/ Near(d.to, Noted(fixed)) # {}
  BY DeadAreHers
<1>2. ASSUME NEW d \in Listed(fixed, Noted(fixed)), ~d.link.md, d.from \in Filed(Noted(fixed))
      PROVE  d.link.to \in Unsafe \/ Near(d.link.to, Noted(fixed)) # {}
  <2>1. /\ d.link.to \in Titles \ DOMAIN Noted(fixed)
        /\ d.link \in fixed[Noted(fixed)[d.from]]
    BY <1>2 DEF Listed
  <2>2. [from |-> d.from, to |-> d.link.to] \in Dead(fixed, Noted(fixed))
    BY <1>2, <2>1 DEF Dead, LinkedTo
  <2>3. QED
    BY <1>1, <2>2
<1>3. Orphans(fixed, Noted(fixed)) \subseteq Orphans(hers, Noted(hers))
  BY OrphansAreHers
<1>4. \A p \in DOMAIN again :
        p.title # FixerReport => p \in DOMAIN fixed /\ again[p] = fixed[p]
  BY AgainIsTheSame
<1>5. QED
  BY <1>1, <1>2, <1>3, <1>4

(* The fixer writes over nothing of hers, for every vault, everything she may
   add meanwhile and every order of the walk. *)
THEOREM HerNotesStay == AnyRun => []NothingOverwritten
<1>1. IsFixQuestion(ask) => NothingOverwritten
  BY NothingIsOverwritten
<1>2. IsFixQuestion(ask) /\ [IsFixQuestion(ask')]_ask => IsFixQuestion(ask)'
  OBVIOUS
<1>3. QED
  BY <1>1, <1>2, PTL DEF AnyRun

(* In a calm vault a run leaves no stub to write and no orphan and no dead link
   of its own making, and a second run changes nothing but the report. *)
THEOREM RunsSettle == AnyRun => []FixerSettles
<1>1. IsFixQuestion(ask) => FixerSettles
  BY TheFixerSettles
<1>2. IsFixQuestion(ask) /\ [IsFixQuestion(ask')]_ask => IsFixQuestion(ask)'
  OBVIOUS
<1>3. QED
  BY <1>1, <1>2, PTL DEF AnyRun
=============================================================================
