------------------------------ MODULE AccessProofs ------------------------------
(***************************************************************************)
(* Theorems about Access for all tokens, names and scopes, any number of   *)
(* invocations of the command and any order of their steps.                *)
(***************************************************************************)
EXTENDS Access, TLAPS

(* At most one of these tokens has any one name. *)
OneToAName(tokens) == \A s, t \in tokens : NameOf[s] = NameOf[t] => s = t

(* What an invocation has read was sound when it read it, and is still what is
   in the file unless another one came between.  Its own addition has a name
   that is not in what it has read: it looked there, not in the file as it is. *)
ToolIsSound(w) ==
  tool[w].at = "read" =>
    /\ OneToAName(tool[w].read) /\ tool[w].read \subseteq made
    /\ tool[w].does = "add" =>
         \E t \in made : /\ tool[w].on = {t}
                         /\ \A s \in tool[w].read : NameOf[s] # NameOf[t]

Alone ==
  /\ file = meant
  /\ \A w \in Tools : tool[w].at = "read" =>
       /\ tool[w].read = file
       /\ \A v \in Tools : tool[v].at = "read" => v = w

IInv ==
  /\ TypeOK
  /\ OneToAName(file)
  /\ \A w \in Tools : ToolIsSound(w)
  /\ overlap \/ Alone

(* A change of sound tokens is sound, whatever else is in the file by now. *)
LEMMA ChangeKeepsNames ==
  ASSUME NEW w \in Tools, TypeOK, ToolIsSound(w), tool[w].at = "read"
  PROVE  LET new == Changed(tool[w].read, tool[w].does, tool[w].on) IN
         OneToAName(new) /\ new \subseteq made
<1>1. CASE tool[w].does = "add"
  <2>1. PICK t \in made : tool[w].on = {t} /\ \A s \in tool[w].read : NameOf[s] # NameOf[t]
    BY <1>1 DEF ToolIsSound
  <2>2. Changed(tool[w].read, tool[w].does, tool[w].on) = tool[w].read \cup {t}
    BY <1>1, <2>1 DEF Changed
  <2>3. QED
    BY <2>1, <2>2 DEF ToolIsSound, OneToAName
<1>2. CASE tool[w].does # "add"
  BY <1>2 DEF ToolIsSound, OneToAName, Changed
<1>3. QED
  BY <1>1, <1>2

(* A read to come has the type of one. *)
LEMMA LookType ==
  ASSUME NEW no, NEW again \in BOOLEAN
  PROVE  Look(no, again) \in
           [no: {Look(no, again).no}, again: BOOLEAN, began: BOOLEAN, tokens: SUBSET Tokens]
<1>1. Look(no, again).no = no
  BY DEF Look
<1>2. Look(no, again) \in [no: {no}, again: BOOLEAN, began: BOOLEAN, tokens: SUBSET Tokens]
  BY DEF Look
<1>3. QED
  BY <1>1, <1>2

(* An invocation that begins. *)
LEMMA BeginKeepsIInv ==
  ASSUME IInv, NEW w \in Tools, NEW does \in {"add", "revoke"}, NEW on \in SUBSET Tokens,
         Begin(w, does, on), made \subseteq made', made' \subseteq Tokens,
         UNCHANGED <<copy, loaded, up, looks>>,
         does = "add" => \E t \in made' : on = {t} /\ \A s \in file : NameOf[s] # NameOf[t]
  PROVE  IInv'
<1> USE DEF Begin, faults
<1>1. TypeOK'
  BY DEF IInv, TypeOK
<1>2. tool' \in [Tools -> [does: {"nothing", "add", "revoke"}, at: {"idle", "read", "written"},
                           on: SUBSET Tokens, read: SUBSET Tokens]]
  BY <1>1 DEF TypeOK
<1>3. tool'[w] = [does |-> does, at |-> "read", on |-> on, read |-> file]
      /\ \A v \in Tools \ {w} : tool'[v] = tool[v]
  BY DEF IInv, TypeOK
<1>4. OneToAName(file)'
  BY DEF IInv, OneToAName
<1>5. ASSUME NEW v \in Tools
      PROVE  ToolIsSound(v)'
  <2>1. CASE v = w
    BY <2>1, <1>3 DEF IInv, TypeOK, ToolIsSound, OneToAName
  <2>2. CASE v # w
    <3>1. tool'[v] = tool[v]
      BY <2>2, <1>3
    <3>2. ToolIsSound(v)
      BY DEF IInv
    <3>3. QED
      BY <3>1, <3>2 DEF ToolIsSound, OneToAName
  <2>3. QED
    BY <2>1, <2>2
<1>6. (overlap \/ Alone)'
  <2>1. CASE overlap \/ \E v \in Tools : tool[v].at = "read"
    BY <2>1 DEF IInv, TypeOK
  <2>2. CASE ~overlap /\ \A v \in Tools : tool[v].at # "read"
    BY <2>2, <1>3 DEF IInv, Alone
  <2>3. QED
    BY <2>1, <2>2
<1>7. QED
  BY <1>1, <1>4, <1>5, <1>6 DEF IInv

(* An invocation that replaces the file. *)
LEMMA ReplaceKeepsIInv ==
  ASSUME IInv, NEW w \in Tools, Replace(w)
  PROVE  IInv'
<1> DEFINE new == Changed(tool[w].read, tool[w].does, tool[w].on)
<1>1. TypeOK /\ ToolIsSound(w) /\ tool[w].at = "read" /\ file' = new
      /\ UNCHANGED <<made, overlap, copy, loaded, up, looks, job>>
  BY DEF IInv, Replace, service
<1>2. OneToAName(new) /\ new \subseteq made
  BY <1>1, ChangeKeepsNames
<1>3. tool'[w] = [Idle EXCEPT !.at = "written"] /\ \A v \in Tools \ {w} : tool'[v] = tool[v]
  BY <1>1 DEF Replace, TypeOK
<1>4. TypeOK'
  BY <1>1, <1>2 DEF TypeOK, Replace, Idle, faults
<1>5. ASSUME NEW v \in Tools
      PROVE  ToolIsSound(v)'
  <2>1. CASE v = w
    BY <2>1, <1>3 DEF ToolIsSound, Idle
  <2>2. CASE v # w
    <3>1. tool'[v] = tool[v] /\ made' = made /\ ToolIsSound(v)
      BY <2>2, <1>1, <1>3 DEF IInv
    <3>2. QED
      BY <3>1 DEF ToolIsSound, OneToAName
  <2>3. QED
    BY <2>1, <2>2
<1>6. (overlap \/ Alone)'
  <2>1. CASE overlap
    BY <2>1, <1>1
  <2>2. CASE Alone
    <3>1. tool[w].read = meant
      BY <2>2, <1>1 DEF Alone
    <3>2. file' = meant'
      BY <3>1, <1>1 DEF Replace
    <3>3. \A v \in Tools : tool'[v].at # "read"
      BY <2>2, <1>1, <1>3 DEF Alone, Idle
    <3>4. QED
      BY <3>2, <3>3 DEF Alone
  <2>3. QED
    BY <2>1, <2>2 DEF IInv
<1>7. QED
  BY <1>1, <1>2, <1>4, <1>5, <1>6 DEF IInv, OneToAName

(* The rest does not touch the file, nor an invocation that has read it. *)
LEMMA OthersKeepIInv ==
  ASSUME IInv, TypeOK', UNCHANGED <<file, made, meant, overlap>>,
         \A v \in Tools : tool'[v] = tool[v] \/ tool'[v].at # "read"
  PROVE  IInv'
<1>1. OneToAName(file)'
  BY DEF IInv, OneToAName
<1>2. ASSUME NEW v \in Tools
      PROVE  ToolIsSound(v)'
  BY DEF IInv, ToolIsSound, OneToAName
<1>3. (overlap \/ Alone)'
  BY DEF IInv, Alone
<1>4. QED
  BY <1>1, <1>2, <1>3 DEF IInv

(* Every step keeps IInv. *)
LEMMA NextKeepsIInv ==
  ASSUME IInv, [Next]_vars
  PROVE  IInv'
<1>1. ASSUME NEW w \in Tools, NEW t \in Tokens, Add(w, t)
      PROVE  IInv'
  <2>1. Begin(w, "add", {t}) /\ made' = made \cup {t} /\ UNCHANGED <<copy, loaded, up, looks>>
    BY <1>1 DEF Add, Begin, service
  <2>2. \E x \in made' : {t} = {x} /\ \A s \in file : NameOf[s] # NameOf[x]
    BY <1>1, <2>1 DEF Add
  <2>3. made \subseteq made' /\ made' \subseteq Tokens
    BY <2>1 DEF IInv, TypeOK
  <2>4. QED
    BY <2>1, <2>2, <2>3, BeginKeepsIInv
<1>2. ASSUME NEW w \in Tools, NEW t \in Tokens, Revoke(w, t)
      PROVE  IInv'
  <2> DEFINE on == {s \in Tokens : NameOf[s] = NameOf[t]}
  <2>1. Begin(w, "revoke", on) /\ made' = made /\ UNCHANGED <<copy, loaded, up, looks>>
    BY <1>2 DEF Revoke, Begin, service
  <2>2. made \subseteq made' /\ made' \subseteq Tokens
    BY <2>1 DEF IInv, TypeOK
  <2> HIDE DEF on
  <2>3. on \in SUBSET Tokens
    BY DEF on
  <2>4. QED
    BY <2>1, <2>2, <2>3, BeginKeepsIInv
<1>3. ASSUME NEW w \in Tools, Replace(w)
      PROVE  IInv'
  BY <1>3, ReplaceKeepsIInv
<1>4. ASSUME NEW w \in Tools, Reload(w)
      PROVE  IInv'
  <2>1. UNCHANGED <<file, made, meant, overlap>>
    BY <1>4 DEF Reload
  <2>2. TypeOK'
    BY <1>4 DEF IInv, TypeOK, Reload, Idle, service, faults
  <2>3. \A v \in Tools : tool'[v] = tool[v] \/ tool'[v].at # "read"
    BY <1>4 DEF IInv, TypeOK, Reload, Idle
  <2>4. QED
    BY <2>1, <2>2, <2>3, OthersKeepIInv
<1>5. CASE Refresh
  BY <1>5, OthersKeepIInv DEF IInv, TypeOK, Refresh, command, faults
<1>6. CASE Signal
  <2>1. \A k \in looks' : k \in looks \/ k = Look(NextNo, FALSE)
    BY <1>6 DEF Signal
  <2>2. \A k \in looks' :
          k \in [no: {k.no}, again: BOOLEAN, began: BOOLEAN, tokens: SUBSET Tokens]
    BY <2>1, LookType DEF IInv, TypeOK
  <2>3. TypeOK'
    BY <1>6, <2>2 DEF IInv, TypeOK, Signal, command, faults
  <2>4. QED
    BY <1>6, <2>3, OthersKeepIInv DEF Signal, command
<1>7. ASSUME NEW l \in looks, ReadCopy(l)
      PROVE  IInv'
  BY <1>7, OthersKeepIInv DEF IInv, TypeOK, ReadCopy, command, faults
<1>8. ASSUME NEW l \in looks, Store(l)
      PROVE  IInv'
  <2>1. TypeOK'
    <3>1. looks' = (looks \ {l}) \cup {Look(l.no, TRUE) : x \in {TRUE} \ {l.again}}
      BY <1>8 DEF Store, Stored
    <3>2. \A k \in looks' : k \in looks \/ k = Look(l.no, TRUE)
      BY <3>1
    <3>3. \A k \in looks' :
            k \in [no: {k.no}, again: BOOLEAN, began: BOOLEAN, tokens: SUBSET Tokens]
      BY <3>2, LookType DEF IInv, TypeOK
    <3>4. loaded' \subseteq Tokens
      BY <1>8 DEF Store, IInv, TypeOK
    <3>5. stale' \in BOOLEAN
      BY <1>8 DEF Store, faults, IInv, TypeOK
    <3>6. QED
      BY <3>3, <3>4, <3>5, <1>8 DEF IInv, TypeOK, Store, command
  <2>2. QED
    BY <1>8, <2>1, OthersKeepIInv DEF Store, command
<1>9. CASE Start
  BY <1>9, OthersKeepIInv DEF IInv, TypeOK, Start, command, faults
<1>10. CASE Die
  BY <1>10, OthersKeepIInv DEF IInv, TypeOK, Die, command
<1>11. CASE UNCHANGED vars
  BY <1>11, OthersKeepIInv DEF IInv, TypeOK, vars, command, service, faults
<1>12. QED
  BY <1>1, <1>2, <1>3, <1>4, <1>5, <1>6, <1>7, <1>8, <1>9, <1>10, <1>11 DEF Next, Service, Tool

(***************************************************************************)
(* However many invocations of the token command run into each other: no   *)
(* name ever has two lines in the file, and as long as no two of them have *)
(* overlapped the file holds what they were meant to make of it            *)
(* (cmd_add, cmd_revoke, write_tokens_file).                               *)
(***************************************************************************)
THEOREM TheFileIsSound == Spec => []FileIsSound
<1>1. Init => IInv
  <2> SUFFICES ASSUME Init PROVE IInv
    OBVIOUS
  <2>1. \A w \in Tools : tool[w].at = "idle"
    BY DEF Init, Idle
  <2>2. TypeOK
    BY DEF Init, TypeOK, Idle
  <2>3. OneToAName(file) /\ Alone
    BY <2>1 DEF Init, OneToAName, Alone
  <2>4. QED
    BY <2>1, <2>2, <2>3 DEF IInv, ToolIsSound
<1>2. IInv /\ [Next]_vars => IInv'
  BY NextKeepsIInv
<1>3. IInv => FileIsSound
  BY DEF IInv, FileIsSound, OneToAName, Alone
<1>4. QED
  BY <1>1, <1>2, <1>3, PTL DEF Spec
=============================================================================
