--------------------------------- MODULE Access ---------------------------------
(***************************************************************************)
(* The login check in front of the brain, brain/auth.py: the file of token *)
(* hashes, the command that changes it, and the service that answers nginx *)
(* from a copy of its own.                                                 *)
(*                                                                         *)
(* An invocation of the command reads the file, replaces it and asks       *)
(* systemd to reload the service.  systemd hands over a fresh copy of the  *)
(* file and sends SIGHUP, in no certain order; the service reads the copy  *)
(* at the signal and once more two seconds later.  Whatever is taken to    *)
(* happen within these two seconds is a guard of ReadCopy.                 *)
(***************************************************************************)
EXTENDS Integers, Sequences, SequencesExt, FiniteSets

CONSTANTS
  Tokens,       \* those ever made
  NameOf,       \* [Tokens -> their names]
  ScopeOf,      \* [Tokens -> sets of paths]; a path is a sequence, <<>> is "/"
  Uris,         \* [path: what nginx was asked for, plain: is it written plainly?,
                \*  ping: is it /_brain/ping?]
  Enforce,      \* MUNINN_BRAIN_ENFORCE
  Tools,        \* invocations of the command at one time
  MaxCommands,  \* bound of the model on invocations
  MaxTrouble    \* bound of the model on reads and reloads that fail, and deaths

ASSUME AccessAssumption ==
  /\ IsFiniteSet(Tokens)
  /\ Enforce \in BOOLEAN
  /\ MaxCommands \in Nat /\ MaxTrouble \in Nat

VARIABLES
  file,         \* the tokens with a line in the file
  made,         \* the tokens made so far
  tool,         \* each invocation: what it does, how far it is, what it has read
  job,          \* systemd's reload: what of it is still to come, {} without one
  copy,         \* the service's copy of the file
  loaded,       \* STATE["tokens"]
  up,           \* does the service run?
  looks,        \* reads of the copy to come or under way
  meant,        \* what the file would hold had the commands run one by one
  overlap,      \* did two invocations ever overlap?
  commands, trouble,
  stale         \* has a reload or a last read failed since the service started?

command == <<file, made, tool, meant, overlap, commands>>
service == <<copy, loaded, up, looks>>
faults == <<trouble, stale>>
vars == <<command, job, service, faults>>

Trouble == trouble < MaxTrouble /\ trouble' = trouble + 1

-----------------------------------------------------------------------------
(* path_allowed: a token for some paths gets only plain ones at or under them. *)
PathAllowed(scope, uri) ==
  \/ <<>> \in scope
  \/ uri.plain /\ \E p \in scope : IsPrefix(p, uri.path)

(* decide.  A caller presents a token, or what is none, in a header or in a
   cookie, or "nothing"; allowed says that his address gets in without. *)
Decide(tokens, caller, uri) ==
  LET first == IF caller.bearer # "nothing" THEN caller.bearer ELSE caller.cookie
  IN  \/ uri.ping
      \/ first = "nothing" /\ caller.allowed
      \/ \E t \in tokens : t = first /\ PathAllowed(ScopeOf[t], uri)

(* check: what nginx is told. *)
LetIn(caller, uri) == ~Enforce \/ Decide(loaded, caller, uri)

-----------------------------------------------------------------------------
(* Definitions named Fault... are wrong versions of the definition after
   them; each refutes a property when put in its place. *)

Idle == [does |-> "nothing", at |-> "idle", on |-> {}, read |-> {}]

Begin(w, does, on) ==
  /\ tool[w] = Idle
  /\ commands < MaxCommands
  /\ commands' = commands + 1
  /\ overlap' = (overlap \/ \E v \in Tools : tool[v].at = "read")
  /\ tool' = [tool EXCEPT ![w] = [does |-> does, at |-> "read", on |-> on, read |-> file]]
  /\ UNCHANGED <<file, meant, job, service, faults>>

(* A name that has a token may have another. *)
FaultAdd(w, t) ==
  /\ t \notin made
  /\ made' = made \cup {t}
  /\ Begin(w, "add", {t})

(* cmd_add, unless the name has a token already. *)
Add(w, t) ==
  /\ t \notin made
  /\ \A s \in file : NameOf[s] # NameOf[t]
  /\ made' = made \cup {t}
  /\ Begin(w, "add", {t})

(* cmd_revoke, if there is a line to remove. *)
Revoke(w, t) ==
  /\ t \in file
  /\ UNCHANGED made
  /\ Begin(w, "revoke", {s \in Tokens : NameOf[s] = NameOf[t]})

Changed(tokens, does, on) == IF does = "add" THEN tokens \cup on ELSE tokens \ on

(* write_tokens_file: what was read, changed, replaces what is there. *)
Replace(w) ==
  /\ tool[w].at = "read"
  /\ file' = Changed(tool[w].read, tool[w].does, tool[w].on)
  /\ meant' = Changed(meant, tool[w].does, tool[w].on)
  /\ tool' = [tool EXCEPT ![w] = [Idle EXCEPT !.at = "written"]]
  /\ UNCHANGED <<made, overlap, commands, job, service, faults>>

(* systemctl try-reload-or-restart: one reload after the other, of a service
   that runs; if it fails the command only warns. *)
Reload(w) ==
  /\ tool[w].at = "written"
  /\ \/ ~up /\ UNCHANGED <<job, faults>>
     \/ up /\ job = {} /\ job' = {"copy", "signal"} /\ UNCHANGED faults
     \/ up /\ Trouble /\ stale' = TRUE /\ UNCHANGED job
  /\ tool' = [tool EXCEPT ![w] = Idle]
  /\ UNCHANGED <<file, made, meant, overlap, commands, service>>

(* RefreshOnReload: the fresh copy is there. *)
Refresh ==
  /\ "copy" \in job
  /\ copy' = file
  /\ job' = job \ {"copy"}
  /\ UNCHANGED <<command, loaded, up, looks, faults>>

-----------------------------------------------------------------------------
(* A read of the copy, numbered as the signals; again says it is the second. *)
Look(no, again) == [no |-> no, again |-> again, began |-> FALSE, tokens |-> {}]
NextNo == IF looks = {} THEN 1 ELSE 1 + CHOOSE n \in {l.no : l \in looks} : \A l \in looks : l.no <= n

(* SIGHUP: on_hup reads the copy. *)
Signal ==
  /\ "signal" \in job
  /\ job' = job \ {"signal"}
  /\ looks' = looks \cup {Look(NextNo, FALSE)}
  /\ UNCHANGED <<command, copy, loaded, up, faults>>

(* load_tokens reads the copy.  The second read is two seconds later: by then
   the copy has landed and the reads of this and of earlier signals are done. *)
ReadCopy(l) ==
  /\ ~l.began
  /\ l.again => "copy" \notin job /\ \A k \in looks : k.no <= l.no => k = l
  /\ looks' = (looks \ {l}) \cup {[l EXCEPT !.began = TRUE, !.tokens = copy]}
  /\ UNCHANGED <<command, job, copy, loaded, up, faults>>

(* There is no second read. *)
FaultStored(l) == looks' = looks \ {l}

(* After the first read a timer is set for the second. *)
Stored(l) == looks' = (looks \ {l}) \cup {Look(l.no, TRUE) : x \in {TRUE} \ {l.again}}

(* What was read becomes STATE; what cannot be read leaves it, until the second
   read if it is the first. *)
Store(l) ==
  /\ l.began
  /\ \/ loaded' = l.tokens /\ UNCHANGED faults
     \/ Trouble /\ stale' = (stale \/ l.again) /\ UNCHANGED loaded
  /\ Stored(l)
  /\ UNCHANGED <<command, job, copy, up>>

(* The service dies, and a reload of it fails. *)
Die ==
  /\ up
  /\ Trouble
  /\ up' = FALSE /\ stale' = FALSE
  /\ looks' = {} /\ job' = {} /\ copy' = {} /\ loaded' = {}
  /\ UNCHANGED command

(* It is started again with a copy of what is in the file now (LoadCredential). *)
Start ==
  /\ ~up
  /\ up' = TRUE
  /\ copy' = file /\ loaded' = file
  /\ UNCHANGED <<command, job, looks, faults>>

Init ==
  /\ file = {} /\ made = {} /\ meant = {}
  /\ tool = [w \in Tools |-> Idle]
  /\ job = {} /\ looks = {}
  /\ up = TRUE /\ copy = {} /\ loaded = {}
  /\ overlap = FALSE /\ commands = 0 /\ trouble = 0 /\ stale = FALSE

Service == Refresh \/ Signal \/ (\E l \in looks : ReadCopy(l) \/ Store(l)) \/ Start
Tool(w) == Replace(w) \/ Reload(w)

Next ==
  \/ \E w \in Tools, t \in Tokens : Add(w, t) \/ Revoke(w, t)
  \/ \E w \in Tools : Tool(w)
  \/ Service \/ Die

Spec == Init /\ [][Next]_vars

(* What has begun goes on; systemd starts the service again (Restart = "always"). *)
FairSpec == Spec /\ WF_vars(Service) /\ \A w \in Tools : WF_vars(Tool(w))

-----------------------------------------------------------------------------
TypeOK ==
  /\ file \subseteq made /\ made \subseteq Tokens
  /\ copy \subseteq Tokens /\ loaded \subseteq Tokens
  /\ tool \in [Tools -> [does: {"nothing", "add", "revoke"}, at: {"idle", "read", "written"},
                         on: SUBSET Tokens, read: SUBSET Tokens]]
  /\ job \subseteq {"copy", "signal"}
  /\ \A l \in looks :
       l \in [no: {l.no}, again: BOOLEAN, began: BOOLEAN, tokens: SUBSET Tokens]
  /\ {up, overlap, stale} \subseteq BOOLEAN

(***************************************************************************)
(* Nothing locks the file between reading and replacing it.  Invocations   *)
(* that overlap may undo each other, a revocation too; but they never give *)
(* a name two tokens, of which revoking would be meant to drop one, and    *)
(* those that do not overlap lose nothing.                                 *)
(***************************************************************************)
FileIsSound ==
  /\ TypeOK
  /\ \A s, t \in file : NameOf[s] = NameOf[t] => s = t
  /\ overlap \/ file = meant

(***************************************************************************)
(* "A new or revoked token counts without a restart" (serve): in the end   *)
(* those who get in with a token are those in the file, in whatever order  *)
(* signals, copies and the two reads of each came, and whenever the        *)
(* service died, unless a reload failed since, or the second read of one.  *)
(***************************************************************************)
Presents(t, how) ==
  [bearer |-> IF how = "bearer" THEN t ELSE "nothing",
   cookie |-> IF how = "cookie" THEN t ELSE "nothing", allowed |-> FALSE]

HoldersGetIn ==
  <>[](~stale =>
        \A t \in Tokens, how \in {"bearer", "cookie"}, uri \in Uris :
          LetIn(Presents(t, how), uri) <=>
            uri.ping \/ (t \in file /\ PathAllowed(ScopeOf[t], uri)))
=============================================================================
