------------------------------- MODULE DecideLinks -------------------------------
(***************************************************************************)
(* A run of the dead-link fixer, and the gardener after it: Links, as      *)
(* decisions to be right about.  The state is the vault as the fixer found *)
(* it, what she added to it while the fixer was at work, and the order in  *)
(* which its folders are walked.                                           *)
(***************************************************************************)
EXTENDS Links, Question

Wikilinks == [to: Titles, md: BOOLEAN]

IsVault(vault) ==
  /\ vault \in [DOMAIN vault -> SUBSET Wikilinks]
  /\ DOMAIN vault \subseteq [in: STRING, title: Titles \cup Plumbing \cup {FixerReport}]

(* Every folder that has a note is walked, and so is the one for stubs. *)
IsFixQuestion(q) ==
  /\ q = [about |-> "links", vault |-> q.vault, added |-> q.added, walk |-> q.walk]
  /\ IsVault(q.vault) /\ IsVault(q.added)
  /\ q.walk \in Seq(STRING) /\ "Resources" \in ToSet(q.walk)
  /\ \A p \in DOMAIN q.vault \cup DOMAIN q.added : p.in \in ToSet(q.walk)

AnyRun == IsFixQuestion(ask) /\ [][IsFixQuestion(ask')]_ask

-----------------------------------------------------------------------------
(* The vault when the fixer writes to it, what it leaves, and a second run. *)
hers ==
  [p \in DOMAIN ask.vault \cup DOMAIN ask.added |->
     IF p \in DOMAIN ask.vault THEN ask.vault[p] ELSE ask.added[p]]
fixed == Fixed(ask.vault, hers, ask.walk)
again == Fixed(fixed, fixed, ask.walk)

Noted(vault) == Walked(vault, ask.walk)

(* "Never overwrites" (create_stub): whatever she adds after the fixer looked,
   under the very title and in the very folder of a stub, stays as she wrote
   it, and so does every other note but the fixer's own report. *)
NothingOverwritten ==
  ask.about = "links" =>
    \A p \in DOMAIN hers :
      p # Path("Resources", FixerReport) => p \in DOMAIN fixed /\ fixed[p] = hers[p]

(* She writes no links and no hubs while the fixer is at work, has not made its
   report a hub, and the home page is one. *)
Calm ==
  /\ \A p \in DOMAIN ask.added : ask.added[p] = {} /\ p.in # "MOCs"
  /\ Path("MOCs", FixerReport) \notin DOMAIN ask.vault
  /\ Home \in Hubs(Noted(hers))

(* In a calm vault a run leaves nothing of its kind to do, and none to the
   gardener: what both still list are the links the fixer leaves to her, and
   neither stubs nor report are orphans or have dead links of their own; a
   second run changes nothing but the report. *)
FixerSettles ==
  ask.about = "links" /\ Calm =>
    /\ \A d \in Dead(fixed, Noted(fixed)) :
         d.to \in Unsafe \/ Near(d.to, Noted(fixed)) # {}
    /\ \A d \in Listed(fixed, Noted(fixed)) :
         \/ d.link.md \/ d.link.to \in Unsafe
         \/ Near(d.link.to, Noted(fixed)) # {} \/ d.from \notin Filed(Noted(fixed))
    /\ Orphans(fixed, Noted(fixed)) \subseteq Orphans(hers, Noted(hers))
    /\ \A p \in DOMAIN again : p.title # FixerReport => p \in DOMAIN fixed /\ again[p] = fixed[p]
================================================================================
