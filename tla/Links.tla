--------------------------------- MODULE Links ---------------------------------
(***************************************************************************)
(* Two of huginn's weekly agents over the vault's wikilinks: the dead-link *)
(* fixer (muninn/dead-link-fixer.py), which writes a stub for what a filed *)
(* note links to and nobody wrote, and the gardener (muninn/gardener.py),  *)
(* which lists dead links and notes that no hub has.                       *)
(*                                                                         *)
(* A vault is a function from paths to the links written there.  A path is *)
(* a folder and a name, a link a name and whether ".md" is written with it.*)
(* Links in code or into folders that are skipped are no links here.       *)
(***************************************************************************)
EXTENDS Sequences, SequencesExt, FiniteSets

CONSTANTS
  Titles,       \* what notes are called and links point at
  Alike,        \* pairs of titles that the fixer takes for one misspelt
  Unsafe,       \* titles that no file may have
  Home,         \* "Home MOC", which every report and stub links to
  FixerReport,  \* "Dead Link Report"
  Plumbing      \* CLAUDE and README

ASSUME LinksAssumption ==
  /\ Alike \subseteq Titles \X Titles
  /\ Unsafe \subseteq Titles
  /\ Home \in Titles /\ FixerReport # Home
  /\ FixerReport \notin Unsafe /\ Home \notin Unsafe

Logs == {"journal", "_inbox"}       \* with the talk logs and reports
Path(folder, title) == [in |-> folder, title |-> title]
Plain(titles) == {[to |-> t, md |-> FALSE] : t \in titles}

-----------------------------------------------------------------------------
(* scan: notes by name.  Of two with one name the one walked last counts. *)
Walked(vault, walk) ==
  [t \in {p.title : p \in DOMAIN vault} |->
     Path(walk[Max({i \in DOMAIN walk : Path(walk[i], t) \in DOMAIN vault})], t)]

LinkedTo(links) == {l.to : l \in links}

(* find_dead: the dead links of filed notes, and those of them that nobody
   just misspelt. *)
Filed(notes) == {n \in DOMAIN notes \ (Plumbing \cup {FixerReport}) : notes[n].in \notin Logs}
Dead(vault, notes) ==
  {d \in [from: Filed(notes), to: Titles \ DOMAIN notes] :
     d.to \in LinkedTo(vault[notes[d.from]])}
Near(t, notes) == {n \in DOMAIN notes : <<t, n>> \in Alike}
Missing(vault, notes) == {d \in Dead(vault, notes) : Near(d.to, notes) = {}}

(* What create_stub writes for t: links back, and to the home page. *)
FaultStub(t, missing) == Plain({d.from : d \in {e \in missing : e.to = t}})
Stub(t, missing) == Plain({d.from : d \in {e \in missing : e.to = t}} \cup {Home})

Stubs(missing) == {Path("Resources", t) : t \in {d.to : d \in missing} \ Unsafe}

(* A stub replaces what is there. *)
FaultWritten(stubs, vault) == stubs
(* "Never overwrites": a stub is written where there is no file. *)
Written(stubs, vault) == stubs \ DOMAIN vault

(* main: the notes are scanned in seen, and the stubs and the report written
   to what has become of the vault since. *)
Fixed(seen, vault, walk) ==
  LET notes == Walked(seen, walk)
      missing == Missing(seen, notes)
      dead == Dead(seen, notes)
      stubs == Written(Stubs(missing), vault)
      suggested == UNION {Near(d.to, notes) : d \in dead \ missing}
      report == Plain({d.from : d \in dead} \cup suggested \cup {p.title : p \in stubs} \cup {Home})
  IN  [p \in DOMAIN vault \cup stubs \cup {Path("Resources", FixerReport)} |->
         IF p.title = FixerReport /\ p.in = "Resources" THEN report
         ELSE IF p \in stubs THEN Stub(p.title, missing) ELSE vault[p]]

-----------------------------------------------------------------------------
(* The gardener: dead links and orphans.  It takes a link as it is
   written, ".md" and all. *)
Listed(vault, notes) ==
  {d \in [from: DOMAIN notes \ Plumbing, link: [to: Titles, md: BOOLEAN]] :
     /\ d.link \in vault[notes[d.from]]
     /\ d.link.md \/ d.link.to \notin DOMAIN notes}

Hubs(notes) == {n \in DOMAIN notes : notes[n].in = "MOCs"}
Orphans(vault, notes) ==
  {n \in DOMAIN notes \ Plumbing :
     /\ notes[n].in \in {"Areas", "Resources", "root"}
     /\ ~\E l \in vault[notes[n]] : ~l.md /\ l.to \in Hubs(notes)}
================================================================================
