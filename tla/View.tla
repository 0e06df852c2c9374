---------------------------------- MODULE View ----------------------------------
(***************************************************************************)
(* The read-only view of the vault: the builder, ro/build-view.py (a       *)
(* oneshot every 15 minutes, so never two at a time), and the server,      *)
(* ro/muninn-ro.py (one event loop, so one Store.snap at a time).          *)
(*                                                                         *)
(* The builder writes a directory of its own, points the link "current" at *)
(* it and removes old ones; it may be killed between any two steps.  The   *)
(* server follows the link when it is asked and keeps what it has loaded.  *)
(* Creating, renaming and removing a directory is one step each.  A        *)
(* directory has no name here, only those who refer to it.                 *)
(***************************************************************************)
EXTENDS Integers, FiniteSets

CONSTANTS
  Notes,
  Links,        \* pairs of notes: the first, when it exists, links to the second
  Nodes,        \* the nodes graphify makes of notes
  FileOf,       \* [Nodes -> Notes]
  CommunityOf,  \* [Nodes -> Communities]
  Communities,
  Edges,        \* [from: Nodes, to: Nodes, by: Notes], by being the source_file
  MaxChanges,   \* bound of the model on changes of the vault
  MaxFaults     \* bound of the model on kills, failures and restarts

ASSUME ViewAssumption ==
  /\ IsFiniteSet(Notes) /\ IsFiniteSet(Nodes)
  /\ Links \subseteq Notes \X Notes
  /\ FileOf \in [Nodes -> Notes] /\ CommunityOf \in [Nodes -> Communities]
  /\ Edges \subseteq [from: Nodes, to: Nodes, by: Notes]
  /\ MaxChanges \in Nat /\ MaxFaults \in Nat

VARIABLES
  vault,        \* what there is of each note
  huginn,       \* huginn's graph of the vault, as of some earlier time
  dirs,         \* the view directories that exist
  linked,       \* is there a link "current"?
  pc, every, kept,          \* the builder and what it has found out
  reader, got, snap,        \* the server, what it loads and what it has
  swaps,        \* how often the link moved during that load, 2 for more
  changes, faults

store   == <<dirs, linked>>
builder == <<pc, every, kept>>
server  == <<reader, got, snap>>
vars == <<vault, huginn, store, builder, server, swaps, changes, faults>>

(* "private": something in it, or about it, keeps it out.  "skipped": it is in
   a folder that is walked only for the sake of the links to it. *)
Kinds == {"absent", "public", "private", "skipped"}
Present == {n \in Notes : vault[n] # "absent"}
Public == {n \in Notes : vault[n] = "public"}

(* A graph; names says of what each community's name was written, {} without one.
   sourced: its edges say of which note they are. *)
Empty == [usable |-> TRUE, sourced |-> FALSE, nodes |-> {}, edges |-> {},
          names |-> [c \in Communities |-> {}]]
Broken == [Empty EXCEPT !.usable = FALSE]

(* What huginn makes of the notes there are, private ones too. *)
GraphOf(notes) ==
  LET nodes == {x \in Nodes : FileOf[x] \in notes} IN
  [usable |-> TRUE, sourced |-> TRUE, nodes |-> nodes,
   edges |-> {e \in Edges : {e.from, e.to} \subseteq nodes /\ e.by \in notes},
   names |-> [c \in Communities |-> {x \in nodes : CommunityOf[x] = c}]]

(* What the server has of a view. *)
NoView == [notes |-> {}, whole |-> TRUE, swaps |-> 0]

(* Who refers to a directory: the link ("current"), a build that made it or found
   it linked ("new", "previous"), a load under way ("loading"), and the snapshot
   of what is linked now ("loaded").  What was in a directory without a reader
   to come is forgotten. *)
Known(as) == {d \in dirs : as \in d.as}
Gone(as) == Known(as) = {}
Refer(as, ds) == {[d EXCEPT !.as = IF d \in ds THEN @ \cup {as} ELSE @ \ {as}] : d \in dirs}

Rubble ==
  [as |-> {}, done |-> TRUE, notes |-> {}, links |-> {}, left |-> {}, graph |-> Empty]
Without(roles, ds) ==
  {IF d.as \subseteq roles THEN Rubble ELSE [d EXCEPT !.as = @ \ roles] : d \in ds}

Fault == faults < MaxFaults /\ faults' = faults + 1

-----------------------------------------------------------------------------
(* Definitions named Fault... are wrong versions of the definition after
   them; each refutes a property when put in its place. *)

(* Only the names of communities that lose every node go. *)
FaultPruned(g, paths) ==
  LET keep == {x \in g.nodes : FileOf[x] \in paths}
      tainted == {CommunityOf[x] : x \in g.nodes \ keep} \ {CommunityOf[x] : x \in keep}
  IN  [g EXCEPT !.sourced = FALSE, !.nodes = keep,
         !.edges = {e \in @ : {e.from, e.to} \subseteq keep /\ (g.sourced => e.by \in paths)},
         !.names = [c \in Communities |-> IF c \in tainted THEN {} ELSE @[c]]]

(* prune_notes_graph. *)
Pruned(g, paths) ==
  LET keep == {x \in g.nodes : FileOf[x] \in paths}
      tainted == {CommunityOf[x] : x \in g.nodes \ keep}
  IN  [g EXCEPT !.sourced = FALSE, !.nodes = keep,
         !.edges = {e \in @ : {e.from, e.to} \subseteq keep /\ (g.sourced => e.by \in paths)},
         !.names = [c \in Communities |-> IF c \in tainted THEN {} ELSE @[c]]]

(* verify_notes_graph finds no problem. *)
Verified(g, paths) ==
  /\ \A x \in g.nodes : FileOf[x] \in paths
  /\ \A e \in g.edges : {e.from, e.to} \subseteq g.nodes

(* notes_graph: the fresh copy, the previous one, or none. *)
NotesGraph(fresh, previous, paths) ==
  LET good == {g \in {fresh, previous} : g.usable /\ Verified(Pruned(g, paths), paths)} IN
  IF fresh \in good THEN Pruned(fresh, paths)
  ELSE IF previous \in good THEN Pruned(previous, paths) ELSE Empty

(* LinkIndex: the notes that are there and not in the view. *)
PrivateNotes == every \ kept

(* rewrite_links: the links that stay. *)
Shown == {l \in Links : l[1] \in kept /\ l[2] \notin PrivateNotes}

-----------------------------------------------------------------------------
(* The vault, and huginn, go on while a view is built. *)
Edit(n, kind) ==
  /\ changes < MaxChanges
  /\ vault[n] # kind
  /\ vault' = [vault EXCEPT ![n] = kind]
  /\ changes' = changes + 1
  /\ UNCHANGED <<huginn, store, builder, server, swaps, faults>>

Graphify ==
  /\ huginn # GraphOf(Present)
  /\ huginn' = GraphOf(Present)
  /\ UNCHANGED <<vault, store, builder, server, swaps, changes, faults>>

GraphLost ==
  /\ huginn # Broken
  /\ Fault
  /\ huginn' = Broken
  /\ UNCHANGED <<vault, store, builder, server, swaps, changes>>

(* scan: what is there.  Without a single note the build fails. *)
Scan ==
  /\ pc = "idle"
  /\ Present # {}
  /\ every' = Present
  /\ pc' = "reading"
  /\ UNCHANGED <<vault, huginn, store, kept, server, swaps, changes, faults>>

(* read_note and classify on each note listed; one that is gone or cannot be
   read is left out like one that must not be shown. *)
Read ==
  /\ pc = "reading"
  /\ \/ kept' = every \cap Public /\ UNCHANGED faults
     \/ \E unreadable \in every \cap Public : Fault /\ kept' = (every \cap Public) \ {unreadable}
  /\ pc' = "writing"
  /\ UNCHANGED <<vault, huginn, store, every, server, swaps, changes>>

(* The directory is written: notes, then graphs, the previous view's when
   huginn's will not do, then the manifest.  Its name says it is not done. *)
Write ==
  /\ pc = "writing"
  /\ \E previous \in {d.graph : d \in Known("current")} \cup {g \in {Broken} : Gone("current")} :
       dirs' = Refer("previous", Known("current")) \cup
                 {[as |-> {"new"}, done |-> FALSE, notes |-> kept, links |-> Shown,
                   left |-> PrivateNotes, graph |-> NotesGraph(huginn, previous, kept)]}
  /\ pc' = "renaming"
  /\ UNCHANGED <<vault, huginn, linked, every, kept, server, swaps, changes, faults>>

(* It is linked under the name that says it is not done. *)
FaultRename ==
  /\ pc = "renaming"
  /\ pc' = "linking"
  /\ UNCHANGED <<vault, huginn, store, every, kept, server, swaps, changes, faults>>

(* It gets its real name, *)
Rename ==
  /\ pc = "renaming"
  /\ dirs' = {[d EXCEPT !.done = @ \/ "new" \in d.as] : d \in dirs}
  /\ pc' = "linking"
  /\ UNCHANGED <<vault, huginn, linked, every, kept, server, swaps, changes, faults>>

(* the link is replaced, *)
Swap ==
  /\ pc = "linking"
  /\ dirs' = Without({"loaded"}, Refer("current", Known("new")))
  /\ linked' = TRUE
  /\ pc' = "clearing"
  /\ swaps' = IF reader = "idle" THEN swaps ELSE IF swaps = 0 THEN 1 ELSE 2
  /\ UNCHANGED <<vault, huginn, every, kept, server, changes, faults>>

(* Only the new view stays. *)
FaultClearing == {d \in dirs : "new" \notin d.as}

(* every directory but the new view and the one before it is to go *)
Clearing == {d \in dirs : {"new", "previous"} \cap d.as = {} \/ ~d.done}

(* and is removed, one after the other. *)
Remove ==
  /\ pc = "clearing"
  /\ \E d \in Clearing : dirs' = dirs \ {d}
  /\ UNCHANGED <<vault, huginn, linked, builder, server, swaps, changes, faults>>

Ended ==
  /\ pc' = "idle" /\ every' = {} /\ kept' = {}
  /\ dirs' = Without({"new", "previous"}, dirs)

Finish ==
  /\ pc = "clearing"
  /\ Clearing = {}
  /\ Ended
  /\ UNCHANGED <<vault, huginn, linked, server, swaps, changes, faults>>

(* A failure of the file system, or the timeout of the unit. *)
Kill ==
  /\ pc # "idle"
  /\ Fault
  /\ Ended
  /\ UNCHANGED <<vault, huginn, linked, server, swaps, changes>>

-----------------------------------------------------------------------------
(* What has been loaded once is good for ever. *)
FaultResolve ==
  /\ reader = "idle"
  /\ Known("current") # {} /\ snap = NoView
  /\ dirs' = Refer("loading", Known("current"))
  /\ reader' = "opening"
  /\ swaps' = 0
  /\ UNCHANGED <<vault, huginn, linked, builder, got, snap, changes, faults>>

(* Store.snap: the server is asked, and the link points elsewhere than where
   it has loaded from. *)
Resolve ==
  /\ reader = "idle"
  /\ Known("current") # Known("loaded")
  /\ dirs' = Refer("loading", Known("current"))
  /\ reader' = "opening"
  /\ swaps' = 0
  /\ UNCHANGED <<vault, huginn, linked, builder, got, snap, changes, faults>>

(* load_snapshot opens the manifest; without one the server stays with what it
   has, and looks again when it is asked again. *)
Open ==
  /\ reader = "opening"
  /\ \/ /\ Gone("loading")
        /\ reader' = "idle"
        /\ UNCHANGED got
     \/ /\ \E d \in Known("loading") : got' = [NoView EXCEPT !.notes = d.notes]
        /\ reader' = "notes"
  /\ UNCHANGED <<vault, huginn, store, builder, snap, swaps, changes, faults>>

(* The notes are read; those that cannot be are left out.  The directory is
   removed at once here, so that is all of them or none. *)
ReadNotes ==
  /\ reader = "notes"
  /\ got' = IF Gone("loading") THEN [got EXCEPT !.notes = {}, !.whole = got.notes = {}] ELSE got
  /\ reader' = "graphs"
  /\ UNCHANGED <<vault, huginn, store, builder, snap, swaps, changes, faults>>

(* The graphs, empty ones if they cannot be read; then the snapshot is served. *)
ReadGraphs ==
  /\ reader = "graphs"
  /\ snap' = [got EXCEPT !.whole = @ /\ ~Gone("loading"), !.swaps = swaps]
  /\ dirs' = Without({"loading"}, Refer("loaded", Known("loading") \cap Known("current")))
  /\ reader' = "idle" /\ got' = NoView
  /\ UNCHANGED <<vault, huginn, linked, builder, swaps, changes, faults>>

(* The server starts anew, with nothing loaded. *)
Restart ==
  /\ Fault
  /\ reader' = "idle" /\ got' = NoView /\ snap' = NoView
  /\ dirs' = Without({"loading", "loaded"}, dirs)
  /\ UNCHANGED <<vault, huginn, linked, builder, swaps, changes>>

Init ==
  /\ vault = [n \in Notes |-> "public"]
  /\ huginn = Broken
  /\ dirs = {} /\ linked = FALSE
  /\ pc = "idle" /\ every = {} /\ kept = {}
  /\ reader = "idle" /\ got = NoView /\ snap = NoView
  /\ swaps = 0 /\ changes = 0 /\ faults = 0

Build == Scan \/ Read \/ Write \/ Rename \/ Swap \/ Remove \/ Finish
Serve == Resolve \/ Open \/ ReadNotes \/ ReadGraphs

Next ==
  \/ \E n \in Notes, kind \in Kinds : Edit(n, kind)
  \/ Graphify \/ GraphLost \/ Kill \/ Restart
  \/ Build \/ Serve

Spec == Init /\ [][Next]_vars

(***************************************************************************)
(* The timer starts a build every 15 minutes, whatever became of the last; *)
(* the server is asked now and then, and each time looks where the link    *)
(* points.                                                                 *)
(***************************************************************************)
FairSpec == Spec /\ WF_vars(Build) /\ WF_vars(Serve)

-----------------------------------------------------------------------------
(***************************************************************************)
(* No view shows anything of a note it leaves out ("links to a note that   *)
(* isn't in the view become (private note)", "a node from a note that      *)
(* isn't in the view goes, and so do its edges and its community's name"): *)
(* no link to one, no node of one, and no name that was written from one,  *)
(* which a graph may have carried along through any number of views.       *)
(***************************************************************************)
NothingPrivateShown ==
  \A v \in dirs :
    LET inside == {x \in Nodes : FileOf[x] \in v.notes} IN
    /\ \A l \in v.links : l[1] \in v.notes /\ l[2] \notin v.left
    /\ v.graph.nodes \subseteq inside
    /\ \A e \in v.graph.edges : {e.from, e.to} \subseteq v.graph.nodes
    /\ \A c \in Communities : v.graph.names[c] \subseteq inside

Graphs == [usable: BOOLEAN, sourced: BOOLEAN, nodes: SUBSET Nodes, edges: SUBSET Edges,
           names: [Communities -> SUBSET Nodes]]
Directories ==
  [as: SUBSET {"current", "new", "previous", "loading", "loaded"}, done: BOOLEAN,
   notes: SUBSET Notes, links: SUBSET Links, left: SUBSET Notes, graph: Graphs]
Loads == [notes: SUBSET Notes, whole: BOOLEAN, swaps: 0..2]

TypeOK ==
  /\ vault \in [Notes -> Kinds]
  /\ huginn \in Graphs
  /\ dirs \subseteq Directories
  /\ linked \in BOOLEAN
  /\ pc \in {"idle", "reading", "writing", "renaming", "linking", "clearing"}
  /\ every \subseteq Notes /\ kept \subseteq Notes
  /\ reader \in {"idle", "opening", "notes", "graphs"}
  /\ got \in Loads /\ snap \in Loads
  /\ swaps \in 0..2

(***************************************************************************)
(* Once there is a view there always is one: the link never points at a    *)
(* directory that is gone or not done, wherever a build is killed.         *)
(***************************************************************************)
AlwaysAView ==
  /\ TypeOK
  /\ linked => \E d \in Known("current") : d.done

(***************************************************************************)
(* "The new view and the one before it" are kept, and that is enough for a *)
(* server that loads while a build ends: what it has loaded lacks nothing  *)
(* unless the link was replaced twice meanwhile.                           *)
(***************************************************************************)
SnapshotIsWhole == snap.whole \/ snap.swaps = 2

(***************************************************************************)
(* What is served is what may be served today: provided that a load is not *)
(* for ever overtaken by two builds, changes of the vault reach the        *)
(* readers, whatever failed or died on the way.  (A vault without any note *)
(* is taken for one that is not mounted; then the last view stays.)        *)
(***************************************************************************)
ServedCatchesUp == <>[](swaps < 2) => <>[](Present = {} \/ snap.notes = Public)

(***************************************************************************)
(* "The last good copy (cut to today's notes)" (ro/README.md:24).  Does    *)
(* not hold of the edges: the copy says no longer by which note they are,  *)
(* and one that is by a note no longer in the view stays.                  *)
(***************************************************************************)
EdgesAreTodays ==
  \A d \in dirs : \A e \in d.graph.edges : e.by \in d.notes
=============================================================================
