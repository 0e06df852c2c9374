------------------------------- MODULE ViewProofs -------------------------------
(***************************************************************************)
(* Theorems about View for every vault, every graph of it, and any number  *)
(* of builds, loads, kills and restarts.                                   *)
(***************************************************************************)
EXTENDS View, TLAPS

(* A graph whose edges join nodes it has, and in which a community's name was
   written from nodes of that community which are still there. *)
Sound(g) ==
  /\ g \in Graphs
  /\ \A e \in g.edges : {e.from, e.to} \subseteq g.nodes
  /\ \A c \in Communities : g.names[c] \subseteq {x \in g.nodes : CommunityOf[x] = c}

(* What NothingPrivateShown says of one directory, with a sound graph. *)
ShowsNothing(d) ==
  /\ d \in Directories
  /\ \A l \in d.links : l[1] \in d.notes /\ l[2] \notin d.left
  /\ Sound(d.graph)
  /\ \A x \in d.graph.nodes : FileOf[x] \in d.notes

(* How far the build is says who refers to its directory. *)
LinkIsKept ==
  /\ linked => \E d \in dirs : "current" \in d.as /\ d.done
  /\ pc = "renaming" => \E d \in dirs : "new" \in d.as
  /\ pc = "linking" => \E d \in dirs : "new" \in d.as /\ d.done
  /\ pc = "clearing" => \E d \in dirs : {"new", "current"} \subseteq d.as /\ d.done

IInv ==
  /\ TypeOK
  /\ Sound(huginn)
  /\ \A d \in dirs : ShowsNothing(d)
  /\ LinkIsKept

Roles == {"current", "new", "previous", "loading", "loaded"}

-----------------------------------------------------------------------------
(* An empty graph and one that cannot be read show nothing. *)
LEMMA EmptyIsSound == Sound(Empty) /\ Sound(Broken)
  BY DEF Sound, Empty, Broken, Graphs

(* The graph of a vault shows nodes and edges of its notes only. *)
LEMMA GraphOfIsSound ==
  ASSUME NEW notes
  PROVE  Sound(GraphOf(notes))
  BY ViewAssumption DEF Sound, GraphOf, Graphs

(* Cutting a sound graph to some notes leaves a sound graph of these notes:
   a name that was written from a node that goes, goes too, because its
   community is tainted. *)
LEMMA PrunedIsSound ==
  ASSUME NEW g, Sound(g), NEW paths
  PROVE  Sound(Pruned(g, paths)) /\ \A x \in Pruned(g, paths).nodes : FileOf[x] \in paths
<1> DEFINE keep == {x \in g.nodes : FileOf[x] \in paths}
           tainted == {CommunityOf[x] : x \in g.nodes \ keep}
           p == Pruned(g, paths)
<1>1. g \in Graphs
  BY DEF Sound
<1>2. /\ p.usable = g.usable /\ p.sourced = FALSE /\ p.nodes = keep
      /\ p.edges = {e \in g.edges : {e.from, e.to} \subseteq keep /\ (g.sourced => e.by \in paths)}
      /\ p.names = [c \in Communities |-> IF c \in tainted THEN {} ELSE g.names[c]]
  BY <1>1 DEF Pruned, Graphs
<1>3. p \in Graphs
  BY <1>1, <1>2 DEF Pruned, Graphs
<1>4. \A c \in Communities : p.names[c] \subseteq {x \in p.nodes : CommunityOf[x] = c}
  <2> SUFFICES ASSUME NEW c \in Communities, NEW x \in p.names[c]
               PROVE  x \in keep /\ CommunityOf[x] = c
    BY <1>2
  <2>1. c \notin tainted /\ x \in g.names[c]
    BY <1>2
  <2>2. x \in g.nodes /\ CommunityOf[x] = c
    BY <2>1 DEF Sound
  <2>3. QED
    BY <2>1, <2>2
<1>5. QED
  BY <1>2, <1>3, <1>4 DEF Sound

(* Whatever graph is chosen, what is served of it is of the paths allowed. *)
LEMMA NotesGraphIsSound ==
  ASSUME NEW fresh, Sound(fresh), NEW previous, Sound(previous), NEW paths
  PROVE  /\ Sound(NotesGraph(fresh, previous, paths))
         /\ \A x \in NotesGraph(fresh, previous, paths).nodes : FileOf[x] \in paths
<1>1. NotesGraph(fresh, previous, paths) \in {Pruned(fresh, paths), Pruned(previous, paths), Empty}
  BY DEF NotesGraph
<1>2. Empty.nodes = {}
  BY DEF Empty
<1>3. QED
  BY <1>1, <1>2, PrunedIsSound, EmptyIsSound

-----------------------------------------------------------------------------
(* Who refers to a directory does not matter to what it shows, *)
LEMMA ReferShows ==
  ASSUME \A d \in dirs : ShowsNothing(d), NEW as \in Roles, NEW ds
  PROVE  \A e \in Refer(as, ds) : ShowsNothing(e)
<1> SUFFICES ASSUME NEW d \in dirs, NEW e, e = [d EXCEPT !.as = IF d \in ds THEN @ \cup {as} ELSE @ \ {as}]
             PROVE  ShowsNothing(e)
  BY DEF Refer
<1>1. d \in Directories
  BY DEF ShowsNothing
<1>2. /\ e \in Directories /\ e.links = d.links /\ e.notes = d.notes /\ e.left = d.left
      /\ e.graph = d.graph
  BY <1>1 DEF Directories, Roles
<1>3. QED
  BY <1>2 DEF ShowsNothing

(* and each directory is still there. *)
LEMMA ReferRoles ==
  ASSUME IInv, NEW as, NEW ds
  PROVE  \A d \in dirs : \E e \in Refer(as, ds) :
           e.done = d.done /\ e.as \ {as} = d.as \ {as} /\ (d \in ds => as \in e.as)
<1> TAKE d \in dirs
<1> DEFINE e == [d EXCEPT !.as = IF d \in ds THEN @ \cup {as} ELSE @ \ {as}]
<1>1. e \in Refer(as, ds)
  BY DEF Refer
<1>2. e.done = d.done /\ e.as \ {as} = d.as \ {as} /\ (d \in ds => as \in e.as)
  BY DEF Directories, IInv, TypeOK
<1>3. QED
  BY <1>1, <1>2

(* Taking roles from directories shows no more. *)
LEMMA WithoutShows ==
  ASSUME NEW ds, \A d \in ds : ShowsNothing(d), NEW roles
  PROVE  \A e \in Without(roles, ds) : ShowsNothing(e)
<1> SUFFICES ASSUME NEW d \in ds, NEW e,
                    e = IF d.as \subseteq roles THEN Rubble ELSE [d EXCEPT !.as = @ \ roles]
             PROVE  ShowsNothing(e)
  BY DEF Without
<1>1. CASE e = Rubble
  <2>1. Empty \in Graphs /\ Empty.nodes = {}
    BY EmptyIsSound DEF Sound, Empty
  <2>2. Rubble \in Directories
    BY <2>1 DEF Rubble, Directories
  <2>3. Rubble.links = {} /\ Rubble.graph = Empty
    BY DEF Rubble
  <2>4. QED
    BY <1>1, <2>1, <2>2, <2>3, EmptyIsSound DEF ShowsNothing
<1>2. CASE e = [d EXCEPT !.as = @ \ roles]
  <2>1. d \in Directories
    BY DEF ShowsNothing
  <2>2. /\ e \in Directories /\ e.links = d.links /\ e.notes = d.notes /\ e.left = d.left
        /\ e.graph = d.graph
    BY <1>2, <2>1 DEF Directories
  <2>3. QED
    BY <2>2 DEF ShowsNothing
<1>3. QED
  BY <1>1, <1>2

(* A directory with a role left keeps its content. *)
LEMMA WithoutRoles ==
  ASSUME NEW ds \in SUBSET Directories, NEW roles
  PROVE  \A d \in ds : ~(d.as \subseteq roles) =>
           \E e \in Without(roles, ds) : e.done = d.done /\ e.as = d.as \ roles
<1> SUFFICES ASSUME NEW d \in ds, ~(d.as \subseteq roles)
             PROVE  \E e \in Without(roles, ds) : e.done = d.done /\ e.as = d.as \ roles
  OBVIOUS
<1> DEFINE e == [d EXCEPT !.as = @ \ roles]
<1>1. e \in Without(roles, ds)
  BY DEF Without
<1>2. e.done = d.done /\ e.as = d.as \ roles
  BY DEF Directories
<1>3. QED
  BY <1>1, <1>2

-----------------------------------------------------------------------------
(* A step that leaves the directories' roles alone, or hands some out that no
   build has, keeps the link. *)
LEMMA LinkStays ==
  ASSUME LinkIsKept, UNCHANGED <<linked, pc>>,
         \A d \in dirs : d.as \cap {"new", "current"} # {} =>
           \E e \in dirs' : /\ e.done = d.done
                            /\ e.as \cap {"new", "current"} = d.as \cap {"new", "current"}
  PROVE  LinkIsKept'
<1>1. ASSUME NEW roles \in SUBSET {"new", "current"}, roles # {}, NEW done \in BOOLEAN,
             \E d \in dirs : roles \subseteq d.as /\ (done => d.done)
      PROVE  \E d \in dirs' : roles \subseteq d.as /\ (done => d.done)
  <2>1. PICK d \in dirs : roles \subseteq d.as /\ (done => d.done)
    BY <1>1
  <2>2. PICK e \in dirs' : /\ e.done = d.done
                           /\ e.as \cap {"new", "current"} = d.as \cap {"new", "current"}
    BY <1>1, <2>1
  <2>3. QED
    BY <2>1, <2>2
<1>2. linked' => \E d \in dirs' : "current" \in d.as /\ d.done
  BY <1>1 DEF LinkIsKept
<1>3. pc' = "renaming" => \E d \in dirs' : "new" \in d.as
  BY <1>1 DEF LinkIsKept
<1>4. pc' = "linking" => \E d \in dirs' : "new" \in d.as /\ d.done
  BY <1>1 DEF LinkIsKept
<1>5. pc' = "clearing" => \E d \in dirs' : {"new", "current"} \subseteq d.as /\ d.done
  BY <1>1 DEF LinkIsKept
<1>6. QED
  BY <1>2, <1>3, <1>4, <1>5 DEF LinkIsKept

(* What the directories are. *)
LEMMA TypesOf ==
  ASSUME IInv
  PROVE  dirs \subseteq Directories /\ Known("current") \subseteq dirs /\ Known("new") \subseteq dirs
  BY DEF IInv, TypeOK, Known

-----------------------------------------------------------------------------
(* The steps of the builder. *)
LEMMA WriteKeepsIInv ==
  ASSUME IInv, Write
  PROVE  IInv'
<1> DEFINE before == Refer("previous", Known("current"))
<1>1. PICK previous \in {d.graph : d \in Known("current")} \cup {g \in {Broken} : Gone("current")} :
        dirs' = before \cup
                  {[as |-> {"new"}, done |-> FALSE, notes |-> kept, links |-> Shown,
                    left |-> PrivateNotes, graph |-> NotesGraph(huginn, previous, kept)]}
  BY DEF Write
<1> DEFINE graph == NotesGraph(huginn, previous, kept)
           new == [as |-> {"new"}, done |-> FALSE, notes |-> kept, links |-> Shown,
                   left |-> PrivateNotes, graph |-> graph]
<1>2. Sound(previous)
  BY EmptyIsSound DEF IInv, ShowsNothing, Known
<1>3. Sound(graph) /\ \A x \in graph.nodes : FileOf[x] \in kept
  BY <1>2, NotesGraphIsSound DEF IInv
<1> HIDE DEF graph
<1>4. ShowsNothing(new)
  <2>1. new \in Directories
    BY <1>3 DEF Directories, Sound, IInv, TypeOK, Shown, PrivateNotes
  <2>2. \A l \in Shown : l[1] \in kept /\ l[2] \notin PrivateNotes
    BY DEF Shown
  <2>3. QED
    BY <1>3, <2>1, <2>2 DEF ShowsNothing
<1>5. \A e \in before : ShowsNothing(e)
  BY ReferShows DEF IInv, Roles
<1>6. \A e \in dirs' : ShowsNothing(e)
  BY <1>1, <1>4, <1>5 DEF graph
<1>7. dirs' \subseteq Directories
  BY <1>6 DEF ShowsNothing
<1>8. linked' => \E d \in dirs' : "current" \in d.as /\ d.done
  <2> SUFFICES ASSUME linked PROVE \E e \in before : "current" \in e.as /\ e.done
    BY <1>1 DEF Write
  <2>1. PICK d \in dirs : "current" \in d.as /\ d.done
    BY DEF IInv, LinkIsKept
  <2>2. PICK e \in before : /\ e.done = d.done
                            /\ e.as \ {"previous"} = d.as \ {"previous"}
    <3>1. \A x \in dirs : \E e \in Refer("previous", Known("current")) :
            e.done = x.done /\ e.as \ {"previous"} = x.as \ {"previous"}
      BY ReferRoles
    <3>2. QED
      BY <3>1
  <2>3. QED
    BY <2>1, <2>2
<1>9. \E d \in dirs' : "new" \in d.as
  <2>1. new \in dirs' /\ "new" \in new.as
    BY <1>1 DEF graph
  <2>2. QED
    BY <2>1
<1>10. LinkIsKept'
  BY <1>8, <1>9 DEF Write, LinkIsKept
<1>11. TypeOK'
  BY <1>7 DEF IInv, TypeOK, Write, server
<1>12. QED
  BY <1>6, <1>10, <1>11 DEF IInv, Write

(* The rename that completes a directory keeps the invariant. *)
LEMMA RenameKeepsIInv ==
  ASSUME IInv, Rename
  PROVE  IInv'
<1>1. dirs' = {[d EXCEPT !.done = @ \/ "new" \in d.as] : d \in dirs}
  BY DEF Rename
<1>2. ASSUME NEW d \in dirs, NEW e, e = [d EXCEPT !.done = @ \/ "new" \in d.as]
      PROVE  ShowsNothing(e) /\ e.as = d.as /\ e.done = (d.done \/ "new" \in d.as)
  <2>1. d \in Directories /\ ShowsNothing(d)
    BY DEF IInv, ShowsNothing
  <2>2. /\ e \in Directories /\ e.links = d.links /\ e.notes = d.notes /\ e.left = d.left
        /\ e.graph = d.graph /\ e.as = d.as /\ e.done = (d.done \/ "new" \in d.as)
    BY <1>2, <2>1 DEF Directories
  <2>3. QED
    BY <2>1, <2>2 DEF ShowsNothing
<1>3. \A e \in dirs' : ShowsNothing(e)
  BY <1>1, <1>2
<1> DEFINE Named(d) == [d EXCEPT !.done = @ \/ "new" \in d.as]
<1>10. \A d \in dirs : \E e \in dirs' : e.as = d.as /\ e.done = (d.done \/ "new" \in d.as)
  <2> TAKE d \in dirs
  <2>1. Named(d) \in dirs'
    BY <1>1
  <2>2. Named(d).as = d.as /\ Named(d).done = (d.done \/ "new" \in d.as)
    BY <1>2
  <2>3. QED
    BY <2>1, <2>2
<1> HIDE DEF Named
<1>4. linked' => \E e \in dirs' : "current" \in e.as /\ e.done
  <2>1. linked' => \E d \in dirs : "current" \in d.as /\ d.done
    BY DEF IInv, LinkIsKept, Rename
  <2>2. QED
    BY <2>1, <1>10
<1>5. \E e \in dirs' : "new" \in e.as /\ e.done
  <2>1. \E d \in dirs : "new" \in d.as
    BY DEF IInv, LinkIsKept, Rename
  <2>2. QED
    BY <2>1, <1>10
<1>6. LinkIsKept'
  BY <1>4, <1>5 DEF LinkIsKept, Rename
<1>7. dirs' \subseteq Directories
  BY <1>3 DEF ShowsNothing
<1>8. TypeOK'
  BY <1>7 DEF IInv, TypeOK, Rename, server
<1>9. QED
  BY <1>3, <1>6, <1>8 DEF IInv, Rename

(* Moving the link to the new directory keeps the invariant. *)
LEMMA SwapKeepsIInv ==
  ASSUME IInv, Swap
  PROVE  IInv'
<1> DEFINE moved == Refer("current", Known("new"))
<1>1. dirs' = Without({"loaded"}, moved)
  BY DEF Swap
<1>2. \A e \in moved : ShowsNothing(e)
  BY ReferShows DEF IInv, Roles
<1> HIDE DEF moved
<1>3. \A e \in dirs' : ShowsNothing(e)
  BY <1>1, <1>2, WithoutShows
<1>4. \E e \in dirs' : {"new", "current"} \subseteq e.as /\ e.done
  <2>1. PICK d \in dirs : "new" \in d.as /\ d.done
    BY DEF IInv, LinkIsKept, Swap
  <2>2. PICK m \in moved : /\ m.done = d.done /\ "current" \in m.as
                           /\ m.as \ {"current"} = d.as \ {"current"}
    <3>1. d \in Known("new")
      BY <2>1 DEF Known
    <3>2. QED
      BY <3>1, ReferRoles DEF moved
  <2>3. moved \in SUBSET Directories
    BY <1>2 DEF ShowsNothing
  <2>4. \E e \in dirs' : e.done = m.done /\ e.as = m.as \ {"loaded"}
    <3>1. ~(m.as \subseteq {"loaded"})
      BY <2>1, <2>2
    <3>2. QED
      BY <1>1, <2>3, <3>1, WithoutRoles
  <2>5. QED
    BY <2>1, <2>2, <2>4
<1>5. LinkIsKept'
  BY <1>4 DEF LinkIsKept, Swap
<1>6. dirs' \subseteq Directories
  BY <1>3 DEF ShowsNothing
<1>7. TypeOK'
  BY <1>6 DEF IInv, TypeOK, Swap, server
<1>8. QED
  BY <1>3, <1>5, <1>7 DEF IInv, Swap

(* What is removed is neither new nor linked. *)
LEMMA RemoveKeepsIInv ==
  ASSUME IInv, Remove
  PROVE  IInv'
<1>1. PICK x \in Clearing : dirs' = dirs \ {x}
  BY DEF Remove
<1>2. \E d \in dirs' : {"new", "current"} \subseteq d.as /\ d.done
  <2>1. PICK d \in dirs : {"new", "current"} \subseteq d.as /\ d.done
    BY DEF IInv, LinkIsKept, Remove
  <2>2. d \notin Clearing
    BY <2>1 DEF Clearing
  <2>3. QED
    BY <1>1, <2>1, <2>2
<1>3. LinkIsKept'
  BY <1>2 DEF LinkIsKept, Remove, builder
<1>4. TypeOK'
  BY <1>1 DEF IInv, TypeOK, Remove, server, builder
<1>5. QED
  BY <1>1, <1>3, <1>4 DEF IInv, Remove

(* A build that ends, well or not, keeps the invariant. *)
LEMMA EndedKeepsIInv ==
  ASSUME IInv, Ended, UNCHANGED <<vault, huginn, linked, server, swaps>>
  PROVE  IInv'
<1>1. dirs' = Without({"new", "previous"}, dirs)
  BY DEF Ended
<1>2. \A e \in dirs' : ShowsNothing(e)
  BY <1>1, WithoutShows DEF IInv
<1>3. linked' => \E e \in dirs' : "current" \in e.as /\ e.done
  <2> SUFFICES ASSUME linked PROVE \E e \in dirs' : "current" \in e.as /\ e.done
    OBVIOUS
  <2>1. PICK d \in dirs : "current" \in d.as /\ d.done
    BY DEF IInv, LinkIsKept
  <2>2. dirs \in SUBSET Directories /\ ~(d.as \subseteq {"new", "previous"})
    BY <2>1, TypesOf
  <2>3. \E e \in dirs' : e.done = d.done /\ e.as = d.as \ {"new", "previous"}
    BY <1>1, <2>2, WithoutRoles
  <2>4. QED
    BY <2>1, <2>3
<1>4. LinkIsKept'
  BY <1>3 DEF LinkIsKept, Ended
<1>5. dirs' \subseteq Directories
  BY <1>2 DEF ShowsNothing
<1>6. TypeOK'
  BY <1>5 DEF IInv, TypeOK, Ended, server
<1>7. QED
  BY <1>2, <1>4, <1>6 DEF IInv

-----------------------------------------------------------------------------
(* The steps of the server: the roles "loading" and "loaded" are all that they
   give or take. *)
LEMMA NoViewType ==
  NoView \in Loads /\ \A ns \in SUBSET Notes : [NoView EXCEPT !.notes = ns] \in Loads
<1>1. NoView \in Loads
  BY DEF NoView, Loads
<1>2. QED
  BY <1>1 DEF Loads

(* A server that resolves the link keeps the invariant. *)
LEMMA ResolveKeepsIInv ==
  ASSUME IInv, Resolve
  PROVE  IInv'
<1>1. dirs' = Refer("loading", Known("current"))
  BY DEF Resolve
<1>2. \A e \in dirs' : ShowsNothing(e)
  BY <1>1, ReferShows DEF IInv, Roles
<1>3. ASSUME NEW d \in dirs
      PROVE  \E e \in dirs' : /\ e.done = d.done
                              /\ e.as \cap {"new", "current"} = d.as \cap {"new", "current"}
  <2>1. PICK e \in dirs' : /\ e.done = d.done
                           /\ e.as \ {"loading"} = d.as \ {"loading"}
    BY <1>1, ReferRoles
  <2>2. QED
    BY <2>1
<1>4. LinkIsKept'
  BY <1>3, LinkStays DEF IInv, Resolve, builder
<1>5. dirs' \subseteq Directories
  BY <1>2 DEF ShowsNothing
<1>6. TypeOK'
  BY <1>5 DEF IInv, TypeOK, Resolve, builder
<1>7. QED
  BY <1>2, <1>4, <1>6 DEF IInv, Resolve

(* A server that takes over what it loaded keeps the invariant. *)
LEMMA ReadGraphsKeepsIInv ==
  ASSUME IInv, ReadGraphs
  PROVE  IInv'
<1> DEFINE loaded == Refer("loaded", Known("loading") \cap Known("current"))
<1>1. dirs' = Without({"loading"}, loaded)
  BY DEF ReadGraphs
<1>2. \A e \in loaded : ShowsNothing(e)
  BY ReferShows DEF IInv, Roles
<1>3. \A d \in dirs : \E m \in loaded :
        m.done = d.done /\ m.as \cap {"new", "current"} = d.as \cap {"new", "current"}
  <2> SUFFICES ASSUME NEW d \in dirs
               PROVE  \E m \in loaded : /\ m.done = d.done
                                        /\ m.as \cap {"new", "current"} = d.as \cap {"new", "current"}
    OBVIOUS
  <2>1. PICK m \in loaded : /\ m.done = d.done
                            /\ m.as \ {"loaded"} = d.as \ {"loaded"}
    BY ReferRoles
  <2>2. QED
    BY <2>1
<1> HIDE DEF loaded
<1>4. \A e \in dirs' : ShowsNothing(e)
  BY <1>1, <1>2, WithoutShows
<1>5. loaded \in SUBSET Directories
  BY <1>2 DEF ShowsNothing
<1>6. ASSUME NEW d \in dirs, d.as \cap {"new", "current"} # {}
      PROVE  \E e \in dirs' : /\ e.done = d.done
                              /\ e.as \cap {"new", "current"} = d.as \cap {"new", "current"}
  <2>1. PICK m \in loaded : /\ m.done = d.done
                            /\ m.as \cap {"new", "current"} = d.as \cap {"new", "current"}
    BY <1>3
  <2>2. ~(m.as \subseteq {"loading"})
    BY <1>6, <2>1
  <2>3. PICK e \in dirs' : e.done = m.done /\ e.as = m.as \ {"loading"}
    BY <1>1, <1>5, <2>2, WithoutRoles
  <2>4. QED
    BY <2>1, <2>3
<1>7. LinkIsKept'
  BY <1>6, LinkStays DEF IInv, ReadGraphs, builder
<1>8. dirs' \subseteq Directories
  BY <1>4 DEF ShowsNothing
<1>9. TypeOK'
  BY <1>8, NoViewType DEF IInv, TypeOK, ReadGraphs, builder, Loads
<1>10. QED
  BY <1>4, <1>7, <1>9 DEF IInv, ReadGraphs

(* A server that starts again keeps the invariant. *)
LEMMA RestartKeepsIInv ==
  ASSUME IInv, Restart
  PROVE  IInv'
<1>1. dirs' = Without({"loading", "loaded"}, dirs)
  BY DEF Restart
<1>2. \A e \in dirs' : ShowsNothing(e)
  BY <1>1, WithoutShows DEF IInv
<1>3. dirs \in SUBSET Directories
  BY TypesOf
<1>4. ASSUME NEW d \in dirs, d.as \cap {"new", "current"} # {}
      PROVE  \E e \in dirs' : /\ e.done = d.done
                              /\ e.as \cap {"new", "current"} = d.as \cap {"new", "current"}
  <2>1. ~(d.as \subseteq {"loading", "loaded"})
    BY <1>4
  <2>2. PICK e \in dirs' : e.done = d.done /\ e.as = d.as \ {"loading", "loaded"}
    BY <1>1, <1>3, <2>1, WithoutRoles
  <2>3. QED
    BY <2>2
<1>5. LinkIsKept'
  BY <1>4, LinkStays DEF IInv, Restart, builder
<1>6. dirs' \subseteq Directories
  BY <1>2 DEF ShowsNothing
<1>7. TypeOK'
  BY <1>6, NoViewType DEF IInv, TypeOK, Restart, builder
<1>8. QED
  BY <1>2, <1>5, <1>7 DEF IInv, Restart

(* A step that leaves the directories and the link alone. *)
LEMMA OthersKeepIInv ==
  ASSUME IInv, TypeOK', Sound(huginn)', UNCHANGED <<dirs, linked>>,
         pc' = pc \/ pc' \in {"idle", "reading", "writing"}
  PROVE  IInv'
  BY DEF IInv, LinkIsKept

(* Every step keeps the invariant. *)
LEMMA NextKeepsIInv ==
  ASSUME IInv, [Next]_vars
  PROVE  IInv'
<1>1. ASSUME NEW n \in Notes, NEW kind \in Kinds, Edit(n, kind)
      PROVE  IInv'
  BY <1>1, OthersKeepIInv DEF IInv, TypeOK, Edit, store, builder, server
<1>2. CASE Graphify
  <2>1. Sound(huginn')
    BY <1>2, GraphOfIsSound DEF Graphify
  <2>2. TypeOK'
    BY <1>2, <2>1 DEF IInv, TypeOK, Graphify, store, builder, server, Sound
  <2>3. QED
    BY <1>2, <2>1, <2>2, OthersKeepIInv DEF Graphify, store, builder
<1>3. CASE GraphLost
  <2>1. Sound(huginn')
    BY <1>3, EmptyIsSound DEF GraphLost
  <2>2. TypeOK'
    BY <1>3, <2>1 DEF IInv, TypeOK, GraphLost, store, builder, server, Sound
  <2>3. QED
    BY <1>3, <2>1, <2>2, OthersKeepIInv DEF GraphLost, store, builder
<1>4. CASE Scan
  <2>1. TypeOK'
    <3>1. every' \subseteq Notes
      BY <1>4 DEF Scan, Present
    <3>2. QED
      BY <1>4, <3>1 DEF IInv, TypeOK, Scan, store, server
  <2>2. QED
    BY <1>4, <2>1, OthersKeepIInv DEF IInv, Scan, store
<1>5. CASE Read
  BY <1>5, OthersKeepIInv DEF IInv, TypeOK, Read, store, server
<1>6. CASE Kill
  BY <1>6, EndedKeepsIInv DEF Kill
<1>7. CASE Finish
  BY <1>7, EndedKeepsIInv DEF Finish
<1>8. CASE Open
  <2>1. got' \in Loads
    <3>1. ASSUME NEW d \in Known("loading")
          PROVE  [NoView EXCEPT !.notes = d.notes] \in Loads
      <4>1. d.notes \subseteq Notes
        BY DEF IInv, TypeOK, Known, Directories
      <4>2. QED
        BY <4>1, NoViewType
    <3>2. QED
      BY <1>8, <3>1 DEF Open, IInv, TypeOK
  <2>2. TypeOK'
    BY <1>8, <2>1 DEF IInv, TypeOK, Open, store, builder
  <2>3. QED
    BY <1>8, <2>2, OthersKeepIInv DEF IInv, Open, store, builder
<1>9. CASE ReadNotes
  <2>1. got' \in Loads
    BY <1>9 DEF IInv, TypeOK, ReadNotes, Loads
  <2>2. TypeOK'
    BY <1>9, <2>1 DEF IInv, TypeOK, ReadNotes, store, builder
  <2>3. QED
    BY <1>9, <2>2, OthersKeepIInv DEF IInv, ReadNotes, store, builder
<1>10. CASE UNCHANGED vars
  BY <1>10, OthersKeepIInv DEF IInv, TypeOK, vars, store, builder, server
<1>11. QED
  BY <1>1, <1>2, <1>3, <1>4, <1>5, <1>6, <1>7, <1>8, <1>9, <1>10,
     WriteKeepsIInv, RenameKeepsIInv, SwapKeepsIInv, RemoveKeepsIInv,
     ResolveKeepsIInv, ReadGraphsKeepsIInv, RestartKeepsIInv
     DEF Next, Build, Serve

(* The invariant holds in every reachable state. *)
LEMMA SpecKeepsIInv == Spec => []IInv
<1>1. Init => IInv
  <2> SUFFICES ASSUME Init PROVE IInv
    OBVIOUS
  <2>1. TypeOK
    <3>1. huginn \in Graphs
      BY EmptyIsSound DEF Init, Sound
    <3>2. got \in Loads /\ snap \in Loads
      BY NoViewType DEF Init
    <3>3. vault \in [Notes -> Kinds]
      BY DEF Init, Kinds
    <3>4. dirs \subseteq Directories /\ every \subseteq Notes /\ kept \subseteq Notes
      BY DEF Init
    <3>5. linked \in BOOLEAN
      BY Zenon DEF Init
    <3>6. swaps \in 0..2
      BY DEF Init
    <3>7. QED
      BY <3>1, <3>2, <3>3, <3>4, <3>5, <3>6 DEF Init, TypeOK
  <2>2. Sound(huginn)
    BY EmptyIsSound DEF Init
  <2>3. QED
    BY <2>1, <2>2 DEF Init, IInv, LinkIsKept
<1>2. IInv /\ [Next]_vars => IInv'
  BY NextKeepsIInv
<1>3. QED
  BY <1>1, <1>2, PTL DEF Spec

(***************************************************************************)
(* Whatever notes, links and graphs there are and in whatever order notes  *)
(* change, graphs come and builds die: no view has a link to a note it     *)
(* leaves out, a node of one or a community's name written from one        *)
(* (prune_notes_graph, notes_graph and rewrite_links of build-view.py).    *)
(***************************************************************************)
THEOREM NothingPrivateIsShown == Spec => []NothingPrivateShown
<1>1. IInv => NothingPrivateShown
  <2> SUFFICES ASSUME IInv, NEW v \in dirs
               PROVE  LET inside == {x \in Nodes : FileOf[x] \in v.notes} IN
                      /\ \A l \in v.links : l[1] \in v.notes /\ l[2] \notin v.left
                      /\ v.graph.nodes \subseteq inside
                      /\ \A e \in v.graph.edges : {e.from, e.to} \subseteq v.graph.nodes
                      /\ \A c \in Communities : v.graph.names[c] \subseteq inside
    BY DEF NothingPrivateShown
  <2>1. ShowsNothing(v) /\ Sound(v.graph) /\ v.graph \in Graphs
    BY DEF IInv, ShowsNothing, Sound
  <2>2. v.graph.nodes \subseteq {x \in Nodes : FileOf[x] \in v.notes}
    BY <2>1 DEF ShowsNothing, Graphs
  <2>3. QED
    BY <2>1, <2>2 DEF ShowsNothing, Sound
<1>2. QED
  BY <1>1, SpecKeepsIInv, PTL

(***************************************************************************)
(* Once a view has been linked, the link points at a finished view in      *)
(* every state, wherever a build is killed and whatever it removes (build, *)
(* install and clean up in build-view.py).                                 *)
(***************************************************************************)
THEOREM ThereIsAlwaysAView == Spec => []AlwaysAView
<1>1. IInv => AlwaysAView
  BY DEF IInv, LinkIsKept, AlwaysAView, Known
<1>2. QED
  BY <1>1, SpecKeepsIInv, PTL

-----------------------------------------------------------------------------
(* Why a load that is overtaken once lacks nothing.  The roles of a directory
   agree with how far the build is: what was linked before it is "previous"
   until the link moves, and then what is linked is "new". *)
Agree(as, done, at) ==
  /\ "current" \in as => done
  /\ "loaded" \in as => "current" \in as
  /\ at \in {"renaming", "linking"} /\ "current" \in as => "previous" \in as
  /\ at \in {"linking", "clearing"} /\ "new" \in as => done
  /\ at = "clearing" /\ "current" \in as => "new" \in as
RolesAgree == \A d \in dirs : Agree(d.as, d.done, pc)

(* What is loaded is linked still, or was until the last move of the link,
   and then a build that clears up keeps it. *)
LoadIsSafe ==
  reader # "idle" =>
    /\ swaps = 0 => \E d \in dirs : {"loading", "current"} \subseteq d.as
    /\ swaps = 1 => \E d \in dirs : /\ "loading" \in d.as /\ d.done
                                    /\ pc = "clearing" => "previous" \in d.as
    /\ reader # "opening" /\ swaps < 2 => got.whole

LoadInv == RolesAgree /\ LoadIsSafe /\ SnapshotIsWhole

(* Where the directories come from that a step leaves. *)
LEMMA ReferParts ==
  ASSUME IInv, NEW as, NEW ds
  PROVE  \A e \in Refer(as, ds) : \E d \in dirs :
           /\ e.done = d.done
           /\ (d \in ds /\ e.as = d.as \cup {as}) \/ (d \notin ds /\ e.as = d.as \ {as})
<1> SUFFICES ASSUME NEW d \in dirs, NEW e, e = [d EXCEPT !.as = IF d \in ds THEN @ \cup {as} ELSE @ \ {as}]
             PROVE  /\ e.done = d.done
                    /\ (d \in ds /\ e.as = d.as \cup {as}) \/ (d \notin ds /\ e.as = d.as \ {as})
  BY DEF Refer
<1>1. d \in Directories
  BY DEF IInv, TypeOK
<1>2. QED
  BY <1>1 DEF Directories

(* Of one that nobody refers to any more nothing is known. *)
LEMMA WithoutParts ==
  ASSUME NEW ds \in SUBSET Directories, NEW roles
  PROVE  \A e : e \in Without(roles, ds) =>
           e.as = {} \/ \E d \in ds : e.done = d.done /\ e.as = d.as \ roles
<1> SUFFICES ASSUME NEW d \in ds, NEW e,
                    e = IF d.as \subseteq roles THEN Rubble ELSE [d EXCEPT !.as = @ \ roles]
             PROVE  e.as = {} \/ (e.done = d.done /\ e.as = d.as \ roles)
  BY DEF Without
<1>1. CASE e = Rubble
  <2>1. Rubble.as = {}
    BY DEF Rubble
  <2>2. QED
    BY <1>1, <2>1
<1>2. CASE e = [d EXCEPT !.as = @ \ roles]
  BY <1>2 DEF Directories
<1>3. QED
  BY <1>1, <1>2

(* A directory without a role agrees with everything. *)
LEMMA RubbleAgrees ==
  ASSUME NEW done, NEW at
  PROVE  Agree({}, done, at)
  BY DEF Agree

(* The steps that leave directories and loads alone. *)
LEMMA OthersKeepLoad ==
  ASSUME LoadInv, UNCHANGED <<dirs, reader, got, snap, swaps>>,
         pc' = pc \/ pc' \in {"idle", "reading", "writing"}
  PROVE  LoadInv'
<1>1. RolesAgree'
  BY DEF LoadInv, RolesAgree, Agree
<1>2. LoadIsSafe'
  BY DEF LoadInv, LoadIsSafe
<1>3. QED
  BY <1>1, <1>2 DEF LoadInv, SnapshotIsWhole

(* A new directory, and the role of the one before it. *)
LEMMA WriteKeepsLoad ==
  ASSUME IInv, LoadInv, Write
  PROVE  LoadInv'
<1> DEFINE before == Refer("previous", Known("current"))
<1>1. PICK new : dirs' = before \cup {new} /\ new.as = {"new"}
  <2>1. PICK graph : dirs' = before \cup
                       {[as |-> {"new"}, done |-> FALSE, notes |-> kept, links |-> Shown,
                         left |-> PrivateNotes, graph |-> graph]}
    BY DEF Write
  <2>2. [as |-> {"new"}, done |-> FALSE, notes |-> kept, links |-> Shown,
         left |-> PrivateNotes, graph |-> graph].as = {"new"}
    OBVIOUS
  <2>3. QED
    BY <2>1, <2>2
<1>2. pc = "writing" /\ pc' = "renaming" /\ UNCHANGED <<reader, got, snap, swaps>>
  BY DEF Write, server
<1>3. ASSUME NEW e \in before
      PROVE  Agree(e.as, e.done, "renaming")
  <2>1. PICK d \in dirs : /\ e.done = d.done
                          /\ \/ d \in Known("current") /\ e.as = d.as \cup {"previous"}
                             \/ d \notin Known("current") /\ e.as = d.as \ {"previous"}
    BY ReferParts
  <2>2. Agree(d.as, d.done, pc) /\ (d \in Known("current") <=> "current" \in d.as)
    BY DEF LoadInv, RolesAgree, Known
  <2>3. QED
    BY <2>1, <2>2 DEF Agree
<1>4. Agree({"new"}, new.done, "renaming")
  BY DEF Agree
<1>5. RolesAgree'
  BY <1>1, <1>2, <1>3, <1>4 DEF RolesAgree
<1>6. \A d \in dirs : \E e \in dirs' : e.done = d.done /\ e.as \ {"previous"} = d.as \ {"previous"}
  <2> TAKE d \in dirs
  <2>1. PICK e \in before : e.done = d.done /\ e.as \ {"previous"} = d.as \ {"previous"}
    BY ReferRoles
  <2>2. QED
    BY <1>1, <2>1
<1> HIDE DEF before
<1>7. LoadIsSafe'
  <2> SUFFICES ASSUME reader # "idle"
               PROVE  /\ swaps = 0 => \E d \in dirs' : {"loading", "current"} \subseteq d.as
                      /\ swaps = 1 => \E d \in dirs' : "loading" \in d.as /\ d.done
                      /\ reader # "opening" /\ swaps < 2 => got.whole
    BY <1>2 DEF LoadIsSafe
  <2>1. swaps = 0 => \E d \in dirs' : {"loading", "current"} \subseteq d.as
    <3>1. swaps = 0 => \E d \in dirs : {"loading", "current"} \subseteq d.as
      BY DEF LoadInv, LoadIsSafe
    <3>2. \A d \in dirs : {"loading", "current"} \subseteq d.as =>
            \E e \in dirs' : {"loading", "current"} \subseteq e.as
      <4> SUFFICES ASSUME NEW d \in dirs, {"loading", "current"} \subseteq d.as
                   PROVE  \E e \in dirs' : {"loading", "current"} \subseteq e.as
        OBVIOUS
      <4>1. PICK e \in dirs' : e.as \ {"previous"} = d.as \ {"previous"}
        BY <1>6
      <4>2. QED
        BY <4>1
    <3>3. QED
      BY <3>1, <3>2
  <2>2. swaps = 1 => \E d \in dirs' : "loading" \in d.as /\ d.done
    <3>1. swaps = 1 => \E d \in dirs : "loading" \in d.as /\ d.done
      BY DEF LoadInv, LoadIsSafe
    <3>2. \A d \in dirs : "loading" \in d.as /\ d.done => \E e \in dirs' : "loading" \in e.as /\ e.done
      <4> SUFFICES ASSUME NEW d \in dirs, "loading" \in d.as, d.done
                   PROVE  \E e \in dirs' : "loading" \in e.as /\ e.done
        OBVIOUS
      <4>1. PICK e \in dirs' : e.done = d.done /\ e.as \ {"previous"} = d.as \ {"previous"}
        BY <1>6
      <4>2. QED
        BY <4>1
    <3>3. QED
      BY <3>1, <3>2
  <2>3. QED
    BY <2>1, <2>2 DEF LoadInv, LoadIsSafe
<1>8. QED
  BY <1>2, <1>5, <1>7 DEF LoadInv, SnapshotIsWhole

(* The directory of the build is done. *)
LEMMA RenameKeepsLoad ==
  ASSUME IInv, LoadInv, Rename
  PROVE  LoadInv'
<1> DEFINE Named(d) == [d EXCEPT !.done = @ \/ "new" \in d.as]
<1>1. /\ dirs' = {Named(d) : d \in dirs} /\ pc = "renaming" /\ pc' = "linking"
      /\ UNCHANGED <<reader, got, snap, swaps>>
  BY DEF Rename, server
<1>2. ASSUME NEW d \in dirs
      PROVE  /\ Named(d) \in dirs' /\ Named(d).as = d.as
             /\ Named(d).done = (d.done \/ "new" \in d.as)
  <2>1. d \in Directories
    BY DEF IInv, TypeOK
  <2>2. QED
    BY <1>1, <2>1 DEF Directories
<1>3. ASSUME NEW d \in dirs
      PROVE  Agree(d.as, d.done \/ "new" \in d.as, "linking")
  <2>1. Agree(d.as, d.done, "renaming")
    BY <1>1 DEF LoadInv, RolesAgree
  <2>2. QED
    BY <2>1 DEF Agree
<1> HIDE DEF Named
<1>4. RolesAgree'
  BY <1>1, <1>2, <1>3 DEF RolesAgree
<1>5. LoadIsSafe'
  <2> SUFFICES ASSUME reader # "idle"
               PROVE  /\ swaps = 0 => \E d \in dirs' : {"loading", "current"} \subseteq d.as
                      /\ swaps = 1 => \E d \in dirs' : "loading" \in d.as /\ d.done
                      /\ reader # "opening" /\ swaps < 2 => got.whole
    BY <1>1 DEF LoadIsSafe
  <2>1. swaps = 0 => \E d \in dirs' : {"loading", "current"} \subseteq d.as
    BY <1>2 DEF LoadInv, LoadIsSafe
  <2>2. swaps = 1 => \E d \in dirs' : "loading" \in d.as /\ d.done
    BY <1>2 DEF LoadInv, LoadIsSafe
  <2>3. QED
    BY <2>1, <2>2 DEF LoadInv, LoadIsSafe
<1>6. QED
  BY <1>1, <1>4, <1>5 DEF LoadInv, SnapshotIsWhole

(* The link moves: what was linked is what this build calls previous. *)
LEMMA SwapKeepsLoad ==
  ASSUME IInv, LoadInv, Swap
  PROVE  LoadInv'
<1> DEFINE moved == Refer("current", Known("new"))
<1>1. /\ dirs' = Without({"loaded"}, moved) /\ pc = "linking" /\ pc' = "clearing"
      /\ UNCHANGED <<reader, got, snap>>
      /\ reader # "idle" => swaps' = IF swaps = 0 THEN 1 ELSE 2
  BY DEF Swap, server
<1>2. moved \in SUBSET Directories
  BY ReferShows DEF IInv, Roles, ShowsNothing
<1>3. ASSUME NEW e \in dirs'
      PROVE  Agree(e.as, e.done, "clearing")
  <2>1. CASE e.as = {}
    BY <2>1, RubbleAgrees
  <2>2. CASE \E m \in moved : e.done = m.done /\ e.as = m.as \ {"loaded"}
    <3>1. PICK m \in moved : e.done = m.done /\ e.as = m.as \ {"loaded"}
      BY <2>2
    <3>2. PICK d \in dirs : /\ m.done = d.done
                            /\ \/ d \in Known("new") /\ m.as = d.as \cup {"current"}
                               \/ d \notin Known("new") /\ m.as = d.as \ {"current"}
      BY ReferParts
    <3>3. Agree(d.as, d.done, "linking") /\ (d \in Known("new") <=> "new" \in d.as)
      BY <1>1 DEF LoadInv, RolesAgree, Known
    <3>4. QED
      BY <3>1, <3>2, <3>3 DEF Agree
  <2>3. e.as = {} \/ \E m \in moved : e.done = m.done /\ e.as = m.as \ {"loaded"}
    <3>1. \A x : x \in Without({"loaded"}, moved) =>
             x.as = {} \/ \E m \in moved : x.done = m.done /\ x.as = m.as \ {"loaded"}
      BY <1>2, WithoutParts
    <3>2. QED
      BY <1>1, <3>1
  <2>4. QED
    BY <2>1, <2>2, <2>3
<1>4. RolesAgree'
  BY <1>1, <1>3 DEF RolesAgree
<1>5. LoadIsSafe'
  <2> SUFFICES ASSUME reader # "idle", swaps = 0
               PROVE  /\ \E e \in dirs' : "loading" \in e.as /\ e.done /\ "previous" \in e.as
                      /\ reader # "opening" => got.whole
    BY <1>1 DEF LoadIsSafe
  <2>1. PICK d \in dirs : {"loading", "current"} \subseteq d.as
    BY DEF LoadInv, LoadIsSafe
  <2>2. "previous" \in d.as /\ d.done
    BY <1>1, <2>1 DEF LoadInv, RolesAgree, Agree
  <2>3. PICK m \in moved : m.done = d.done /\ m.as \ {"current"} = d.as \ {"current"}
    BY ReferRoles
  <2>4. "loading" \in m.as /\ "previous" \in m.as /\ m.done
    BY <2>1, <2>2, <2>3
  <2>5. PICK e \in dirs' : e.done = m.done /\ e.as = m.as \ {"loaded"}
    <3>1. ~(m.as \subseteq {"loaded"})
      BY <2>4
    <3>2. QED
      BY <1>1, <1>2, <3>1, WithoutRoles
  <2>6. "loading" \in e.as /\ e.done /\ "previous" \in e.as
    BY <2>4, <2>5
  <2>7. QED
    BY <2>6 DEF LoadInv, LoadIsSafe
<1>6. QED
  BY <1>1, <1>4, <1>5 DEF LoadInv, SnapshotIsWhole

(* What is removed is not what is being loaded. *)
LEMMA RemoveKeepsLoad ==
  ASSUME IInv, LoadInv, Remove
  PROVE  LoadInv'
<1>1. PICK x \in Clearing : dirs' = dirs \ {x}
  BY DEF Remove
<1>2. pc = "clearing" /\ UNCHANGED <<pc, reader, got, snap, swaps>>
  BY DEF Remove, server, builder
<1>3. RolesAgree'
  BY <1>1, <1>2 DEF LoadInv, RolesAgree
<1>4. LoadIsSafe'
  <2> SUFFICES ASSUME reader # "idle"
               PROVE  /\ swaps = 0 => \E d \in dirs' : {"loading", "current"} \subseteq d.as
                      /\ swaps = 1 => \E d \in dirs' : "loading" \in d.as /\ d.done /\ "previous" \in d.as
                      /\ reader # "opening" /\ swaps < 2 => got.whole
    BY <1>2 DEF LoadIsSafe
  <2>1. ASSUME swaps = 0
        PROVE  \E d \in dirs' : {"loading", "current"} \subseteq d.as
    <3>1. PICK d \in dirs : {"loading", "current"} \subseteq d.as
      BY <2>1 DEF LoadInv, LoadIsSafe
    <3>2. d.done /\ "new" \in d.as
      BY <1>2, <3>1 DEF LoadInv, RolesAgree, Agree
    <3>3. d \notin Clearing
      BY <3>2 DEF Clearing
    <3>4. QED
      BY <1>1, <3>1, <3>3
  <2>2. ASSUME swaps = 1
        PROVE  \E d \in dirs' : "loading" \in d.as /\ d.done /\ "previous" \in d.as
    <3>1. PICK d \in dirs : "loading" \in d.as /\ d.done /\ "previous" \in d.as
      BY <1>2, <2>2 DEF LoadInv, LoadIsSafe
    <3>2. d \notin Clearing
      BY <3>1 DEF Clearing
    <3>3. QED
      BY <1>1, <3>1, <3>2
  <2>3. QED
    BY <2>1, <2>2 DEF LoadInv, LoadIsSafe
<1>5. QED
  BY <1>2, <1>3, <1>4 DEF LoadInv, SnapshotIsWhole

(* A build that ends takes its own roles away, and nothing is removed then. *)
LEMMA EndedKeepsLoad ==
  ASSUME IInv, LoadInv, Ended, UNCHANGED <<reader, got, snap, swaps>>
  PROVE  LoadInv'
<1>1. dirs' = Without({"new", "previous"}, dirs) /\ pc' = "idle"
  BY DEF Ended
<1>2. dirs \in SUBSET Directories
  BY TypesOf
<1>3. ASSUME NEW e \in dirs'
      PROVE  Agree(e.as, e.done, "idle")
  <2>1. CASE e.as = {}
    BY <2>1, RubbleAgrees
  <2>2. CASE \E d \in dirs : e.done = d.done /\ e.as = d.as \ {"new", "previous"}
    <3>1. PICK d \in dirs : e.done = d.done /\ e.as = d.as \ {"new", "previous"}
      BY <2>2
    <3>2. Agree(d.as, d.done, pc)
      BY DEF LoadInv, RolesAgree
    <3>3. QED
      BY <3>1, <3>2 DEF Agree
  <2>3. e.as = {} \/ \E d \in dirs : e.done = d.done /\ e.as = d.as \ {"new", "previous"}
    <3>1. \A x : x \in Without({"new", "previous"}, dirs) =>
             x.as = {} \/ \E d \in dirs : x.done = d.done /\ x.as = d.as \ {"new", "previous"}
      BY <1>2, WithoutParts
    <3>2. QED
      BY <1>1, <3>1
  <2>4. QED
    BY <2>1, <2>2, <2>3
<1>4. RolesAgree'
  BY <1>1, <1>3 DEF RolesAgree
<1>5. ASSUME NEW d \in dirs, "loading" \in d.as
      PROVE  \E e \in dirs' : e.done = d.done /\ e.as = d.as \ {"new", "previous"}
  <2>1. ~(d.as \subseteq {"new", "previous"})
    BY <1>5
  <2>2. QED
    BY <1>1, <1>2, <2>1, WithoutRoles
<1>6. LoadIsSafe'
  <2> SUFFICES ASSUME reader # "idle"
               PROVE  /\ swaps = 0 => \E d \in dirs' : {"loading", "current"} \subseteq d.as
                      /\ swaps = 1 => \E d \in dirs' : "loading" \in d.as /\ d.done
                      /\ reader # "opening" /\ swaps < 2 => got.whole
    BY <1>1 DEF LoadIsSafe
  <2>1. ASSUME swaps = 0
        PROVE  \E d \in dirs' : {"loading", "current"} \subseteq d.as
    <3>1. PICK d \in dirs : {"loading", "current"} \subseteq d.as
      BY <2>1 DEF LoadInv, LoadIsSafe
    <3>2. PICK e \in dirs' : e.as = d.as \ {"new", "previous"}
      BY <1>5, <3>1
    <3>3. QED
      BY <3>1, <3>2
  <2>2. ASSUME swaps = 1
        PROVE  \E d \in dirs' : "loading" \in d.as /\ d.done
    <3>1. PICK d \in dirs : "loading" \in d.as /\ d.done
      BY <2>2 DEF LoadInv, LoadIsSafe
    <3>2. PICK e \in dirs' : e.done = d.done /\ e.as = d.as \ {"new", "previous"}
      BY <1>5, <3>1
    <3>3. QED
      BY <3>1, <3>2
  <2>3. QED
    BY <2>1, <2>2 DEF LoadInv, LoadIsSafe
<1>7. QED
  BY <1>4, <1>6 DEF LoadInv, SnapshotIsWhole

(* A load begins at what is linked. *)
LEMMA ResolveKeepsLoad ==
  ASSUME IInv, LoadInv, Resolve
  PROVE  LoadInv'
<1>1. /\ dirs' = Refer("loading", Known("current")) /\ Known("current") # Known("loaded")
      /\ reader' = "opening" /\ swaps' = 0 /\ UNCHANGED <<pc, got, snap>>
  BY DEF Resolve, builder
<1>2. ASSUME NEW e \in dirs'
      PROVE  Agree(e.as, e.done, pc)
  <2>1. PICK d \in dirs : /\ e.done = d.done
                          /\ \/ d \in Known("current") /\ e.as = d.as \cup {"loading"}
                             \/ d \notin Known("current") /\ e.as = d.as \ {"loading"}
    BY <1>1, ReferParts
  <2>2. Agree(d.as, d.done, pc)
    BY DEF LoadInv, RolesAgree
  <2>3. QED
    BY <2>1, <2>2 DEF Agree
<1>3. PICK d \in dirs : "current" \in d.as
  <2>1. Known("loaded") \subseteq Known("current")
    BY DEF LoadInv, RolesAgree, Agree, Known
  <2>2. QED
    BY <1>1, <2>1 DEF Known
<1>4. d \in Known("current")
  BY <1>3 DEF Known
<1>5. PICK e \in dirs' : e.as \ {"loading"} = d.as \ {"loading"} /\ "loading" \in e.as
  BY <1>1, <1>4, ReferRoles
<1>6. {"loading", "current"} \subseteq e.as
  BY <1>3, <1>5
<1>7. RolesAgree' /\ LoadIsSafe'
  BY <1>1, <1>2, <1>6 DEF RolesAgree, LoadIsSafe
<1>8. QED
  BY <1>1, <1>7 DEF LoadInv, SnapshotIsWhole

(* The directory is there when it is opened and while its notes are read. *)
LEMMA ReadingKeepsLoad ==
  ASSUME IInv, LoadInv, Open \/ ReadNotes
  PROVE  LoadInv'
<1>1. UNCHANGED <<dirs, pc, snap, swaps>> /\ reader # "idle"
  BY DEF Open, ReadNotes, store, builder
<1>2. swaps < 2 => Known("loading") # {}
  BY <1>1 DEF LoadInv, LoadIsSafe, Known, IInv, TypeOK
<1>3. reader' # "idle" /\ reader' # "opening" /\ swaps < 2 => got'.whole
  <2>1. CASE Open
    <3>1. \A d : [NoView EXCEPT !.notes = d.notes].whole = TRUE
      BY DEF NoView
    <3>2. QED
      BY <2>1, <3>1 DEF Open
  <2>2. CASE ReadNotes
    BY <1>2, <2>2 DEF ReadNotes, Gone, LoadInv, LoadIsSafe
  <2>3. QED
    BY <2>1, <2>2
<1>4. LoadIsSafe'
  BY <1>1, <1>3 DEF LoadInv, LoadIsSafe
<1>5. RolesAgree'
  BY <1>1 DEF LoadInv, RolesAgree
<1>6. QED
  BY <1>1, <1>4, <1>5 DEF LoadInv, SnapshotIsWhole

(* And so the snapshot is whole. *)
LEMMA ReadGraphsKeepsLoad ==
  ASSUME IInv, LoadInv, ReadGraphs
  PROVE  LoadInv'
<1> DEFINE loaded == Refer("loaded", Known("loading") \cap Known("current"))
<1>1. /\ dirs' = Without({"loading"}, loaded) /\ reader = "graphs" /\ reader' = "idle"
      /\ snap' = [got EXCEPT !.whole = @ /\ ~Gone("loading"), !.swaps = swaps]
      /\ UNCHANGED pc
  BY DEF ReadGraphs, builder
<1>2. loaded \in SUBSET Directories
  BY ReferShows DEF IInv, Roles, ShowsNothing
<1>3. ASSUME NEW e \in dirs'
      PROVE  Agree(e.as, e.done, pc)
  <2>1. CASE e.as = {}
    BY <2>1, RubbleAgrees
  <2>2. CASE \E m \in loaded : e.done = m.done /\ e.as = m.as \ {"loading"}
    <3>1. PICK m \in loaded : e.done = m.done /\ e.as = m.as \ {"loading"}
      BY <2>2
    <3>2. PICK d \in dirs :
            /\ m.done = d.done
            /\ \/ d \in Known("loading") \cap Known("current") /\ m.as = d.as \cup {"loaded"}
               \/ d \notin Known("loading") \cap Known("current") /\ m.as = d.as \ {"loaded"}
      BY ReferParts
    <3>3. Agree(d.as, d.done, pc) /\ (d \in Known("current") => "current" \in d.as)
      BY DEF LoadInv, RolesAgree, Known
    <3>4. QED
      BY <3>1, <3>2, <3>3 DEF Agree
  <2>3. e.as = {} \/ \E m \in loaded : e.done = m.done /\ e.as = m.as \ {"loading"}
    <3>1. \A x : x \in Without({"loading"}, loaded) =>
             x.as = {} \/ \E m \in loaded : x.done = m.done /\ x.as = m.as \ {"loading"}
      BY <1>2, WithoutParts
    <3>2. QED
      BY <1>1, <3>1
  <2>4. QED
    BY <2>1, <2>2, <2>3
<1>4. RolesAgree'
  BY <1>1, <1>3 DEF RolesAgree
<1>5. SnapshotIsWhole'
  <2>1. got \in Loads /\ swaps \in 0..2
    BY DEF IInv, TypeOK
  <2>2. snap'.swaps = swaps /\ snap'.whole = (got.whole /\ ~Gone("loading"))
    BY <1>1, <2>1 DEF Loads
  <2>3. swaps < 2 => got.whole /\ Known("loading") # {}
    BY <1>1, <2>1 DEF LoadInv, LoadIsSafe, Known
  <2>4. CASE swaps < 2
    <3>1. ~Gone("loading") /\ got.whole
      BY <2>3, <2>4 DEF Gone
    <3>2. snap'.whole
      BY <2>2, <3>1, Zenon
    <3>3. QED
      BY <3>2 DEF SnapshotIsWhole
  <2>5. CASE swaps = 2
    BY <2>2, <2>5 DEF SnapshotIsWhole
  <2>6. QED
    BY <2>1, <2>4, <2>5
<1>6. QED
  BY <1>1, <1>4, <1>5 DEF LoadInv, LoadIsSafe

(* A server that starts has loaded nothing. *)
LEMMA RestartKeepsLoad ==
  ASSUME IInv, LoadInv, Restart
  PROVE  LoadInv'
<1>1. /\ dirs' = Without({"loading", "loaded"}, dirs) /\ reader' = "idle" /\ snap' = NoView
      /\ UNCHANGED pc
  BY DEF Restart, builder
<1>2. dirs \in SUBSET Directories
  BY TypesOf
<1>3. ASSUME NEW e \in dirs'
      PROVE  Agree(e.as, e.done, pc)
  <2>1. CASE e.as = {}
    BY <2>1, RubbleAgrees
  <2>2. CASE \E d \in dirs : e.done = d.done /\ e.as = d.as \ {"loading", "loaded"}
    <3>1. PICK d \in dirs : e.done = d.done /\ e.as = d.as \ {"loading", "loaded"}
      BY <2>2
    <3>2. Agree(d.as, d.done, pc)
      BY DEF LoadInv, RolesAgree
    <3>3. QED
      BY <3>1, <3>2 DEF Agree
  <2>3. e.as = {} \/ \E d \in dirs : e.done = d.done /\ e.as = d.as \ {"loading", "loaded"}
    <3>1. \A x : x \in Without({"loading", "loaded"}, dirs) =>
             x.as = {} \/ \E d \in dirs : x.done = d.done /\ x.as = d.as \ {"loading", "loaded"}
      BY <1>2, WithoutParts
    <3>2. QED
      BY <1>1, <3>1
  <2>4. QED
    BY <2>1, <2>2, <2>3
<1>4. SnapshotIsWhole'
  BY <1>1 DEF SnapshotIsWhole, NoView
<1>5. QED
  BY <1>1, <1>3, <1>4 DEF LoadInv, LoadIsSafe, RolesAgree

(* Every step keeps loads safe. *)
LEMMA NextKeepsLoad ==
  ASSUME IInv, LoadInv, [Next]_vars
  PROVE  LoadInv'
<1>1. CASE \/ \E n \in Notes, kind \in Kinds : Edit(n, kind)
           \/ Graphify \/ GraphLost \/ Scan \/ Read \/ UNCHANGED vars
  <2>1. /\ UNCHANGED <<dirs, reader, got, snap, swaps>>
        /\ pc' = pc \/ pc' \in {"idle", "reading", "writing"}
    BY <1>1 DEF Edit, Graphify, GraphLost, Scan, Read, vars, store, builder, server
  <2>2. QED
    BY <2>1, OthersKeepLoad
<1>2. CASE Kill \/ Finish
  <2>1. Ended /\ UNCHANGED <<reader, got, snap, swaps>>
    BY <1>2 DEF Kill, Finish, server
  <2>2. QED
    BY <2>1, EndedKeepsLoad
<1>3. QED
  BY <1>1, <1>2, WriteKeepsLoad, RenameKeepsLoad, SwapKeepsLoad, RemoveKeepsLoad,
     ResolveKeepsLoad, ReadingKeepsLoad, ReadGraphsKeepsLoad, RestartKeepsLoad
     DEF Next, Build, Serve

(***************************************************************************)
(* What the server has loaded lacks nothing unless the link moved twice    *)
(* during the load, whatever was killed or removed meanwhile: that the     *)
(* build keeps the view before its own is enough (build of build-view.py,  *)
(* load_snapshot of muninn-ro.py).                                         *)
(***************************************************************************)
THEOREM LoadsAreWhole == Spec => []SnapshotIsWhole
<1>1. Init => LoadInv
  BY DEF Init, LoadInv, RolesAgree, LoadIsSafe, SnapshotIsWhole, NoView
<1>2. IInv /\ LoadInv /\ [Next]_vars => LoadInv'
  BY NextKeepsLoad
<1>3. LoadInv => SnapshotIsWhole
  BY DEF LoadInv
<1>4. QED
  BY <1>1, <1>2, <1>3, SpecKeepsIInv, PTL DEF Spec
=============================================================================
