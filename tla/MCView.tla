--------------------------------- MODULE MCView ---------------------------------
(* Two notes in one community of the graph, the first with a link to the
   second; or three, where the third states the edge between the two. *)
EXTENDS View, TLC

CONSTANTS a, b, c, a1, b1, red

TwoNotes == {a, b}
ThreeNotes == {a, b, c}
MCLinks == {<<a, b>>}
MCNodes == {a1, b1}
MCFileOf == (a1 :> a) @@ (b1 :> b)
MCCommunityOf == (a1 :> red) @@ (b1 :> red)
MCCommunities == {red}
ByTheFirst == {[from |-> a1, to |-> b1, by |-> a]}
ByTheThird == {[from |-> a1, to |-> b1, by |-> c]}
=============================================================================
