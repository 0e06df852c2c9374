-------------------------------- MODULE MCAccess --------------------------------
(* Three tokens, two of one name, and one of a few paths only. *)
EXTENDS Access, TLC

CONSTANTS t1, t2, t3

MCTokens == {t1, t2, t3}
MCNameOf == (t1 :> "phone") @@ (t2 :> "phone") @@ (t3 :> "agent")
MCScopeOf == (t1 :> {<<>>}) @@ (t2 :> {<<>>}) @@ (t3 :> {<<"bridge", "usage">>})
MCUris ==
  {[path |-> <<"_brain", "ping">>, plain |-> TRUE, ping |-> TRUE]} \cup
  {[path |-> p, plain |-> plain, ping |-> FALSE] :
     p \in {<<>>, <<"bridge">>, <<"bridge", "usage">>, <<"bridge", "usage", "x">>},
     plain \in BOOLEAN}
=============================================================================
