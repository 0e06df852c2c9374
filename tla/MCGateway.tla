------------------------------- MODULE MCGateway -------------------------------
(* Two local models that share an exclusive target, one that is paid for, one
   of a target without its key, and a route over all four that comes back to
   the local target. *)
EXTENDS Gateway, TLC

CONSTANTS small, large, cloud, other, local, paid, off

MCModels == {small, large, cloud, other}
MCTargets == {local, paid, off}
MCTargetOf == (small :> local) @@ (large :> local) @@ (cloud :> paid) @@ (other :> off)
MCRoute == <<small, other, cloud, large>>
MCSlots == (local :> 2) @@ (paid :> 1) @@ (off :> 1)
MCExclusive == (local :> TRUE) @@ (paid :> FALSE) @@ (off :> FALSE)
===============================================================================
