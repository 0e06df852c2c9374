--------------------------------- MODULE TalkLog ---------------------------------
(***************************************************************************)
(* The talk log of the bridge: log_talk, flush_talk, _spooled and          *)
(* _write_talk of muninn/brain/bridge.py.  What was said is appended to a  *)
(* note in the vault; entries the vault refuses wait in a local spool and  *)
(* go in first the next time.  TALK_LOCK lets one thread do so at a time.  *)
(*                                                                         *)
(* An append, the replacement of the spool and its removal are one step    *)
(* each, and the process may die between any two of them.  The days have   *)
(* a note each; the model looks at all of them as one log.                 *)
(***************************************************************************)
EXTENDS Integers, Sequences, SequencesExt, FiniteSets

CONSTANTS
  Entries,        \* what may be said, each at most once
  MaxTrouble,     \* bound of the model on crashes and spool writes that fail
  MaxUnreadable   \* bound of the model on spool reads that fail

ASSUME TalkLogAssumption ==
  /\ IsFiniteSet(Entries)
  /\ MaxTrouble \in Nat /\ MaxUnreadable \in Nat

VARIABLES
  log,          \* the entries in the vault
  spool,        \* the entries in the spool file, <<>> without one
  hand,         \* what the thread with the lock still has to append
  pc,           \* "down", or where that thread is; "free" without one
  said,         \* the entries log_talk was called with, in order
  trouble, unreadable

vars == <<log, spool, hand, pc, said, trouble, unreadable>>

Times(s, e) == Cardinality({i \in DOMAIN s : s[i] = e})
Durable == ToSet(log) \cup ToSet(spool)

Trouble == trouble < MaxTrouble /\ trouble' = trouble + 1

-----------------------------------------------------------------------------
(* Definitions named Fault... are wrong versions of the definition after
   them; each refutes a property when put in its place. *)

(* _spooled: the spool, or as much of it as could be read. *)
Spooled(held) ==
  \/ held = spool /\ UNCHANGED unreadable
  \/ /\ unreadable < MaxUnreadable
     /\ unreadable' = unreadable + 1
     /\ \E k \in 0 .. Len(spool) : held = SubSeq(spool, 1, k)

(* The new entry goes in first. *)
FaultSay(e) ==
  /\ pc = "free"
  /\ e \notin ToSet(said)
  /\ said' = Append(said, e)
  /\ \E k \in 0 .. Len(spool) :
       /\ Spooled(SubSeq(spool, 1, k))
       /\ hand' = <<e>> \o SubSeq(spool, 1, k)
  /\ pc' = "writing"
  /\ UNCHANGED <<log, spool, trouble>>

(* log_talk takes the lock. *)
Say(e) ==
  /\ pc = "free"
  /\ e \notin ToSet(said)
  /\ said' = Append(said, e)
  /\ \E k \in 0 .. Len(spool) :
       /\ Spooled(SubSeq(spool, 1, k))
       /\ hand' = Append(SubSeq(spool, 1, k), e)
  /\ pc' = "writing"
  /\ UNCHANGED <<log, spool, trouble>>

(* _append_talk puts the next entry into the vault ... *)
AppendEntry ==
  /\ pc = "writing" /\ hand # <<>>
  /\ log' = Append(log, Head(hand))
  /\ hand' = Tail(hand)
  /\ UNCHANGED <<spool, pc, said, trouble, unreadable>>

(* The spool file is removed before the rest is written anew. *)
FaultRefuse ==
  /\ pc = "writing" /\ hand # <<>>
  /\ pc' = "spooling"
  /\ spool' = <<>>
  /\ UNCHANGED <<log, hand, said, trouble, unreadable>>

(* ... or the vault refuses it, and the rest is not tried. *)
Refuse ==
  /\ pc = "writing" /\ hand # <<>>
  /\ pc' = "spooling"
  /\ UNCHANGED <<log, spool, hand, said, trouble, unreadable>>

(* What could not be appended replaces the spool, at once or not at all. *)
Spool ==
  /\ pc = "spooling"
  /\ \/ spool' = hand /\ UNCHANGED trouble
     \/ Trouble /\ UNCHANGED spool
  /\ hand' = <<>>
  /\ pc' = "free"
  /\ UNCHANGED <<log, said, unreadable>>

(* The spool stays when all of it has been appended. *)
FaultClear ==
  /\ pc = "writing" /\ hand = <<>>
  /\ pc' = "free"
  /\ UNCHANGED <<log, spool, hand, said, trouble, unreadable>>

(* Nothing is held back: a spool there is is removed, if it can be. *)
Clear ==
  /\ pc = "writing" /\ hand = <<>>
  /\ \/ spool' = <<>> /\ UNCHANGED trouble
     \/ spool # <<>> /\ Trouble /\ UNCHANGED spool
  /\ pc' = "free"
  /\ UNCHANGED <<log, hand, said, unreadable>>

(* The bridge dies; what was in hand dies with it. *)
Crash ==
  /\ pc # "down"
  /\ Trouble
  /\ pc' = "down"
  /\ hand' = <<>>
  /\ UNCHANGED <<log, spool, said, unreadable>>

(* The bridge starts, and flush_talk with it. *)
Start ==
  /\ pc = "down"
  /\ \E k \in 0 .. Len(spool) :
       /\ Spooled(SubSeq(spool, 1, k))
       /\ hand' = SubSeq(spool, 1, k)
  /\ pc' = IF hand' = <<>> THEN "free" ELSE "writing"
  /\ UNCHANGED <<log, spool, said, trouble>>

Init ==
  /\ log = <<>> /\ spool = <<>> /\ hand = <<>>
  /\ pc = "down"
  /\ said = <<>>
  /\ trouble = 0 /\ unreadable = 0

Next ==
  \/ \E e \in Entries : Say(e)
  \/ AppendEntry \/ Refuse \/ Spool \/ Clear \/ Crash \/ Start

Spec == Init /\ [][Next]_vars

-----------------------------------------------------------------------------
(* Every variable has its type; a thread that is done holds nothing. *)
TypeOK ==
  /\ log \in Seq(Entries) /\ spool \in Seq(Entries) /\ hand \in Seq(Entries)
  /\ pc \in {"down", "free", "writing", "spooling"}
  /\ pc \in {"down", "free"} => hand = <<>>
  /\ said \in Seq(Entries) /\ IsInjective(said)
  /\ trouble \in 0..MaxTrouble /\ unreadable \in 0..MaxUnreadable

(***************************************************************************)
(* "An outage delays the log instead of silently losing what was said"     *)
(* (_write_talk): as long as nothing but the vault fails, what was said is *)
(* in the vault, in the spool or in hand ...                               *)
(***************************************************************************)
NothingIsLost ==
  trouble = 0 /\ unreadable = 0 => \A e \in ToSet(said) : e \in Durable \/ e \in ToSet(hand)

(***************************************************************************)
(* ... once each and in the order it was said, the spool "first on the     *)
(* next write" ...                                                         *)
(***************************************************************************)
InOrder ==
  /\ TypeOK /\ NothingIsLost
  /\ trouble = 0 /\ unreadable = 0 =>
       /\ IsPrefix(log, said)
       /\ pc = "free" => log \o spool = said

(***************************************************************************)
(* ... and a crash or a spool that cannot be written costs at most what    *)
(* was being said just then, and logs an entry at most once more.          *)
(***************************************************************************)
TroubleCostsLittle ==
  unreadable = 0 =>
    /\ \A e \in Entries : Times(log, e) <= 1 + trouble
    /\ Cardinality(ToSet(said) \ (Durable \cup ToSet(hand))) <= trouble

(***************************************************************************)
(* What the vault or the spool has is never lost again.                    *)
(***************************************************************************)
DurableStays == [][unreadable = 0 => Durable \subseteq Durable']_vars

=============================================================================
