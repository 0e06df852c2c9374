-------------------------------- MODULE MCTalkLog --------------------------------
(* Model values for TalkLog. *)
EXTENDS TalkLog

EntriesAlike == Permutations(Entries)
=============================================================================
