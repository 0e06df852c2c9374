--------------------------------- MODULE MCInbox ---------------------------------
(* Inbox on a small instance: two names and two files for them. *)
EXTENDS Inbox
=============================================================================
