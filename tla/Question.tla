-------------------------------- MODULE Question --------------------------------
(* What is to be decided, in the modules about decisions that are made in one
   go; the field "about" says which of them it is for. *)
VARIABLE ask
=================================================================================
