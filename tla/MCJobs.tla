--------------------------------- MODULE MCJobs ---------------------------------
(* Model values for Jobs. *)
EXTENDS Jobs

NoNeeds == {{}}
Alike == Permutations(Jobs) \cup Permutations(Names)
=============================================================================
