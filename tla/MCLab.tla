------------------------------- MODULE MCLab -------------------------------
(***************************************************************************)
(* Values for model checking Lab.  The impairment requests cover one flag, *)
(* another one that replaces it, and two that apply must refuse.           *)
(***************************************************************************)
EXTENDS LabRefinement

MCRequests == {{}, {"jitter"}, {"delay", "jitter"}, {"loss"}}

Symmetry == Permutations(Procs)

=============================================================================
