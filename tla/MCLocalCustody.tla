--------------------------- MODULE MCLocalCustody ---------------------------
(***************************************************************************)
(* Values for checking the refinement of LocalCustody.                     *)
(***************************************************************************)
EXTENDS MCLocalWorkflow, LocalCustody

=============================================================================
