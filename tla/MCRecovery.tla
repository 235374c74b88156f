------------------------------ MODULE MCRecovery ------------------------------
(* Recovery over the one image its writer starts from. *)
EXTENDS Recovery

MCImages == {FreshImage}
=============================================================================
