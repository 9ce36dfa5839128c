------------------------------ MODULE MCHistory ------------------------------
(***************************************************************************)
(* One process and its successor on a small instance of History.           *)
(***************************************************************************)
EXTENDS History

=============================================================================
