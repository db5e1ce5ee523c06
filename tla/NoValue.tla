------------------------------- MODULE NoValue -------------------------------
(***************************************************************************)
(* NULL: a column or a pointer that is not set.                            *)
(***************************************************************************)
CONSTANT None

=============================================================================
