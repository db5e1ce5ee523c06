---------------------------- MODULE SyncMutations ----------------------------
(***************************************************************************)
(* The mutations of one device (SyncMutation, web/lib/db.ts).  A mutation  *)
(* is identified by its client_id; here a number, given out in the order   *)
(* of createdAt, so that the order in which a device sends the mutations   *)
(* of a batch, and the server processes them, is the order of the numbers. *)
(***************************************************************************)
EXTENDS Naturals

CONSTANT Mutations

ASSUME NumberedMutations == Mutations \subseteq Nat

(* The mutations of S that a loop over S, in order, comes to first.        *)
First(S) == {m \in S : \A k \in S : m <= k}

=============================================================================
