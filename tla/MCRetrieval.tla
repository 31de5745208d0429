---------------------------- MODULE MCRetrieval ----------------------------
(* A small instance of Retrieval for TLC. *)
EXTENDS Retrieval

=============================================================================
