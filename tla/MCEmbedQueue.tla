---------------------------- MODULE MCEmbedQueue ----------------------------
(* A small instance of the embedding queue for TLC: one chunk to a text. *)
EXTENDS EmbedLeases, TLC

CONSTANTS w1, w2, words, size, site

MCPieces == <<words, size>> :> 1

\* The operator's requeue of every chunk that is done.
MCRequeue == {[status |-> "done", worker |-> None, doc |-> None]}
MCSymmetry == Permutations({w1, w2})
=============================================================================
