----------------------------- MODULE MCRechunk ------------------------------
(***************************************************************************)
(* A small instance of extraction and the rechunk command, with texts that *)
(* the chunker cuts into one piece and two.                                *)
(***************************************************************************)
EXTENDS EmbedQueue

CONSTANTS words, more, size, site

MCPieces == [c \in Text \X Size |-> IF c[1] = words THEN 1 ELSE 2]
=============================================================================
