------------------------------ MODULE MCParts -------------------------------
(***************************************************************************)
(* Small instances of the parts of a job that are computed by themselves:  *)
(* the chunker, the pages of a PDF, the sub-batches of a batch, and the    *)
(* walk of a listing.  They share nothing: one at a time is enough.        *)
(***************************************************************************)
EXTENDS Chunker, JobParts, Listing

MCCoreSizes == {-1, 0, 2, 3}
MCOverlaps == {-1, 1, 4}

vars == <<split, pdf, batch, walk>>

Init == ChunkerInit /\ PartsInit /\ walk = NoWalk

Next ==
  \/ /\ pdf = NoJob /\ batch = NoJob /\ walk = NoWalk
     /\ ChunkerNext /\ UNCHANGED <<pdf, batch, walk>>
  \/ /\ split = NoSplit /\ batch = NoJob /\ walk = NoWalk
     /\ PdfNext /\ UNCHANGED <<split, walk>>
  \/ /\ split = NoSplit /\ pdf = NoJob /\ walk = NoWalk
     /\ BatchNext /\ UNCHANGED <<split, walk>>
  \/ /\ split = NoSplit /\ pdf = NoJob /\ batch = NoJob
     /\ WalkNext /\ UNCHANGED <<split, pdf, batch>>

\* A walk's browser and requests all have timeouts, so that its steps go on.
Spec == Init /\ [][Next]_vars /\ WF_vars(WalkStep /\ UNCHANGED <<split, pdf, batch>>)
=============================================================================
