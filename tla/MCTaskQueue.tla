---------------------------- MODULE MCTaskQueue -----------------------------
(* Small instances of the processing queue for TLC. *)
EXTENDS TaskLeases, TLC

CONSTANTS page, file, w1, strip, convert, blank, words

\* Converting a file yields a page, whose conversion yields itself.
MCOutput == (file :> page) @@ (page :> page)
MCCaps == w1 :> {convert}
MCRequests == {{convert}}

\* The operator's requeue of every row that is running.
MCRequeue == {[status |-> "running", worker |-> None, kind |-> None]}
=============================================================================
