----------------------------- MODULE MCFrontier -----------------------------
(* Small instances of Frontier for TLC. *)
EXTENDS FrontierQueue, TLC

CONSTANTS u1, u2, d1, w1, w2, crawl

MCOneURL == u1 :> d1
MCOneHost == (u1 :> d1) @@ (u2 :> d1)

\* Workers from before capabilities, workers that declare them, and one of each.
MCAnyCaps == (w1 :> {}) @@ (w2 :> {})
MCCrawlOnly == w2 :> {crawl}
MCCaps == (w1 :> {}) @@ (w2 :> {crawl})

MCDelays == {-1, 2}
MCNoLinks == {{}}
MCLinkSets == {{}, {u2}}

\* The operator's --status leased, and --domain alone: any status.
MCLeased == {[status |-> "leased", worker |-> None, domain |-> None]}
MCAnyStatus == {[status |-> None, worker |-> None, domain |-> d1]}

WorkersAndURLs == Permutations({w1, w2}) \cup Permutations({u1, u2})
=============================================================================
