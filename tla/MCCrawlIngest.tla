--------------------------- MODULE MCCrawlIngest ----------------------------
(* Small instances of CrawlIngest for TLC. *)
EXTENDS CrawlIngest, TLC

CONSTANTS u1, d1, w1, old, new, strip

MCHost == u1 :> d1
MCCaps == w1 :> {}
MCLinkSets == {{u1}}

\* The page changes, and with it its content type, but not the extension.
MCOneExtension == (old :> "application/xml") @@ (new :> "text/xml")
MCOneTrigger == strip :> {"application/xml", "text/xml"}
\* Neither an extension nor a trigger tells the two contents apart.
Bodies == Permutations({old, new})

\* The page changes and keeps its content type.
MCSameType == [b \in Body |-> "text/html"]

\* The operator's --domain without a status.
MCRequeueAny == {[status |-> None, worker |-> None, domain |-> d1]}
=============================================================================
