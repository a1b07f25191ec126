------------------------------ MODULE JobParts ------------------------------
(***************************************************************************)
(* Two jobs that are done in parts: a PDF whose pages the ocr worker       *)
(* recognises in parallel, and a batch of texts that the embed worker has  *)
(* embedded in sub-batches.                                                *)
(***************************************************************************)
EXTENDS Integers, FiniteSets, Sequences

CONSTANTS
  PageCounts, PageWidth,    \* pages of a PDF; --page-concurrency
  BatchSizes, SubBatch, Fleet,  \* texts of a batch; --embed-batch; --max-concurrent
  NoJob

ASSUME PartsAssumption ==
  /\ PageCounts \subseteq Nat /\ BatchSizes \subseteq Nat
  /\ PageWidth \in Nat \ {0} /\ SubBatch \in Nat \ {0} /\ Fleet \in Nat \ {0}

VARIABLES
  pdf,    \* ocrAllPages
  batch   \* embedFleet

PageState == {"waiting", "rendering", "reading", "ended"}
\* at: the text a sub-batch is at when its texts go one by one.
Group == [stage : {"waiting", "asked", "singly", "done"}, at : Nat]

PartsInit == pdf = NoJob /\ batch = NoJob

-----------------------------------------------------------------------------
(***************************************************************************)
(* ocrAllPages.                                                            *)
(***************************************************************************)

PdfBegin(n) ==
  /\ pdf = NoJob
  /\ pdf' = [page |-> [i \in 1..n |-> "waiting"], file |-> [i \in 1..n |-> "none"],
             errors |-> {}]
  /\ UNCHANGED batch

Pages == DOMAIN pdf.page
Busy == {i \in Pages : pdf.page[i] \in {"rendering", "reading"}}
PageTo(i, s) == [pdf EXCEPT !.page[i] = s]
PageFails(i) == [PageTo(i, "ended") EXCEPT !.errors = @ \cup {i}]

PageBegin(i) ==
  /\ pdf.page[i] = "waiting" /\ Cardinality(Busy) < PageWidth
  /\ pdf' = PageTo(i, "rendering") /\ UNCHANGED batch

\* runGs, runTesseract; either fails, or runs out of time, and tesseract may have
\* written some of the text by then.
PageRendered(i) ==
  /\ pdf.page[i] = "rendering"
  /\ pdf' \in {PageTo(i, "reading"), PageFails(i)} /\ UNCHANGED batch

PageRead(i) ==
  /\ pdf.page[i] = "reading"
  /\ \/ pdf' = [PageTo(i, "ended") EXCEPT !.file[i] = "whole"]
     \/ \E f \in {"none", "partial"} : pdf' = [PageFails(i) EXCEPT !.file[i] = f]
  /\ UNCHANGED batch

\* Wait; then the first error, or the files in the order of their pages.
Waited == \A i \in Pages : pdf.page[i] = "ended"
AllRead == \A i \in Pages : pdf.file[i] # "none"
WaitedAndRead == Waited /\ AllRead
NoPageFailed == Waited /\ pdf.errors = {} /\ AllRead
PagesPosted == NoPageFailed /\ pdf' = NoJob /\ UNCHANGED batch
PagesFailed == Waited /\ ~NoPageFailed /\ pdf' = NoJob /\ UNCHANGED batch

-----------------------------------------------------------------------------
(***************************************************************************)
(* embedFleet.  The vector of text i is i.                                 *)
(***************************************************************************)

NoResult == 0
Failed == -1
Empty == -2    \* a vector without numbers

Groups(n) == 1..((n + SubBatch - 1) \div SubBatch)
Size == Len(batch.result)
First(g) == (g - 1) * SubBatch + 1
Last(g) == IF g * SubBatch < Size THEN g * SubBatch ELSE Size
Texts(g) == [j \in 1..(Last(g) - First(g) + 1) |-> First(g) + j - 1]

BatchBegin(n) ==
  /\ batch = NoJob
  /\ batch' = [result |-> [i \in 1..n |-> NoResult], stopped |-> FALSE,
               group |-> [g \in Groups(n) |-> [stage |-> "waiting", at |-> 0]]]
  /\ UNCHANGED pdf

Asked == {g \in DOMAIN batch.group : batch.group[g].stage \in {"asked", "singly"}}
GroupTo(g, s, at) == [batch.group EXCEPT ![g] = [stage |-> s, at |-> at]]

\* Sub-batches begin in their order, when the semaphore lets them.
GroupBegin(g) ==
  /\ batch.group[g].stage = "waiting" /\ Cardinality(Asked) < Fleet
  /\ \A h \in DOMAIN batch.group : h < g => batch.group[h].stage # "waiting"
  /\ batch' = [batch EXCEPT !.group = GroupTo(g, "asked", 0)]
  /\ UNCHANGED pdf

\* What a service may answer: nothing, some of the vectors, or as many as there are
\* texts, in their order, any of which may be empty.
Emptied(g, J) == [j \in DOMAIN Texts(g) |-> IF j \in J THEN Empty ELSE Texts(g)[j]]
Replies(g) == {<<>>, Tail(Texts(g))} \cup {Emptied(g, J) : J \in SUBSET DOMAIN Texts(g)}

FitsSome(reply, g) == reply # <<>>
Fits(reply, g) == Len(reply) = Len(Texts(g))

GroupAnswered(g, reply) ==
  /\ batch.group[g].stage = "asked"
  /\ batch' =
       IF Fits(reply, g)
         THEN [batch EXCEPT
                 !.group = GroupTo(g, "done", 0),
                 !.result = [i \in DOMAIN @ |->
                    IF i - First(g) + 1 \in DOMAIN reply THEN reply[i - First(g) + 1] ELSE @[i]]]
         ELSE [batch EXCEPT !.group = GroupTo(g, "singly", First(g))]
  /\ UNCHANGED pdf

\* The next text alone: its vector, or a failure in its place, for an empty one too.
TextAnswered(g) ==
  /\ batch.group[g].stage = "singly" /\ ~batch.stopped
  /\ LET i == batch.group[g].at
     IN  \E r \in {i, Failed} :
           batch' = [batch EXCEPT
             !.result[i] = r,
             !.group = IF i = Last(g) THEN GroupTo(g, "done", 0)
                       ELSE GroupTo(g, "singly", i + 1)]
  /\ UNCHANGED pdf

\* The context is cancelled: a group leaves its other texts without a result.
Stop ==
  /\ batch # NoJob /\ ~batch.stopped
  /\ batch' = [batch EXCEPT !.stopped = TRUE]
  /\ UNCHANGED pdf

GroupLeft(g) ==
  /\ batch.group[g].stage = "singly" /\ batch.stopped
  /\ batch' = [batch EXCEPT !.group = GroupTo(g, "done", 0)]
  /\ UNCHANGED pdf

AllAsked == batch # NoJob /\ \A g \in DOMAIN batch.group : batch.group[g].stage = "done"

BatchEnd == AllAsked /\ batch' = NoJob /\ UNCHANGED pdf

PdfNext ==
  \/ \E n \in PageCounts : PdfBegin(n)
  \/ /\ pdf # NoJob
     /\ \/ \E i \in Pages : PageBegin(i) \/ PageRendered(i) \/ PageRead(i)
        \/ PagesPosted \/ PagesFailed

BatchNext ==
  \/ \E n \in BatchSizes : BatchBegin(n)
  \/ /\ batch # NoJob
     /\ \/ \E g \in DOMAIN batch.group :
             \/ GroupBegin(g) \/ TextAnswered(g) \/ GroupLeft(g)
             \/ \E reply \in Replies(g) : GroupAnswered(g, reply)
        \/ Stop \/ BatchEnd

PartsSpec == PartsInit /\ [][PdfNext \/ BatchNext]_<<pdf, batch>>

-----------------------------------------------------------------------------
\* ocrAllPages: a text is posted for a PDF only when every one of its pages has been
\* recognised to its end, in whatever order the pages end and the tools fail.
PostedIsWhole ==
  [][pdf # NoJob => (PagesPosted => \A i \in Pages : pdf.file[i] = "whole")]_<<pdf, batch>>

\* embedFleet: unless the worker is being stopped something is posted for every chunk
\* of the batch, and it is its own text's vector, a failure, or the empty vector that a
\* service gave for it among as many as there were texts, never another's, however
\* sub-batches overlap, fail or come back short.  (An empty vector is refused by the
\* registry, http/embed.go:135-142, which neither embeds nor fails its chunk.)
VectorsMatchTexts ==
  batch # NoJob =>
    /\ \A i \in 1..Size : batch.result[i] \in {NoResult, Failed, Empty, i}
    /\ AllAsked /\ ~batch.stopped => \A i \in 1..Size : batch.result[i] # NoResult
=============================================================================
