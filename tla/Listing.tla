------------------------------- MODULE Listing ------------------------------
(***************************************************************************)
(* How the liteko worker and the selenium crawler walk a listing that the  *)
(* site serves a page at a time, the newest case first, and that may grow  *)
(* while it is walked.                                                     *)
(***************************************************************************)
EXTENDS Integers, FiniteSets

CONSTANTS
  PerPage, Block,           \* cases on a page; page buttons in a block of the pager
  MaxIdleRounds, Caps,      \* of infinite_scroll; the configured max_pages, 0: none
  Sites,                    \* how many cases a site may have at first
  NoWalk

\* Bounds of the model: cases added during a walk, pages asked for past the last.
CONSTANTS MaxAdded, MaxPast

ASSUME ListingAssumption ==
  /\ PerPage \in Nat \ {0} /\ Block \in Nat \ {0, 1} /\ MaxIdleRounds \in Nat \ {0}
  /\ Caps \subseteq Nat /\ Sites \subseteq Nat /\ MaxAdded \in Nat /\ MaxPast \in Nat

VARIABLE walk    \* the walk of a listing

Kinds == {"liteko", "numbered_buttons", "next_button", "infinite_scroll", "url_param"}

(***************************************************************************)
(* The site.  Case 1 is the oldest; page p is cut from the newest on.      *)
(***************************************************************************)

Nth(a, b) == {k \in 1..walk.cases : walk.cases - k + 1 \in a..b}
CasesOn(p) == Nth((p - 1) * PerPage + 1, p * PerPage)
LastPage == (walk.cases + PerPage - 1) \div PerPage

\* What button b leads to from page p: a block has buttons for its pages, and one on
\* each side for the blocks beside it.
PageBehind(p, b) == IF p <= Block THEN b + 1 ELSE ((p - 1) \div Block) * Block + b

CaseAdded ==
  /\ walk.ended = "no" /\ walk.cases < walk.before + MaxAdded
  /\ walk' = [walk EXCEPT !.cases = @ + 1]

(***************************************************************************)
(* The walk.  total: as read from page 1; at: the page whose view state    *)
(* the next POST carries, or that the browser shows; i: the loop's         *)
(* counter; items, prev, idle: elements now, at the last change, and the   *)
(* rounds since; slow: rounds in a row in which the site did not bring     *)
(* what it had; links: what was found.                                     *)
(* trouble: the total was misread, a page came without view state, or a    *)
(* page that is there was not served.                                      *)
(***************************************************************************)

\* parseListing and readTotal read no number, or the digits before a separator.
WalkBegin(kind, cap, n, total, refuses) ==
  /\ walk = NoWalk
  /\ walk' = [kind |-> kind, cap |-> cap, refuses |-> refuses, total |-> total,
              cases |-> n, before |-> n, at |-> 1, i |-> 1,
              items |-> IF n < PerPage THEN n ELSE PerPage, prev |-> -1, idle |-> 0,
              slow |-> 0, links |-> {k \in 1..n : k > n - PerPage},
              trouble |-> total # n, ended |-> "no"]

Going(kind) == walk.kind = kind /\ walk.ended = "no"
Ends(how) == walk' = [walk EXCEPT !.ended = how]
\* A loop without max_pages that looks for its end on the page counts nothing.
NextI ==
  IF walk.cap = 0 /\ walk.kind \in {"next_button", "infinite_scroll"} THEN walk.i
  ELSE walk.i + 1
Collects(p, at) == [walk EXCEPT !.links = @ \cup CasesOn(p), !.i = NextI, !.at = at]

\* pages beyond the first; what the division leaves over is on the last of them.
ExtraOfFull == (walk.total - 1) \div PerPage
ExtraPages == walk.total \div PerPage
Button(i) == IF i <= Block THEN i ELSE ((i - Block - 1) % Block) + 2

Capped(i) == walk.cap > 0 /\ i > walk.cap

\* A page that comes without view state leaves the old one in use.  A button that is
\* not there leads nowhere.
LitekoPage ==
  /\ Going("liteko")
  /\ walk.total > PerPage /\ walk.i <= ExtraPages
  /\ LET p == PageBehind(walk.at, Button(walk.i))
         shown == IF p <= LastPage THEN p ELSE walk.at
     IN  \/ walk' = Collects(shown, shown)
         \/ walk' = [Collects(shown, walk.at) EXCEPT !.trouble = TRUE]

LitekoEnds ==
  /\ Going("liteko")
  /\ walk.total <= PerPage \/ walk.i > ExtraPages
  /\ Ends("done")

NumberedPage ==
  /\ Going("numbered_buttons")
  /\ walk.i <= ExtraPages /\ ~Capped(walk.i)
  /\ LET p == PageBehind(walk.at, Button(walk.i))
     IN  IF p <= LastPage THEN walk' = Collects(p, p) ELSE Ends("no button")

NumberedEnds ==
  /\ Going("numbered_buttons")
  /\ walk.i > ExtraPages \/ Capped(walk.i)
  /\ Ends("done")

\* The button is missing or disabled on the last page.
NextPage ==
  /\ Going("next_button")
  /\ walk.at < LastPage /\ ~Capped(walk.i)
  /\ walk' = Collects(walk.at + 1, walk.at + 1)

NextEnds ==
  /\ Going("next_button")
  /\ walk.at >= LastPage \/ Capped(walk.i)
  /\ Ends("done")

\* A round scrolls, waits and counts; the site brings the cases that come next, or
\* is too slow.
Brought(n) == IF walk.items + n > walk.cases THEN walk.cases - walk.items ELSE n

AfterIdleForgetting == [walk EXCEPT !.i = NextI, !.idle = 0]
AfterIdle ==
  [walk EXCEPT !.i = NextI, !.idle = @ + 1,
               !.ended = IF walk.idle + 1 >= MaxIdleRounds THEN "done" ELSE "no"]

Counted(w, items, late) ==
  [w EXCEPT !.slow = IF late THEN @ + 1 ELSE 0,
            !.trouble = @ \/ (late /\ walk.slow + 1 >= MaxIdleRounds),
            !.items = items]

ScrollRound ==
  /\ Going("infinite_scroll") /\ ~Capped(walk.i)
  /\ \E n \in {0, PerPage} :
       LET items == walk.items + Brought(n)
           late == n = 0 /\ walk.items < walk.cases
       IN  walk' = IF items = walk.prev THEN Counted(AfterIdle, items, late)
                   ELSE Counted([walk EXCEPT !.i = NextI, !.idle = 0, !.prev = items,
                                   !.links = @ \cup Nth(walk.items + 1, items)],
                                items, late)

ScrollEnds == Going("infinite_scroll") /\ Capped(walk.i) /\ Ends("done")

\* start_index 2 and step 1.  A page that is not there fails, and ends the walk, or is
\* empty; one that is there may fail too.
ParamPage ==
  /\ Going("url_param") /\ ~Capped(walk.i)
  /\ LET p == walk.i + 1
     IN  \/ p <= LastPage /\ walk' = Collects(p, p)
         \/ p <= LastPage /\ walk' = [walk EXCEPT !.ended = "done", !.trouble = TRUE]
         \/ p > LastPage /\ walk.refuses /\ Ends("done")
         \/ /\ p > LastPage /\ ~walk.refuses
            /\ walk.cap > 0 \/ p <= LastPage + MaxPast
            /\ walk' = Collects(p, p)

ParamEnds == Going("url_param") /\ Capped(walk.i) /\ Ends("done")

\* The context, a POST or a click: the walk breaks off, and its links are posted.
WalkBreaks == walk.ended = "no" /\ Ends("error")

WalkPosted == walk.ended # "no" /\ walk' = NoWalk

WalkStep ==
  /\ walk # NoWalk
  /\ \/ LitekoPage \/ LitekoEnds \/ NumberedPage \/ NumberedEnds
     \/ NextPage \/ NextEnds \/ ScrollRound \/ ScrollEnds \/ ParamPage \/ ParamEnds
     \/ WalkPosted

WalkNext ==
  \/ \E kind \in Kinds, cap \in Caps, n \in Sites, refuses \in BOOLEAN :
       \E total \in {0, n \div 2, n} : WalkBegin(kind, cap, n, total, refuses)
  \/ WalkStep
  \/ walk # NoWalk /\ (WalkBreaks \/ CaseAdded)

WalkSpec == walk = NoWalk /\ [][WalkNext]_walk

-----------------------------------------------------------------------------
\* walkListing and paginate: a walk that goes to its end without a cap, over a site
\* that serves what it has, finds every case that was there when it began, by
\* whichever buttons and counts it goes, and even when a case is added meanwhile and
\* pushes the others to later pages.
WalkIsComplete ==
  /\ walk # NoWalk
  /\ walk.ended \in {"done", "no button"} /\ walk.cap = 0 /\ ~walk.trouble
  /\ walk.cases <= walk.before + 1
  => 1..walk.before \subseteq walk.links

\* How far a walk has to go, at most, on the site as it is: the pages that its total,
\* the site or its cap leaves it, and for infinite_scroll the cases not yet brought,
\* each worth more than the idle rounds before it.
Left(n) == IF n > 0 THEN n ELSE 0

StepsLeft ==
  CASE walk.kind \in {"liteko", "numbered_buttons"} -> Left(ExtraPages + 1 - walk.i)
    [] walk.kind = "next_button" -> Left(LastPage - walk.at)
    [] walk.kind = "infinite_scroll" ->
         (walk.cases - walk.items) * (MaxIdleRounds + 2)
         + (IF walk.prev = walk.items THEN MaxIdleRounds - walk.idle ELSE MaxIdleRounds + 1)
    [] walk.kind = "url_param" ->
         Left(IF walk.cap > 0 THEN walk.cap + 1 - walk.i ELSE LastPage - walk.i)

IsBounded == walk.kind = "url_param" => walk.refuses \/ walk.cap > 0

\* walkListing and paginate: no loop turns without getting nearer to its end; every
\* step of a walk ends it or leaves it with fewer steps to go, whatever the site
\* serves, whether a page came with its view state, and without max_pages too.
WalkRunsDown ==
  [][WalkStep /\ walk.ended = "no" /\ IsBounded
     => walk'.ended # "no" \/ (StepsLeft' \in Nat /\ StepsLeft' < StepsLeft)]_walk

\* paginate: a walk comes to an end when the site stops growing, without max_pages
\* too; only url_param may go on for ever, on a site that serves every number.
WalkEnds ==
  walk # NoWalk /\ IsBounded ~> walk = NoWalk
=============================================================================
