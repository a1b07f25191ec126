------------------------------ MODULE Chunker -------------------------------
(***************************************************************************)
(* How a text is cut into chunks: cores that partition its tokens, each    *)
(* with an overlap from its neighbours' cores, by the sizes a collection   *)
(* is cut by.  A text is the number of its tokens, and a chunk the range   *)
(* of tokens it decodes.                                                   *)
(***************************************************************************)
EXTENDS Integers, Sequences

CONSTANTS
  DefaultTokens,            \* Split's core size when none is configured
  TokenCounts, CoreSizes, Overlaps,  \* texts and configurations; sizes may be negative
  NoSplit

Config == [tokens : CoreSizes, prev : Overlaps, next : Overlaps]

ASSUME ChunkerAssumption ==
  /\ DefaultTokens \in Nat \ {0}
  /\ TokenCounts \subseteq Nat /\ CoreSizes \subseteq Int /\ Overlaps \subseteq Int

VARIABLE split    \* the call of Split

Core == [start : Nat, end : Nat]
Piece == [low : Nat, high : Nat, count : Nat]
\* given: the configuration of the call; start: where the next core begins.
SplitCall == [n : Nat, given : [tokens : Int, prev : Int, next : Int],
              tokens : Nat, prev : Nat, next : Nat, start : Nat,
              cores : Seq(Core), chunks : Seq(Piece)]

Lesser(a, b) == IF a < b THEN a ELSE b
Greater(a, b) == IF a < b THEN b ELSE a

ChunkerInit == split = NoSplit

\* ResolveConfig: what a collection's row says, and the registry's defaults for what
\* it does not; rows holds the row of the collection, if there is one.
Resolved(rows, defaults) ==
  IF rows = {} THEN defaults
  ELSE LET row == CHOOSE r \in rows : TRUE
       IN  [tokens |-> IF row.tokens > 0 THEN row.tokens ELSE defaults.tokens,
            prev |-> IF row.prev >= 0 THEN row.prev ELSE defaults.prev,
            next |-> IF row.next >= 0 THEN row.next ELSE defaults.next]

\* A core is never empty, an overlap never negative and never longer than a core.
CoreSize(c) == IF c.tokens <= 0 THEN DefaultTokens ELSE c.tokens
Overlap(k, c) == Lesser(Greater(k, 0), CoreSize(c))

SplitBegin(n, c) ==
  /\ split = NoSplit
  /\ split' = [n |-> n, given |-> c, tokens |-> CoreSize(c), prev |-> Overlap(c.prev, c),
               next |-> Overlap(c.next, c), start |-> 0, cores |-> <<>>, chunks |-> <<>>]

NextStartPastEnd == split.start + split.tokens + 1
NextStart == split.start + split.tokens

\* One turn of the first loop.
AddCore ==
  /\ split # NoSplit /\ split.start < split.n
  /\ split' = [split EXCEPT
       !.cores = Append(@, [start |-> split.start,
                            end |-> Lesser(split.start + split.tokens, split.n)]),
       !.start = NextStart]

\* The window of core i: from inside the core before to inside the one after.
WindowPastNext(i) ==
  IF i < Len(split.cores) THEN split.cores[i + 1].start + split.next ELSE split.cores[i].end
Low(i) ==
  IF i > 1 THEN Greater(split.cores[i - 1].end - split.prev, split.cores[i - 1].start)
  ELSE split.cores[i].start
High(i) ==
  IF i < Len(split.cores)
    THEN Lesser(split.cores[i + 1].start + split.next, split.cores[i + 1].end)
    ELSE split.cores[i].end

\* One turn of the second.
AddChunk ==
  /\ split # NoSplit /\ split.start >= split.n
  /\ LET i == Len(split.chunks) + 1
     IN  /\ i <= Len(split.cores)
         /\ split' = [split EXCEPT !.chunks = Append(@,
              [low |-> Low(i), high |-> High(i),
               count |-> split.cores[i].end - split.cores[i].start])]

IsSplit == /\ split # NoSplit /\ split.start >= split.n
           /\ Len(split.chunks) = Len(split.cores)

SplitEnd == IsSplit /\ split' = NoSplit

ChunkerNext ==
  \/ \E n \in TokenCounts, defaults \in Config, rows \in {{}} \cup {{r} : r \in Config} :
       SplitBegin(n, Resolved(rows, defaults))
  \/ AddCore \/ AddChunk \/ SplitEnd

ChunkerSpec == ChunkerInit /\ [][ChunkerNext]_split

-----------------------------------------------------------------------------
(***************************************************************************)
(* The contract, token by token.                                           *)
(***************************************************************************)

\* Token p belongs to the chunk of its own core, to the one after when it is among
\* the last tokens of its core, and to the one before when it is among the first, as
\* many as the configuration names.
InChunk(p, i) ==
  LET k == p \div split.tokens + 1
      end == Lesser(k * split.tokens, split.n)
  IN  \/ k = i
      \/ k = i - 1 /\ p >= end - split.given.prev
      \/ k = i + 1 /\ p % split.tokens < split.given.next

\* chunker.go, lines 1-14 and 42-58: the chunks are the ceiling of tokens over core
\* size, and, when neither overlap is configured as negative, chunk i decodes exactly
\* the tokens of core i and of the overlaps its neighbours' cores have room for.  Of a
\* negative overlap the contract (line 55) says Defaults and the code makes none
\* (lines 68-73): it promises nothing here.
SplitMatchesContract ==
  IsSplit =>
    /\ Len(split.chunks) = (split.n + split.tokens - 1) \div split.tokens
    /\ split.given.prev >= 0 /\ split.given.next >= 0 =>
       \A i \in 1..Len(split.chunks) :
         split.chunks[i].low .. split.chunks[i].high - 1
           = {p \in 0..split.n - 1 : InChunk(p, i)}

\* chunker.go, line 12: cores never share a token; and they leave none out, so that
\* every token of the text is in exactly one core, and each is inside its chunk.
EveryTokenHasOneCore ==
  IsSplit =>
    /\ \A p \in 0..split.n - 1 : \E i \in 1..Len(split.cores) :
         /\ split.cores[i].start <= p /\ p < split.cores[i].end
         /\ \A j \in 1..Len(split.cores) :
              split.cores[j].start <= p /\ p < split.cores[j].end => j = i
    /\ \A i \in 1..Len(split.chunks) :
         /\ split.chunks[i].low <= split.cores[i].start
         /\ split.cores[i].end <= split.chunks[i].high
         /\ split.chunks[i].high <= split.n
         /\ split.chunks[i].count <= split.tokens
=============================================================================
