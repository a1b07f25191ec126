---------------------------- MODULE PartsProofs -----------------------------
(***************************************************************************)
(* Proofs about the parts of a job that are computed by themselves: the    *)
(* chunks of a text, the pages of a PDF, the sub-batches of a batch, and   *)
(* the walk of a listing.  They hold for every text, core size and         *)
(* overlap, every PDF, every batch, sub-batch size and fleet, and every    *)
(* site, page and block of buttons.                                        *)
(***************************************************************************)
EXTENDS Chunker, JobParts, Listing, SequenceTheorems, TLAPS

-----------------------------------------------------------------------------
(***************************************************************************)
(* The chunker.  The loops' invariant says of the tokens before the next   *)
(* core what the theorems say of the whole text.                           *)
(***************************************************************************)

\* The sizes of a call, as normalised.
Sizes ==
  /\ split.n \in Nat /\ split.tokens \in Nat \ {0} /\ split.start \in Nat
  /\ split.prev \in Nat /\ split.next \in Nat
  /\ split.cores \in Seq(Core) /\ split.chunks \in Seq([low : Int, high : Int, count : Int])

CoreIsBounded(k, n, tokens) == k.start <= k.end /\ k.end <= n /\ k.end - k.start <= tokens

CoresSoFar ==
  /\ \A i \in 1..Len(split.cores) : /\ CoreIsBounded(split.cores[i], split.n, split.tokens)
                                    /\ split.cores[i].end <= split.start
  /\ \A i, j \in 1..Len(split.cores) : i < j => split.cores[i].end <= split.cores[j].start
  /\ \A p \in 0..split.n - 1 : p < split.start =>
       \E i \in 1..Len(split.cores) : split.cores[i].start <= p /\ p < split.cores[i].end

ChunkHolds(chunk, core, n, tokens) ==
  /\ chunk.low <= core.start /\ core.end <= chunk.high
  /\ chunk.high <= n /\ chunk.count <= tokens

ChunksSoFar ==
  /\ Len(split.chunks) <= Len(split.cores)
  /\ \A i \in 1..Len(split.chunks) :
       ChunkHolds(split.chunks[i], split.cores[i], split.n, split.tokens)

Given == [tokens : Int, prev : Int, next : Int]
Record == split \in [n : Nat, given : Given, tokens : Nat, prev : Nat, next : Nat, start : Nat,
                     cores : Seq(Core), chunks : Seq([low : Int, high : Int, count : Int])]

SplitInv == split # NoSplit => Record /\ Sizes /\ CoresSoFar /\ ChunksSoFar

LEMMA CoreFields ==
  ASSUME NEW cores \in Seq(Core)
  PROVE  \A i \in 1..Len(cores) : cores[i].start \in Nat /\ cores[i].end \in Nat
<1>. TAKE i \in 1..Len(cores)
<1>1. cores[i] \in Core
  OBVIOUS
<1>. QED BY <1>1 DEF Core

LEMMA ResolvedType ==
  ASSUME NEW defaults \in Config, NEW rows \in {{}} \cup {{r} : r \in Config}
  PROVE  Resolved(rows, defaults) \in Given
<1>0. /\ \A c \in Config : c.tokens \in Int /\ c.prev \in Int /\ c.next \in Int
      /\ Config \subseteq Given
  BY ChunkerAssumption DEF Config, Given
<1>1. CASE rows = {}
  BY <1>0, <1>1 DEF Resolved
<1>2. CASE \E r \in Config : rows = {r}
  <2>1. PICK r \in Config : rows = {r}
    BY <1>2
  <2>2. (CHOOSE s \in rows : TRUE) = r
    BY <2>1
  <2>. QED BY <1>0, <2>1, <2>2 DEF Resolved, Given
<1>. QED BY <1>1, <1>2

LEMMA SizesOfCall ==
  ASSUME NEW c, c.tokens \in Int, NEW k \in Int
  PROVE  CoreSize(c) \in Nat \ {0} /\ Overlap(k, c) \in Nat
BY ChunkerAssumption DEF CoreSize, Overlap, Lesser, Greater

LEMMA BeginStep ==
  ASSUME NEW n \in TokenCounts, NEW c \in Given, SplitBegin(n, c)
  PROVE  SplitInv'
<1>1. n \in Nat /\ CoreSize(c) \in Nat \ {0} /\ Overlap(c.prev, c) \in Nat
      /\ Overlap(c.next, c) \in Nat
  BY SizesOfCall, ChunkerAssumption DEF Given
<1>2. /\ split'.n = n /\ split'.tokens = CoreSize(c) /\ split'.start = 0
      /\ split'.prev = Overlap(c.prev, c) /\ split'.next = Overlap(c.next, c)
      /\ split'.cores = <<>> /\ split'.chunks = <<>>
  BY DEF SplitBegin
<1>3. Sizes' /\ Record'
  BY <1>1, <1>2 DEF Sizes, Record, SplitBegin
<1>4. Len(split'.cores) = 0 /\ Len(split'.chunks) = 0
  BY <1>2
<1>5. CoresSoFar' /\ ChunksSoFar'
  BY <1>2, <1>4 DEF CoresSoFar, ChunksSoFar
<1>. QED BY <1>3, <1>5 DEF SplitInv

LEMMA CoreStep ==
  ASSUME split # NoSplit, Record, Sizes, CoresSoFar, ChunksSoFar, AddCore
  PROVE  SplitInv'
<1>. DEFINE end == Lesser(split.start + split.tokens, split.n)
            core == [start |-> split.start, end |-> end]
            m == Len(split.cores)
<1>1. /\ split'.n = split.n /\ split'.tokens = split.tokens
      /\ split'.prev = split.prev /\ split'.next = split.next
      /\ split'.start = split.start + split.tokens
      /\ split'.cores = Append(split.cores, core) /\ split'.chunks = split.chunks
  BY DEF AddCore, NextStart, Record
<1>2. /\ split.start < split.n /\ end \in Nat /\ core \in Core
      /\ split.start < end /\ end <= split.n /\ end <= split.start + split.tokens
      /\ \A p \in 0..split.n - 1 : p < split.start + split.tokens => p < end
  BY DEF AddCore, Sizes, Lesser, Core
<1>3. /\ m \in Nat /\ Len(split'.cores) = m + 1 /\ split'.cores[m + 1] = core
      /\ \A i \in 1..m : split'.cores[i] = split.cores[i]
      /\ split'.cores \in Seq(Core)
  BY <1>1, <1>2 DEF Sizes
<1>4. core.start = split.start /\ core.end = end
  OBVIOUS
<1>5. Sizes' /\ Record'
  <2>1. split.start + split.tokens \in Nat
    BY DEF Sizes
  <2>. HIDE DEF core
  <2>2. Sizes'
    BY <1>1, <1>3, <2>1 DEF Sizes
  <2>3. split' = [split EXCEPT !.cores = Append(@, core), !.start = NextStart]
    BY DEF AddCore, core
  <2>4. NextStart \in Nat /\ Append(split.cores, core) \in Seq(Core)
    BY <1>1, <1>3, <2>1 DEF NextStart
  <2>. QED BY <2>2, <2>3, <2>4 DEF Record
<1>. HIDE DEF core, end, m
<1>6. \A i \in 1..m : /\ split.cores[i].start \in Nat /\ split.cores[i].end \in Nat
                      /\ CoreIsBounded(split.cores[i], split.n, split.tokens)
                      /\ split.cores[i].end <= split.start
  BY CoreFields DEF Sizes, CoresSoFar, m
<1>7. \A i \in 1..m + 1 : i \in 1..m \/ i = m + 1
  BY <1>3
<1>8. ASSUME NEW i \in 1..m + 1
      PROVE  /\ CoreIsBounded(split'.cores[i], split.n, split.tokens)
             /\ split'.cores[i].end <= split'.start
  <2>1. CASE i \in 1..m
    <3>1. split'.cores[i] = split.cores[i]
      BY <1>3, <2>1
    <3>2. /\ CoreIsBounded(split.cores[i], split.n, split.tokens)
          /\ split.cores[i].end \in Nat /\ split.cores[i].end <= split.start
      BY <1>6, <2>1
    <3>3. split.cores[i].end <= split.start + split.tokens
      BY <3>2 DEF Sizes
    <3>. QED BY <1>1, <3>1, <3>2, <3>3
  <2>2. CASE i = m + 1
    <3>1. split'.cores[i] = core
      BY <1>3, <2>2
    <3>2. CoreIsBounded(core, split.n, split.tokens)
      BY <1>2, <1>4 DEF CoreIsBounded, Sizes
    <3>. QED BY <1>1, <1>2, <1>4, <3>1, <3>2
  <2>. QED BY <1>7, <2>1, <2>2
<1>9. ASSUME NEW i \in 1..m + 1, NEW j \in 1..m + 1, i < j
      PROVE  split'.cores[i].end <= split'.cores[j].start
  <2>1. CASE j \in 1..m
    <3>1. i \in 1..m
      BY <1>3, <1>9, <2>1
    <3>. QED BY <1>3, <1>9, <2>1, <3>1 DEF CoresSoFar, m
  <2>2. CASE j = m + 1
    <3>1. i \in 1..m
      BY <1>3, <1>9, <2>2
    <3>. QED BY <1>3, <1>4, <1>6, <2>2, <3>1
  <2>. QED BY <1>7, <2>1, <2>2
<1>10. ASSUME NEW p \in 0..split.n - 1, p < split.start + split.tokens
       PROVE  \E i \in 1..m + 1 : split'.cores[i].start <= p /\ p < split'.cores[i].end
  <2>1. CASE p < split.start
    <3>1. PICK i \in 1..m : split.cores[i].start <= p /\ p < split.cores[i].end
      BY <2>1 DEF CoresSoFar, m
    <3>2. /\ i \in 1..m + 1
          /\ split'.cores[i].start <= p /\ p < split'.cores[i].end
      BY <1>3, <3>1
    <3>. QED BY <3>2
  <2>2. CASE split.start <= p
    <3>1. split'.cores[m + 1].start <= p /\ p < split'.cores[m + 1].end
      BY <1>2, <1>3, <1>4, <1>10, <2>2
    <3>2. m + 1 \in 1..m + 1
      BY <1>3
    <3>. QED BY <3>1, <3>2
  <2>3. p < split.start \/ split.start <= p
    BY DEF Sizes
  <2>. QED BY <2>1, <2>2, <2>3
<1>11. CoresSoFar'
  BY <1>1, <1>3, <1>8, <1>9, <1>10 DEF CoresSoFar
<1>12. ChunksSoFar'
  <2>1. Len(split.chunks) \in Nat /\ Len(split.chunks) <= m
    BY DEF ChunksSoFar, Sizes, m
  <2>2. \A i \in 1..Len(split.chunks) : i \in 1..m
    BY <1>3, <2>1
  <2>. QED BY <1>1, <1>3, <2>1, <2>2 DEF ChunksSoFar, ChunkHolds, m
<1>. QED BY <1>5, <1>11, <1>12 DEF SplitInv

LEMMA LowFits ==
  ASSUME NEW start \in Nat, NEW end \in Nat, NEW prev \in Nat, NEW c \in Nat,
         start <= end, end <= c
  PROVE  Greater(end - prev, start) \in Int /\ Greater(end - prev, start) <= c
BY DEF Greater

LEMMA HighFits ==
  ASSUME NEW start \in Nat, NEW end \in Nat, NEW next \in Nat, NEW c \in Nat, NEW n \in Nat,
         start <= end, c <= start, end <= n
  PROVE  /\ Lesser(start + next, end) \in Int
         /\ c <= Lesser(start + next, end) /\ Lesser(start + next, end) <= n
BY DEF Lesser

\* The window of a core holds it and stays within the text.
LEMMA WindowHoldsCore ==
  ASSUME Sizes, CoresSoFar, NEW i \in 1..Len(split.cores)
  PROVE  /\ Low(i) \in Int /\ High(i) \in Int
         /\ Low(i) <= split.cores[i].start
         /\ split.cores[i].end <= High(i) /\ High(i) <= split.n
<1>1. \A j \in 1..Len(split.cores) : /\ split.cores[j].start \in Nat /\ split.cores[j].end \in Nat
                                     /\ split.cores[j].start <= split.cores[j].end
                                     /\ split.cores[j].end <= split.n
  BY CoreFields DEF Sizes, CoresSoFar, CoreIsBounded
<1>2. Len(split.cores) \in Nat /\ split.prev \in Nat /\ split.next \in Nat /\ split.n \in Nat
  BY DEF Sizes
<1>3. Low(i) \in Int /\ Low(i) <= split.cores[i].start
  <2>1. CASE i > 1
    <3>1. i - 1 \in 1..Len(split.cores) /\ i - 1 < i
      BY <1>2, <2>1
    <3>2. split.cores[i - 1].end <= split.cores[i].start
      BY <3>1 DEF CoresSoFar
    <3>3. /\ split.cores[i - 1].start \in Nat /\ split.cores[i - 1].end \in Nat
          /\ split.cores[i - 1].start <= split.cores[i - 1].end
          /\ split.cores[i].start \in Nat
      BY <1>1, <3>1
    <3>4. Low(i) = Greater(split.cores[i - 1].end - split.prev, split.cores[i - 1].start)
      BY <2>1 DEF Low
    <3>. QED BY <1>2, <3>2, <3>3, <3>4, LowFits, Zenon
  <2>2. CASE ~ (i > 1)
    BY <1>1, <2>2 DEF Low
  <2>. QED BY <2>1, <2>2
<1>4. High(i) \in Int /\ split.cores[i].end <= High(i) /\ High(i) <= split.n
  <2>1. CASE i < Len(split.cores)
    <3>1. i + 1 \in 1..Len(split.cores) /\ i < i + 1
      BY <1>2, <2>1
    <3>2. split.cores[i].end <= split.cores[i + 1].start
      BY <3>1 DEF CoresSoFar
    <3>3. /\ split.cores[i + 1].start \in Nat /\ split.cores[i + 1].end \in Nat
          /\ split.cores[i + 1].start <= split.cores[i + 1].end
          /\ split.cores[i + 1].end <= split.n /\ split.cores[i].end \in Nat
      BY <1>1, <3>1
    <3>4. High(i) = Lesser(split.cores[i + 1].start + split.next, split.cores[i + 1].end)
      BY <2>1 DEF High
    <3>. DEFINE a == split.cores[i].end
                b == split.cores[i + 1].start
                c == split.cores[i + 1].end
                n == split.n
                next == split.next
    <3>5. a \in Nat /\ b \in Nat /\ c \in Nat /\ n \in Nat /\ next \in Nat
      BY <1>2, <3>3
    <3>6. a <= b /\ b <= c /\ c <= n
      BY <3>2, <3>3
    <3>. HIDE DEF a, b, c, n, next
    <3>7. Lesser(b + next, c) \in Int /\ a <= Lesser(b + next, c) /\ Lesser(b + next, c) <= n
      BY <3>5, <3>6, HighFits
    <3>. QED BY <3>4, <3>7 DEF a, b, c, n, next
  <2>2. CASE ~ (i < Len(split.cores))
    BY <1>1, <2>2 DEF High
  <2>. QED BY <2>1, <2>2
<1>. QED BY <1>3, <1>4

LEMMA ChunkOfCoreStep ==
  ASSUME split # NoSplit, Record, Sizes, CoresSoFar, ChunksSoFar, AddChunk
  PROVE  SplitInv'
<1>. DEFINE i == Len(split.chunks) + 1
            chunk == [low |-> Low(i), high |-> High(i),
                      count |-> split.cores[i].end - split.cores[i].start]
<1>1. /\ i \in 1..Len(split.cores) /\ Len(split.chunks) \in Nat
      /\ split' = [split EXCEPT !.chunks = Append(@, chunk)]
  BY DEF AddChunk, Sizes
<1>2. /\ split'.n = split.n /\ split'.tokens = split.tokens /\ split'.start = split.start
      /\ split'.prev = split.prev /\ split'.next = split.next
      /\ split'.cores = split.cores /\ split'.chunks = Append(split.chunks, chunk)
  BY <1>1 DEF Record
<1>3. /\ split.cores[i].end - split.cores[i].start \in Int
      /\ split.cores[i].end - split.cores[i].start <= split.tokens
  <2>1. \A k \in 1..Len(split.cores) :
          /\ split.cores[k].start \in Nat /\ split.cores[k].end \in Nat
          /\ split.cores[k].end - split.cores[k].start <= split.tokens
    BY CoreFields DEF Sizes, CoresSoFar, CoreIsBounded
  <2>. HIDE DEF i
  <2>. QED BY <1>1, <2>1
<1>4. /\ chunk \in [low : Int, high : Int, count : Int]
      /\ ChunkHolds(chunk, split.cores[i], split.n, split.tokens)
  BY <1>1, <1>3, WindowHoldsCore DEF ChunkHolds
<1>. HIDE DEF chunk
<1>5. /\ Len(split'.chunks) = i /\ split'.chunks[i] = chunk
      /\ \A j \in 1..Len(split.chunks) : split'.chunks[j] = split.chunks[j]
      /\ split'.chunks \in Seq([low : Int, high : Int, count : Int])
  BY <1>2, <1>4 DEF Sizes
<1>6. Sizes' /\ Record'
  <2>1. Sizes'
    BY <1>2, <1>5 DEF Sizes
  <2>. QED BY <1>1, <1>2, <1>5, <2>1 DEF Record
<1>7. CoresSoFar'
  BY <1>2 DEF CoresSoFar, CoreIsBounded
<1>8. ChunksSoFar'
  <2>1. \A j \in 1..i : j \in 1..Len(split.chunks) \/ j = i
    BY <1>1
  <2>2. ASSUME NEW j \in 1..i
        PROVE  ChunkHolds(split'.chunks[j], split'.cores[j], split.n, split.tokens)
    <3>1. CASE j \in 1..Len(split.chunks)
      BY <1>2, <1>5, <3>1 DEF ChunksSoFar, ChunkHolds
    <3>2. CASE j = i
      BY <1>2, <1>4, <1>5, <3>2 DEF ChunkHolds
    <3>. QED BY <2>1, <3>1, <3>2
  <2>. QED BY <1>1, <1>2, <1>5, <2>2 DEF ChunksSoFar, ChunkHolds
<1>. QED BY <1>6, <1>7, <1>8 DEF SplitInv

LEMMA SplitStep ==
  ASSUME SplitInv, [ChunkerNext]_split
  PROVE  SplitInv'
<1>1. CASE split' = split
  BY <1>1 DEF SplitInv, Record, Sizes, CoresSoFar, ChunksSoFar, CoreIsBounded, ChunkHolds
<1>2. ASSUME NEW n \in TokenCounts, NEW defaults \in Config,
             NEW rows \in {{}} \cup {{r} : r \in Config}, SplitBegin(n, Resolved(rows, defaults))
      PROVE  SplitInv'
  BY <1>2, ResolvedType, BeginStep
<1>3. CASE AddCore
  BY <1>3, CoreStep DEF SplitInv, AddCore
<1>4. CASE AddChunk
  BY <1>4, ChunkOfCoreStep DEF SplitInv, AddChunk
<1>5. CASE SplitEnd
  BY <1>5 DEF SplitEnd, SplitInv
<1>. QED BY <1>1, <1>2, <1>3, <1>4, <1>5 DEF ChunkerNext

\* For every text, core size and overlaps, as a collection or the registry configures
\* them: every token is in exactly one core, and every core is in its chunk.
THEOREM TokensArePartitioned == ChunkerSpec => []EveryTokenHasOneCore
<1>1. ChunkerInit => SplitInv
  BY DEF ChunkerInit, SplitInv
<1>2. SplitInv => EveryTokenHasOneCore
  <2>. SUFFICES ASSUME SplitInv, IsSplit PROVE EveryTokenHasOneCore
    BY DEF EveryTokenHasOneCore
  <2>1. Sizes /\ CoresSoFar /\ ChunksSoFar /\ split.n <= split.start
    BY DEF SplitInv, IsSplit, Sizes
  <2>2. \A i \in 1..Len(split.cores) : split.cores[i].start \in Nat /\ split.cores[i].end \in Nat
    BY <2>1, CoreFields DEF Sizes
  <2>3. Len(split.cores) \in Nat /\ split.n \in Nat /\ split.start \in Nat
    BY <2>1 DEF Sizes
  <2>4. ASSUME NEW p \in 0..split.n - 1
        PROVE  \E i \in 1..Len(split.cores) :
                 /\ split.cores[i].start <= p /\ p < split.cores[i].end
                 /\ \A j \in 1..Len(split.cores) :
                      split.cores[j].start <= p /\ p < split.cores[j].end => j = i
    <3>1. PICK i \in 1..Len(split.cores) : split.cores[i].start <= p /\ p < split.cores[i].end
      <4>1. p < split.start
        BY <2>1, <2>3
      <4>2. \A q \in 0..split.n - 1 : q < split.start =>
              \E i \in 1..Len(split.cores) : split.cores[i].start <= q /\ q < split.cores[i].end
        BY <2>1, Zenon DEF CoresSoFar
      <4>. QED BY <4>1, <4>2, Zenon
    <3>2. ASSUME NEW j \in 1..Len(split.cores), split.cores[j].start <= p, p < split.cores[j].end,
                 j # i
          PROVE  FALSE
      <4>1. CASE i < j
        BY <2>1, <2>2, <3>1, <3>2, <4>1 DEF CoresSoFar
      <4>2. CASE j < i
        BY <2>1, <2>2, <3>1, <3>2, <4>2 DEF CoresSoFar
      <4>. QED BY <2>3, <3>2, <4>1, <4>2
    <3>. QED BY <3>1, <3>2
  <2>. QED BY <2>1, <2>4 DEF EveryTokenHasOneCore, ChunksSoFar, ChunkHolds
<1>. QED BY <1>1, <1>2, SplitStep, PTL DEF ChunkerSpec

-----------------------------------------------------------------------------
LEMMA Smaller ==
  ASSUME NEW a \in Nat, NEW b \in Nat, NEW s \in Nat \ {0}, a * s < b * s
  PROVE  a < b
<1>1. ASSUME b <= a PROVE FALSE
  <2>1. PICK d \in Nat : a = b + d
    <3>1. a - b \in Nat /\ a = b + (a - b)
      BY <1>1
    <3>. QED BY <3>1
  <2>2. a * s = b * s + d * s
    BY <2>1
  <2>3. d * s \in Nat /\ b * s \in Nat
    OBVIOUS
  <2>. QED BY <2>2, <2>3
<1>. QED BY <1>1

\* What the loops have made is exactly what the contract says: the cores are the
\* multiples of the size, and the chunks come after the cores and are their windows.
CoresExact ==
  /\ split.start = Len(split.cores) * split.tokens
  /\ \A i \in 1..Len(split.cores) :
       /\ split.cores[i].start = (i - 1) * split.tokens
       /\ split.cores[i].start < split.n
       /\ split.cores[i].end = Lesser(i * split.tokens, split.n)
ChunksExact ==
  /\ split.chunks # <<>> => split.start >= split.n
  /\ \A i \in 1..Len(split.chunks) :
       split.chunks[i].low = Low(i) /\ split.chunks[i].high = High(i)
\* The overlaps are the configured ones, as far as a core goes.
AsGiven ==
  /\ split.given.prev >= 0 => split.prev = Lesser(split.given.prev, split.tokens)
  /\ split.given.next >= 0 => split.next = Lesser(split.given.next, split.tokens)
Exact == split # NoSplit => CoresExact /\ ChunksExact /\ AsGiven

LEMMA ExactCoreStep ==
  ASSUME SplitInv, Exact, AddCore
  PROVE  Exact'
<1>. DEFINE core == [start |-> split.start,
                     end |-> Lesser(split.start + split.tokens, split.n)]
            m == Len(split.cores)
<1>0. split # NoSplit /\ Record /\ Sizes /\ CoresExact /\ ChunksExact /\ AsGiven
  BY DEF AddCore, SplitInv, Exact
<1>1. /\ split'.n = split.n /\ split'.tokens = split.tokens /\ split'.given = split.given
      /\ split'.prev = split.prev /\ split'.next = split.next
      /\ split'.start = split.start + split.tokens
      /\ split'.cores = Append(split.cores, core) /\ split'.chunks = split.chunks
  BY <1>0 DEF AddCore, NextStart, Record
<1>2. /\ split.start < split.n /\ split.start \in Nat /\ split.n \in Nat
      /\ split.tokens \in Nat \ {0} /\ m \in Nat /\ split.start = m * split.tokens
  BY <1>0 DEF AddCore, Sizes, CoresExact
<1>3. core \in Core
  BY <1>2 DEF Core, Lesser
<1>4. /\ Len(split'.cores) = m + 1 /\ split'.cores[m + 1] = core
      /\ \A i \in 1..m : split'.cores[i] = split.cores[i]
  BY <1>0, <1>1, <1>3 DEF Sizes
<1>5. (m + 1) * split.tokens = split.start + split.tokens /\ ((m + 1) - 1) = m
  BY <1>2
<1>6. split'.chunks = <<>>
  BY <1>0, <1>1, <1>2 DEF ChunksExact
<1>7. ASSUME NEW i \in 1..m + 1
      PROVE  /\ split'.cores[i].start = (i - 1) * split.tokens
             /\ split'.cores[i].start < split.n
             /\ split'.cores[i].end = Lesser(i * split.tokens, split.n)
  <2>1. CASE i = m + 1
    BY <1>2, <1>4, <1>5, <2>1
  <2>2. CASE i \in 1..m
    BY <1>0, <1>4, <2>2 DEF CoresExact
  <2>. QED BY <1>2, <2>1, <2>2
<1>8. CoresExact'
  BY <1>1, <1>4, <1>5, <1>7 DEF CoresExact
<1>9. ChunksExact'
  BY <1>6 DEF ChunksExact
<1>10. AsGiven'
  BY <1>0, <1>1 DEF AsGiven
<1>. QED BY <1>8, <1>9, <1>10 DEF Exact

LEMMA ExactChunkStep ==
  ASSUME SplitInv, Exact, AddChunk
  PROVE  Exact'
<1>. DEFINE k == Len(split.chunks) + 1
            chunk == [low |-> Low(k), high |-> High(k),
                      count |-> split.cores[k].end - split.cores[k].start]
<1>0. split # NoSplit /\ Record /\ Sizes /\ CoresSoFar /\ CoresExact /\ ChunksExact /\ AsGiven
  BY DEF AddChunk, SplitInv, Exact
<1>1. /\ split.start >= split.n /\ k \in 1..Len(split.cores) /\ Len(split.chunks) \in Nat
      /\ split' = [split EXCEPT !.chunks = Append(@, chunk)]
  BY <1>0 DEF AddChunk, Sizes
<1>2. /\ split'.n = split.n /\ split'.tokens = split.tokens /\ split'.start = split.start
      /\ split'.prev = split.prev /\ split'.next = split.next /\ split'.given = split.given
      /\ split'.cores = split.cores /\ split'.chunks = Append(split.chunks, chunk)
  BY <1>0, <1>1 DEF Record
<1>3. chunk \in [low : Int, high : Int, count : Int]
  <2>1. split.cores[k].end \in Nat /\ split.cores[k].start \in Nat
    <3>. HIDE DEF k
    <3>. QED BY <1>0, <1>1, CoreFields DEF Sizes
  <2>2. Low(k) \in Int /\ High(k) \in Int
    BY <1>0, <1>1, WindowHoldsCore
  <2>. HIDE DEF k
  <2>. QED BY <2>1, <2>2
<1>4. /\ Len(split'.chunks) = k /\ split'.chunks[k] = chunk
      /\ \A j \in 1..Len(split.chunks) : split'.chunks[j] = split.chunks[j]
  <2>. HIDE DEF chunk
  <2>. QED BY <1>0, <1>2, <1>3 DEF Sizes
<1>5. CoresExact'
  BY <1>0, <1>2 DEF CoresExact
<1>6. \A i : Low(i)' = Low(i) /\ High(i)' = High(i)
  BY <1>2 DEF Low, High
<1>7. ASSUME NEW i \in 1..k
      PROVE  split'.chunks[i].low = Low(i) /\ split'.chunks[i].high = High(i)
  <2>1. CASE i = k
    BY <1>4, <2>1
  <2>2. CASE i \in 1..Len(split.chunks)
    BY <1>0, <1>4, <2>2 DEF ChunksExact
  <2>. QED BY <1>1, <2>1, <2>2
<1>8. ChunksExact'
  BY <1>1, <1>2, <1>4, <1>6, <1>7 DEF ChunksExact
<1>9. AsGiven'
  BY <1>0, <1>2 DEF AsGiven
<1>. QED BY <1>5, <1>8, <1>9 DEF Exact

LEMMA ExactStep ==
  ASSUME SplitInv, Exact, [ChunkerNext]_split
  PROVE  Exact'
<1>1. CASE split' = split
  BY <1>1 DEF Exact, CoresExact, ChunksExact, Low, High, AsGiven
<1>2. ASSUME NEW n, NEW c \in Given, SplitBegin(n, c) PROVE Exact'
  <2>1. /\ split'.start = 0 /\ split'.cores = <<>> /\ split'.chunks = <<>>
        /\ split'.tokens \in Nat \ {0}
    BY <1>2, ChunkerAssumption DEF SplitBegin, CoreSize, Given
  <2>2. Len(split'.cores) = 0 /\ Len(split'.chunks) = 0
    BY <2>1
  <2>3. CoresExact' /\ ChunksExact'
    BY <2>1, <2>2 DEF CoresExact, ChunksExact
  <2>4. AsGiven'
    <3>1. /\ split'.given = c /\ split'.tokens = CoreSize(c)
          /\ split'.prev = Overlap(c.prev, c) /\ split'.next = Overlap(c.next, c)
      BY <1>2 DEF SplitBegin
    <3>2. /\ c.prev \in Int /\ c.next \in Int
          /\ \A k \in Int : k >= 0 => Greater(k, 0) = k
      BY DEF Given, Greater
    <3>. QED BY <3>1, <3>2 DEF AsGiven, Overlap
  <2>. QED BY <2>3, <2>4 DEF Exact
<1>3. CASE SplitEnd
  BY <1>3 DEF SplitEnd, Exact
<1>. QED BY <1>1, <1>2, <1>3, ExactCoreStep, ExactChunkStep, ResolvedType DEF ChunkerNext

\* A token's core and its place in it.
LEMMA QuotientIs ==
  ASSUME NEW p \in Nat, NEW T \in Nat \ {0}, NEW k \in Nat, k * T <= p, p < k * T + T
  PROVE  p \div T = k /\ p % T = p - k * T
<1>. DEFINE q == p \div T
<1>1. q \in Nat
  OBVIOUS
<1>2. q * T <= p
  OBVIOUS
<1>3. p < q * T + T
  OBVIOUS
<1>4. p % T = p - q * T
  OBVIOUS
<1>. HIDE DEF q
<1>5. /\ (k + 1) * T = k * T + T /\ (q + 1) * T = q * T + T
      /\ k * T \in Nat /\ q * T \in Nat
  BY <1>1
<1>6. q < k + 1
  <2>1. q * T < (k + 1) * T
    BY <1>2, <1>5
  <2>. QED BY <1>1, <2>1, Smaller
<1>7. k < q + 1
  <2>1. k * T < (q + 1) * T
    BY <1>3, <1>5
  <2>. QED BY <1>1, <2>1, Smaller
<1>8. q = k
  BY <1>1, <1>6, <1>7
<1>. QED BY <1>4, <1>8 DEF q

\* A token of core k is in the window of core i as the contract says, by how the two
\* cores lie.
LEMMA WindowTokens ==
  ASSUME Sizes, CoresSoFar, NEW i \in 1..Len(split.cores), NEW k \in 1..Len(split.cores),
         NEW p \in Nat, split.cores[k].start <= p, p < split.cores[k].end
  PROVE  Low(i) <= p /\ p < High(i) <=>
           \/ k = i
           \/ k = i - 1 /\ p >= split.cores[k].end - split.prev
           \/ k = i + 1 /\ p - split.cores[k].start < split.next
<1>0. /\ Len(split.cores) \in Nat /\ split.prev \in Nat /\ split.next \in Nat /\ split.n \in Nat
      /\ \A j \in 1..Len(split.cores) :
           /\ split.cores[j].start \in Nat /\ split.cores[j].end \in Nat
           /\ split.cores[j].start <= split.cores[j].end
  <2>1. \A j \in 1..Len(split.cores) : split.cores[j].start \in Nat /\ split.cores[j].end \in Nat
    BY CoreFields DEF Sizes
  <2>2. \A j \in 1..Len(split.cores) : split.cores[j].start <= split.cores[j].end
    BY DEF CoresSoFar, CoreIsBounded
  <2>3. Len(split.cores) \in Nat
    BY LenProperties DEF Sizes
  <2>. QED BY <2>1, <2>2, <2>3 DEF Sizes
<1>1. \A j, l \in 1..Len(split.cores) : j < l => split.cores[j].end <= split.cores[l].start
  BY DEF CoresSoFar
<1>2. /\ Low(i) \in Int /\ High(i) \in Int
      /\ Low(i) <= split.cores[i].start /\ split.cores[i].end <= High(i)
  BY WindowHoldsCore
<1>3. CASE k = i
  BY <1>0, <1>2, <1>3
<1>4. CASE k = i - 1
  <2>1. Low(i) = Greater(split.cores[k].end - split.prev, split.cores[k].start)
    BY <1>4 DEF Low
  <2>2. p < High(i)
    <3>1. split.cores[k].end <= split.cores[i].start
      BY <1>1, <1>4
    <3>. QED BY <1>0, <1>2, <3>1
  <2>3. Low(i) <= p <=> p >= split.cores[k].end - split.prev
    BY <1>0, <2>1 DEF Greater
  <2>. QED BY <1>4, <2>2, <2>3
<1>5. CASE k = i + 1
  <2>1. High(i) = Lesser(split.cores[k].start + split.next, split.cores[k].end)
    BY <1>0, <1>5 DEF High
  <2>2. Low(i) <= p
    <3>1. split.cores[i].end <= split.cores[k].start
      BY <1>1, <1>5
    <3>. QED BY <1>0, <1>2, <3>1
  <2>3. p < High(i) <=> p - split.cores[k].start < split.next
    BY <1>0, <2>1 DEF Lesser
  <2>. QED BY <1>5, <2>2, <2>3
<1>6. CASE k < i - 1
  <2>1. i - 1 \in 1..Len(split.cores) /\ i > 1
    BY <1>0, <1>6
  <2>2. split.cores[i - 1].start <= Low(i)
    <3>1. Low(i) = Greater(split.cores[i - 1].end - split.prev, split.cores[i - 1].start)
      BY <2>1 DEF Low
    <3>2. split.cores[i - 1].end \in Int /\ split.cores[i - 1].start \in Int
      BY <1>0, <2>1
    <3>. QED BY <1>0, <3>1, <3>2 DEF Greater
  <2>3. split.cores[k].end <= split.cores[i - 1].start
    BY <1>1, <1>6, <2>1
  <2>4. p < Low(i)
    <3>1. split.cores[k].end \in Int /\ split.cores[i - 1].start \in Int /\ Low(i) \in Int
      <4>1. \A j \in 1..Len(split.cores) : split.cores[j].start \in Int /\ split.cores[j].end \in Int
        BY <1>0
      <4>. QED BY <1>2, <2>1, <4>1, Zenon
    <3>. QED BY <2>2, <2>3, <3>1
  <2>. QED BY <1>2, <1>6, <2>4
<1>7. CASE k > i + 1
  <2>1. i + 1 \in 1..Len(split.cores) /\ i < Len(split.cores)
    BY <1>0, <1>7
  <2>2. High(i) <= split.cores[i + 1].end
    <3>1. High(i) = Lesser(split.cores[i + 1].start + split.next, split.cores[i + 1].end)
      BY <2>1 DEF High
    <3>2. split.cores[i + 1].end \in Int /\ split.cores[i + 1].start \in Int
      BY <1>0, <2>1
    <3>. QED BY <1>0, <3>1, <3>2 DEF Lesser
  <2>3. split.cores[i + 1].end <= split.cores[k].start
    BY <1>1, <1>7, <2>1
  <2>4. High(i) <= p
    <3>1. split.cores[k].start \in Int /\ split.cores[i + 1].end \in Int /\ High(i) \in Int
      <4>1. \A j \in 1..Len(split.cores) : split.cores[j].start \in Int /\ split.cores[j].end \in Int
        BY <1>0
      <4>. QED BY <1>2, <2>1, <4>1, Zenon
    <3>. QED BY <2>2, <2>3, <3>1
  <2>. QED BY <1>2, <1>7, <2>4
<1>. QED BY <1>0, <1>3, <1>4, <1>5, <1>6, <1>7

LEMMA ContractHolds ==
  ASSUME SplitInv, Exact, IsSplit
  PROVE  SplitMatchesContract
<1>. DEFINE m == Len(split.cores)
            T == split.tokens
            n == split.n
<1>. DEFINE Named == split.given.prev >= 0 /\ split.given.next >= 0
<1>0. /\ Sizes /\ CoresSoFar /\ CoresExact /\ ChunksExact /\ AsGiven
      /\ n <= split.start /\ Len(split.chunks) = m
      /\ split.given.prev \in Int /\ split.given.next \in Int
  BY DEF IsSplit, SplitInv, Exact, Sizes, Record, Given
<1>1. m \in Nat /\ T \in Nat \ {0} /\ n \in Nat /\ split.start = m * T /\ m * T \in Nat
  BY <1>0 DEF Sizes, CoresExact
<1>2. m = (n + T - 1) \div T
  <2>1. n + T - 1 \in Nat /\ n + T - 1 < m * T + T
    BY <1>0, <1>1
  <2>2. m * T <= n + T - 1
    <3>1. CASE m = 0
      BY <1>1, <3>1
    <3>2. CASE m # 0
      <4>1. m \in 1..m
        BY <1>1, <3>2
      <4>2. (m - 1) * T < n
        BY <1>0, <4>1 DEF CoresExact
      <4>3. m * T = (m - 1) * T + T /\ (m - 1) * T \in Int
        BY <1>1
      <4>. QED BY <1>1, <4>2, <4>3
    <3>. QED BY <3>1, <3>2
  <2>. QED BY <1>1, <2>1, <2>2, QuotientIs
<1>3. ASSUME NEW p \in 0..n - 1
      PROVE  /\ p \div T + 1 \in 1..m
             /\ split.cores[p \div T + 1].start <= p /\ p < split.cores[p \div T + 1].end
             /\ p % T = p - split.cores[p \div T + 1].start
             /\ split.cores[p \div T + 1].end = Lesser((p \div T + 1) * T, n)
  <2>0. p \in Nat /\ p < n
    BY <1>1
  <2>1. PICK k \in 1..m : split.cores[k].start <= p /\ p < split.cores[k].end
    <3>1. p < split.start
      BY <1>0, <1>1, <2>0
    <3>2. \A q \in 0..split.n - 1 : q < split.start =>
            \E k \in 1..Len(split.cores) : split.cores[k].start <= q /\ q < split.cores[k].end
      BY <1>0, Zenon DEF CoresSoFar
    <3>3. CASE walk.cap > 0
      BY <3>1, <3>2, <3>3
    <3>4. CASE ~(walk.cap > 0)
      BY <3>1, <3>2, <3>4
    <3>. QED BY <3>3, <3>4
  <2>2. /\ split.cores[k].start = (k - 1) * T
        /\ split.cores[k].end = Lesser(k * T, n)
    BY <1>0 DEF CoresExact
  <2>3. k * T = (k - 1) * T + T /\ k - 1 \in Nat /\ (k - 1) * T \in Nat
    BY <1>1
  <2>4. (k - 1) * T <= p /\ p < (k - 1) * T + T
    BY <1>1, <2>0, <2>1, <2>2, <2>3 DEF Lesser
  <2>5. p \div T = k - 1 /\ p % T = p - (k - 1) * T
    BY <1>1, <2>0, <2>3, <2>4, QuotientIs
  <2>6. p \div T + 1 = k
    BY <2>5, <2>3
  <2>. QED BY <2>1, <2>2, <2>5, <2>6
<1>4. ASSUME Named, NEW i \in 1..m, NEW p \in 0..n - 1
      PROVE  InChunk(p, i) <=> p \in Low(i)..(High(i) - 1)
  <2>. DEFINE k == p \div T + 1
  <2>1. /\ k \in 1..m /\ split.cores[k].start <= p /\ p < split.cores[k].end
        /\ p % T = p - split.cores[k].start /\ split.cores[k].end = Lesser(k * T, n)
    BY <1>3
  <2>2. InChunk(p, i) <=> \/ k = i
                          \/ k = i - 1 /\ p >= split.cores[k].end - split.prev
                          \/ k = i + 1 /\ p - split.cores[k].start < split.next
    <3>. DEFINE s == split.cores[k].start
                e == split.cores[k].end
                gp == split.given.prev
                gn == split.given.next
    <3>1. InChunk(p, i) <=> k = i \/ (k = i - 1 /\ p >= e - gp) \/ (k = i + 1 /\ p - s < gn)
      BY <2>1 DEF InChunk
    <3>2. s \in Nat /\ e \in Nat /\ e - s <= T
      BY <1>0, <2>1, CoreFields DEF Sizes, CoresSoFar, CoreIsBounded
    <3>3. /\ p \in Nat /\ s <= p /\ p < e /\ gp \in Nat /\ gn \in Nat
          /\ split.prev = Lesser(gp, T) /\ split.next = Lesser(gn, T)
      BY <1>0, <1>1, <1>4, <2>1 DEF AsGiven
    <3>. HIDE DEF k, s, e, gp, gn
    <3>4. (p >= e - gp <=> p >= e - split.prev) /\ (p - s < gn <=> p - s < split.next)
      BY <1>1, <3>2, <3>3 DEF Lesser
    <3>5. InChunk(p, i) <=> \/ k = i
                            \/ k = i - 1 /\ p >= e - split.prev
                            \/ k = i + 1 /\ p - s < split.next
      BY <3>1, <3>4
    <3>. QED BY <3>5 DEF s, e
  <2>. HIDE DEF k
  <2>3. p \in Nat
    BY <1>1
  <2>4. Low(i) <= p /\ p < High(i) <=> InChunk(p, i)
    BY <1>0, <2>1, <2>2, <2>3, WindowTokens
  <2>5. Low(i) \in Int /\ High(i) \in Int
    BY <1>0, WindowHoldsCore
  <2>. QED BY <2>3, <2>4, <2>5
<1>5. ASSUME Named, NEW i \in 1..m
      PROVE  split.chunks[i].low .. split.chunks[i].high - 1 = {p \in 0..n - 1 : InChunk(p, i)}
  <2>1. /\ split.chunks[i].low = Low(i) /\ split.chunks[i].high = High(i)
        /\ Low(i) \in Int /\ High(i) \in Int /\ High(i) <= n
    BY <1>0, WindowHoldsCore DEF ChunksExact
  <2>2. 0 <= Low(i)
    <3>1. \A j \in 1..m : split.cores[j].start \in Nat /\ split.cores[j].end \in Nat
      BY <1>0, CoreFields DEF Sizes
    <3>2. CASE i > 1
      <4>1. i - 1 \in 1..m
        BY <1>1, <3>2
      <4>2. Low(i) = Greater(split.cores[i - 1].end - split.prev, split.cores[i - 1].start)
        BY <3>2 DEF Low
      <4>3. /\ split.cores[i - 1].end \in Int /\ split.cores[i - 1].start \in Nat
            /\ split.prev \in Int
        <5>1. split.prev \in Int
          BY <1>0 DEF Sizes
        <5>2. \A j \in 1..m : split.cores[j].end \in Int
          BY <3>1
        <5>. QED BY <3>1, <4>1, <5>1, <5>2, Zenon
      <4>. QED BY <4>2, <4>3 DEF Greater
    <3>3. CASE ~(i > 1)
      BY <3>1, <3>3 DEF Low
    <3>. QED BY <3>2, <3>3
  <2>3. Low(i)..(High(i) - 1) \subseteq 0..n - 1
    BY <1>1, <2>1, <2>2
  <2>. QED BY <1>4, <1>5, <2>1, <2>3
<1>. QED BY <1>0, <1>2, <1>5 DEF SplitMatchesContract

\* For every text and every configuration Split makes the number of chunks that its
\* contract names, and, unless an overlap is configured as negative, each is its core
\* with the overlaps that its neighbours' cores have room for.
THEOREM SplitsAreAsPromised == ChunkerSpec => []SplitMatchesContract
<1>1. ChunkerInit => SplitInv /\ Exact
  BY DEF ChunkerInit, SplitInv, Exact
<1>2. SplitInv /\ Exact => SplitMatchesContract
  BY ContractHolds DEF SplitMatchesContract
<1>. QED BY <1>1, <1>2, SplitStep, ExactStep, PTL DEF ChunkerSpec

-----------------------------------------------------------------------------
\* ocrAllPages: a page that has ended without an error has its whole text.
PdfOf(n) == [page : [1..n -> PageState], file : [1..n -> {"none", "partial", "whole"}],
             errors : SUBSET (1..n)]
PdfKnown ==
  pdf # NoJob =>
    /\ \E n \in Nat : pdf \in PdfOf(n)
    /\ \A i \in Pages : pdf.page[i] = "ended" => i \in pdf.errors \/ pdf.file[i] = "whole"

LEMMA PdfStep ==
  ASSUME PdfKnown, PdfNext
  PROVE  PdfKnown'
<1>1. ASSUME NEW n \in PageCounts, PdfBegin(n) PROVE PdfKnown'
  <2>1. n \in Nat
    BY PartsAssumption
  <2>2. pdf' \in PdfOf(n)
    BY <1>1, <2>1 DEF PdfBegin, PdfOf, PageState
  <2>3. \A i \in 1..n : pdf'.page[i] # "ended"
    BY <1>1 DEF PdfBegin
  <2>4. Pages' = 1..n
    BY <2>2 DEF Pages, PdfOf
  <2>. QED BY <2>1, <2>2, <2>3, <2>4 DEF PdfKnown
<1>2. ASSUME pdf # NoJob, NEW i \in Pages, PageBegin(i) \/ PageRendered(i) \/ PageRead(i)
      PROVE  PdfKnown'
  <2>1. PICK n \in Nat : pdf \in PdfOf(n)
    BY <1>2 DEF PdfKnown
  <2>2. Pages = 1..n
    BY <2>1 DEF Pages, PdfOf
  <2>3. ASSUME NEW s \in PageState \ {"ended"}, pdf' = PageTo(i, s) PROVE PdfKnown'
    BY <1>2, <2>1, <2>2, <2>3 DEF PageTo, PdfOf, PdfKnown, Pages
  <2>4. /\ PageTo(i, "ended") \in PdfOf(n)
        /\ PageTo(i, "ended").page = [pdf.page EXCEPT ![i] = "ended"]
        /\ PageTo(i, "ended").file = pdf.file
        /\ PageTo(i, "ended").errors = pdf.errors
    BY <2>1, <2>2 DEF PageTo, PdfOf, PageState
  <2>5. /\ PageFails(i) \in PdfOf(n)
        /\ PageFails(i).page = [pdf.page EXCEPT ![i] = "ended"]
        /\ PageFails(i).file = pdf.file
        /\ PageFails(i).errors = pdf.errors \cup {i}
    BY <2>2, <2>4 DEF PdfOf, PageFails
  <2>7. ASSUME pdf' \in PdfOf(n), pdf'.page = [pdf.page EXCEPT ![i] = "ended"],
               pdf'.errors = pdf.errors \cup {i},
               \A k \in 1..n : k # i => pdf'.file[k] = pdf.file[k]
        PROVE  PdfKnown'
    <3>1. Pages' = 1..n
      BY <2>7 DEF PdfOf, Pages
    <3>2. \A k \in 1..n : pdf'.page[k] = "ended" => k \in pdf'.errors \/ pdf'.file[k] = "whole"
      BY <1>2, <2>1, <2>2, <2>7 DEF PdfOf, PdfKnown
    <3>. QED BY <2>7, <3>1, <3>2 DEF PdfKnown
  <2>8. ASSUME NEW f \in {"none", "partial", "whole"}, pdf' = [PageFails(i) EXCEPT !.file[i] = f]
        PROVE  PdfKnown'
    <3>1. /\ pdf' \in PdfOf(n) /\ pdf'.page = PageFails(i).page
          /\ pdf'.errors = PageFails(i).errors
          /\ pdf'.file = [PageFails(i).file EXCEPT ![i] = f]
      BY <2>2, <2>5, <2>8 DEF PdfOf
    <3>. QED BY <2>1, <2>5, <2>7, <3>1 DEF PdfOf
  <2>9. ASSUME pdf' = PageFails(i) PROVE PdfKnown'
    BY <2>5, <2>7, <2>9
  <2>6. ASSUME pdf' = [PageTo(i, "ended") EXCEPT !.file[i] = "whole"] PROVE PdfKnown'
    BY <1>2, <2>1, <2>2, <2>6 DEF PageTo, PdfOf, PdfKnown, Pages, PageState
  <2>. QED
    BY <1>2, <2>3, <2>6, <2>8, <2>9 DEF PageBegin, PageRendered, PageRead, PageState
<1>3. CASE PagesPosted \/ PagesFailed
  BY <1>3 DEF PagesPosted, PagesFailed, PdfKnown
<1>. QED BY <1>1, <1>2, <1>3 DEF PdfNext

\* A PDF's text is posted only when every page of it was read to its end, in whatever
\* order the pages run, end and fail.
THEOREM TextsAreWhole == PartsSpec => PostedIsWhole
<1>1. PartsInit => PdfKnown
  BY DEF PartsInit, PdfKnown
<1>2. PdfKnown /\ [PdfNext \/ BatchNext]_<<pdf, batch>> => PdfKnown'
  <2>. SUFFICES ASSUME PdfKnown, [PdfNext \/ BatchNext]_<<pdf, batch>> PROVE PdfKnown'
    OBVIOUS
  <2>1. ASSUME pdf' = pdf PROVE PdfKnown'
    BY <2>1 DEF PdfKnown, Pages
  <2>2. ASSUME BatchNext PROVE pdf' = pdf
    BY <2>2 DEF BatchNext, BatchBegin, GroupBegin, TextAnswered, GroupLeft, GroupAnswered,
       Stop, BatchEnd
  <2>. QED BY <2>1, <2>2, PdfStep
<1>3. PdfKnown => (pdf # NoJob => (PagesPosted => \A i \in Pages : pdf.file[i] = "whole"))
  BY DEF PdfKnown, PagesPosted, NoPageFailed, Waited
<1>4. PdfKnown /\ [PdfNext \/ BatchNext]_<<pdf, batch>>
        => [pdf # NoJob => (PagesPosted => \A i \in Pages : pdf.file[i] = "whole")]_<<pdf, batch>>
  BY <1>3
<1>. QED BY <1>1, <1>2, <1>4, PTL DEF PartsSpec, PostedIsWhole

-----------------------------------------------------------------------------
\* The sub-batches of n texts: the parts First(g)..Last(g) of 1..n, none of them empty.

LEMMA GroupCount ==
  ASSUME NEW n \in Nat
  PROVE  /\ (n + SubBatch - 1) \div SubBatch \in Nat
         /\ ((n + SubBatch - 1) \div SubBatch) * SubBatch <= n + SubBatch - 1
         /\ n + SubBatch - 1 < ((n + SubBatch - 1) \div SubBatch) * SubBatch + SubBatch
<1>1. n + SubBatch - 1 \in Nat /\ SubBatch \in Nat \ {0}
  BY PartsAssumption
<1>2. \A a \in Nat, b \in Nat \ {0} : a \div b \in Nat
  OBVIOUS
<1>3. \A a \in Nat, b \in Nat \ {0} : (a \div b) * b <= a
  OBVIOUS
<1>4. \A a \in Nat, b \in Nat \ {0} : a < (a \div b) * b + b
  OBVIOUS
<1>. QED BY <1>1, <1>2, <1>3, <1>4

LEMMA GroupIsPart ==
  ASSUME NEW n \in Nat, Size = n, NEW g \in Groups(n)
  PROVE  First(g) \in 1..n /\ Last(g) \in First(g)..n
<1>. DEFINE Q == (n + SubBatch - 1) \div SubBatch
<1>0. g \in Nat \ {0} /\ g <= Q /\ SubBatch \in Nat \ {0} /\ Q \in Nat
  BY PartsAssumption, GroupCount DEF Groups
<1>1. (g - 1) * SubBatch \in Nat /\ g * SubBatch = (g - 1) * SubBatch + SubBatch
  BY <1>0
<1>2. g * SubBatch <= Q * SubBatch
  <2>1. PICK d \in Nat : Q = g + d
    <3>1. Q - g \in Nat /\ Q = g + (Q - g)
      BY <1>0
    <3>. QED BY <3>1
  <2>2. Q * SubBatch = g * SubBatch + d * SubBatch
    BY <1>0, <2>1
  <2>3. d * SubBatch \in Nat /\ g * SubBatch \in Nat
    BY <1>0
  <2>. QED BY <2>2, <2>3
<1>3. Q * SubBatch <= n + SubBatch - 1 /\ Q * SubBatch \in Nat
  BY <1>0, GroupCount
<1>4. First(g) \in 1..n
  BY <1>0, <1>1, <1>2, <1>3 DEF First
<1>. QED BY <1>0, <1>1, <1>4 DEF First, Last

LEMMA EveryTextHasAGroup ==
  ASSUME NEW n \in Nat, Size = n, NEW i \in 1..n
  PROVE  \E g \in Groups(n) : i \in First(g)..Last(g)
<1>. DEFINE Q == (n + SubBatch - 1) \div SubBatch
            q == (i - 1) \div SubBatch
<1>0. SubBatch \in Nat \ {0} /\ i - 1 \in Nat
  BY PartsAssumption
<1>1. q \in Nat
  BY <1>0
<1>2. q * SubBatch <= i - 1
  BY <1>0
<1>3. i - 1 < q * SubBatch + SubBatch
  BY <1>0
<1>4. q + 1 \in 1..Q
  <2>1. Q \in Nat /\ n + SubBatch - 1 < Q * SubBatch + SubBatch
    BY GroupCount
  <2>2. (q + 1) * SubBatch < (Q + 1) * SubBatch
    <3>1. /\ (q + 1) * SubBatch = q * SubBatch + SubBatch
          /\ (Q + 1) * SubBatch = Q * SubBatch + SubBatch
          /\ q * SubBatch \in Nat /\ Q * SubBatch \in Nat
      BY <1>0, <1>1, <2>1
    <3>. QED BY <1>0, <1>2, <2>1, <3>1
  <2>3. q + 1 < Q + 1
    BY <1>0, <1>1, <2>1, <2>2, Smaller
  <2>. QED BY <1>1, <2>1, <2>3
<1>5. First(q + 1) = q * SubBatch + 1 /\ q * SubBatch \in Nat
  BY <1>0, <1>1 DEF First
<1>6. (q + 1) * SubBatch = q * SubBatch + SubBatch
  BY <1>0, <1>1
<1>7. i \in First(q + 1)..Last(q + 1)
  BY <1>0, <1>2, <1>3, <1>5, <1>6 DEF Last
<1>. QED BY <1>4, <1>7 DEF Groups

LEMMA TextsOfGroup ==
  ASSUME NEW n \in Nat, Size = n, NEW g \in Groups(n)
  PROVE  /\ Texts(g) \in Seq(Int)
         /\ Len(Texts(g)) = Last(g) - First(g) + 1
         /\ DOMAIN Texts(g) = 1..(Last(g) - First(g) + 1)
         /\ \A j \in 1..(Last(g) - First(g) + 1) : Texts(g)[j] = First(g) + j - 1
<1>. DEFINE m == Last(g) - First(g) + 1
<1>1. First(g) \in Nat /\ m \in Nat
  BY GroupIsPart
<1>2. \A j \in 1..m : First(g) + j - 1 \in Int
  BY <1>1
<1>3. [j \in 1..m |-> First(g) + j - 1] \in [1..m -> Int]
  BY <1>2
<1>. QED BY <1>1, <1>3 DEF Texts

\* Only a whole answer fits: it has a vector for every text, in their order, or an
\* empty one.
LEMMA WholeReply ==
  ASSUME NEW n \in Nat, Size = n, NEW g \in Groups(n), NEW reply \in Replies(g), Fits(reply, g)
  PROVE  /\ DOMAIN reply = 1..(Last(g) - First(g) + 1)
         /\ \A j \in 1..(Last(g) - First(g) + 1) : reply[j] \in {First(g) + j - 1, Empty}
<1>1. Texts(g) \in Seq(Int) /\ Len(Texts(g)) \in Nat \ {0}
  BY GroupIsPart, TextsOfGroup
<1>2. reply # <<>>
  BY <1>1 DEF Fits
<1>3. reply # Tail(Texts(g))
  <2>1. Texts(g) # <<>>
    BY <1>1
  <2>2. Len(Tail(Texts(g))) = Len(Texts(g)) - 1
    BY <1>1, <2>1
  <2>. QED BY <1>1, <2>2 DEF Fits
<1>4. PICK J \in SUBSET DOMAIN Texts(g) : reply = Emptied(g, J)
  BY <1>2, <1>3 DEF Replies
<1>. QED BY <1>4, TextsOfGroup DEF Emptied

-----------------------------------------------------------------------------
\* embedFleet.

BatchOf(n) == [result : [1..n -> Int], stopped : BOOLEAN, group : [Groups(n) -> Group]]
OwnVectors == \A i \in 1..Size : batch.result[i] \in {NoResult, Failed, Empty, i}
\* The texts that group g has behind it have something in their place.
GroupKnown(g) ==
  /\ batch.group[g].stage = "singly" =>
       /\ batch.group[g].at \in First(g)..Last(g)
       /\ \A i \in First(g)..(batch.group[g].at - 1) : batch.result[i] # NoResult
  /\ batch.group[g].stage = "done" /\ ~batch.stopped =>
       \A i \in First(g)..Last(g) : batch.result[i] # NoResult
BatchKnown ==
  batch # NoJob => /\ \E n \in Nat : batch \in BatchOf(n)
                   /\ OwnVectors
                   /\ \A g \in DOMAIN batch.group : GroupKnown(g)

LEMMA SizeOf ==
  ASSUME NEW n \in Nat, NEW b \in BatchOf(n)
  PROVE  Len(b.result) = n /\ DOMAIN b.group = Groups(n)
<1>1. b.result \in [1..n -> Int] /\ DOMAIN b.group = Groups(n)
  BY DEF BatchOf
<1>2. b.result \in Seq(Int)
  BY <1>1
<1>. QED BY <1>1, <1>2

\* A step of one group: others keep what they know, as nothing is taken back.
LEMMA GroupStep ==
  ASSUME BatchKnown, batch # NoJob, NEW n \in Nat, batch \in BatchOf(n), NEW g \in Groups(n),
         batch' \in BatchOf(n), batch'.stopped <=> batch.stopped,
         \A h \in Groups(n) : h # g => batch'.group[h] = batch.group[h],
         \A i \in 1..n : /\ batch'.result[i] \in {NoResult, Failed, Empty, i}
                         /\ batch.result[i] # NoResult => batch'.result[i] # NoResult,
         GroupKnown(g)'
  PROVE  BatchKnown'
<1>1. Size = n /\ DOMAIN batch.group = Groups(n)
  BY SizeOf DEF Size
<1>2. Size' = n /\ DOMAIN batch'.group = Groups(n)
  BY SizeOf DEF Size
<1>3. ASSUME NEW h \in Groups(n), h # g PROVE GroupKnown(h)'
  <2>1. GroupKnown(h) /\ First(h) \in 1..n /\ Last(h) \in First(h)..n
    BY <1>1, GroupIsPart DEF BatchKnown
  <2>2. Last(h)' = Last(h) /\ batch'.group[h] = batch.group[h]
    BY <1>1, <1>2, <1>3 DEF Last
  <2>3. batch.group[h].stage = "singly" => batch.group[h].at \in 1..n
    BY <2>1 DEF GroupKnown
  <2>. QED BY <2>1, <2>2, <2>3 DEF GroupKnown
<1>4. OwnVectors'
  BY <1>2 DEF OwnVectors
<1>. QED BY <1>2, <1>3, <1>4 DEF BatchKnown

LEMMA BatchStep ==
  ASSUME BatchKnown, BatchNext
  PROVE  BatchKnown'
<1>1. ASSUME NEW n \in BatchSizes, BatchBegin(n) PROVE BatchKnown'
  <2>1. n \in Nat
    BY PartsAssumption
  <2>2. batch' \in BatchOf(n)
    BY <1>1, <2>1 DEF BatchBegin, BatchOf, Group, NoResult
  <2>3. Size' = n /\ DOMAIN batch'.group = Groups(n)
    BY <2>1, <2>2, SizeOf DEF Size
  <2>4. OwnVectors'
    BY <1>1, <2>3 DEF BatchBegin, OwnVectors
  <2>5. \A g \in Groups(n) : batch'.group[g].stage = "waiting"
    BY <1>1 DEF BatchBegin
  <2>. QED BY <2>1, <2>2, <2>3, <2>4, <2>5 DEF BatchKnown, GroupKnown
<1>2. ASSUME batch # NoJob, NEW g \in DOMAIN batch.group,
             \/ GroupBegin(g) \/ TextAnswered(g) \/ GroupLeft(g)
             \/ \E reply \in Replies(g) : GroupAnswered(g, reply)
      PROVE  BatchKnown'
  <2>1. PICK n \in Nat : batch \in BatchOf(n)
    BY <1>2 DEF BatchKnown
  <2>2. Size = n /\ g \in Groups(n) /\ DOMAIN batch.group = Groups(n)
    BY <1>2, <2>1, SizeOf DEF Size
  <2>3. First(g) \in 1..n /\ Last(g) \in First(g)..n
    BY <2>1, <2>2, GroupIsPart
  <2>4. OwnVectors /\ GroupKnown(g)
    BY <1>2 DEF BatchKnown
  <2>5. /\ batch.result \in [1..n -> Int] /\ batch.group \in [Groups(n) -> Group]
        /\ batch.stopped \in BOOLEAN
    BY <2>1 DEF BatchOf
  <2>6. ASSUME batch' \in BatchOf(n)
        PROVE  Last(g)' = Last(g)
    BY <2>1, <2>2, <2>6, SizeOf DEF Size, Last
  <2>7. ASSUME NEW s \in {"waiting", "asked", "singly", "done"}, NEW at \in Nat,
               batch' = [batch EXCEPT !.group = GroupTo(g, s, at)]
        PROVE  /\ batch' \in BatchOf(n) /\ (batch'.stopped <=> batch.stopped)
               /\ batch'.group[g] = [stage |-> s, at |-> at]
               /\ \A h \in Groups(n) : h # g => batch'.group[h] = batch.group[h]
               /\ batch'.result = batch.result
    BY <2>1, <2>2, <2>5, <2>7 DEF BatchOf, GroupTo, Group
  <2>8. \A i \in 1..n : batch.result[i] \in {NoResult, Failed, Empty, i}
    BY <2>2, <2>4 DEF OwnVectors
  <2>9. CASE GroupBegin(g)
    <3>1. batch' = [batch EXCEPT !.group = GroupTo(g, "asked", 0)]
      BY <2>9 DEF GroupBegin
    <3>2. /\ batch' \in BatchOf(n) /\ (batch'.stopped <=> batch.stopped)
          /\ batch'.group[g] = [stage |-> "asked", at |-> 0]
          /\ \A h \in Groups(n) : h # g => batch'.group[h] = batch.group[h]
          /\ batch'.result = batch.result
      BY <2>7, <3>1
    <3>3. GroupKnown(g)'
      BY <3>1, <3>2 DEF GroupKnown
    <3>. QED BY <1>2, <2>1, <2>2, <2>8, <3>2, <3>3, GroupStep
  <2>10. CASE GroupLeft(g)
    <3>1. batch' = [batch EXCEPT !.group = GroupTo(g, "done", 0)] /\ batch.stopped
      BY <2>10 DEF GroupLeft
    <3>2. /\ batch' \in BatchOf(n) /\ (batch'.stopped <=> batch.stopped)
          /\ batch'.group[g] = [stage |-> "done", at |-> 0]
          /\ \A h \in Groups(n) : h # g => batch'.group[h] = batch.group[h]
          /\ batch'.result = batch.result
      BY <2>7, <3>1
    <3>3. GroupKnown(g)'
      BY <3>1, <3>2 DEF GroupKnown
    <3>. QED BY <1>2, <2>1, <2>2, <2>8, <3>2, <3>3, GroupStep
  <2>11. ASSUME NEW reply \in Replies(g), GroupAnswered(g, reply) PROVE BatchKnown'
    <3>1. CASE ~Fits(reply, g)
      <4>1. batch' = [batch EXCEPT !.group = GroupTo(g, "singly", First(g))]
        BY <2>11, <3>1 DEF GroupAnswered
      <4>2. First(g) \in Nat
        BY <2>3
      <4>3. /\ batch' \in BatchOf(n) /\ (batch'.stopped <=> batch.stopped)
            /\ batch'.group[g] = [stage |-> "singly", at |-> First(g)]
            /\ \A h \in Groups(n) : h # g => batch'.group[h] = batch.group[h]
            /\ batch'.result = batch.result
        BY <2>7, <4>1, <4>2
      <4>4. Last(g)' = Last(g)
        BY <2>6, <4>3
      <4>5. GroupKnown(g)'
        BY <2>3, <4>3, <4>4 DEF GroupKnown
      <4>. QED BY <1>2, <2>1, <2>2, <2>8, <4>3, <4>5, GroupStep
    <3>2. CASE Fits(reply, g)
      <4>. DEFINE result == [i \in 1..n |->
                    IF i - First(g) + 1 \in DOMAIN reply THEN reply[i - First(g) + 1]
                    ELSE batch.result[i]]
      <4>1. /\ DOMAIN reply = 1..(Last(g) - First(g) + 1)
            /\ \A j \in 1..(Last(g) - First(g) + 1) : reply[j] \in {First(g) + j - 1, Empty}
        BY <2>2, <2>11, <3>2, WholeReply
      <4>2. \A i \in 1..n : i - First(g) + 1 \in DOMAIN reply <=> i \in First(g)..Last(g)
        BY <2>3, <4>1
      <4>3. \A i \in 1..n : IF i \in First(g)..Last(g) THEN result[i] \in {i, Empty}
                           ELSE result[i] = batch.result[i]
        <5>. SUFFICES ASSUME NEW i \in 1..n
                      PROVE  IF i \in First(g)..Last(g) THEN result[i] \in {i, Empty}
                             ELSE result[i] = batch.result[i]
          OBVIOUS
        <5>1. CASE i \in First(g)..Last(g)
          <6>1. /\ i - First(g) + 1 \in 1..(Last(g) - First(g) + 1)
                /\ First(g) + (i - First(g) + 1) - 1 = i
            BY <2>3, <5>1
          <6>2. reply[i - First(g) + 1] \in {i, Empty}
            BY <4>1, <6>1
          <6>. QED BY <4>2, <5>1, <6>2
        <5>2. CASE i \notin First(g)..Last(g)
          BY <4>2, <5>2
        <5>. QED BY <5>1, <5>2
      <4>4. result \in [1..n -> Int] /\ Empty \in Int
        BY <2>5, <4>3 DEF Empty
      <4>5. batch' = [batch EXCEPT !.group = GroupTo(g, "done", 0), !.result = result]
        BY <2>5, <2>11, <3>2 DEF GroupAnswered
      <4>6. /\ batch' \in BatchOf(n) /\ (batch'.stopped <=> batch.stopped)
            /\ batch'.group[g] = [stage |-> "done", at |-> 0]
            /\ \A h \in Groups(n) : h # g => batch'.group[h] = batch.group[h]
            /\ batch'.result = result
        BY <2>1, <2>2, <2>5, <4>4, <4>5 DEF BatchOf, GroupTo, Group
      <4>7. \A i \in 1..n : /\ batch'.result[i] \in {NoResult, Failed, Empty, i}
                            /\ batch.result[i] # NoResult => batch'.result[i] # NoResult
        BY <2>8, <4>3, <4>6 DEF NoResult, Empty
      <4>8. GroupKnown(g)'
        <5>1. \A i \in First(g)..Last(g) : i \in 1..n /\ i # NoResult /\ Empty # NoResult
          BY <2>3 DEF NoResult, Empty
        <5>2. Last(g)' = Last(g)
          BY <2>6, <4>6
        <5>. HIDE DEF result
        <5>3. \A i \in First(g)..Last(g) : batch'.result[i] # NoResult
          BY <4>3, <4>6, <5>1
        <5>. QED BY <4>6, <5>2, <5>3 DEF GroupKnown
      <4>. QED BY <1>2, <2>1, <2>2, <4>6, <4>7, <4>8, GroupStep
    <3>. QED BY <3>1, <3>2
  <2>12. CASE TextAnswered(g)
    <3>. DEFINE i == batch.group[g].at
                s == IF i = Last(g) THEN "done" ELSE "singly"
                at == IF i = Last(g) THEN 0 ELSE i + 1
    <3>1. /\ i \in First(g)..Last(g)
          /\ \A k \in First(g)..(i - 1) : batch.result[k] # NoResult
      BY <2>4, <2>12 DEF TextAnswered, GroupKnown
    <3>2. i \in 1..n /\ at \in Nat /\ s \in {"singly", "done"}
      BY <2>3, <3>1
    <3>3. PICK r \in {i, Failed} :
            batch' = [batch EXCEPT !.result[i] = r, !.group = GroupTo(g, s, at)]
      BY <2>12 DEF TextAnswered
    <3>4. r \in Int /\ r # NoResult
      BY <3>2 DEF Failed, NoResult
    <3>5. /\ batch' \in BatchOf(n) /\ (batch'.stopped <=> batch.stopped)
          /\ batch'.group[g] = [stage |-> s, at |-> at]
          /\ \A h \in Groups(n) : h # g => batch'.group[h] = batch.group[h]
          /\ batch'.result = [batch.result EXCEPT ![i] = r]
      BY <2>1, <2>2, <2>5, <3>2, <3>3, <3>4 DEF BatchOf, GroupTo, Group
    <3>6. \A k \in 1..n : batch'.result[k] = IF k = i THEN r ELSE batch.result[k]
      BY <2>5, <3>2, <3>5
    <3>7. \A k \in 1..n : /\ batch'.result[k] \in {NoResult, Failed, Empty, k}
                          /\ batch.result[k] # NoResult => batch'.result[k] # NoResult
      BY <2>8, <3>4, <3>6
    <3>8. Last(g)' = Last(g)
      BY <2>6, <3>5
    <3>9. \A k \in First(g)..i : batch'.result[k] # NoResult
      BY <2>3, <3>1, <3>4, <3>6
    <3>. QED
      <4>1. GroupKnown(g)' => BatchKnown'
        BY <1>2, <2>1, <2>2, <3>5, <3>7, GroupStep
      <4>2. CASE i = Last(g)
        <5>1. GroupKnown(g)'
          BY <3>5, <3>8, <3>9, <4>2 DEF GroupKnown
        <5>. QED BY <4>1, <5>1
      <4>3. CASE i # Last(g)
        <5>1. at = i + 1 /\ at \in First(g)..Last(g)
              /\ \A k \in First(g)..(at - 1) : k \in First(g)..i
          BY <2>3, <3>1, <4>3
        <5>2. GroupKnown(g)'
          BY <3>5, <3>8, <3>9, <4>3, <5>1 DEF GroupKnown
        <5>. QED BY <4>1, <5>2
      <4>. QED BY <4>2, <4>3
  <2>. QED BY <1>2, <2>9, <2>10, <2>11, <2>12
<1>3. CASE Stop
  <2>1. PICK n \in Nat : batch \in BatchOf(n)
    BY <1>3 DEF Stop, BatchKnown
  <2>2. /\ batch' \in BatchOf(n) /\ batch'.stopped
        /\ batch'.result = batch.result /\ batch'.group = batch.group
    BY <1>3, <2>1 DEF Stop, BatchOf
  <2>3. Size' = n /\ Size = n
    BY <2>1, <2>2, SizeOf DEF Size
  <2>4. ASSUME NEW g \in DOMAIN batch.group PROVE GroupKnown(g)'
    <3>1. GroupKnown(g) /\ Last(g)' = Last(g)
      BY <1>3, <2>3 DEF Stop, BatchKnown, Last
    <3>. QED BY <2>2, <3>1 DEF GroupKnown
  <2>5. OwnVectors'
    BY <1>3, <2>2, <2>3 DEF Stop, BatchKnown, OwnVectors
  <2>. QED BY <2>2, <2>4, <2>5 DEF BatchKnown
<1>4. CASE BatchEnd
  BY <1>4 DEF BatchEnd, BatchKnown
<1>. QED BY <1>1, <1>2, <1>3, <1>4 DEF BatchNext

\* Every text of a batch gets its own vector, a failure, or an empty vector that a
\* service gave in its place, for any batch, any sub-batch size and any fleet, however
\* the sub-batches overlap, fail or come back short.
THEOREM VectorsAreTheirTexts == PartsSpec => []VectorsMatchTexts
<1>1. PartsInit => BatchKnown
  BY DEF PartsInit, BatchKnown
<1>2. BatchKnown /\ [PdfNext \/ BatchNext]_<<pdf, batch>> => BatchKnown'
  <2>. SUFFICES ASSUME BatchKnown, [PdfNext \/ BatchNext]_<<pdf, batch>> PROVE BatchKnown'
    OBVIOUS
  <2>1. ASSUME batch' = batch PROVE BatchKnown'
    BY <2>1 DEF BatchKnown, OwnVectors, GroupKnown, Size, Last
  <2>2. ASSUME PdfNext PROVE batch' = batch
    BY <2>2 DEF PdfNext, PdfBegin, PageBegin, PageRendered, PageRead, PagesPosted, PagesFailed
  <2>. QED BY <2>1, <2>2, BatchStep
<1>3. BatchKnown => VectorsMatchTexts
  <2>. SUFFICES ASSUME BatchKnown, batch # NoJob
                PROVE  /\ OwnVectors
                       /\ AllAsked /\ ~batch.stopped =>
                            \A i \in 1..Size : batch.result[i] # NoResult
    BY DEF VectorsMatchTexts, OwnVectors
  <2>1. PICK n \in Nat : batch \in BatchOf(n)
    BY DEF BatchKnown
  <2>2. Size = n /\ DOMAIN batch.group = Groups(n)
    BY <2>1, SizeOf DEF Size
  <2>3. ASSUME AllAsked, ~batch.stopped, NEW i \in 1..n PROVE batch.result[i] # NoResult
    <3>1. PICK g \in Groups(n) : i \in First(g)..Last(g)
      BY <2>2, EveryTextHasAGroup
    <3>2. GroupKnown(g) /\ batch.group[g].stage = "done"
      BY <2>2, <2>3 DEF AllAsked, BatchKnown
    <3>. QED BY <2>3, <3>1, <3>2 DEF GroupKnown
  <2>. QED BY <2>2, <2>3 DEF BatchKnown
<1>. QED BY <1>1, <1>2, <1>3, PTL DEF PartsSpec

-----------------------------------------------------------------------------
(***************************************************************************)
(* The walk of a listing.                                                  *)
(***************************************************************************)

Walk == [kind : Kinds, cap : Nat, refuses : BOOLEAN, total : Nat, cases : Nat, before : Nat,
         at : Nat \ {0}, i : Nat \ {0}, items : Nat, prev : Int, idle : Nat, slow : Nat,
         links : SUBSET Nat, trouble : BOOLEAN, ended : {"no", "done", "no button", "error"}]

\* What the walk has found of the cases that were there: the newest b, or all.
FoundTo(b) == \A k \in 1..walk.before : walk.cases - k + 1 <= b => k \in walk.links
AllFound == 1..walk.before \subseteq walk.links

\* A walk over buttons is at the page its counter says, or has been at the last.
OnItsPage ==
  CASE walk.kind \in {"liteko", "numbered_buttons"} ->
         AllFound \/ (walk.at = walk.i /\ FoundTo(walk.at * PerPage))
    [] walk.kind = "next_button" -> FoundTo(walk.at * PerPage)
    [] walk.kind = "url_param" -> walk.at = walk.i /\ FoundTo(walk.at * PerPage)
    [] walk.kind = "infinite_scroll" ->
         /\ FoundTo(walk.items) /\ walk.prev <= walk.items
         /\ AllFound \/ walk.idle <= walk.slow

WalkTyped == walk \in Walk /\ walk.before <= walk.cases /\ walk.items <= walk.cases
Untroubled == walk.cap = 0 /\ ~walk.trouble
FoundSoFar ==
  /\ walk.total = walk.before
  /\ walk.before <= PerPage => AllFound
  /\ walk.ended = "no" => OnItsPage
  /\ walk.ended \in {"done", "no button"} /\ walk.cases <= walk.before + 1 => AllFound
WalkKnown == walk # NoWalk => WalkTyped /\ (Untroubled => FoundSoFar)

-----------------------------------------------------------------------------
LEMMA PagesTimes ==
  ASSUME NEW a \in Nat, NEW b \in Nat, a <= b
  PROVE  a * PerPage <= b * PerPage /\ a * PerPage \in Nat /\ b * PerPage \in Nat
<1>1. PICK d \in Nat : b = a + d
  <2>1. b - a \in Nat /\ b = a + (b - a)
    OBVIOUS
  <2>. QED BY <2>1
<1>2. PerPage \in Nat
  BY ListingAssumption
<1>3. b * PerPage = a * PerPage + d * PerPage
  BY <1>1, <1>2
<1>4. d * PerPage \in Nat /\ a * PerPage \in Nat
  BY <1>2
<1>. QED BY <1>3, <1>4

LEMMA PastLastPage ==
  ASSUME walk.cases \in Nat, NEW p \in Nat, LastPage <= p
  PROVE  walk.cases <= p * PerPage
<1>. DEFINE c == walk.cases + PerPage - 1
            Q == c \div PerPage
<1>1. PerPage \in Nat \ {0} /\ c \in Nat
  BY ListingAssumption
<1>2. Q \in Nat
  BY <1>1
<1>3. c < Q * PerPage + PerPage
  <2>. HIDE DEF c
  <2>. QED BY <1>1
<1>4. Q <= p
  BY DEF LastPage
<1>. HIDE DEF Q
<1>5. Q * PerPage <= p * PerPage /\ Q * PerPage \in Nat /\ p * PerPage \in Nat
  BY <1>2, <1>4, PagesTimes
<1>. QED BY <1>1, <1>3, <1>5

\* The pages that the total announces hold one case more than there were.
LEMMA EnoughPages ==
  ASSUME NEW n \in Nat, NEW p \in Nat, n \div PerPage < p
  PROVE  n + 1 <= p * PerPage
<1>. DEFINE q == n \div PerPage
<1>1. PerPage \in Nat \ {0}
  BY ListingAssumption
<1>2. q \in Nat
  BY <1>1
<1>3. n < q * PerPage + PerPage
  BY <1>1
<1>. HIDE DEF q
<1>4. q + 1 \in Nat /\ q + 1 <= p
  BY <1>2 DEF q
<1>5. (q + 1) * PerPage <= p * PerPage /\ p * PerPage \in Nat
  BY <1>4, PagesTimes
<1>6. (q + 1) * PerPage = q * PerPage + PerPage /\ q * PerPage \in Nat
  BY <1>1, <1>2
<1>7. n + 1 <= q * PerPage + PerPage
  BY <1>1, <1>3, <1>6
<1>. QED BY <1>1, <1>5, <1>6, <1>7

\* From page i, by the button the loop computes for i, to page i + 1.
LEMMA NextButton ==
  ASSUME NEW i \in Nat \ {0}
  PROVE  PageBehind(i, Button(i)) = i + 1
<1>1. Block \in Nat \ {0}
  BY ListingAssumption
<1>2. CASE i <= Block
  BY <1>2 DEF PageBehind, Button
<1>3. CASE ~(i <= Block)
  <2>. DEFINE a == i - 1 - Block
              q == a \div Block
              r == a % Block
  <2>1. a \in Nat /\ i - 1 = a + Block /\ i - 1 \in Nat /\ i - Block - 1 = a
    BY <1>1, <1>3
  <2>2. q \in Nat /\ r \in Nat
    <3>. HIDE DEF a
    <3>. QED BY <1>1, <2>1
  <2>3. a = q * Block + r /\ r < Block
    <3>. HIDE DEF a
    <3>. QED BY <1>1, <2>1
  <2>4. (i - 1) \div Block = q + 1
    <3>. DEFINE s == (i - 1) \div Block
    <3>1. s \in Nat
      BY <1>1, <2>1
    <3>2. s * Block <= i - 1
      BY <1>1, <2>1
    <3>3. i - 1 < s * Block + Block
      BY <1>1, <2>1
    <3>. HIDE DEF s, q, r, a
    <3>4. /\ (q + 1) * Block = q * Block + Block /\ (q + 2) * Block = q * Block + Block + Block
          /\ (s + 1) * Block = s * Block + Block
          /\ q * Block \in Nat /\ s * Block \in Nat
      BY <1>1, <2>2, <3>1
    <3>5. s < q + 2
      <4>1. s * Block < (q + 2) * Block
        BY <1>1, <2>1, <2>2, <2>3, <3>2, <3>4
      <4>. QED BY <1>1, <2>2, <3>1, <4>1, Smaller
    <3>6. q + 1 < s + 1
      <4>1. (q + 1) * Block < (s + 1) * Block
        BY <1>1, <2>1, <2>2, <2>3, <3>3, <3>4
      <4>. QED BY <1>1, <2>2, <3>1, <4>1, Smaller
    <3>7. s = q + 1
      BY <2>2, <3>1, <3>5, <3>6
    <3>. QED BY <3>7 DEF s
  <2>5. Button(i) = r + 2
    BY <1>3, <2>1 DEF Button
  <2>6. PageBehind(i, Button(i)) = (q + 1) * Block + (r + 2)
    <3>. HIDE DEF q, r, a
    <3>. QED BY <1>3, <2>4, <2>5 DEF PageBehind
  <2>7. (q + 1) * Block = q * Block + Block /\ q * Block \in Nat
    <3>. HIDE DEF q
    <3>. QED BY <1>1, <2>2
  <2>. HIDE DEF q, r, a
  <2>. QED BY <1>1, <2>1, <2>2, <2>3, <2>6, <2>7
<1>. QED BY <1>2, <1>3

-----------------------------------------------------------------------------
LEMMA CasesOfPage ==
  ASSUME walk.cases \in Nat, NEW p \in Nat, NEW k \in 1..walk.cases,
         walk.cases - k + 1 <= p * PerPage, ~(walk.cases - k + 1 <= (p - 1) * PerPage)
  PROVE  k \in CasesOn(p)
<1>1. PerPage \in Nat
  BY ListingAssumption
<1>2. (p - 1) * PerPage \in Int /\ p * PerPage \in Int
  BY <1>1
<1>. QED BY <1>2 DEF CasesOn, Nth

LEMMA CasesAreNumbers ==
  ASSUME walk.cases \in Nat, NEW p, NEW q
  PROVE  CasesOn(p) \subseteq Nat /\ Nth(p, q) \subseteq Nat
BY DEF CasesOn, Nth

\* What a page adds to what was found.
LEMMA NextPageFound ==
  ASSUME WalkTyped, NEW p \in Nat, FoundTo(p * PerPage),
         NEW links, links = walk.links \cup CasesOn(p + 1)
  PROVE  \A k \in 1..walk.before : walk.cases - k + 1 <= (p + 1) * PerPage => k \in links
<1>0. walk.cases \in Nat /\ walk.before \in Nat /\ walk.before <= walk.cases
  BY DEF WalkTyped, Walk
<1>. TAKE k \in 1..walk.before
<1>. HAVE walk.cases - k + 1 <= (p + 1) * PerPage
<1>1. k \in 1..walk.cases /\ (p + 1) - 1 = p /\ p + 1 \in Nat
  BY <1>0
<1>2. CASE walk.cases - k + 1 <= p * PerPage
  BY <1>2 DEF FoundTo
<1>3. CASE ~(walk.cases - k + 1 <= p * PerPage)
  <2>1. k \in CasesOn(p + 1)
    BY <1>0, <1>1, <1>3, CasesOfPage
  <2>. QED BY <2>1
<1>. QED BY <1>2, <1>3

\* A listing that ends behind page p has been found when its pages to p have.
LEMMA FoundAtLastPage ==
  ASSUME WalkTyped, NEW p \in Nat, FoundTo(p * PerPage), LastPage <= p
  PROVE  AllFound
<1>1. walk.cases \in Nat /\ walk.before \in Nat /\ walk.cases <= p * PerPage
  BY PastLastPage DEF WalkTyped, Walk
<1>2. p * PerPage \in Nat
  BY ListingAssumption
<1>3. \A k \in 1..walk.before : walk.cases - k + 1 <= p * PerPage
  BY <1>1, <1>2
<1>. QED BY <1>3 DEF FoundTo, AllFound

LEMMA FoundAtTotal ==
  ASSUME WalkTyped, walk.total = walk.before, ExtraPages < walk.at,
         walk.cases <= walk.before + 1, FoundTo(walk.at * PerPage)
  PROVE  AllFound
<1>1. /\ walk.cases \in Nat /\ walk.before \in Nat /\ walk.at \in Nat
      /\ walk.before \div PerPage < walk.at
  BY DEF WalkTyped, Walk, ExtraPages
<1>2. walk.before + 1 <= walk.at * PerPage
  BY <1>1, EnoughPages
<1>3. walk.at * PerPage \in Nat
  BY <1>1, ListingAssumption
<1>4. \A k \in 1..walk.before : walk.cases - k + 1 <= walk.at * PerPage
  BY <1>1, <1>2, <1>3
<1>. QED BY <1>4 DEF FoundTo, AllFound

-----------------------------------------------------------------------------
\* The steps.

LEMMA WalkFields ==
  ASSUME WalkTyped
  PROVE  /\ walk.kind \in Kinds /\ walk.cap \in Nat /\ walk.total \in Nat
         /\ walk.cases \in Nat /\ walk.before \in Nat /\ walk.at \in Nat \ {0}
         /\ walk.i \in Nat \ {0} /\ walk.items \in Nat /\ walk.prev \in Int
         /\ walk.idle \in Nat /\ walk.slow \in Nat /\ walk.links \subseteq Nat
         /\ walk.trouble \in BOOLEAN /\ walk.before <= walk.cases /\ walk.items <= walk.cases
BY DEF WalkTyped, Walk

LEMMA WalkEdits ==
  ASSUME WalkTyped
  PROVE  /\ \A how \in {"done", "no button", "error"} : [walk EXCEPT !.ended = how] \in Walk
         /\ [walk EXCEPT !.cases = @ + 1] \in Walk
         /\ \A p, at \in Nat \ {0} : /\ Collects(p, at) \in Walk
                                     /\ [Collects(p, at) EXCEPT !.trouble = TRUE] \in Walk
         /\ NextI \in Nat \ {0}
<1>1. NextI \in Nat \ {0}
  BY WalkFields DEF NextI
<1>2. \A p : walk.links \cup CasesOn(p) \subseteq Nat
  BY CasesAreNumbers DEF WalkTyped, Walk
<1>3. \A p, at \in Nat \ {0} : Collects(p, at) \in Walk
  BY <1>1, <1>2 DEF Collects, WalkTyped, Walk
<1>4. \A w \in Walk : [w EXCEPT !.trouble = TRUE] \in Walk
  BY DEF Walk
<1>5. \A how \in {"done", "no button", "error"} : [walk EXCEPT !.ended = how] \in Walk
  BY DEF WalkTyped, Walk
<1>6. [walk EXCEPT !.cases = @ + 1] \in Walk
  <2>1. walk.cases + 1 \in Nat
    BY WalkFields
  <2>2. \A c \in Nat : [walk EXCEPT !.cases = c] \in Walk
    BY DEF WalkTyped, Walk
  <2>. QED BY <2>1, <2>2
<1>. QED BY <1>1, <1>3, <1>4, <1>5, <1>6

\* A walk that ends, as done only when it has found what it should.
LEMMA EndStep ==
  ASSUME WalkKnown, walk # NoWalk, NEW how \in {"done", "no button", "error"}, Ends(how),
         Untroubled /\ FoundSoFar /\ how # "error" /\ walk.cases <= walk.before + 1 => AllFound
  PROVE  WalkKnown'
<1>1. WalkTyped /\ (Untroubled => FoundSoFar)
  BY DEF WalkKnown
<1>2. /\ walk' \in Walk /\ walk'.ended = how /\ walk'.cases = walk.cases
      /\ walk'.before = walk.before /\ walk'.items = walk.items /\ walk'.cap = walk.cap
      /\ walk'.trouble = walk.trouble /\ walk'.total = walk.total /\ walk'.links = walk.links
  <2>1. walk' \in Walk
    BY <1>1, WalkEdits DEF Ends
  <2>. QED BY <1>1, <2>1 DEF Ends, WalkTyped, Walk
<1>3. WalkTyped'
  BY <1>1, <1>2 DEF WalkTyped
<1>4. Untroubled' => FoundSoFar'
  BY <1>1, <1>2 DEF Untroubled, FoundSoFar, AllFound
<1>. QED BY <1>3, <1>4 DEF WalkKnown

\* A walk that goes on.
LEMMA GoesOn ==
  ASSUME WalkKnown, walk # NoWalk, walk' \in Walk, walk.ended = "no", walk'.ended = "no",
         walk'.cases = walk.cases, walk'.before = walk.before, walk'.total = walk.total,
         walk'.items <= walk.cases, walk.links \subseteq walk'.links, walk'.cap = walk.cap,
         Untroubled' => Untroubled,
         Untroubled' /\ FoundSoFar => OnItsPage'
  PROVE  WalkKnown'
<1>1. WalkTyped /\ (Untroubled => FoundSoFar)
  BY DEF WalkKnown
<1>2. WalkTyped'
  BY <1>1 DEF WalkTyped
<1>3. Untroubled' => FoundSoFar'
  BY <1>1 DEF FoundSoFar, AllFound
<1>. QED BY <1>2, <1>3 DEF WalkKnown

LEMMA CaseAddedStep ==
  ASSUME WalkKnown, walk # NoWalk, CaseAdded
  PROVE  WalkKnown'
<1>1. WalkTyped /\ (Untroubled => FoundSoFar) /\ walk.ended = "no"
  BY DEF WalkKnown, CaseAdded
<1>2. /\ walk' \in Walk /\ walk'.cases = walk.cases + 1 /\ walk'.ended = "no"
      /\ walk'.before = walk.before /\ walk'.items = walk.items /\ walk'.cap = walk.cap
      /\ walk'.trouble = walk.trouble /\ walk'.total = walk.total
      /\ walk'.links = walk.links /\ walk'.kind = walk.kind /\ walk'.at = walk.at
      /\ walk'.i = walk.i /\ walk'.prev = walk.prev /\ walk'.idle = walk.idle
      /\ walk'.slow = walk.slow
  BY <1>1, WalkEdits DEF CaseAdded, WalkTyped, Walk
<1>3. walk.cases \in Nat /\ walk.before \in Nat /\ walk.items \in Nat /\ walk.at \in Nat
      /\ walk.at * PerPage \in Nat
  BY <1>1, WalkFields, ListingAssumption
<1>4. WalkTyped'
  BY <1>1, <1>2, <1>3 DEF WalkTyped
<1>5. \A b \in Nat : FoundTo(b) => FoundTo(b)'
  BY <1>2, <1>3 DEF FoundTo
<1>6. AllFound => AllFound'
  BY <1>2 DEF AllFound
<1>7. OnItsPage => OnItsPage'
  <2>1. FoundTo(walk.at * PerPage) => FoundTo(walk.at * PerPage)'
    BY <1>2, <1>3, <1>5 DEF FoundTo
  <2>2. FoundTo(walk.items) => FoundTo(walk.items)'
    BY <1>2, <1>3, <1>5 DEF FoundTo
  <2>3. walk.kind \in Kinds
    BY <1>1 DEF WalkTyped, Walk
  <2>. QED BY <1>2, <1>6, <2>1, <2>2, <2>3 DEF OnItsPage, Kinds
<1>8. Untroubled' => FoundSoFar'
  BY <1>1, <1>2, <1>6, <1>7 DEF Untroubled, FoundSoFar
<1>. QED BY <1>4, <1>8 DEF WalkKnown

\* A page was fetched; what it adds is found.
LEMMA CollectsStep ==
  ASSUME WalkKnown, walk # NoWalk, walk.ended = "no", NEW p \in Nat \ {0}, NEW at \in Nat \ {0},
         walk' = Collects(p, at),
         Untroubled /\ FoundSoFar => OnItsPage'
  PROVE  WalkKnown'
<1>1. WalkTyped /\ walk' \in Walk
  BY WalkEdits DEF WalkKnown
<1>2. /\ walk'.cases = walk.cases /\ walk'.before = walk.before /\ walk'.total = walk.total
      /\ walk'.items = walk.items /\ walk'.links = walk.links \cup CasesOn(p)
      /\ walk'.cap = walk.cap /\ walk'.trouble = walk.trouble /\ walk'.ended = "no"
  BY <1>1 DEF Collects, WalkTyped, Walk
<1>. QED BY <1>1, <1>2, GoesOn DEF WalkTyped, Untroubled

\* What a fetched page does to what is known of a walk by pages.
LEMMA CollectsFound ==
  ASSUME WalkTyped, walk.at \in Nat, walk.at * PerPage \in Nat,
         FoundTo(walk.at * PerPage), walk' = Collects(walk.at + 1, walk.at + 1)
  PROVE  /\ FoundTo(walk.at * PerPage)'
         /\ walk'.kind = walk.kind /\ walk'.at = walk.at + 1 /\ walk'.i = NextI
<1>1. /\ walk'.cases = walk.cases /\ walk'.before = walk.before
      /\ walk'.links = walk.links \cup CasesOn(walk.at + 1)
      /\ walk'.kind = walk.kind /\ walk'.at = walk.at + 1 /\ walk'.i = NextI
  BY DEF Collects, WalkTyped, Walk
<1>2. \A k \in 1..walk.before :
        walk.cases - k + 1 <= (walk.at + 1) * PerPage => k \in walk'.links
  BY <1>1, NextPageFound
<1>. QED BY <1>1, <1>2 DEF FoundTo

LEMMA AllFoundStays ==
  ASSUME AllFound, walk'.before = walk.before, walk.links \subseteq walk'.links
  PROVE  AllFound'
BY DEF AllFound

\* A step of a walk over buttons, to the page they lead to or to none.
LEMMA ButtonsStep ==
  ASSUME WalkKnown, walk # NoWalk, walk.ended = "no",
         walk.kind \in {"liteko", "numbered_buttons"},
         NEW shown \in Nat \ {0}, walk' = Collects(shown, shown),
         walk.at = walk.i => \/ shown = walk.at + 1
                             \/ LastPage <= walk.at
  PROVE  WalkKnown'
<1>1. WalkTyped
  BY DEF WalkKnown
<1>2. /\ walk'.kind = walk.kind /\ walk'.before = walk.before /\ walk'.at = shown
      /\ walk'.links = walk.links \cup CasesOn(shown) /\ walk'.i = walk.i + 1
  <2>1. NextI = walk.i + 1
    BY DEF NextI
  <2>. QED BY <1>1, <2>1 DEF Collects, WalkTyped, Walk
<1>3. walk.at \in Nat /\ walk.at * PerPage \in Nat
  BY <1>1, WalkFields, ListingAssumption
<1>4. ASSUME AllFound PROVE OnItsPage'
  BY <1>2, <1>4, AllFoundStays DEF OnItsPage
<1>5. ASSUME FoundSoFar PROVE OnItsPage'
  <2>1. AllFound \/ (walk.at = walk.i /\ FoundTo(walk.at * PerPage))
    BY <1>5 DEF FoundSoFar, OnItsPage
  <2>2. CASE walk.at = walk.i /\ FoundTo(walk.at * PerPage) /\ LastPage <= walk.at
    BY <1>1, <1>3, <1>4, <2>2, FoundAtLastPage
  <2>3. CASE walk.at = walk.i /\ FoundTo(walk.at * PerPage) /\ shown = walk.at + 1
    <3>1. FoundTo(walk.at * PerPage)' /\ walk'.at = walk'.i
      BY <1>1, <1>2, <1>3, <2>3, CollectsFound
    <3>. QED BY <1>2, <3>1 DEF OnItsPage
  <2>. QED BY <1>4, <2>1, <2>2, <2>3
<1>. QED BY <1>5, CollectsStep

LEMMA PagesAreNumbers ==
  ASSUME WalkTyped
  PROVE  PageBehind(walk.at, Button(walk.i)) \in Nat \ {0}
<1>0. walk.at \in Nat \ {0} /\ walk.i \in Nat \ {0}
  BY WalkFields
<1>1. Button(walk.i) \in Nat \ {0}
  <2>1. \A a \in Nat, b \in Nat \ {0} : a % b \in Nat
    OBVIOUS
  <2>. QED BY <1>0, <2>1, ListingAssumption DEF Button
<1>2. \A b \in Nat \ {0} : PageBehind(walk.at, b) \in Nat \ {0}
  <2>1. \A a \in Nat, b \in Nat \ {0} : (a \div b) * b \in Nat
    OBVIOUS
  <2>2. walk.at - 1 \in Nat /\ Block \in Nat \ {0}
    BY <1>0, ListingAssumption
  <2>. DEFINE before == ((walk.at - 1) \div Block) * Block
  <2>3. before \in Nat
    BY <2>1, <2>2
  <2>4. \A b : PageBehind(walk.at, b) = IF walk.at <= Block THEN b + 1 ELSE before + b
    BY DEF PageBehind
  <2>. HIDE DEF before
  <2>. QED BY <2>3, <2>4
<1>. QED BY <1>1, <1>2

LEMMA LitekoStep ==
  ASSUME WalkKnown, walk # NoWalk, LitekoPage \/ LitekoEnds
  PROVE  WalkKnown'
<1>0. WalkTyped /\ walk.kind = "liteko" /\ walk.ended = "no" /\ walk.at \in Nat \ {0}
      /\ walk.i \in Nat \ {0}
  BY WalkFields DEF WalkKnown, LitekoPage, LitekoEnds, Going
<1>1. CASE LitekoPage
  <2>. DEFINE p == PageBehind(walk.at, Button(walk.i))
              shown == IF p <= LastPage THEN p ELSE walk.at
  <2>1. \/ walk' = Collects(shown, shown)
        \/ walk' = [Collects(shown, walk.at) EXCEPT !.trouble = TRUE]
    BY <1>1 DEF LitekoPage
  <2>2. p \in Nat \ {0} /\ shown \in Nat \ {0}
    BY <1>0, PagesAreNumbers
  <2>3. walk.at = walk.i => p = walk.at + 1
    BY <1>0, NextButton
  <2>. HIDE DEF p
  <2>4. LastPage \in Int
    BY WalkFields, <1>0, ListingAssumption DEF LastPage
  <2>5. CASE walk' = Collects(shown, shown)
    <3>1. walk.at = walk.i => shown = walk.at + 1 \/ LastPage <= walk.at
      BY <1>0, <2>2, <2>3, <2>4
    <3>. QED BY <1>0, <2>2, <2>5, <3>1, ButtonsStep
  <2>6. CASE walk' = [Collects(shown, walk.at) EXCEPT !.trouble = TRUE]
    <3>1. walk' \in Walk /\ Collects(shown, walk.at) \in Walk
      BY <1>0, <2>2, <2>6, WalkEdits
    <3>2. /\ walk'.cases = walk.cases /\ walk'.before = walk.before
          /\ walk'.total = walk.total /\ walk'.items = walk.items /\ walk'.ended = "no"
          /\ walk'.links = walk.links \cup CasesOn(shown) /\ walk'.cap = walk.cap
          /\ walk'.trouble
      BY <1>0, <2>6, <3>1 DEF Collects, WalkTyped, Walk
    <3>. QED BY <1>0, <3>1, <3>2, GoesOn DEF WalkTyped, Untroubled
  <2>. QED BY <2>1, <2>5, <2>6
<1>2. CASE LitekoEnds
  <2>1. ASSUME Untroubled, FoundSoFar, walk.cases <= walk.before + 1 PROVE AllFound
    <3>1. CASE walk.total <= PerPage
      BY <2>1, <3>1 DEF FoundSoFar
    <3>2. CASE walk.i > ExtraPages
      <4>1. AllFound \/ (walk.at = walk.i /\ FoundTo(walk.at * PerPage))
        BY <1>0, <2>1 DEF FoundSoFar, OnItsPage
      <4>2. CASE walk.at = walk.i /\ FoundTo(walk.at * PerPage)
        <5>1. ExtraPages \in Int
          BY <1>0, WalkFields, ListingAssumption DEF ExtraPages
        <5>2. ExtraPages < walk.at
          BY <1>0, <3>2, <4>2, <5>1
        <5>. QED BY <1>0, <2>1, <4>2, <5>2, FoundAtTotal DEF FoundSoFar
      <4>. QED BY <4>1, <4>2
    <3>. QED BY <1>2, <3>1, <3>2 DEF LitekoEnds
  <2>. QED BY <1>2, <2>1, EndStep DEF LitekoEnds
<1>. QED BY <1>1, <1>2

LEMMA NumberedStep ==
  ASSUME WalkKnown, walk # NoWalk, NumberedPage \/ NumberedEnds
  PROVE  WalkKnown'
<1>0. /\ WalkTyped /\ walk.kind = "numbered_buttons" /\ walk.ended = "no"
      /\ walk.at \in Nat \ {0} /\ walk.i \in Nat \ {0} /\ LastPage \in Int /\ ExtraPages \in Int
  <2>1. /\ WalkTyped /\ walk.kind = "numbered_buttons" /\ walk.ended = "no"
        /\ walk.at \in Nat \ {0} /\ walk.i \in Nat \ {0}
    BY WalkFields DEF WalkKnown, NumberedPage, NumberedEnds, Going
  <2>2. LastPage \in Int
    BY <2>1, WalkFields, ListingAssumption DEF LastPage
  <2>3. ExtraPages \in Int
    BY <2>1, WalkFields, ListingAssumption DEF ExtraPages
  <2>. QED BY <2>1, <2>2, <2>3
<1>1. ASSUME FoundSoFar
      PROVE  AllFound \/ (walk.at = walk.i /\ FoundTo(walk.at * PerPage))
  BY <1>0, <1>1 DEF FoundSoFar, OnItsPage
<1>2. CASE NumberedPage
  <2>. DEFINE p == PageBehind(walk.at, Button(walk.i))
  <2>1. IF p <= LastPage THEN walk' = Collects(p, p) ELSE Ends("no button")
    BY <1>2 DEF NumberedPage
  <2>2. p \in Nat \ {0}
    BY <1>0, PagesAreNumbers
  <2>3. walk.at = walk.i => p = walk.at + 1
    BY <1>0, NextButton
  <2>. HIDE DEF p
  <2>4. CASE p <= LastPage
    BY <1>0, <2>1, <2>2, <2>3, <2>4, ButtonsStep
  <2>5. CASE ~(p <= LastPage)
    <3>1. walk.at = walk.i => LastPage <= walk.at
      BY <1>0, <2>2, <2>3, <2>5
    <3>2. FoundSoFar => AllFound
      BY <1>0, <1>1, <3>1, FoundAtLastPage
    <3>. QED BY <2>1, <2>5, <3>2, EndStep
  <2>. QED BY <2>4, <2>5
<1>3. CASE NumberedEnds
  <2>1. ASSUME Untroubled, FoundSoFar, walk.cases <= walk.before + 1 PROVE AllFound
    <3>1. walk.i > ExtraPages
      BY <1>3, <2>1 DEF NumberedEnds, Capped, Untroubled
    <3>2. CASE walk.at = walk.i /\ FoundTo(walk.at * PerPage)
      <4>1. ExtraPages < walk.at
        BY <1>0, <3>1, <3>2
      <4>. QED BY <1>0, <2>1, <3>2, <4>1, FoundAtTotal DEF FoundSoFar
    <3>. QED BY <1>1, <2>1, <3>2
  <2>. QED BY <1>3, <2>1, EndStep DEF NumberedEnds
<1>. QED BY <1>2, <1>3

LEMMA NextStep ==
  ASSUME WalkKnown, walk # NoWalk, NextPage \/ NextEnds
  PROVE  WalkKnown'
<1>0. /\ WalkTyped /\ walk.kind = "next_button" /\ walk.ended = "no"
      /\ walk.at \in Nat \ {0} /\ LastPage \in Int /\ walk.at * PerPage \in Nat
  BY WalkFields, ListingAssumption DEF WalkKnown, NextPage, NextEnds, Going, LastPage
<1>1. FoundSoFar => FoundTo(walk.at * PerPage)
  BY <1>0 DEF FoundSoFar, OnItsPage
<1>2. CASE NextPage
  <2>1. walk' = Collects(walk.at + 1, walk.at + 1) /\ walk.at + 1 \in Nat \ {0}
    BY <1>0, <1>2 DEF NextPage
  <2>2. FoundSoFar => OnItsPage'
    BY <1>0, <1>1, <2>1, CollectsFound DEF OnItsPage
  <2>. QED BY <1>0, <2>1, <2>2, CollectsStep
<1>3. CASE NextEnds
  <2>1. ASSUME Untroubled, FoundSoFar PROVE AllFound
    <3>1. LastPage <= walk.at
      BY <1>0, <1>3, <2>1 DEF NextEnds, Capped, Untroubled
    <3>. QED BY <1>0, <1>1, <2>1, <3>1, FoundAtLastPage
  <2>. QED BY <1>3, <2>1, EndStep DEF NextEnds
<1>. QED BY <1>2, <1>3

LEMMA ParamStep ==
  ASSUME WalkKnown, walk # NoWalk, ParamPage \/ ParamEnds
  PROVE  WalkKnown'
<1>0. /\ WalkTyped /\ walk.kind = "url_param" /\ walk.ended = "no" /\ walk.i \in Nat \ {0}
      /\ walk.at \in Nat \ {0} /\ LastPage \in Int /\ walk.at * PerPage \in Nat
  BY WalkFields, ListingAssumption DEF WalkKnown, ParamPage, ParamEnds, Going, LastPage
<1>1. FoundSoFar => walk.at = walk.i /\ FoundTo(walk.at * PerPage)
  BY <1>0 DEF FoundSoFar, OnItsPage
<1>2. CASE ParamEnds
  <2>1. ~Untroubled
    BY <1>2 DEF ParamEnds, Capped, Untroubled
  <2>. QED BY <1>2, <2>1, EndStep DEF ParamEnds
<1>3. ASSUME walk' = Collects(walk.i + 1, walk.i + 1) PROVE WalkKnown'
  <2>1. FoundSoFar => OnItsPage'
    <3>1. NextI = walk.i + 1
      BY <1>0 DEF NextI
    <3>. QED BY <1>0, <1>1, <1>3, <3>1, CollectsFound DEF OnItsPage
  <2>. QED BY <1>0, <1>3, <2>1, CollectsStep
<1>4. ASSUME LastPage < walk.i + 1, Ends("done") PROVE WalkKnown'
  <2>1. FoundSoFar => AllFound
    BY <1>0, <1>1, <1>4, FoundAtLastPage
  <2>. QED BY <1>4, <2>1, EndStep
<1>5. ASSUME walk' = [walk EXCEPT !.ended = "done", !.trouble = TRUE] PROVE WalkKnown'
  <2>1. /\ walk' \in Walk /\ walk'.before = walk.before /\ walk'.cases = walk.cases
        /\ walk'.items = walk.items /\ walk'.trouble
    BY <1>0, <1>5 DEF WalkTyped, Walk
  <2>. QED BY <1>0, <2>1 DEF WalkKnown, WalkTyped, Untroubled
<1>. QED BY <1>0, <1>2, <1>3, <1>4, <1>5 DEF ParamPage

\* A round of scrolling: rounds that bring nothing are the slow site's, or the last.
LEMMA ScrollStep ==
  ASSUME WalkKnown, walk # NoWalk, ScrollRound \/ ScrollEnds
  PROVE  WalkKnown'
<1>0. /\ WalkTyped /\ walk.kind = "infinite_scroll" /\ walk.ended = "no"
      /\ (Untroubled => FoundSoFar)
  BY DEF WalkKnown, ScrollRound, ScrollEnds, Going
<1>1. /\ walk.items \in Nat /\ walk.cases \in Nat /\ walk.items <= walk.cases /\ walk.prev \in Int
      /\ walk.idle \in Nat /\ walk.slow \in Nat /\ walk.before \in Nat
      /\ walk.before <= walk.cases /\ NextI \in Nat \ {0} /\ PerPage \in Nat \ {0}
      /\ MaxIdleRounds \in Nat \ {0} /\ walk.trouble \in BOOLEAN /\ walk.links \subseteq Nat
  BY <1>0, WalkFields, WalkEdits, ListingAssumption
<1>2. FoundSoFar => /\ FoundTo(walk.items) /\ walk.prev <= walk.items
                    /\ AllFound \/ walk.idle <= walk.slow
  BY <1>0 DEF FoundSoFar, OnItsPage
<1>3. CASE ScrollEnds
  <2>1. ~Untroubled
    BY <1>3 DEF ScrollEnds, Capped, Untroubled
  <2>. QED BY <1>3, <2>1, EndStep DEF ScrollEnds
<1>4. CASE ScrollRound
  <2>. DEFINE ItemsAfter(n) == walk.items + Brought(n)
              Late(n) == n = 0 /\ walk.items < walk.cases
              More(items) == [walk EXCEPT !.i = NextI, !.idle = 0, !.prev = items,
                                          !.links = @ \cup Nth(walk.items + 1, items)]
  <2>1. PICK n \in {0, PerPage} :
          walk' = IF ItemsAfter(n) = walk.prev THEN Counted(AfterIdle, ItemsAfter(n), Late(n))
                  ELSE Counted(More(ItemsAfter(n)), ItemsAfter(n), Late(n))
    BY <1>4 DEF ScrollRound
  <2>. DEFINE items == ItemsAfter(n)
              late == Late(n)
  <2>2. /\ items \in Nat /\ walk.items <= items /\ items <= walk.cases
        /\ late \in BOOLEAN
        /\ items = walk.items /\ ~late => walk.items = walk.cases
    BY <1>1 DEF Brought
  <2>. HIDE DEF items, late
  <2>. DEFINE slow == IF late THEN walk.slow + 1 ELSE 0
              trouble == walk.trouble \/ (late /\ walk.slow + 1 >= MaxIdleRounds)
  <2>3. slow \in Nat /\ trouble \in BOOLEAN /\ (~trouble => ~walk.trouble)
    BY <1>1, <2>2
  <2>4. CASE items = walk.prev
    <3>. DEFINE ended == IF walk.idle + 1 >= MaxIdleRounds THEN "done" ELSE "no"
    <3>1. walk' = [walk EXCEPT !.i = NextI, !.idle = @ + 1, !.ended = ended, !.slow = slow,
                               !.trouble = trouble, !.items = items]
      <4>1. walk' = Counted(AfterIdle, items, late)
        BY <2>1, <2>4 DEF items, late
      <4>. QED BY <1>0, <4>1 DEF Counted, AfterIdle, WalkTyped, Walk
    <3>2. /\ walk' \in Walk /\ walk'.cases = walk.cases /\ walk'.before = walk.before
          /\ walk'.total = walk.total /\ walk'.items = items /\ walk'.links = walk.links
          /\ walk'.cap = walk.cap /\ walk'.kind = walk.kind /\ walk'.ended = ended
          /\ walk'.trouble = trouble /\ walk'.slow = slow /\ walk'.idle = walk.idle + 1
          /\ walk'.prev = walk.prev
      <4>1. ended \in {"no", "done", "no button", "error"} /\ walk.idle + 1 \in Nat
        BY <1>1
      <4>. HIDE DEF ended, slow, trouble
      <4>. QED BY <1>0, <1>1, <2>2, <2>3, <3>1, <4>1 DEF WalkTyped, Walk
    <3>. HIDE DEF ended
    <3>3. WalkTyped'
      BY <1>0, <2>2, <3>2 DEF WalkTyped
    <3>4. ASSUME Untroubled' PROVE FoundSoFar'
      <4>1. Untroubled /\ FoundSoFar
        BY <1>0, <2>3, <3>2, <3>4 DEF Untroubled
      <4>2. items = walk.items /\ FoundTo(items)
        BY <1>1, <1>2, <2>2, <2>4, <4>1
      <4>3. FoundTo(walk.items)'
        BY <3>2, <4>2 DEF FoundTo
      <4>4. AllFound => AllFound'
        BY <3>2 DEF AllFound
      <4>5. CASE late
        <5>1. ASSUME ended = "done" PROVE AllFound
          <6>1. ~(walk.idle <= walk.slow)
            <7>1. walk.idle + 1 >= MaxIdleRounds
              BY <5>1 DEF ended
            <7>2. ~trouble
              BY <3>2, <3>4 DEF Untroubled
            <7>3. ~(walk.slow + 1 >= MaxIdleRounds)
              BY <4>5, <7>2
            <7>. QED BY <1>1, <7>1, <7>3
          <6>. QED BY <1>2, <4>1, <6>1
        <5>2. AllFound' \/ walk'.idle <= walk'.slow
          BY <1>1, <1>2, <3>2, <4>1, <4>4, <4>5
        <5>3. OnItsPage'
          BY <1>0, <1>1, <2>4, <3>2, <4>2, <4>3, <5>2 DEF OnItsPage
        <5>. QED BY <3>2, <4>1, <4>4, <5>1, <5>3 DEF FoundSoFar, ended
      <4>6. CASE ~late
        <5>1. walk.items = walk.cases
          BY <2>2, <4>2, <4>6
        <5>2. \A k \in 1..walk.before : walk.cases - k + 1 <= items
          BY <1>1, <4>2, <5>1
        <5>3. AllFound
          BY <4>2, <5>2 DEF FoundTo, AllFound
        <5>4. OnItsPage'
          BY <1>0, <1>1, <2>4, <3>2, <4>2, <4>3, <4>4, <5>3 DEF OnItsPage
        <5>. QED BY <3>2, <4>1, <4>4, <5>3, <5>4 DEF FoundSoFar
      <4>. QED BY <4>5, <4>6
    <3>. QED BY <3>3, <3>4 DEF WalkKnown
  <2>5. CASE items # walk.prev
    <3>1. walk' = [walk EXCEPT !.i = NextI, !.idle = 0, !.prev = items,
                               !.links = @ \cup Nth(walk.items + 1, items),
                               !.slow = slow, !.trouble = trouble, !.items = items]
      <4>1. walk' = Counted(More(items), items, late)
        BY <2>1, <2>5 DEF items, late
      <4>. QED BY <1>0, <4>1 DEF Counted, WalkTyped, Walk
    <3>2. /\ walk' \in Walk /\ walk'.cases = walk.cases /\ walk'.before = walk.before
          /\ walk'.total = walk.total /\ walk'.items = items
          /\ walk'.links = walk.links \cup Nth(walk.items + 1, items)
          /\ walk'.cap = walk.cap /\ walk'.kind = walk.kind /\ walk'.ended = "no"
          /\ walk'.trouble = trouble /\ walk'.slow = slow /\ walk'.idle = 0
          /\ walk'.prev = items
      <4>. DEFINE links == walk.links \cup Nth(walk.items + 1, items)
      <4>1. links \subseteq Nat
        BY <1>1, CasesAreNumbers
      <4>2. walk' = [walk EXCEPT !.i = NextI, !.idle = 0, !.prev = items, !.links = links,
                                 !.slow = slow, !.trouble = trouble, !.items = items]
        BY <1>0, <3>1 DEF WalkTyped, Walk
      <4>. HIDE DEF slow, trouble, links
      <4>3. walk' \in Walk /\ walk'.links = links
        <5>. DEFINE w1 == [walk EXCEPT !.links = links]
                    w2 == [w1 EXCEPT !.i = NextI, !.prev = items, !.items = items]
                    w3 == [w2 EXCEPT !.idle = 0, !.slow = slow, !.trouble = trouble]
        <5>1. w1 \in Walk /\ w1.links = links
          BY <1>0, <4>1 DEF WalkTyped, Walk
        <5>. HIDE DEF w1
        <5>2. w2 \in Walk /\ w2.links = links
          <6>1. items \in Int
            BY <2>2
          <6>. QED BY <1>1, <2>2, <5>1, <6>1 DEF Walk
        <5>. HIDE DEF w2
        <5>3. w3 \in Walk /\ w3.links = links
          BY <2>3, <5>2 DEF Walk
        <5>4. walk' = w3
          BY <1>0, <4>2 DEF w1, w2, WalkTyped, Walk
        <5>. HIDE DEF w3
        <5>. QED BY <5>3, <5>4
      <4>4. /\ walk'.cases = walk.cases /\ walk'.before = walk.before
            /\ walk'.total = walk.total /\ walk'.items = items /\ walk'.cap = walk.cap
            /\ walk'.kind = walk.kind /\ walk'.ended = "no" /\ walk'.trouble = trouble
            /\ walk'.slow = slow /\ walk'.idle = 0 /\ walk'.prev = items
        BY <1>0, <4>2 DEF WalkTyped, Walk
      <4>. QED BY <4>3, <4>4 DEF links
    <3>3. ASSUME FoundSoFar PROVE OnItsPage'
      <4>1. \A k \in 1..walk.before :
              walk.cases - k + 1 <= items => k \in walk.links \cup Nth(walk.items + 1, items)
        BY <1>1, <1>2, <2>2, <3>3 DEF FoundTo, Nth
      <4>2. FoundTo(walk.items)'
        BY <3>2, <4>1 DEF FoundTo
      <4>3. walk'.prev <= walk'.items /\ walk'.idle <= walk'.slow
        BY <2>2, <2>3, <3>2
      <4>. QED BY <1>0, <3>2, <4>2, <4>3 DEF OnItsPage
    <3>4. Untroubled' => Untroubled
      BY <2>3, <3>2 DEF Untroubled
    <3>. QED BY <1>0, <2>2, <3>2, <3>3, <3>4, GoesOn
  <2>. QED BY <2>4, <2>5
<1>. QED BY <1>3, <1>4

LEMMA WalkBeginStep ==
  ASSUME NEW kind \in Kinds, NEW cap \in Caps, NEW n \in Sites, NEW refuses \in BOOLEAN,
         NEW total \in {0, n \div 2, n}, WalkBegin(kind, cap, n, total, refuses)
  PROVE  WalkKnown'
<1>1. cap \in Nat /\ n \in Nat /\ total \in Nat /\ PerPage \in Nat \ {0}
  <2>1. n \in Nat /\ \A a \in Nat : a \div 2 \in Nat
    BY ListingAssumption
  <2>. QED BY <2>1, ListingAssumption
<1>. DEFINE first == IF n < PerPage THEN n ELSE PerPage
            newest == {k \in 1..n : k > n - PerPage}
            wrong == total # n
<1>2. walk' = [kind |-> kind, cap |-> cap, refuses |-> refuses, total |-> total,
               cases |-> n, before |-> n, at |-> 1, i |-> 1, items |-> first, prev |-> -1,
               idle |-> 0, slow |-> 0, links |-> newest, trouble |-> wrong, ended |-> "no"]
  BY DEF WalkBegin
<1>3. /\ first \in Nat /\ first <= n /\ first <= PerPage
      /\ newest \subseteq Nat /\ wrong \in BOOLEAN
      /\ \A k \in 1..n : n - k + 1 <= PerPage => k \in newest
  BY <1>1
<1>. HIDE DEF first, newest
<1>4. WalkTyped'
  BY <1>1, <1>2, <1>3 DEF WalkTyped, Walk
<1>5. ASSUME Untroubled' PROVE FoundSoFar'
  <2>1. total = n
    BY <1>2, <1>5 DEF Untroubled
  <2>2. n <= PerPage => AllFound'
    <3>1. n <= PerPage => \A k \in 1..n : n - k + 1 <= PerPage
      BY <1>1
    <3>. QED BY <1>2, <1>3, <3>1 DEF AllFound
  <2>3. FoundTo(walk.at * PerPage)' /\ FoundTo(walk.items)'
    <3>1. 1 * PerPage = PerPage
      BY <1>1
    <3>2. \A k \in 1..n : n - k + 1 <= first => n - k + 1 <= PerPage
      BY <1>1, <1>3
    <3>. QED BY <1>2, <1>3, <3>1, <3>2 DEF FoundTo
  <2>4. OnItsPage'
    <3>1. /\ walk'.kind = kind /\ walk'.at = 1 /\ walk'.i = 1 /\ walk'.prev = -1
          /\ walk'.items = first /\ walk'.idle = 0 /\ walk'.slow = 0
      BY <1>2
    <3>2. walk'.prev <= walk'.items /\ walk'.idle <= walk'.slow /\ walk'.at = walk'.i
      BY <1>3, <3>1
    <3>3. kind \in {"liteko", "numbered_buttons", "next_button", "infinite_scroll", "url_param"}
      BY DEF Kinds
    <3>. QED BY <2>3, <3>1, <3>2, <3>3 DEF OnItsPage
  <2>. QED BY <1>2, <2>1, <2>2, <2>4 DEF FoundSoFar
<1>. QED BY <1>4, <1>5 DEF WalkKnown

LEMMA WalkInvariant == WalkSpec => []WalkKnown
<1>1. walk = NoWalk => WalkKnown
  BY DEF WalkKnown
<1>2. ASSUME WalkKnown, [WalkNext]_walk PROVE WalkKnown'
  <2>1. CASE UNCHANGED walk
    BY <1>2, <2>1 DEF WalkKnown, WalkTyped, Untroubled, FoundSoFar, OnItsPage, FoundTo, AllFound
  <2>2. ASSUME NEW kind \in Kinds, NEW cap \in Caps, NEW n \in Sites, NEW refuses \in BOOLEAN,
               NEW total \in {0, n \div 2, n}, WalkBegin(kind, cap, n, total, refuses)
        PROVE  WalkKnown'
    BY <2>2, WalkBeginStep
  <2>3. CASE walk # NoWalk /\ WalkBreaks
    BY <1>2, <2>3, EndStep DEF WalkBreaks
  <2>4. CASE walk # NoWalk /\ CaseAdded
    BY <1>2, <2>4, CaseAddedStep
  <2>5. CASE WalkStep
    <3>1. CASE WalkPosted
      BY <3>1 DEF WalkPosted, WalkKnown
    <3>. QED BY <1>2, <2>5, <3>1, LitekoStep, NumberedStep, NextStep, ScrollStep, ParamStep
         DEF WalkStep
  <2>. QED BY <1>2, <2>1, <2>2, <2>3, <2>4, <2>5 DEF WalkNext
<1>. QED BY <1>1, <1>2, PTL DEF WalkSpec

\* walkListing and paginate: by whichever buttons and counts a walk without a cap goes,
\* it finds every case that was there when it began, with one more added meanwhile too,
\* for every size of the pages and of the pager's blocks.
THEOREM WalksAreComplete == WalkSpec => []WalkIsComplete
<1>1. WalkKnown => WalkIsComplete
  BY DEF WalkKnown, Untroubled, FoundSoFar, AllFound, WalkIsComplete
<1>. QED BY <1>1, WalkInvariant, PTL
-----------------------------------------------------------------------------
(***************************************************************************)
(* The walk comes to an end.                                               *)
(***************************************************************************)

\* Between two rounds of scrolling.
BetweenRounds ==
  walk # NoWalk /\ walk.kind = "infinite_scroll" /\ walk.ended = "no" =>
    walk.prev <= walk.items /\ walk.idle < MaxIdleRounds

\* A round finds the elements of the last change and is idle, or finds more.
IdleRound ==
  /\ walk'.items = walk.prev /\ walk'.prev = walk.prev /\ walk'.idle = walk.idle + 1
  /\ walk'.ended = "no" => walk.idle + 1 < MaxIdleRounds
NewRound == walk'.items # walk.prev /\ walk'.prev = walk'.items /\ walk'.idle = 0

LEMMA RoundIs ==
  ASSUME WalkTyped, ScrollRound
  PROVE  /\ walk'.kind = walk.kind /\ walk'.cases = walk.cases
         /\ \E b \in Nat : walk'.items = walk.items + b /\ walk.items + b <= walk.cases
         /\ IdleRound \/ NewRound
<1>1. /\ walk.items \in Nat /\ walk.cases \in Nat /\ walk.items <= walk.cases
      /\ PerPage \in Nat \ {0} /\ MaxIdleRounds \in Nat \ {0} /\ walk.idle \in Nat
  BY WalkFields, ListingAssumption
<1>2. PICK n \in {0, PerPage} :
        LET items == walk.items + Brought(n)
            late == n = 0 /\ walk.items < walk.cases
        IN  walk' = IF items = walk.prev THEN Counted(AfterIdle, items, late)
                    ELSE Counted([walk EXCEPT !.i = NextI, !.idle = 0, !.prev = items,
                                    !.links = @ \cup Nth(walk.items + 1, items)],
                                 items, late)
  BY DEF ScrollRound
<1>. DEFINE b == Brought(n)
            items == walk.items + b
<1>3. b \in Nat /\ items <= walk.cases
  BY <1>1 DEF Brought
<1>. HIDE DEF b
<1>4. /\ walk'.kind = walk.kind /\ walk'.cases = walk.cases /\ walk'.items = items
  BY <1>2 DEF Counted, AfterIdle, WalkTyped, Walk, b
<1>5. CASE items = walk.prev
  <2>1. /\ walk'.prev = walk.prev /\ walk'.idle = walk.idle + 1
        /\ walk'.ended = IF walk.idle + 1 >= MaxIdleRounds THEN "done" ELSE "no"
    BY <1>2, <1>5 DEF Counted, AfterIdle, WalkTyped, Walk, b
  <2>2. walk'.ended = "no" => walk.idle + 1 < MaxIdleRounds
    BY <1>1, <2>1
  <2>. QED BY <1>3, <1>4, <1>5, <2>1, <2>2 DEF IdleRound
<1>6. CASE items # walk.prev
  <2>1. walk'.prev = items /\ walk'.idle = 0
    BY <1>2, <1>6 DEF Counted, WalkTyped, Walk, b
  <2>. QED BY <1>3, <1>4, <1>6, <2>1 DEF NewRound
<1>. QED BY <1>5, <1>6

\* A step that is not a round keeps what a scrolling walk counts.
LEMMA BetweenRoundsStep ==
  ASSUME WalkKnown, BetweenRounds, [WalkNext]_walk
  PROVE  BetweenRounds'
<1>1. CASE UNCHANGED walk
  BY <1>1 DEF BetweenRounds
<1>2. ASSUME NEW kind \in Kinds, NEW cap \in Caps, NEW n \in Sites, NEW refuses \in BOOLEAN,
             NEW total \in {0, n \div 2, n}, WalkBegin(kind, cap, n, total, refuses)
      PROVE  BetweenRounds'
  <2>1. /\ walk'.prev = -1 /\ walk'.idle = 0
        /\ walk'.items = IF n < PerPage THEN n ELSE PerPage
    BY <1>2 DEF WalkBegin
  <2>2. n \in Nat /\ PerPage \in Nat /\ MaxIdleRounds \in Nat \ {0}
    BY ListingAssumption
  <2>. QED BY <2>1, <2>2 DEF BetweenRounds
<1>3. ASSUME walk # NoWalk, WalkBreaks \/ CaseAdded PROVE BetweenRounds'
  <2>. SUFFICES ASSUME walk'.ended = "no", walk'.kind = "infinite_scroll"
                PROVE  walk'.prev <= walk'.items /\ walk'.idle < MaxIdleRounds
    BY DEF BetweenRounds
  <2>1. WalkTyped /\ walk.ended = "no"
    BY <1>3 DEF WalkKnown, WalkBreaks, CaseAdded
  <2>2. CASE WalkBreaks
    BY <2>1, <2>2 DEF WalkBreaks, Ends, WalkTyped, Walk
  <2>3. CASE CaseAdded
    <3>1. /\ walk'.kind = walk.kind /\ walk'.prev = walk.prev /\ walk'.items = walk.items
          /\ walk'.idle = walk.idle
      BY <2>1, <2>3 DEF CaseAdded, WalkTyped, Walk
    <3>. QED BY <1>3, <2>1, <3>1 DEF BetweenRounds
  <2>. QED BY <1>3, <2>2, <2>3
<1>4. CASE WalkStep /\ ~ScrollRound
  <2>. SUFFICES ASSUME walk' # NoWalk, walk'.kind = "infinite_scroll"
                PROVE  walk'.ended # "no"
    BY DEF BetweenRounds
  <2>1. walk # NoWalk /\ WalkTyped
    BY <1>4 DEF WalkStep, WalkKnown
  <2>2. CASE WalkPosted
    BY <2>2 DEF WalkPosted
  <2>3. ASSUME NEW how, Ends(how), how # "no" PROVE walk'.ended # "no"
    BY <2>1, <2>3 DEF Ends, WalkTyped, Walk
  <2>4. ASSUME walk.kind # "infinite_scroll", walk'.kind = walk.kind PROVE FALSE
    BY <2>4
  <2>5. ASSUME NEW p, NEW at, walk.kind # "infinite_scroll",
               \/ walk' = Collects(p, at)
               \/ walk' = [Collects(p, at) EXCEPT !.trouble = TRUE]
        PROVE  FALSE
    <3>1. walk'.kind = walk.kind
      BY <2>1, <2>5 DEF Collects, WalkTyped, Walk
    <3>. QED BY <2>5, <3>1
  <2>6. ASSUME walk' = [walk EXCEPT !.ended = "done", !.trouble = TRUE] PROVE walk'.ended # "no"
    BY <2>1, <2>6 DEF WalkTyped, Walk
  <2>7. CASE LitekoPage
    <3>1. walk.kind # "infinite_scroll"
      BY <2>7 DEF LitekoPage, Going
    <3>. QED BY <2>5, <2>7, <3>1 DEF LitekoPage
  <2>8. CASE NumberedPage
    <3>1. walk.kind # "infinite_scroll"
      BY <2>8 DEF NumberedPage, Going
    <3>. QED BY <2>3, <2>5, <2>8, <3>1 DEF NumberedPage
  <2>9. CASE NextPage
    <3>1. walk.kind # "infinite_scroll"
      BY <2>9 DEF NextPage, Going
    <3>. QED BY <2>5, <2>9, <3>1 DEF NextPage
  <2>10. CASE ParamPage
    <3>1. walk.kind # "infinite_scroll"
      BY <2>10 DEF ParamPage, Going
    <3>. QED BY <2>3, <2>5, <2>6, <2>10, <3>1 DEF ParamPage
  <2>11. CASE LitekoEnds \/ NumberedEnds \/ NextEnds \/ ScrollEnds \/ ParamEnds
    BY <2>3, <2>11 DEF LitekoEnds, NumberedEnds, NextEnds, ScrollEnds, ParamEnds
  <2>. QED BY <1>4, <2>2, <2>7, <2>8, <2>9, <2>10, <2>11 DEF WalkStep
<1>5. CASE WalkStep /\ ScrollRound
  <2>1. WalkTyped /\ walk # NoWalk /\ walk.prev <= walk.items /\ walk.items \in Nat
        /\ MaxIdleRounds \in Nat \ {0} /\ walk.idle \in Nat
    BY <1>5, WalkFields, ListingAssumption
       DEF WalkStep, WalkKnown, ScrollRound, Going, BetweenRounds
  <2>2. PICK b \in Nat : walk'.items = walk.items + b
    BY <1>5, <2>1, RoundIs
  <2>3. IdleRound \/ NewRound
    BY <1>5, <2>1, RoundIs
  <2>4. CASE IdleRound
    BY <2>1, <2>2, <2>4 DEF IdleRound, BetweenRounds
  <2>5. CASE NewRound
    BY <2>1, <2>2, <2>5 DEF NewRound, BetweenRounds
  <2>. QED BY <2>3, <2>4, <2>5
<1>. QED BY <1>1, <1>2, <1>3, <1>4, <1>5 DEF WalkNext

LEMMA LeftFalls ==
  ASSUME NEW a \in Int, NEW b \in Int, b < a, 0 < a
  PROVE  Left(b) \in Nat /\ Left(b) < Left(a)
BY DEF Left

LEMMA MoreToBring ==
  ASSUME NEW a \in Nat, NEW b \in Nat, NEW k \in Nat
  PROVE  /\ (a + b) * k = a * k + b * k /\ a * k \in Nat /\ b * k \in Nat
         /\ b # 0 => k <= b * k
<1>1. (a + b) * k = a * k + b * k /\ a * k \in Nat /\ b * k \in Nat
  OBVIOUS
<1>2. ASSUME b # 0 PROVE k <= b * k
  <2>1. b - 1 \in Nat /\ b = (b - 1) + 1
    BY <1>2
  <2>2. ((b - 1) + 1) * k = (b - 1) * k + k /\ (b - 1) * k \in Nat
    BY <2>1
  <2>. QED BY <2>1, <2>2
<1>. QED BY <1>1, <1>2

\* A round that goes on brings a case, or is one idle round fewer.
LEMMA RoundRunsDown ==
  ASSUME WalkTyped, walk # NoWalk, BetweenRounds, ScrollRound, walk'.ended = "no"
  PROVE  StepsLeft' \in Nat /\ StepsLeft' < StepsLeft
<1>1. /\ walk.kind = "infinite_scroll" /\ walk'.kind = "infinite_scroll"
      /\ walk'.cases = walk.cases /\ walk.prev <= walk.items /\ walk.idle < MaxIdleRounds
      /\ walk.items \in Nat /\ walk.cases \in Nat /\ walk.items <= walk.cases
      /\ walk.prev \in Int /\ walk.idle \in Nat /\ MaxIdleRounds \in Nat \ {0}
      /\ IdleRound \/ NewRound
  BY RoundIs, WalkFields, ListingAssumption DEF ScrollRound, Going, BetweenRounds
<1>2. PICK b \in Nat : walk'.items = walk.items + b /\ walk.items + b <= walk.cases
  BY RoundIs
<1>. DEFINE M == MaxIdleRounds
            k == M + 2
            a == walk.cases - (walk.items + b)
            now == IF walk.prev = walk.items THEN M - walk.idle ELSE M + 1
            then == IF walk'.prev = walk'.items THEN M - walk'.idle ELSE M + 1
<1>3. a \in Nat /\ k \in Nat /\ walk.cases - walk.items = a + b /\ walk'.cases - walk'.items = a
  BY <1>1, <1>2
<1>4. StepsLeft = (walk.cases - walk.items) * k + now
  BY <1>1 DEF StepsLeft
<1>5. StepsLeft' = (walk'.cases - walk'.items) * k + then
  BY <1>1 DEF StepsLeft
<1>6. now \in Nat /\ then \in Nat /\ (then < now \/ (b # 0 /\ then <= M + 1))
  <2>1. CASE IdleRound
    BY <1>1, <1>2, <2>1 DEF IdleRound
  <2>2. CASE NewRound
    BY <1>1, <1>2, <2>2 DEF NewRound
  <2>. QED BY <1>1, <2>1, <2>2
<1>7. (a + b) * k = a * k + b * k /\ a * k \in Nat /\ b * k \in Nat /\ (b # 0 => k <= b * k)
  BY <1>3, MoreToBring
<1>8. k = M + 2 /\ M \in Nat
  BY <1>1
<1>. HIDE DEF a, k, now, then, M
<1>9. StepsLeft = a * k + b * k + now /\ StepsLeft' = a * k + then
  BY <1>3, <1>4, <1>5, <1>7
<1>. DEFINE x == a * k
            y == b * k
<1>10. x \in Nat /\ y \in Nat /\ (b # 0 => k <= y)
       /\ StepsLeft = x + y + now /\ StepsLeft' = x + then
  BY <1>7, <1>9
<1>. HIDE DEF x, y
<1>. QED BY <1>3, <1>6, <1>8, <1>10

\* A page of one of the other walks.
LEMMA PageRunsDown ==
  ASSUME WalkTyped, IsBounded, NEW p, NEW at \in Nat \ {0},
         \/ walk' = Collects(p, at)
         \/ walk' = [Collects(p, at) EXCEPT !.trouble = TRUE],
         \/ walk.kind \in {"liteko", "numbered_buttons"} /\ walk.i <= ExtraPages
         \/ walk.kind = "next_button" /\ at = walk.at + 1 /\ walk.at < LastPage
         \/ /\ walk.kind = "url_param" /\ ~Capped(walk.i)
            /\ walk.i + 1 <= LastPage \/ ~walk.refuses
  PROVE  StepsLeft' \in Nat /\ StepsLeft' < StepsLeft
<1>1. /\ walk.i \in Nat \ {0} /\ walk.at \in Nat \ {0} /\ walk.cap \in Nat /\ walk.cases \in Nat
      /\ walk.total \in Nat /\ PerPage \in Nat \ {0}
  BY WalkFields, ListingAssumption
<1>2. /\ walk'.kind = walk.kind /\ walk'.cap = walk.cap /\ walk'.cases = walk.cases
      /\ walk'.total = walk.total /\ walk'.i = NextI /\ walk'.at = at
      /\ walk'.refuses = walk.refuses
  BY DEF Collects, WalkTyped, Walk
<1>3. ExtraPages \in Int /\ ExtraPages' = ExtraPages
  <2>1. walk.total \div PerPage \in Int
    BY <1>1
  <2>. QED BY <1>2, <2>1 DEF ExtraPages
<1>4. LastPage \in Int /\ LastPage' = LastPage
  <2>1. (walk.cases + PerPage - 1) \div PerPage \in Int
    BY <1>1
  <2>. QED BY <1>2, <2>1 DEF LastPage
<1>5. CASE walk.kind \in {"liteko", "numbered_buttons"} /\ walk.i <= ExtraPages
  <2>1. NextI = walk.i + 1
    BY <1>5 DEF NextI
  <2>2. /\ StepsLeft = Left(ExtraPages + 1 - walk.i)
        /\ StepsLeft' = Left(ExtraPages + 1 - (walk.i + 1))
    BY <1>2, <1>3, <1>5, <2>1 DEF StepsLeft, Left
  <2>3. /\ ExtraPages + 1 - (walk.i + 1) < ExtraPages + 1 - walk.i
        /\ 0 < ExtraPages + 1 - walk.i
    BY <1>1, <1>3, <1>5
  <2>. QED BY <1>1, <1>3, <2>2, <2>3, LeftFalls
<1>6. CASE walk.kind = "next_button" /\ at = walk.at + 1 /\ walk.at < LastPage
  <2>1. StepsLeft = Left(LastPage - walk.at) /\ StepsLeft' = Left(LastPage - (walk.at + 1))
    BY <1>2, <1>4, <1>6 DEF StepsLeft, Left
  <2>2. LastPage - (walk.at + 1) < LastPage - walk.at /\ 0 < LastPage - walk.at
    BY <1>1, <1>4, <1>6
  <2>. QED BY <1>1, <1>4, <2>1, <2>2, LeftFalls
<1>7. CASE /\ walk.kind = "url_param" /\ ~Capped(walk.i)
           /\ walk.i + 1 <= LastPage \/ ~walk.refuses
  <2>1. NextI = walk.i + 1
    BY <1>7 DEF NextI
  <2>2. CASE walk.cap > 0
    <3>1. StepsLeft = Left(walk.cap + 1 - walk.i)
      BY <1>7, <2>2 DEF StepsLeft
    <3>2. StepsLeft' = Left(walk.cap + 1 - (walk.i + 1))
      BY <1>2, <1>7, <2>1, <2>2 DEF StepsLeft, Left
    <3>3. walk.i <= walk.cap
      BY <1>1, <1>7, <2>2 DEF Capped
    <3>4. walk.cap + 1 - (walk.i + 1) < walk.cap + 1 - walk.i /\ 0 < walk.cap + 1 - walk.i
      BY <1>1, <3>3
    <3>. QED BY <1>1, <3>1, <3>2, <3>4, LeftFalls
  <2>3. CASE ~(walk.cap > 0)
    <3>1. StepsLeft = Left(LastPage - walk.i)
      BY <1>7, <2>3 DEF StepsLeft
    <3>2. StepsLeft' = Left(LastPage - (walk.i + 1))
      BY <1>2, <1>4, <1>7, <2>1, <2>3 DEF StepsLeft, Left
    <3>3. walk.i + 1 <= LastPage
      BY <1>7, <2>3 DEF IsBounded
    <3>4. LastPage - (walk.i + 1) < LastPage - walk.i /\ 0 < LastPage - walk.i
      BY <1>1, <1>4, <3>3
    <3>. QED BY <1>1, <1>4, <3>1, <3>2, <3>4, LeftFalls
  <2>. QED BY <2>2, <2>3
<1>. QED BY <1>5, <1>6, <1>7

LEMMA StepRunsDown ==
  ASSUME WalkKnown, BetweenRounds, WalkStep, walk.ended = "no", IsBounded,
         walk'.ended = "no"
  PROVE  StepsLeft' \in Nat /\ StepsLeft' < StepsLeft
<1>1. walk # NoWalk /\ WalkTyped
  BY DEF WalkStep, WalkKnown
<1>2. ASSUME NEW how, Ends(how), how # "no" PROVE FALSE
  BY <1>1, <1>2 DEF Ends, WalkTyped, Walk
<1>3. ~WalkPosted
  BY DEF WalkPosted
<1>4. ~(LitekoEnds \/ NumberedEnds \/ NextEnds \/ ScrollEnds \/ ParamEnds)
  BY <1>2 DEF LitekoEnds, NumberedEnds, NextEnds, ScrollEnds, ParamEnds
<1>5. CASE LitekoPage
  <2>. DEFINE q == PageBehind(walk.at, Button(walk.i))
              shown == IF q <= LastPage THEN q ELSE walk.at
  <2>0. q \in Nat \ {0} /\ walk.at \in Nat \ {0}
    BY <1>1, PagesAreNumbers, WalkFields
  <2>1. shown \in Nat \ {0} /\ walk.at \in Nat \ {0}
    <3>. HIDE DEF q
    <3>. QED BY <2>0
  <2>2. /\ walk.kind \in {"liteko", "numbered_buttons"} /\ walk.i <= ExtraPages
        /\ \/ walk' = Collects(shown, shown)
           \/ walk' = [Collects(shown, walk.at) EXCEPT !.trouble = TRUE]
    BY <1>5 DEF LitekoPage, Going
  <2>. HIDE DEF shown
  <2>. QED BY <1>1, <2>1, <2>2, PageRunsDown
<1>6. CASE NumberedPage
  <2>. DEFINE q == PageBehind(walk.at, Button(walk.i))
  <2>1. q \in Nat \ {0}
    BY <1>1, PagesAreNumbers
  <2>2. /\ walk.kind \in {"liteko", "numbered_buttons"} /\ walk.i <= ExtraPages
        /\ walk' = Collects(q, q)
    BY <1>2, <1>6 DEF NumberedPage, Going
  <2>. HIDE DEF q
  <2>. QED BY <1>1, <2>1, <2>2, PageRunsDown
<1>7. CASE NextPage
  <2>1. walk.at + 1 \in Nat \ {0}
    BY <1>1, WalkFields
  <2>2. /\ walk.kind = "next_button" /\ walk.at < LastPage
        /\ walk' = Collects(walk.at + 1, walk.at + 1)
    BY <1>7 DEF NextPage, Going
  <2>. QED BY <1>1, <2>1, <2>2, PageRunsDown
<1>8. CASE ParamPage
  <2>1. walk.i + 1 \in Nat \ {0}
    BY <1>1, WalkFields
  <2>2. walk' # [walk EXCEPT !.ended = "done", !.trouble = TRUE]
    BY <1>1 DEF WalkTyped, Walk
  <2>3. /\ walk.kind = "url_param" /\ ~Capped(walk.i)
        /\ walk.i + 1 <= LastPage \/ ~walk.refuses
        /\ walk' = Collects(walk.i + 1, walk.i + 1)
    BY <1>2, <1>8, <2>2 DEF ParamPage, Going
  <2>. QED BY <1>1, <2>1, <2>3, PageRunsDown
<1>9. CASE ScrollRound
  BY <1>1, <1>9, RoundRunsDown
<1>. QED BY <1>3, <1>4, <1>5, <1>6, <1>7, <1>8, <1>9 DEF WalkStep

\* walkListing and paginate: every turn of a loop ends the walk or leaves it with fewer
\* turns to take, for every total that was read, every site and page size, and with
\* pages that came without their view state; only url_param on a site that serves
\* every number needs max_pages for it.
THEOREM WalksRunDown == WalkSpec => WalkRunsDown
<1>1. walk = NoWalk => BetweenRounds
  BY DEF BetweenRounds
<1>2. WalkSpec => []BetweenRounds
  BY <1>1, WalkInvariant, BetweenRoundsStep, PTL DEF WalkSpec
<1>3. ASSUME WalkKnown, BetweenRounds, [WalkNext]_walk
      PROVE  [WalkStep /\ walk.ended = "no" /\ IsBounded
              => walk'.ended # "no" \/ (StepsLeft' \in Nat /\ StepsLeft' < StepsLeft)]_walk
  BY <1>3, StepRunsDown
<1>. QED BY <1>2, <1>3, WalkInvariant, PTL DEF WalkSpec, WalkRunsDown
=============================================================================
