------------------------------ MODULE HistoryFetch ------------------------------
(***************************************************************************)
(* The history of a model, from the next missing range to the commits that *)
(* fill it: historyStep and fetchRange (indexer/model.ts), the log pages   *)
(* they read (rpc/history.ts) and the coverage they leave (model-store.ts).*)
(*                                                                         *)
(* A step asks for `Concurrency` pages at most, the one window of requests *)
(* that run at the same time.  A request that is answered with too many    *)
(* results is split; answers wait in `ready` until the pages before them   *)
(* are out.                                                                *)
(* What a page has read is processed in chunks, each one commit.  The live *)
(* worker commits and reverts in between.                                  *)
(***************************************************************************)
EXTENDS CoverageRanges

CONSTANTS
  From,            \* plan.history.from
  Latest,          \* the block the model starts at
  Top,             \* bound: the highest height of the chain
  Directions,      \* the directions a plan may have
  PageSize,        \* plan.history.batch.size
  Concurrency,     \* plan.history.batch.concurrency
  PerChunk,        \* blocks with logs in one chunk (62 in the code)
  EventBlocks,     \* the heights that have logs
  Retries,         \* repetitions of a failed page request (2 in the code)
  MaxTroubles      \* bound: failed requests, reverts and retentions

ASSUME HistoryAssumption ==
  /\ {From, Latest, Top, Retries, MaxTroubles} \subseteq Nat
  /\ From <= Latest /\ Latest <= Top
  /\ Directions \subseteq {"forward", "backward"}
  /\ {PageSize, Concurrency, PerChunk} \subseteq Nat \ {0}
  /\ EventBlocks \subseteq From..Top

VARIABLES
  direction,  \* the plan's direction, never changed
  coverage,   \* the stored coverage, a sequence of ranges
  scanned,    \* history: the heights committed that are still stored and valid
  from,       \* the lowest height retention leaves
  through,    \* liveHistoryThrough
  applied,    \* the height of the newest block the live worker applied
  revision,   \* counts the reverts
  fetch,      \* the fetch under way, see Fetch
  complete,   \* the last step found nothing missing
  troubles    \* failures, reverts and retentions so far

vars == <<direction, coverage, scanned, from, through, applied, revision, fetch, complete,
          troubles>>

Forward == direction = "forward"

(* The height a page or chunk begins with, and the one that follows it. *)
Near(page) == IF Forward THEN page[1] ELSE page[2]
Beyond(page) == IF Forward THEN page[2] + 1 ELSE page[1] - 1

(* The pages of a range, in the order of the direction. *)
Ranges(low, high) ==
  LET count == (high - low) \div PageSize + 1
  IN [i \in 1..count |->
        IF Forward
        THEN <<low + (i - 1) * PageSize, Lesser(low + i * PageSize - 1, high)>>
        ELSE <<Greater(high - i * PageSize + 1, low), high - (i - 1) * PageSize>>]

(* The chunks of a page: each has PerChunk blocks with logs, the last one  *)
(* what is left; a chunk reaches to the block the next one begins with.    *)
Between(near, beyond) == IF Forward THEN <<near, beyond - 1>> ELSE <<beyond + 1, near>>
Events(page) ==
  SortedBy(EventBlocks \cap HeightsOf(page),
           [n \in HeightsOf(page) |-> IF Forward THEN n - page[1] ELSE page[2] - n])
ChunkCount(page) == (Len(Events(page)) + PerChunk - 1) \div PerChunk
Chunks(page) ==
  LET Cut(j) == Events(page)[j * PerChunk + 1]
  IN IF Events(page) = <<>> THEN <<page>>
     ELSE [j \in 1..ChunkCount(page) |->
             Between(IF j = 1 THEN Near(page) ELSE Cut(j - 1),
                     IF j = ChunkCount(page) THEN Beyond(page) ELSE Cut(j))]

(***************************************************************************)
(* A fetch: the range asked for; `tasks`, for each request of its window   *)
(* the ranges it has left, of which the first is on its way and failed     *)
(* `tries` times; `ready` and `cursor`, the pages that wait for others;    *)
(* `chunks`, what has to be committed; `at`, the height the next commit    *)
(* begins with if none is skipped (history).                               *)
(***************************************************************************)
NoFetch == [range |-> <<>>]
Idle == fetch = NoFetch

Fetch(range) ==
  LET window == Ranges(range[1], range[2])
  IN [range |-> range, revision |-> revision,
      tasks |-> [i \in DOMAIN window |-> <<window[i]>>],
      tries |-> [i \in DOMAIN window |-> 0],
      ready |-> {}, cursor |-> Near(range), chunks |-> <<>>, at |-> Near(range)]
WindowDone == ~Idle /\ \A i \in DOMAIN fetch.tasks : fetch.tasks[i] = <<>>

Init ==
  /\ direction \in Directions
  /\ coverage = <<>> /\ scanned = {}
  /\ from = From
  /\ through = Latest /\ applied = Latest
  /\ revision = 0
  /\ fetch = NoFetch
  /\ complete = FALSE
  /\ troubles = 0

Trouble == troubles < MaxTroubles /\ troubles' = troubles + 1

(* Bug: a range of one height is taken for none. *)
NextRange_Strict ==
  IF through <= from THEN <<>>
  ELSE IF Forward
  THEN MissingForwardRangeOf(coverage, from, through, PageSize * Concurrency)
  ELSE MissingRangeOf(coverage, from, through, PageSize * Concurrency)
NextRange ==
  IF through < from THEN <<>>
  ELSE IF Forward
  THEN MissingForwardRangeOf(coverage, from, through, PageSize * Concurrency)
  ELSE MissingRangeOf(coverage, from, through, PageSize * Concurrency)

(***************************************************************************)
(* One history step: it ends at once, or begins to read a range.           *)
(***************************************************************************)
Step ==
  /\ Idle
  /\ complete' = (NextRange = <<>>)
  /\ fetch' = IF NextRange = <<>> THEN NoFetch ELSE Fetch(NextRange)
  /\ UNCHANGED <<direction, coverage, scanned, from, through, applied, revision, troubles>>

FetchUnchanged ==
  UNCHANGED <<direction, coverage, scanned, from, through, applied, revision, complete>>

(* Any failure ends the step, and with it what is ready or on its way. *)
Fail == fetch' = NoFetch

(* Bug: a page goes out as it comes. *)
Released_AtOnce(ready, cursor) == SetToSeq(ready)
(* The ready page at the cursor goes out and moves it, as long as there is one. *)
ReleaseNext(ready, cursor, output) ==
  LET at == IF output = <<>> THEN cursor ELSE Beyond(Last(output))
      next == {p \in ready : Near(p) = at}
  IN IF next = {} THEN output ELSE Append(output, CHOOSE p \in next : TRUE)
Releasing(ready, cursor) ==
  LET output[n \in 0..Cardinality(ready)] ==
        IF n = 0 THEN <<>> ELSE ReleaseNext(ready, cursor, output[n - 1])
  IN output
Released(ready, cursor) == Releasing(ready, cursor)[Cardinality(ready)]

(* The chunks of pages, after those there are. *)
Chunking(chunks, pages) ==
  LET all[n \in 0..Len(pages)] == IF n = 0 THEN chunks ELSE all[n - 1] \o Chunks(pages[n])
  IN all

Receive(f, i, released) ==
  [f EXCEPT !.tasks[i] = Tail(@), !.tries[i] = 0,
            !.ready = (@ \cup {Head(f.tasks[i])}) \ ToSet(released),
            !.cursor = IF released = <<>> THEN @ ELSE Beyond(Last(released)),
            !.chunks = Chunking(@, released)[Len(released)]]

(***************************************************************************)
(* The request of task i is answered, has too many results, or fails.      *)
(***************************************************************************)
UnderWay(i) == ~Idle /\ i \in DOMAIN fetch.tasks /\ fetch.tasks[i] # <<>>
Page(i) == Head(fetch.tasks[i])

Answered(i) ==
  /\ UnderWay(i)
  /\ \E released \in {Released(fetch.ready \cup {Page(i)}, fetch.cursor)} :
       fetch' = Receive(fetch, i, released)
  /\ UNCHANGED troubles /\ FetchUnchanged

Halves(page) ==
  LET middle == (page[1] + page[2]) \div 2
  IN IF Forward THEN <<<<page[1], middle>>, <<middle + 1, page[2]>>>>
     ELSE <<<<middle + 1, page[2]>>, <<page[1], middle>>>>

TooMany(i) ==
  /\ UnderWay(i)
  /\ Page(i)[1] < Page(i)[2]
  /\ fetch' = [fetch EXCEPT !.tasks[i] = Halves(Page(i)) \o Tail(@), !.tries[i] = 0]
  /\ UNCHANGED troubles /\ FetchUnchanged

RequestFails(i) ==
  /\ UnderWay(i) /\ Trouble
  /\ IF fetch.tries[i] < Retries THEN fetch' = [fetch EXCEPT !.tries[i] = @ + 1] ELSE Fail
  /\ FetchUnchanged

(* One block with too many results, an error that is not retried, logs     *)
(* that are not those of the range or of its headers.                      *)
Rejected == ~Idle /\ Trouble /\ Fail /\ FetchUnchanged

(***************************************************************************)
(* The pages that went out are committed chunk by chunk.                   *)
(***************************************************************************)
CommitChunk ==
  /\ ~Idle /\ fetch.chunks # <<>>
  /\ LET chunk == Head(fetch.chunks) IN
       IF fetch.revision # revision THEN Fail /\ UNCHANGED <<coverage, scanned>>
       ELSE /\ coverage' = MergeBlockRanges(Append(coverage, chunk))
            /\ scanned' = scanned \cup HeightsOf(chunk)
            /\ fetch' = [fetch EXCEPT !.chunks = Tail(@), !.at = Beyond(chunk)]
  /\ UNCHANGED <<direction, from, through, applied, revision, complete, troubles>>

Finished == WindowDone /\ fetch.chunks = <<>>
Finish ==
  /\ Finished
  /\ fetch' = NoFetch
  /\ UNCHANGED troubles /\ FetchUnchanged

(***************************************************************************)
(* The live worker and retention.                                          *)
(***************************************************************************)
LiveCommit ==
  /\ applied < Top
  /\ applied' = applied + 1
  /\ coverage' = MergeBlockRanges(Append(coverage, <<applied + 1, applied + 1>>))
  /\ scanned' = scanned \cup {applied + 1}
  /\ through' \in {through, Greater(through, applied)}
  /\ UNCHANGED <<direction, from, revision, fetch, complete, troubles>>

Revert(ancestor, latest) ==
  /\ Trouble
  /\ ancestor < applied /\ latest \in {ancestor, applied}
  /\ coverage' = DropFrom(coverage, ancestor + 1)
  /\ scanned' = {n \in scanned : n <= ancestor}
  /\ through' = latest /\ applied' = latest
  /\ revision' = revision + 1
  /\ UNCHANGED <<direction, from, fetch, complete>>

Retain(n) ==
  /\ Trouble
  /\ from < n /\ n <= applied
  /\ from' = n
  /\ coverage' = KeepFrom(coverage, n)
  /\ scanned' = {m \in scanned : m >= n}
  /\ UNCHANGED <<direction, through, applied, revision, fetch, complete>>

-----------------------------------------------------------------------------
Request(i) == Answered(i) \/ TooMany(i)
Work ==
  \/ Step \/ CommitChunk \/ Finish
  \/ \E i \in 1..Concurrency : Request(i)

Next ==
  \/ Work
  \/ \E i \in 1..Concurrency : RequestFails(i)
  \/ Rejected
  \/ LiveCommit
  \/ \E a \in From..Top, l \in From..Top : Revert(a, l)
  \/ \E n \in From..Top : Retain(n)

Spec == Init /\ [][Next]_vars
(* The history worker goes on, and a request ends in one way or another. *)
FairSpec == Spec /\ WF_vars(Work)

-----------------------------------------------------------------------------
(***************************************************************************)
(* Properties.                                                             *)
(***************************************************************************)
(* The ranges are the heights that were committed and are still valid, in  *)
(* their one canonical form, after any commits of history and the live     *)
(* worker, invalidations and retentions; and the range either search finds *)
(* is the newest or oldest one they miss, cut to its window, wherever the  *)
(* bounds lie (model-store.ts, model.ts mergeCoverage).                    *)
CoverageExact ==
  /\ Canonical(coverage)
  /\ Covered(coverage) = scanned
  /\ Idle => \A low, high \in From..Top, size \in 1..(PageSize * Concurrency) :
       /\ MissingRangeOf(coverage, low, high, size) = MissingRange(scanned, low, high, size)
       /\ MissingForwardRangeOf(coverage, low, high, size) =
            MissingForwardRange(scanned, low, high, size)

(* What a fetch commits is its range, in order, without a gap and without  *)
(* a height that is scanned: pages that were split or answered out of      *)
(* order do not change it, nor does the cut into chunks (history.ts,       *)
(* model.ts fetchRange).                                                   *)
PagesTile ==
  ~Idle =>
    /\ \A i \in DOMAIN fetch.chunks :
         Near(fetch.chunks[i]) = IF i = 1 THEN fetch.at ELSE Beyond(fetch.chunks[i - 1])
    /\ fetch.revision = revision =>
         \A i \in DOMAIN fetch.chunks : HeightsOf(fetch.chunks[i]) \cap scanned = {}
    /\ Finished => fetch.at = Beyond(fetch.range) /\ fetch.ready = {}

(* Everything wanted is scanned in the end, whatever was split, failed,    *)
(* reverted or retained on the way (model.ts, historyStep and its loop).   *)
Completes == <>[](complete /\ from..through \subseteq scanned)
=============================================================================
