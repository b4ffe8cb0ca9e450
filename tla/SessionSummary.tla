----------------------------- MODULE SessionSummary -----------------------------
(***************************************************************************)
(* The running totals of AnalysisEngine (crates/protocol/src/lib.rs):      *)
(* record_completed and the timestamps that ingest observes, read by       *)
(* summary() through a cache and by live_summary() through histograms.     *)
(*                                                                         *)
(* Requests of a root capture arrive as issue and completion; a completion *)
(* of a trace arrives whole, possibly without an issue time, without a     *)
(* latency, or on a clock that cannot be placed in the session.  Bytes     *)
(* stand for every volume, the operation for the whole category key.       *)
(* `recorded` is history: what record_completed was given.                 *)
(***************************************************************************)
EXTENDS Integers, Sequences, FiniteSets, FiniteSetsExt, SequencesExt, Functions, Intervals

CONSTANTS
  Requests,     (* request identities                                        *)
  RootKinds, TraceKinds,  (* [operation, bytes] of a request                 *)
  TraceSpans,   (* start and completion of the requests of a trace           *)
  Second,       (* instants to a bucket                                      *)
  Boundaries,   (* of the latency histogram                                  *)
  Percentiles,  (* 50, 95, 99                                                *)
  MaxTime, MaxRecorded, None

VARIABLES
  now,
  pending,      (* the requests issued and not completed                     *)
  totals,       (* AnalysisSummary's counters                                *)
  latencies,    (* latencies_ns                                              *)
  histogram,    (* live_latency_histogram.counts                             *)
  buckets, categories, busy,
  span,         (* first_ts_ns and last_ts_ns                                *)
  cache,        (* summary_cache                                             *)
  recorded

vars == <<now, pending, totals, latencies, histogram, buckets, categories, busy, span, cache,
          recorded>>

Operations == {k.operation : k \in RootKinds \cup TraceKinds}
Nothing == [completed |-> 0, bytes |-> 0]

Init ==
  /\ now = 0
  /\ pending = <<>>
  /\ totals = [completed |-> 0, uncorrelated |-> 0, unmeasured |-> 0, unplaced |-> 0,
               bytes |-> [o \in Operations |-> 0]]
  /\ latencies = <<>>
  /\ histogram = [k \in 1 .. Len(Boundaries) + 1 |-> 0]
  /\ buckets = <<>> /\ categories = <<>> /\ busy = <<>>
  /\ span = None /\ cache = None
  /\ recorded = <<>>

-----------------------------------------------------------------------------
\* Keeps the latest instant of an event and forgets the earlier ones.
ObserveLatest(old, instants) ==
  IF instants = {} THEN old
  ELSE IF old = None THEN <<Max(instants), Max(instants)>>
  ELSE <<Min({old[1], Max(instants)}), Max({old[2]} \cup instants)>>

(* observe_ts, for the instants an event carries. *)
Observe(old, instants) ==
  LET known == instants \cup (IF old = None THEN {} ELSE {old[1], old[2]})
  IN  IF known = {} THEN old ELSE <<Min(known), Max(known)>>

At(f, key) == IF key \in DOMAIN f THEN f[key] ELSE Nothing
Add(f, key, bytes) ==
  [k \in DOMAIN f \cup {key} |->
     IF k = key THEN [completed |-> At(f, k).completed + 1, bytes |-> At(f, k).bytes + bytes]
     ELSE f[k]]

\* The bucket of a request is the one it started in.
BucketOfStart(io) == (IF io.start = None THEN io.end ELSE io.start) \div Second
BucketOf(io) == io.end \div Second

(* record_completed.  `io.end` is completion_timestamp(), `io.start` is    *)
(* start_timestamp(): both are None on a foreign clock.                    *)
RecordCompleted(io) ==
  LET measured == io.latency # None
      placed == io.end # None
  IN  /\ totals' = [totals EXCEPT !.completed = @ + 1,
                                  !.bytes[io.operation] = @ + io.bytes,
                                  !.unmeasured = IF measured THEN @ ELSE @ + 1,
                                  !.unplaced = IF placed THEN @ ELSE @ + 1]
      /\ latencies' = IF measured THEN Append(latencies, io.latency) ELSE latencies
      /\ histogram' = IF measured THEN HistogramRecord(Boundaries, histogram, io.latency)
                      ELSE histogram
      /\ busy' = IF measured /\ placed THEN MergeInterval(busy, <<io.start, io.end>>) ELSE busy
      /\ buckets' = IF placed THEN Add(buckets, BucketOf(io), io.bytes) ELSE buckets
      /\ categories' = Add(categories, io.operation, io.bytes)
      /\ recorded' = Append(recorded, io)

Untouched == UNCHANGED <<totals, latencies, histogram, buckets, categories, busy, recorded>>

\* The summary is kept until something else discards it.
Remember == UNCHANGED cache

(* ingest discards the summary before it looks at the event. *)
Forget == cache' = None

(* ingest of BlockIssue: only what reaches the totals. *)
BlockIssue ==
  \E r \in Requests, kind \in RootKinds :
    /\ pending' = [q \in DOMAIN pending \cup {r} |->
                     IF q = r THEN [issue |-> now, kind |-> kind] ELSE pending[q]]
    /\ span' = Observe(span, {now})
    /\ Forget
    /\ Untouched /\ UNCHANGED now

(* ingest of BlockComplete: a request that is not pending is only counted. *)
BlockComplete ==
  \E r \in Requests :
    /\ Len(recorded) < MaxRecorded
    /\ span' = Observe(span, {now})
    /\ Forget
    /\ UNCHANGED now
    /\ IF r \notin DOMAIN pending
       THEN /\ totals.uncorrelated = 0    \* once is enough
            /\ totals' = [totals EXCEPT !.uncorrelated = @ + 1]
            /\ UNCHANGED <<pending, latencies, histogram, buckets, categories, busy, recorded>>
       ELSE /\ RecordCompleted([start |-> pending[r].issue, end |-> now,
                                latency |-> now - pending[r].issue,
                                operation |-> pending[r].kind.operation,
                                bytes |-> pending[r].kind.bytes])
            /\ pending' = Restrict(pending, DOMAIN pending \ {r})

(* ingest of ObservedBlockCompletion: observe_request_time needs both      *)
(* times; the start falls back on the completion.  Issue and completion    *)
(* may lie anywhere in what was traced.                                    *)
ObservedBlockCompletion ==
  \E kind \in TraceKinds, times \in TraceSpans, placed, measured \in BOOLEAN :
      /\ Len(recorded) < MaxRecorded
      /\ ~measured => times[1] = times[2]
      /\ LET io == [start |-> IF placed THEN times[1] ELSE None,
                    end |-> IF placed THEN times[2] ELSE None,
                    latency |-> IF measured THEN times[2] - times[1] ELSE None,
                    operation |-> kind.operation, bytes |-> kind.bytes]
         IN  /\ span' = IF placed THEN Observe(span, {times[1], times[2]}) ELSE span
             /\ RecordCompleted(io)
      /\ Forget
      /\ UNCHANGED <<now, pending>>

(* ingest of FileIo and the other timed evidence. *)
Evidence ==
  /\ span' = Observe(span, {now})
  /\ Forget
  /\ Untouched /\ UNCHANGED <<now, pending>>

Tick == now < MaxTime /\ now' = now + 1
        /\ Untouched /\ UNCHANGED <<pending, span, cache>>

-----------------------------------------------------------------------------
Logging == IF span # None /\ totals.unplaced = 0 THEN span[2] - span[1] ELSE None
HasBusy == totals.unmeasured = 0 /\ totals.completed > 0 /\ Logging # None
SortedLatencies == SortSeq(latencies, <)

(* summary(), when it is computed. *)
Compute ==
  [totals |-> totals, logging |-> Logging,
   busy |-> IF HasBusy THEN Smaller(UnionDuration(ToSet(busy)), Logging) ELSE None,
   idle |-> IF HasBusy THEN Logging - Smaller(UnionDuration(ToSet(busy)), Logging) ELSE None,
   percentiles |-> [p \in Percentiles |-> Percentile(SortedLatencies, p, None)],
   categories |-> categories]

(* live_summary() *)
Live ==
  LET sum == FoldLeft(LAMBDA total, i : total + i[2] - i[1], 0, busy)
  IN  [totals |-> totals, logging |-> Logging,
       busy |-> IF HasBusy THEN Smaller(sum, Logging) ELSE None,
       percentiles |-> [p \in Percentiles |->
                          PercentileUpper(Boundaries, histogram, p, None)]]

(* summary(): what is cached is returned. *)
Summary ==
  /\ cache' = IF cache = None THEN Compute ELSE cache
  /\ Untouched /\ UNCHANGED <<now, pending, span>>

Next == BlockIssue \/ BlockComplete \/ ObservedBlockCompletion \/ Evidence \/ Tick \/ Summary
Spec == Init /\ [][Next]_vars

-----------------------------------------------------------------------------
Given == ToSet(recorded)
Count(S(_)) == Cardinality({k \in DOMAIN recorded : S(recorded[k])})
Bytes(S(_)) == FoldLeft(LAMBDA sum, io : IF S(io) THEN sum + io.bytes ELSE sum, 0, recorded)
Whole(io) == TRUE
Placed(io) == io.end # None
Sum(f) == FoldFunction(LAMBDA cell, sum : [completed |-> sum.completed + cell.completed,
                                           bytes |-> sum.bytes + cell.bytes], Nothing, f)

(* ingest clears summary_cache: a summary that is shown is the one that    *)
(* would be computed now, whatever arrived since it was asked for first.   *)
SummaryIsCurrent == cache # None => cache = Compute

(* record_completed: every request is in one category and, unless its      *)
(* clock is foreign, in the bucket of its completion; nothing else is.     *)
CountedOnce ==
  /\ totals.completed = Len(recorded)
  /\ Sum(categories) = [completed |-> Len(recorded), bytes |-> Bytes(Whole)]
  /\ \A b \in DOMAIN buckets :
       LET Mine(io) == Placed(io) /\ io.end >= b * Second /\ io.end < (b + 1) * Second
       IN  buckets[b] = [completed |-> Count(Mine), bytes |-> Bytes(Mine)]
  /\ Sum(buckets).completed + totals.unplaced = Len(recorded)

(* merge_interval keeps the busy intervals sorted and apart, and they are  *)
(* the time during which some measured request was in flight.              *)
BusyIsUnion ==
  /\ \A k \in 1 .. Len(busy) - 1 : busy[k][2] < busy[k + 1][1]
  /\ Instants(ToSet(busy)) =
       Instants({<<io.start, io.end>> : io \in {io \in Given : io.latency # None /\ Placed(io)}})

(* A busy time that is shown fits the session without being cut to it, is  *)
(* the same live and offline, and leaves the rest as idle.                 *)
BusyFitsSession ==
  HasBusy => /\ Compute.busy = UnionDuration(ToSet(busy))
             /\ Live.busy = Compute.busy
             /\ Compute.busy + Compute.idle = Compute.logging

(* histogram_percentile_upper bounds the exact percentile that summary()   *)
(* shows from above, and in the overflow bucket from below.                *)
LiveBoundsExact ==
  \A p \in Percentiles :
    LET exact == Compute.percentiles[p]
        live == Live.percentiles[p]
    IN  /\ exact = None <=> live = None
        /\ exact # None /\ live <= Boundaries[Len(Boundaries)] => exact <= live
        /\ exact # None /\ live > Boundaries[Len(Boundaries)] => exact >= live

(* percentile: at least p in a hundred latencies are at most the value     *)
(* shown, and it is the least recorded latency of which that is true.      *)
PercentileIsRank ==
  \A p \in Percentiles :
    LET Enough(v) == 100 * Cardinality({k \in DOMAIN latencies : latencies[k] <= v})
                       >= p * Len(latencies)
        exact == Compute.percentiles[p]
    IN  latencies # <<>> => exact = Min({v \in ToSet(latencies) : Enough(v)})

(* summary() and live_summary() agree with the requests that were          *)
(* recorded, now and in whatever order they arrived: counts, busy time,    *)
(* percentiles and the cache.                                              *)
SummaryIsExact ==
  /\ SummaryIsCurrent
  /\ CountedOnce
  /\ BusyIsUnion
  /\ BusyFitsSession
  /\ LiveBoundsExact
  /\ PercentileIsRank
=============================================================================
