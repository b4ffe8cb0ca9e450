------------------------- MODULE MCRequestCorrelator -------------------------
(***************************************************************************)
(* The request correlator in two streams, as `stream_of` says: one of      *)
(* three requests that share a key, with losses, reordering and requeues,  *)
(* and the one that the block probes of ProbeToAnalysis write on two CPUs, *)
(* one of which is interrupted.  A third stream is that of the completed   *)
(* requests, which SessionSummary sums up.                                 *)
(***************************************************************************)
EXTENDS RequestCorrelator, Sequences, TLC

CONSTANT Worker

MCRequests == {1, 2, 3}
MCKeys == {"k1", "k2"}
MCDevices == {"d"}
MCDeviceOf == [k \in MCKeys |-> "d"]
MCReused == <<"k1", "k1", "k1">>

VARIABLES
  stream_of,
  where, todo, failed, tries, merged, missed, refused, clock, active, raw, starts, aggregates, ring,
  handler, total, joined,
  from_inserted, from_pending, from_ambiguous, from_depth, from_expired, from_replaced,
  from_returned, carried, requeued,
  summed_at, issued, totals, latencies, histogram, buckets, categories, busy, span, cache, recorded

probeVars == <<where, todo, failed, tries, merged, missed, refused, clock, active, raw, starts,
               aggregates, ring, handler, total, joined,
               from_inserted, from_pending, from_ambiguous, from_depth, from_expired, from_replaced,
               from_returned, carried, requeued>>

summaryVars == <<summed_at, issued, totals, latencies, histogram, buckets, categories, busy, span,
                 cache, recorded>>

A == INSTANCE ProbeToAnalysis WITH
  life <- where, attempts <- tries,
  inserted <- from_inserted, pending <- from_pending, ambiguous <- from_ambiguous,
  device_pending <- from_depth, expired <- from_expired, replaced <- from_replaced,
  returned <- from_returned,
  Requests <- {1, 2}, Ptrs <- {"p", "q"}, PtrOf <- <<"p", "p">>, Size <- <<1, 1>>,
  Contexts <- {"task", "irq", "other"}, Cpus <- {"c1", "c2"},
  CpuOf <- ("task" :> "c1") @@ ("irq" :> "c1") @@ ("other" :> "c2"),
  Above <- ("task" :> {"irq"}) @@ ("irq" :> {}) @@ ("other" :> {}),
  Probe <- "exact", Counters <- {"ring_reserve_failures"},
  ConfigOf <- <<[mode |-> "balanced", accepts |-> {2, Worker}, include_errors |-> TRUE]>>,
  MaxGeneration <- 1, RawCapacity <- 1, StartsCapacity <- 1, RingCapacity <- 3,
  MaxAttempts <- <<2, 1>>, MaxMissed <- 1, MaxMerged <- 1, Ttl <- 100

S == INSTANCE SessionSummary WITH
  now <- summed_at, pending <- issued,
  Requests <- {"r"}, RootKinds <- {[operation |-> "read", bytes |-> 1]},
  TraceKinds <- {[operation |-> "write", bytes |-> 2]},
  TraceSpans <- {<<2, 3>>, <<0, 3>>, <<1, 1>>},
  Second <- 2, Boundaries <- <<0, 2>>, Percentiles <- {50, 95}, MaxTime <- 3, MaxRecorded <- 3

InitAll == Init /\ A!AnalysisInit /\ S!Init /\ stream_of \in {"any", "probes", "completed"}

NextAll ==
  \/ stream_of = "any" /\ Next /\ UNCHANGED <<stream_of, probeVars, summaryVars>>
  \/ stream_of = "probes" /\ A!AnalysisNext /\ UNCHANGED <<stream_of, vars, summaryVars>>
  \/ stream_of = "completed" /\ S!Next /\ UNCHANGED <<stream_of, vars, probeVars>>

SpecAll == InitAll /\ [][NextAll]_<<stream_of, vars, probeVars, summaryVars>>

(* The engine correlates what process_block joined in the kernel. *)
DetailCorrelated == A!DetailCorrelated

(* summary() and live_summary() agree with what was recorded. *)
SummaryIsExact == stream_of = "completed" => S!SummaryIsExact
=============================================================================
