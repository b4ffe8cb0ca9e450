------------------------------ MODULE ProbeHealth ------------------------------
(***************************************************************************)
(* The collector's periodic reading of the per-CPU aggregates that         *)
(* BlockProbe fills (crates/android-agent/src/main.rs:                     *)
(* read_aggregate_snapshot and the Health record of capture).              *)
(***************************************************************************)
EXTENDS BlockProbe, FiniteSetsExt

VARIABLES
  reported,  (* what each CPU adds to the latest AggregateSnapshot           *)
  counted,   (* counted[g]: the counter bumps of program runs that read g    *)
  straddled  (* a program run ended under another generation than it read    *)

healthvars == <<vars, reported, counted, straddled>>

\* read_aggregate_snapshot: an aggregate of another generation is left out.
ReadAggregateSnapshot ==
  [k \in Cpus |-> IF aggregates[k].generation = active THEN aggregates[k].count ELSE Zero]

\* The Health record of a tick.
Health ==
  /\ reported' = ReadAggregateSnapshot
  /\ UNCHANGED <<vars, counted, straddled>>

Ending(c, g) == handler[c] # None /\ handler'[c] = None /\ handler[c].config = g

Running ==
  /\ Next
  /\ counted' = [g \in Generations |-> [n \in Counters |->
       counted[g][n] + IF \E c \in Contexts : Ending(c, g) THEN total'[n] - total[n] ELSE 0]]
  /\ straddled' = (straddled \/ \E c \in Contexts, g \in Generations \ {active} : Ending(c, g))
  /\ UNCHANGED reported

HealthInit ==
  /\ Init
  /\ reported = [k \in Cpus |-> Zero]
  /\ counted = [g \in Generations |-> Zero]
  /\ straddled = FALSE
HealthNext == Running \/ Health
HealthSpec == HealthInit /\ [][HealthNext]_healthvars

SumOverCpus(counts, n) == MapThenSumSet(LAMBDA k : counts[k][n], Cpus)

(* The per-CPU counters of a snapshot add up to what the program runs of the
   active generation counted, on whatever CPU: nothing is lost, counted twice
   or taken over from an earlier generation, unless a program run straddles a
   generation change.                                                       *)
SnapshotExact ==
  [][reported' # reported /\ ~straddled
       => \A n \in Counters : SumOverCpus(reported', n) = counted[active][n]]_healthvars

=============================================================================
