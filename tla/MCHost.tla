-------------------------------- MODULE MCHost --------------------------------
(***************************************************************************)
(* Small instances of what the desktop computes from records and does      *)
(* beside the engine: the ownership of a Perfetto capture (which this      *)
(* module extends, with its property CaptureIsOwned), the pairing of its   *)
(* trace, host activity, the numbers beside graphs, device counters and    *)
(* the diagnostic log.  They share no state, so a behaviour runs one part  *)
(* and the others stay in a fixed initial state.                           *)
(***************************************************************************)
EXTENDS PerfettoOwnership, TLC

CONSTANTS Devices

VARIABLES
  part,
  time, request, events, quality, overruns, losses, requeues, result,
  requests, waits, scope, torn, order, read, activity,
  rows, edges, empty,
  name, content, log, step, written, rotations, faults,
  disks, done, plugs, shots, stats

traceVars == <<time, request, events, quality, overruns, losses, requeues, result>>
activityVars == <<requests, waits, scope, torn, order, read, activity>>
graphVars == <<rows, edges, empty>>
logVars == <<name, content, log, step, written, rotations, faults>>
counterVars == <<disks, done, plugs, shots, stats>>

P == INSTANCE PerfettoPairing WITH
  Requests <- {1, 2}, Extents <- {<<0, 2>>, <<0, 1>>}, Cpus <- {1},
  MaxTime <- 4, MaxRequeues <- 1, MaxLosses <- 1, MAX_PENDING <- 2, MAX_EVENTS <- 6,
  Hotplug <- FALSE,
  Snapshots <- {<<[at |-> 3, pid |-> 1, start |-> 2], [at |-> 1, pid |-> 2, start |-> None],
                  [at |-> 2, pid |-> 1, start |-> 2], [at |-> None, pid |-> 1, start |-> None],
                  [at |-> 3, pid |-> 2, start |-> None]>>}

A == INSTANCE HostActivity WITH MaxTime <- 3, MaxRequests <- 2, MaxWaits <- 1, BurstGap <- 1

G == INSTANCE GraphSummary WITH
  Sectors <- {0, 1, 3}, Lengths <- {0, 2}, Times <- {1, 2}, MaxSector <- 4, MaxRows <- 3

R == INSTANCE LogRotation WITH MaxFiles <- 3, MaxBytes <- 2, MaxRecords <- 9, MaxFaults <- 2

D == INSTANCE DiskCounters WITH
  phone <- disks,
  Disks <- {1}, MaxWork <- 2, MaxPlugs <- 1, MaxBoot <- 2, MaxShots <- 3

HostInit ==
  /\ Init /\ P!Init /\ A!Init /\ G!Init /\ R!Init /\ D!Init
  /\ part \in {"owner", "trace", "activity", "graph", "log", "counters"}
  /\ part # "activity" => scope /\ ~torn

Owner == part = "owner" /\ Next
  /\ UNCHANGED <<part, traceVars, activityVars, graphVars, logVars, counterVars>>
Trace == part = "trace" /\ P!Next
  /\ UNCHANGED <<part, vars, activityVars, graphVars, logVars, counterVars>>
Activity == part = "activity" /\ A!Next
  /\ UNCHANGED <<part, vars, traceVars, graphVars, logVars, counterVars>>
Graph == part = "graph" /\ G!Next
  /\ UNCHANGED <<part, vars, traceVars, activityVars, logVars, counterVars>>
Log == part = "log" /\ R!Next
  /\ UNCHANGED <<part, vars, traceVars, activityVars, graphVars, counterVars>>

Counters == part = "counters" /\ D!Next
  /\ UNCHANGED <<part, vars, traceVars, activityVars, graphVars, logVars>>

HostNext == Owner \/ Trace \/ Activity \/ Graph \/ Log \/ Counters

hostVars == <<part, vars, traceVars, activityVars, graphVars, logVars, counterVars>>
HostSpec == HostInit /\ [][HostNext]_hostVars

\* Nothing tells devices apart.
Symmetry == Permutations(Devices)

-----------------------------------------------------------------------------
(* perfetto.rs analyze pairs the events of one request, and a Projection's *)
(* rows tell of that request.                                              *)
PairingIsSound == part = "trace" => P!PairingIsSound
(* host_bw.rs and window_series.rs measure the requests that were made.    *)
ActivityIsMeasured == part = "activity" => A!ActivityIsMeasured
(* graph_summary.rs counts the rows of the graph, DiskStatsView what the   *)
(* disks did.                                                              *)
NumbersAreExact ==
  /\ part = "graph" => G!NumbersAreExact
  /\ part = "counters" => D!CountersAreTrue
(* RotatingJsonl keeps order, recent records and bounds.                   *)
LogIsKept == part = "log" => R!LogIsKept
=============================================================================
