------------------------------ MODULE MCCollector ------------------------------
(***************************************************************************)
(* Small instances of the parts of the collector that share no state with  *)
(* each other: what it attaches, the scheduler switch (SchedulerStats,     *)
(* which this module extends, with SwitchRestored), stage pairing, F2FS    *)
(* extents, top lists, the flight recorder, system calls, and its reading  *)
(* of the aggregates.  A behaviour runs one part; the others stay in a     *)
(* fixed initial state.                                                    *)
(***************************************************************************)
EXTENDS Integers, SchedulerStats, TLC

CONSTANTS Worker, None

VARIABLES
  part,
  found, attachStep, attached, loaded, enabled, plan, layers, exactFiles, failedOptional,
  now, dispatched, live, pending, ambiguous, health, keyless, begun, doubtful, span,
  clock, reports, extents, overflowed, placed, issued,
  time, open, processes, files, requests, lost, lostTwo, spent, seen,
  today, records, bytes, evicted, observed,
  running, made, fdFile, swapped, starts, queue, lookup, report,
  life, todo, failed, attempts, merged, missed, refused, ktime, generation, raw, blocks, aggregates,
  ring, handler, total, joined, reported, counted, straddled

attachVars == <<found, attachStep, attached, loaded, enabled, plan, layers, exactFiles, failedOptional>>
stageVars == <<now, dispatched, live, pending, ambiguous, health, keyless, begun, doubtful, span>>
extentVars == <<clock, reports, extents, overflowed, placed, issued>>
topVars == <<time, open, processes, files, requests, lost, lostTwo, spent, seen>>
recorderVars == <<today, records, bytes, evicted, observed>>
syscallVars == <<running, made, fdFile, swapped, starts, queue, lookup, report>>
healthVars == <<life, todo, failed, attempts, merged, missed, refused, ktime, generation, raw, blocks,
                aggregates, ring, handler, total, joined, reported, counted, straddled>>
agentVars == <<attachVars, vars, stageVars, extentVars, topVars, recorderVars>>
probeVars == <<syscallVars, healthVars>>

A == INSTANCE Attachment WITH
  pc <- attachStep,
  Optional <- {"insert", "identity", "host", "extent", "scsi_start", "fs_start", "fs_context"}
P == INSTANCE StagePairing WITH
  Stages <- {<<"scsi", 1>>, <<"ufs", 1>>, <<"ufs", 0>>}, MaxLive <- [scsi |-> 1, ufs |-> 2],
  Ttl <- 1, MaxCommands <- 3, MaxKeyless <- 1, MaxTime <- 3
E == INSTANCE F2fsExtents WITH
  now <- clock, records <- reports,
  Inodes <- {"a", "b"}, Blocks <- {1, 2}, SectorsPerBlock <- 2, Mode <- 1, MaxBio <- 2,
  Lookups <- {[block |-> 1, count |-> 1, result |-> 0], [block |-> 1, count |-> 2, result |-> 0],
              [block |-> 1, count |-> 2, result |-> -1], [block |-> 0, count |-> 1, result |-> 0],
              [block |-> 2, count |-> 0, result |-> 0]},
  Folios <- {[block |-> 2, data |-> TRUE], [block |-> 1, data |-> FALSE]},
  Shift <- 1, ExtentTtl <- 1, MaxExtents <- 3, MaxTime <- 3, MaxRecords <- 3
T == INSTANCE LiveTop WITH
  now <- time, pending <- open, live <- requests,
  Keys <- {"a", "b"}, Requests <- {"r"}, Capacity <- 1, Shown <- 1, Latencies <- {1, 2},
  MaxTime <- 2, MaxObserved <- 3
R == INSTANCE FlightRecorder WITH
  now <- today,
  MaxBytes <- 3, Window <- 1, Sizes <- {1, 2, 4}, Skew <- 1, MaxTime <- 3, MaxRecords <- 5

S == INSTANCE SyscallProbe WITH
  Threads <- {"t1", "t2"}, Fds <- {"fd"},
  Files <- {"a", "b"}, InodeOf <- ("a" :> 1) @@ ("b" :> 2),
  StartsCapacity <- 1, QueueCapacity <- 1, MaxCalls <- 3, MaxSwaps <- 2

\* Two CPUs, two requests that reuse a pointer, one change of generation.
H == INSTANCE ProbeHealth WITH
  clock <- ktime, active <- generation, starts <- blocks,
  Requests <- {1, 2}, Ptrs <- {"p", "q"}, PtrOf <- <<"p", "p">>, Size <- <<1, 1>>,
  Contexts <- {"c1", "c2"}, Cpus <- {"c1", "c2"}, CpuOf <- [c \in {"c1", "c2"} |-> c],
  Above <- [c \in {"c1", "c2"} |-> {}], Probe <- "exact",
  Counters <- {"observed", "filter_passed"},
  ConfigOf <- <<[mode |-> "balanced", accepts |-> {2, Worker}, include_errors |-> TRUE]>>,
  MaxGeneration <- 1, RawCapacity <- 1, StartsCapacity <- 1, RingCapacity <- 1,
  MaxAttempts <- <<1, 1>>, MaxMissed <- 0, MaxMerged <- 0

CollectorInit ==
  /\ S!Init /\ H!HealthInit
  /\ Init /\ A!Init /\ P!Init /\ E!Init /\ T!Init /\ R!Init
  /\ part \in {"attach", "switch", "stages", "extents", "tops", "recorder", "syscalls", "health"}
  /\ part # "syscalls" => fdFile["fd"] = "a"
  /\ part # "attach" => found = {}
  /\ part # "switch" => switch = "0"

Attach == part = "attach" /\ A!Next
          /\ UNCHANGED <<part, vars, stageVars, extentVars, topVars, recorderVars, probeVars>>
Switch == part = "switch" /\ Next
          /\ UNCHANGED <<part, attachVars, stageVars, extentVars, topVars, recorderVars, probeVars>>
Stage == part = "stages" /\ P!Next
          /\ UNCHANGED <<part, attachVars, vars, extentVars, topVars, recorderVars, probeVars>>
Extent == part = "extents" /\ E!Next
          /\ UNCHANGED <<part, attachVars, vars, stageVars, topVars, recorderVars, probeVars>>
Top == part = "tops" /\ T!Next
          /\ UNCHANGED <<part, attachVars, vars, stageVars, extentVars, recorderVars, probeVars>>
Recorder == part = "recorder" /\ R!Next
          /\ UNCHANGED <<part, attachVars, vars, stageVars, extentVars, topVars, probeVars>>

Syscall == part = "syscalls" /\ S!Next
          /\ UNCHANGED <<part, agentVars, healthVars>>
Health == part = "health" /\ H!HealthNext
          /\ UNCHANGED <<part, agentVars, syscallVars>>

CollectorNext ==
  \/ Attach \/ Switch \/ Stage \/ Extent \/ Top \/ Recorder
  \/ Syscall \/ Health

collectorVars == <<part, agentVars, probeVars>>
CollectorSpec == CollectorInit /\ [][CollectorNext]_collectorVars

-----------------------------------------------------------------------------
(* What is attached observes each request once and is reported truly. *)
AttachmentIsSound == part = "attach" => A!AttachmentIsSound
(* A span of an exact stage key is of one command, and records add up. *)
StagesAreTrue == part = "stages" => P!StagesAreTrue
(* origins_for_issue finds every file the last TTL placed there. *)
RecentOriginsFound == part = "extents" => E!RecentOriginsFound
(* BoundedTop and LiveHeavyHitters never overstate a key. *)
TopIsHonest == part = "tops" => T!TopIsHonest
(* FlightRecorder holds what it promises and counts what it evicts. *)
RecorderIsHonest == part = "recorder" => R!RecorderIsHonest
(* A FileIo event is of one call and its path of that call's inode. *)
FileIoIsTrue == part = "syscalls" => S!FileIoIsTrue
(* read_aggregate_snapshot adds up what the active generation counted. *)
SnapshotExact == H!SnapshotExact
=============================================================================
