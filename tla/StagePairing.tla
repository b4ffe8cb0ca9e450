----------------------------- MODULE StagePairing -----------------------------
(***************************************************************************)
(* The stages below the block layer: the programs on the filesystem, SCSI  *)
(* and UFS tracepoints (crates/android-ebpf/src/main.rs: emit_pipeline,    *)
(* emit_context), the collector that turns their records into Pipeline     *)
(* events and counts pairs (crates/android-agent/src/main.rs:              *)
(* parse_kernel_event, update_probe_health), and the engine that joins     *)
(* Begin and End into spans (crates/protocol/src/lib.rs:                   *)
(* AnalysisEngine::ingest).                                                *)
(*                                                                         *)
(* A command is dispatched and finished once.  A SCSI command is keyed by  *)
(* its address, which one live command has; a UFS command by its task tag, *)
(* which commands of several controllers share.  Records travel in order,  *)
(* so a record that survives mode, filter and ring is handled in the step  *)
(* that writes it.  `cmd` and `lost` are history.                          *)
(***************************************************************************)
EXTENDS Naturals, FiniteSets, Functions

CONSTANTS
  Stages,       (* pairs of a layer and a key; key 0 is the tag of a UFS slot *)
  MaxLive,      (* commands of a stage that may be live: 1, or controllers    *)
  Ttl,          (* 30 s                                                       *)
  MaxCommands,  (* bound on the commands                                      *)
  MaxKeyless,   (* bound on the context records                               *)
  MaxTime,      (* bound on the clock                                         *)
  None

Layer(s) == s[1]
Key(s) == s[2]
Exact(s) == Layer(s) = "scsi"

VARIABLES
  now,
  dispatched,  (* commands so far                                            *)
  live,        (* live[s]: commands of stage s that are not finished         *)
  pending,     (* pending_stage of the collector                             *)
  ambiguous,   (* ambiguous_stage of the collector                           *)
  health,      (* its counters: emitted, paired, unpaired, expired, reused   *)
  keyless,     (* records without a stage_key, which are emitted only        *)
  begun,       (* pending_pipeline of the engine                             *)
  doubtful,    (* ambiguous_pipeline of the engine                           *)
  span         (* the span the last step joined                              *)

vars == <<now, dispatched, live, pending, ambiguous, health, keyless, begun, doubtful, span>>

Init ==
  /\ now = 0
  /\ dispatched = 0
  /\ live = [s \in Stages |-> {}]
  /\ pending = <<>> /\ ambiguous = <<>>
  /\ health = [emitted |-> 0, paired |-> 0, unpaired |-> 0, expired |-> 0, reused |-> 0]
  /\ keyless = 0
  /\ begun = <<>> /\ doubtful = <<>>
  /\ span = None

Put(map, key, value) == [k \in DOMAIN map \cup {key} |-> IF k = key THEN value ELSE map[k]]
Take(map, key) == Restrict(map, DOMAIN map \ {key})
Add(n, condition) == IF condition THEN n + 1 ELSE n

\* A record that mode, filter, ring or a missed run kept from being written.
Lose(s) ==
  IF s \in DOMAIN begun THEN [begun EXCEPT ![s].lost = @ + 1] ELSE begun

-----------------------------------------------------------------------------
(* update_probe_health.                                                    *)

\* What is older than the TTL, by the time stamp of this event.
Fresh(map) == Restrict(map, {k \in DOMAIN map : now - map[k] <= Ttl})

ExpireUncounted(p, a, h) ==
  pending' = Fresh(p) /\ ambiguous' = Fresh(a) /\ health' = h

Expire(p, a, h) ==
  /\ pending' = Fresh(p)
  /\ ambiguous' = Fresh(a)
  /\ health' = [h EXCEPT !.expired = @ + Cardinality(DOMAIN p \ DOMAIN Fresh(p))
                                       + Cardinality(DOMAIN a \ DOMAIN Fresh(a))]

HealthBegin(s) ==
  LET reused == s \in DOMAIN pending \cup DOMAIN ambiguous
      seen   == [health EXCEPT !.emitted = @ + 1]
  IN IF reused
     THEN Expire(Take(pending, s), Put(ambiguous, s, now),
                 [seen EXCEPT !.unpaired = @ + 1, !.reused = @ + 1])
     ELSE Expire(Put(pending, s, now), ambiguous, seen)

HealthEnd(s) ==
  LET pairs == s \in DOMAIN pending /\ s \notin DOMAIN ambiguous
  IN Expire(Take(pending, s), Take(ambiguous, s),
            [health EXCEPT !.emitted = @ + 1, !.paired = Add(@, pairs),
                           !.unpaired = Add(@, ~pairs)])

-----------------------------------------------------------------------------
(* AnalysisEngine::ingest, Pipeline.                                       *)

Retain(b, d) ==
  /\ begun' = Restrict(b, {k \in DOMAIN b : now - b[k].ts <= Ttl})
  /\ doubtful' = Fresh(d)

\* A second Begin of a key that leaves the first pending.
KeepFirstBegin(s, cmd) ==
  /\ IF s \in DOMAIN begun \cup DOMAIN doubtful THEN Retain(begun, doubtful)
     ELSE Retain(Put(begun, s, [ts |-> now, cmd |-> cmd, lost |-> 0]), doubtful)
  /\ span' = None

IngestBegin(s, cmd) ==
  /\ IF s \in DOMAIN begun THEN Retain(Take(begun, s), Put(doubtful, s, now))
     ELSE IF s \in DOMAIN doubtful THEN Retain(begun, doubtful)
     ELSE Retain(Put(begun, s, [ts |-> now, cmd |-> cmd, lost |-> 0]), doubtful)
  /\ span' = None

Joins(s) == s \in DOMAIN begun /\ s \notin DOMAIN doubtful

\* An ambiguous End returns before the stale entries are dropped.
IngestEnd(s, cmd) ==
  /\ span' = IF Joins(s) THEN [stage |-> s, begin |-> begun[s].cmd, end |-> cmd,
                               lost |-> begun[s].lost]
             ELSE None
  /\ IF s \in DOMAIN doubtful
     THEN begun' = Take(begun, s) /\ doubtful' = Take(doubtful, s)
     ELSE Retain(Take(begun, s), doubtful)

-----------------------------------------------------------------------------
(* The tracepoints.  A key of 0 becomes no stage_key at all: such a record *)
(* is counted and kept but never paired.                                   *)

Unkeyed(s) == Key(s) = 0

CountOnly ==
  /\ health' = [health EXCEPT !.emitted = @ + 1]
  /\ keyless' = keyless + 1
  /\ UNCHANGED <<pending, ambiguous>>

Observe(s, phase, cmd, seen) ==
  IF ~seen
  THEN /\ begun' = Lose(s)
       /\ span' = None
       /\ UNCHANGED <<pending, ambiguous, health, keyless, doubtful>>
  ELSE IF Unkeyed(s)
  THEN CountOnly /\ span' = None /\ Retain(begun, doubtful)
  ELSE /\ IF phase = "begin" THEN HealthBegin(s) /\ IngestBegin(s, cmd)
          ELSE HealthEnd(s) /\ IngestEnd(s, cmd)
       /\ UNCHANGED keyless

\* emit_pipeline of scsi_dispatch_start, fs_data_start, a UFS record in state send
Dispatch(s, seen) ==
  /\ dispatched < MaxCommands /\ Cardinality(live[s]) < MaxLive[Layer(s)]
  /\ dispatched' = dispatched + 1
  /\ live' = [live EXCEPT ![s] = @ \cup {dispatched + 1}]
  /\ Observe(s, "begin", dispatched + 1, seen)
  /\ UNCHANGED now

\* emit_pipeline of scsi_dispatch_done, fs_data_done, a UFS record in state complete
Finish(s, cmd, seen) ==
  /\ cmd \in live[s]
  /\ live' = [live EXCEPT ![s] = @ \ {cmd}]
  /\ Observe(s, "end", cmd, seen)
  /\ UNCHANGED <<now, dispatched>>

\* emit_context, and a UFS record in another state: no key, no phase
Context ==
  /\ CountOnly
  /\ keyless < MaxKeyless
  /\ span' = None
  /\ Retain(begun, doubtful)
  /\ UNCHANGED <<now, dispatched, live>>

Tick ==
  /\ now < MaxTime
  /\ now' = now + 1
  /\ span' = None
  /\ UNCHANGED <<dispatched, live, pending, ambiguous, health, keyless, begun, doubtful>>

Next ==
  \/ \E s \in Stages, seen \in BOOLEAN : Dispatch(s, seen)
  \/ \E s \in Stages, seen \in BOOLEAN : \E cmd \in live[s] : Finish(s, cmd, seen)
  \/ Context
  \/ Tick

Spec == Init /\ [][Next]_vars

-----------------------------------------------------------------------------
(* A span of a stage whose key is exact begins and ends with the same      *)
(* command unless two records of the key were lost in between              *)
(* (AnalysisEngine::ingest discards a key begun twice).  Task tags give no *)
(* such promise, which is why their spans are only Probable.               *)
ExactSpanIsOneCommand ==
  span # None /\ Exact(span.stage) /\ span.begin # span.end => span.lost >= 2

(* The collector's stage counters account for every keyed record           *)
(* (update_probe_health): what is neither paired, unpaired nor pending was *)
(* counted as expired or reused, and nothing is counted twice.             *)
StageAccounting ==
  LET known == 2 * health.paired + health.unpaired + Cardinality(DOMAIN pending)
      keyed == health.emitted - keyless
  IN known <= keyed /\ keyed <= known + health.expired + health.reused

(* Spans of stages with exact keys are of one command, and the counters of *)
(* update_probe_health account for the records they were made of.          *)
StagesAreTrue ==
  /\ ExactSpanIsOneCommand
  /\ StageAccounting
=============================================================================
