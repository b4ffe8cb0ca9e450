----------------------------- MODULE CaptureControl -----------------------------
(***************************************************************************)
(* Live configuration of a capture: the desktop's Apply (desktop/src/      *)
(* app.rs), the collector's control and adaptive paths (android-agent/src/ *)
(* main.rs: capture, FilterMaps::apply, apply_control_command), the        *)
(* AdaptiveController of protocol/src/lib.rs, and the filter maps the      *)
(* probes read.                                                            *)
(*                                                                         *)
(* A configuration's filter is a set of values per filter map.  Staging a  *)
(* configuration is one step: the probes look up keys of the active        *)
(* generation only, and a staged generation is not active yet.             *)
(***************************************************************************)
EXTENDS Integers, Sequences, FiniteSets

CONSTANTS
  NumMaps,           (* filter maps, numbered in the order they are staged     *)
  Values,            (* filter values                                          *)
  KeyCapacity,       (* max_entries of each filter map                         *)
  ConfigCapacity,    (* max_entries of FILTER_CONFIGS                          *)
  Requests,          (* what may be asked for: mode, keys, trigger             *)
  ConsecutiveWindows, ArmingTimeout, DeepDuration, Cooldown, (* TriggerPolicy  *)
  MaxControl,        (* bound on what earlier captures left in the desktop     *)
  MaxPipe,           (* bound on commands and acknowledgements on their way    *)
  None

Modes == {"basic", "balanced", "deep", "raw_all"}
States == {"off", "basic", "armed", "deep", "cooldown"}
Maps == 1 .. NumMaps
Generations == Nat \ {0}
Keys == Generations \X Values
Request == [mode : Modes, keys : [Maps -> SUBSET Values], trigger : BOOLEAN]
Config == [generation : Generations, mode : Modes, keys : [Maps -> SUBSET Values], trigger : BOOLEAN]
MaxElapsed == ArmingTimeout + DeepDuration + Cooldown

\* What is assumed of the sizes.
ControlSizes ==
  /\ IsFiniteSet(Values) /\ Requests \subseteq Request /\ KeyCapacity \in [Maps -> Nat]
  /\ {ConfigCapacity, ConsecutiveWindows} \subseteq Nat \ {0}
  /\ {ArmingTimeout, DeepDuration, Cooldown, MaxControl, MaxPipe} \subseteq Nat
ASSUME ControlAssumption == ControlSizes

VARIABLES
  active,        (* FILTER_ACTIVE                                              *)
  configs,       (* FILTER_CONFIGS                                             *)
  keys,          (* FILTER_PIDS, FILTER_TIDS, ...                              *)
  aggregate,     (* generation and p99 of the per-CPU aggregates               *)
  config,        (* active_config                                              *)
  requestedMode, (* requested_mode                                             *)
  controller,    (* adaptive_controller, "off" when there is none              *)
  elapsed,       (* latest completion minus entered_ts_ns, up to MaxElapsed    *)
  segment,       (* active_segment                                             *)
  nextSegment,   (* next_segment_id, modulo 3                                  *)
  status,        (* "running", or "failed" when capture returned an error      *)
  pipe,          (* commands on their way to the collector                     *)
  acks,          (* acknowledgements on their way to the desktop               *)
  control,       (* control_generation of the desktop                          *)
  bumped         (* an adaptive change since the latest acknowledgement        *)

kernel == <<active, configs, keys>>
collector == <<config, requestedMode, controller, elapsed, segment, nextSegment, status>>
vars == <<active, configs, keys, aggregate, config, requestedMode, controller, elapsed, segment,
          nextSegment, status, pipe, acks, control, bumped>>

Controller == [state : States, consecutive : 0 .. ConsecutiveWindows]
Ack == [requested : Generations, active : Generations, outcome : {"applied", "rejected"}]

(* Every map and message has its type; no filter map exceeds its size.       *)
TypeOK ==
  /\ active \in Generations
  /\ DOMAIN configs \subseteq Generations /\ Cardinality(DOMAIN configs) <= ConfigCapacity
  /\ \A g \in DOMAIN configs : configs[g] \in Config
  /\ keys \in [Maps -> SUBSET Keys]
  /\ \A m \in Maps : Cardinality(keys[m]) <= KeyCapacity[m]
  /\ aggregate \in [generation : Generations, p99 : {"low", "high"}] \cup {None}
  /\ config \in Config /\ requestedMode \in Modes
  /\ controller \in Controller /\ elapsed \in 0 .. MaxElapsed
  /\ segment \in 0 .. 2 \cup {None} /\ nextSegment \in 0 .. 2
  /\ status \in {"running", "failed"}
  /\ pipe \in Seq(Config) /\ acks \in Seq(Ack) /\ control \in Generations
  /\ bumped \in BOOLEAN

-----------------------------------------------------------------------------
(* FilterMaps::apply *)

\* Mutant: the keys are staged under the generation in use.
WantedNow(c, m) == {active} \X c.keys[m]

Wanted(c, m) == {c.generation} \X c.keys[m]

\* Mutant: one key too many.
RefusesLate(c, m) == Cardinality(keys[m] \cup Wanted(c, m)) > KeyCapacity[m] + 1

Refuses(c, m) == Cardinality(keys[m] \cup Wanted(c, m)) > KeyCapacity[m]

\* Every insert succeeds, the configuration is stored and made active.
Stages(c) ==
  /\ \A m \in Maps : ~Refuses(c, m)
  /\ Cardinality(DOMAIN configs \cup {c.generation}) <= ConfigCapacity
Stage(c) ==
  /\ Stages(c)
  /\ keys' = [m \in Maps |-> keys[m] \cup Wanted(c, m)]
  /\ configs' = [g \in DOMAIN configs \cup {c.generation} |-> IF g = c.generation THEN c ELSE configs[g]]
  /\ active' = c.generation

\* The first map that refuses a key ends the staging; the keys before it stay.
FailToStage(c) ==
  /\ ~Stages(c)
  /\ LET Before(m) == \A f \in Maps : Refuses(c, f) => m < f
     IN \/ /\ \A m \in Maps : ~Refuses(c, m)
           /\ keys' = [m \in Maps |-> keys[m] \cup Wanted(c, m)]
        \/ \E first \in Maps : \E part \in SUBSET Wanted(c, first) :
             /\ Refuses(c, first) /\ \A m \in 1 .. first - 1 : Before(m)
             /\ Cardinality(keys[first] \cup part) = KeyCapacity[first]
             /\ keys' = [m \in Maps |-> keys[m] \cup IF m = first THEN part
                                                     ELSE IF Before(m) THEN Wanted(c, m) ELSE {}]
  /\ UNCHANGED <<configs, active>>

-----------------------------------------------------------------------------
(* The desktop *)

\* apply_capture_control.  It validates with the collector's limit before it
\* sends, so that CaptureConfig::validate never refuses in the collector.
ApplyCaptureControl(r) ==
  /\ status = "running" /\ Len(pipe) < MaxPipe
  /\ pipe' = Append(pipe, [generation |-> control + 1, mode |-> r.mode, keys |-> r.keys,
                           trigger |-> r.trigger])
  /\ UNCHANGED <<kernel, aggregate, collector, acks, control, bumped>>

\* ingest_record of a Control record
IngestAck ==
  /\ acks # <<>>
  /\ control' = Head(acks).active
  /\ acks' = Tail(acks)
  /\ UNCHANGED <<kernel, aggregate, collector, pipe, bumped>>

-----------------------------------------------------------------------------
(* The collector *)

\* AdaptiveController::new; entered_ts_ns is 0, long before any completion.
NewController(c) == [state |-> IF c.trigger THEN "basic" ELSE "off", consecutive |-> 0]

\* Mutant: the rejected configuration stays in active_config.
KeepRejected(requested) == config' = requested

\* active_config = previous_config
RestoreConfig(requested) == config' = config

\* Mutant: the acknowledgement repeats the requested generation.
AnswerRequested(requested, outcome, generation) ==
  /\ acks' = Append(acks, [requested |-> requested.generation, active |-> requested.generation,
                           outcome |-> outcome])
  /\ bumped' = FALSE

\* Mutant: a refusal is not reported.
AnswerApplied(requested, outcome, generation) ==
  /\ acks' = IF outcome = "rejected" THEN acks
             ELSE Append(acks, [requested |-> requested.generation, active |-> generation,
                                outcome |-> outcome])
  /\ bumped' = FALSE

Answer(requested, outcome, generation) ==
  /\ acks' = Append(acks, [requested |-> requested.generation, active |-> generation,
                           outcome |-> outcome])
  /\ bumped' = FALSE

\* Mutant: the mode asked for is not remembered.
ForgetMode(c) == UNCHANGED requestedMode
RememberMode(c) == requestedMode' = c.mode

\* Mutant: any generation is accepted.
NeverStale(requested) == FALSE

Stale(requested) == requested.generation <= config.generation

\* One command: apply_control_command, FilterMaps::apply, the acknowledgement.
Command ==
  LET requested == Head(pipe)
  IN /\ status = "running" /\ pipe # <<>> /\ Len(acks) < MaxPipe
     /\ pipe' = Tail(pipe)
     /\ \/ /\ Stale(requested)
           /\ Answer(requested, "rejected", config.generation)
           /\ UNCHANGED <<kernel, config, requestedMode, controller, elapsed>>
        \/ /\ ~Stale(requested)
           /\ FailToStage(requested)
           /\ RestoreConfig(requested)
           /\ Answer(requested, "rejected", config.generation)
           /\ UNCHANGED <<requestedMode, controller, elapsed>>
        \/ /\ ~Stale(requested)
           /\ Stage(requested)
           /\ config' = requested
           /\ RememberMode(requested)
           /\ controller' = NewController(requested) /\ elapsed' = MaxElapsed
           /\ Answer(requested, "applied", requested.generation)
     /\ UNCHANGED <<aggregate, segment, nextSegment, status, control>>

\* Mutant: only the end of a longer window counts.
ElapsedLong(state) == elapsed > MaxElapsed

\* The time limit of a state has passed (tick).
Elapsed(state) ==
  CASE state = "deep" -> elapsed >= DeepDuration
    [] state = "cooldown" -> elapsed >= Cooldown
    [] OTHER -> FALSE

\* AdaptiveController::observe: the controller after a window with `p99`.
Observe(p99) ==
  LET s == controller.state
      n == controller.consecutive + 1
  IN CASE s = "basic" /\ p99 = "high" -> [state |-> "armed", consecutive |-> 1]
       [] s = "armed" /\ p99 = "low" -> [state |-> "basic", consecutive |-> 0]
       [] s = "armed" /\ p99 = "high" ->
            [state |-> IF n >= ConsecutiveWindows THEN "deep" ELSE "armed",
             consecutive |-> IF n > ConsecutiveWindows THEN ConsecutiveWindows ELSE n]
       [] s = "deep" /\ Elapsed(s) -> [controller EXCEPT !.state = "cooldown"]
       [] s = "cooldown" /\ Elapsed(s) -> [controller EXCEPT !.state = "basic"]
       [] OTHER -> controller

\* The mode a transition asks for.
TargetMode(to) ==
  CASE to = "deep" -> "deep" [] to = "cooldown" -> "balanced" [] to = "basic" -> requestedMode
    [] OTHER -> config.mode

\* One window: the snapshot of the active generation, the controller, the
\* configuration of its new state and the flight-recorder segment.  A refused
\* automatic configuration ends the capture with an error.
Window ==
  LET next == Observe(aggregate.p99)
      moved == next.state # controller.state
      automatic == [config EXCEPT !.generation = @ + 1,
                                  !.mode = IF moved THEN TargetMode(next.state) ELSE @]
  IN /\ status = "running" /\ controller.state # "off"
     /\ aggregate # None /\ aggregate.generation = config.generation
     /\ controller' = next
     /\ elapsed' = IF moved THEN 0 ELSE elapsed
     /\ \/ /\ automatic.mode = config.mode
           /\ UNCHANGED <<kernel, config, status, bumped>>
        \/ /\ automatic.mode # config.mode
           /\ Stage(automatic) /\ config' = automatic /\ bumped' = TRUE
           /\ UNCHANGED status
        \/ /\ automatic.mode # config.mode
           /\ FailToStage(automatic) /\ status' = "failed"
           /\ UNCHANGED <<config, bumped>>
     /\ segment' = IF ~moved \/ status' = "failed" THEN segment
                   ELSE CASE next.state = "deep" -> nextSegment
                          [] next.state = "cooldown" -> None
                          [] OTHER -> segment
     /\ nextSegment' = IF moved /\ next.state = "deep" /\ status' # "failed"
                       THEN (nextSegment + 1) % 3 ELSE nextSegment
     /\ UNCHANGED <<aggregate, requestedMode, pipe, acks, control>>

-----------------------------------------------------------------------------
(* Requests complete in the kernel under the active generation. *)
Complete(p99, later) ==
  /\ status = "running"
  /\ aggregate' = [generation |-> active, p99 |-> p99]
  /\ elapsed' = IF later /\ elapsed < MaxElapsed THEN elapsed + 1 ELSE elapsed
  /\ UNCHANGED <<kernel, config, requestedMode, controller, segment, nextSegment, status, pipe,
                 acks, control, bumped>>

\* default_capture_config
Default == [generation |-> 1, mode |-> "deep", keys |-> [m \in Maps |-> {}], trigger |-> TRUE]

Init ==
  /\ active = 1 /\ configs = [g \in {1} |-> Default]
  /\ keys = [m \in Maps |-> {}]
  /\ aggregate = None
  /\ config = Default /\ requestedMode = "deep"
  /\ controller = NewController(Default) /\ elapsed = MaxElapsed
  /\ segment = None /\ nextSegment = 1
  /\ status = "running"
  /\ pipe = <<>> /\ acks = <<>> /\ control \in 1 .. MaxControl /\ bumped = FALSE

Next ==
  \/ \E r \in Requests : ApplyCaptureControl(r)
  \/ IngestAck
  \/ Command
  \/ Window
  \/ \E p99 \in {"low", "high"}, later \in BOOLEAN : Complete(p99, later)

Spec == Init /\ [][Next]_vars

\* The collector's loop comes back to commands and windows, and the desktop to
\* its messages, whatever the others do.
FairSpec == Spec /\ WF_vars(Command) /\ WF_vars(Window) /\ WF_vars(IngestAck)

\* Moreover requests that pass the filter keep completing.
BusySpec ==
  FairSpec /\ WF_vars(\E p99 \in {"low", "high"} : Complete(p99, TRUE))

-----------------------------------------------------------------------------
(* Properties *)

(* The collector's active_config is the configuration the probes use, also
   after a configuration was refused half-way; only a capture that ends with an
   error may leave them apart.                                              *)
KernelFollowsCollector ==
  active = config.generation /\ configs[active] = config

ActiveKeys(m) == {k[2] : k \in {k \in keys[m] : k[1] = active}}

(* The probes let through what the active configuration asks for: no key of it
   is missing in a filter map.                                              *)
FilterCovers ==
  \A m \in Maps : configs[active].keys[m] \subseteq ActiveKeys(m)

(* As long as no filter map is full, the probes let through nothing else either:
   no other configuration left a key under the active generation.           *)
FilterExact ==
  (\A m \in Maps : Cardinality(keys[m]) < KeyCapacity[m])
    => \A m \in Maps : ActiveKeys(m) = configs[active].keys[m]

(* The capture mode is the one of the adaptive state: Deep in Deep, Balanced in
   Cooldown, else what was asked for last, whatever the order of Apply, windows
   and refusals.                                                            *)
ModeMatchesState ==
  status = "running" =>
    config.mode = IF controller.state = "deep" THEN "deep"
                  ELSE IF controller.state = "cooldown" THEN "balanced"
                  ELSE requestedMode

(* Once all acknowledgements are in, the desktop's control_generation is not
   behind the collector's generation, so that its next Apply is not refused as
   stale, unless an adaptive change came in between.                        *)
DesktopFollows ==
  (pipe = <<>> /\ acks = <<>> /\ ~bumped) => control >= config.generation

(* The active generation never goes back.                                   *)
GenerationAdvances == [][active' >= active]_vars

(* design.md, Deep -> Cooldown: Deep capture ends when its duration is reached.
   The code needs requests to complete for that.                            *)
DeepEnds == controller.state = "deep" ~> (controller.state # "deep" \/ status = "failed")

(* Every command is answered unless the capture fails.                      *)
CommandsAnswered == [](pipe # <<>> => <>(acks # <<>> \/ status = "failed"))

(* The filter maps let through what the active configuration asks for and, *)
(* unless one is full, nothing else.                                       *)
FilterIsAsked ==
  /\ FilterCovers
  /\ FilterExact

(* The kernel, the mode and the desktop follow the configuration of the
   collector, whatever was refused.                                         *)
OthersFollow ==
  /\ KernelFollowsCollector
  /\ ModeMatchesState
  /\ DesktopFollows

(* Control goes on: generations never go back, deep capture ends and commands
   are answered.                                                            *)
ControlGoesOn ==
  /\ GenerationAdvances
  /\ DeepEnds
  /\ CommandsAnswered

=============================================================================
