------------------------------- MODULE AgentLoop -------------------------------
(***************************************************************************)
(* The main loop of the collector (crates/android-agent/src/main.rs:       *)
(* capture and read_control_commands) with what runs beside it: the        *)
(* attached probes that fill the ring, the control thread that reads       *)
(* standard input, and the signal handler.  `running` is read three times  *)
(* in a turn of the loop, so each part of a turn is a step of its own.     *)
(***************************************************************************)
EXTENDS Integers, Sequences

CONSTANTS
  RingCapacity,  (* records the ring buffer holds                               *)
  Batch,         (* ring records per turn (1024)                                *)
  MaxCommands    (* bound on control commands                                   *)

ASSUME LoopAssumption ==
  /\ RingCapacity \in Nat /\ Batch \in Nat \ {0} /\ MaxCommands \in Nat

VARIABLES
  phase,      (* where the loop is                                              *)
  running,    (* the shared flag                                                *)
  attached,   (* attached_bpf is Some: the probes are attached                  *)
  ring,       (* EVENTS                                                         *)
  taken,      (* ring records of this turn                                      *)
  stdin,      (* commands the desktop still may send, or -1 after end of file   *)
  commands,   (* commands in the channel of the control thread                  *)
  answered,   (* commands answered                                              *)
  ended,      (* the control thread has returned                                *)
  broken,     (* standard output is closed                                      *)
  closing     (* a Health record was written after the probes were detached     *)

io == <<stdin, commands, answered, ended, broken>>
loopVars == <<phase, running, attached, ring, taken, stdin, commands, answered, ended, broken, closing>>

\* A ring record is written as an event, or rejected, or only used.
Kinds == {"event", "other"}

Phases == {"top", "control", "drain", "health", "bottom", "done", "failed"}

(* The loop, its flags and its counters have their types, and the ring is never
   longer than its size.                                                    *)
LoopTypeOK ==
  /\ phase \in Phases
  /\ {running, attached, ended, broken, closing} \subseteq BOOLEAN
  /\ ring \in Seq(Kinds) /\ Len(ring) <= RingCapacity
  /\ taken \in 0 .. Batch
  /\ stdin \in -1 .. MaxCommands /\ {commands, answered} \subseteq 0 .. MaxCommands

-----------------------------------------------------------------------------
(* The loop *)

\* Mutant: the probes stay attached.
StayAttached == UNCHANGED attached

\* attached_bpf.take() once the flag is down
Detach == attached' = (attached /\ running)

Top ==
  /\ phase = "top"
  /\ Detach
  /\ phase' = "control"
  /\ UNCHANGED <<running, ring, taken, io, closing>>

\* control_rx.try_iter(): every command in the channel is answered.
Control ==
  /\ phase = "control"
  /\ IF commands > 0
     THEN /\ commands' = commands - 1
          /\ \/ ~broken /\ answered' = answered + 1 /\ phase' = phase
             \/ broken /\ answered' = answered /\ phase' = "failed"
          /\ UNCHANGED taken
     ELSE phase' = "drain" /\ taken' = 0 /\ UNCHANGED <<commands, answered>>
  /\ UNCHANGED <<running, attached, ring, stdin, ended, broken, closing>>

\* Mutant: a turn lasts as long as there are records.
TurnForever == ring = <<>>

TurnOver == taken = Batch \/ ring = <<>>

\* ring.next() and what becomes of the record: an event is written with the
\* origins derived from it, the others are counted or only used.  The output is
\* buffered, so a closed one may be noticed later.
Take ==
  /\ phase = "drain" /\ ~TurnOver
  /\ ring' = Tail(ring) /\ taken' = IF taken < Batch THEN taken + 1 ELSE taken
  /\ \/ UNCHANGED phase
     \/ Head(ring) = "event" /\ broken /\ phase' = "failed"
  /\ UNCHANGED <<running, attached, io, closing>>

EndTurn ==
  /\ phase = "drain" /\ TurnOver
  /\ phase' = "health"
  /\ UNCHANGED <<running, attached, ring, taken, io, closing>>

\* The Health record and what goes with it, when the interval is over or the
\* flag is down.  An adaptive transition that cannot be staged ends the capture.
Health ==
  /\ phase = "health"
  /\ \/ running /\ phase' = "bottom" /\ UNCHANGED closing
     \/ ~broken /\ phase' = "bottom" /\ closing' = ~attached
     \/ phase' = "failed" /\ UNCHANGED closing
  /\ UNCHANGED <<running, attached, ring, taken, io>>

\* Mutant: the loop leaves as soon as the flag is down.
LeaveWhenStopped ==
  /\ phase = "bottom"
  /\ phase' = IF running THEN "top" ELSE IF broken THEN "failed" ELSE "done"
  /\ UNCHANGED <<running, attached, ring, taken, io, closing>>

\* The end of a turn: leave after an idle turn with the flag down, and write the
\* Footer.
Bottom ==
  /\ phase = "bottom"
  /\ phase' = IF taken > 0 \/ running THEN "top" ELSE IF broken THEN "failed" ELSE "done"
  /\ UNCHANGED <<running, attached, ring, taken, io, closing>>

Loop == Top \/ Control \/ Take \/ EndTurn \/ Health \/ Bottom

-----------------------------------------------------------------------------
(* Beside the loop *)

Alive == phase \notin {"done", "failed"}

\* Mutant: the ring takes whatever is submitted.
SubmitAnyway(kind) ==
  /\ attached /\ Alive
  /\ ring' = Append(ring, kind)
  /\ UNCHANGED <<phase, running, attached, taken, io, closing>>

\* A probe submits a record; a full ring drops it.
Submit(kind) ==
  /\ attached /\ Alive
  /\ Len(ring) < RingCapacity
  /\ ring' = Append(ring, kind)
  /\ UNCHANGED <<phase, running, attached, taken, io, closing>>

\* The desktop sends a command, which the control thread passes on, or closes
\* the collector's standard input.
SendCommand ==
  /\ Alive /\ stdin > 0
  /\ stdin' = stdin - 1 /\ commands' = commands + 1
  /\ UNCHANGED <<phase, running, attached, ring, taken, answered, ended, broken, closing>>
CloseStdin ==
  /\ stdin >= 0 /\ stdin' = -1
  /\ UNCHANGED <<phase, running, attached, ring, taken, commands, answered, ended, broken, closing>>

\* read_control_commands returns and the flag goes down.
ControlThreadEnds ==
  /\ Alive /\ stdin = -1 /\ ~ended
  /\ ended' = TRUE /\ running' = FALSE
  /\ UNCHANGED <<phase, attached, ring, taken, stdin, commands, answered, broken, closing>>

\* The signal handler.
Signal ==
  /\ Alive /\ running
  /\ running' = FALSE
  /\ UNCHANGED <<phase, attached, ring, taken, io, closing>>

\* The reader of standard output goes away.
OutputBreaks ==
  /\ Alive /\ ~broken
  /\ broken' = TRUE
  /\ UNCHANGED <<phase, running, attached, ring, taken, stdin, commands, answered, ended, closing>>

LoopInit ==
  /\ phase = "top" /\ running = TRUE /\ attached = TRUE
  /\ ring = <<>> /\ taken = 0
  /\ stdin = MaxCommands /\ commands = 0 /\ answered = 0 /\ ended = FALSE /\ broken = FALSE
  /\ closing = FALSE

LoopNext ==
  \/ Loop
  \/ \E kind \in Kinds : Submit(kind)
  \/ SendCommand \/ CloseStdin \/ ControlThreadEnds
  \/ Signal \/ OutputBreaks

LoopSpec == LoopInit /\ [][LoopNext]_loopVars

\* The collector's two threads are scheduled; nobody need ever stop the capture.
FairLoopSpec == LoopSpec /\ WF_loopVars(Loop) /\ WF_loopVars(ControlThreadEnds)

-----------------------------------------------------------------------------
(* Properties *)

(* When the loop ends after it detached the probes, the ring is empty and a
   Health record was written after the last probe ran: the Footer accounts for
   every record.                                                            *)
DetachedIsDrained == (phase = "done" /\ ~attached) => ring = <<>> /\ closing

(* main.rs: "Detach producers before draining the ring": a capture that writes
   its Footer has detached the probes.                                      *)
DetachedBeforeFooter == phase = "done" => ~attached

(* A stopped capture ends, however fast the probes fill the ring.           *)
StopEnds == ~running ~> ~Alive

(* main.rs: "A continuously busy ring must not starve stop/control/health
   handling": a command of a capture that is not stopped is answered.       *)
CommandsAreAnswered == (commands > 0) ~> (commands = 0 \/ ~Alive)

(* A stopped capture ends, and the commands of one that is not are         *)
(* answered.                                                               *)
LoopGoesOn ==
  /\ StopEnds
  /\ CommandsAreAnswered

=============================================================================
