---------------------------- MODULE CaptureLifecycle ----------------------------
(***************************************************************************)
(* A recording session of the desktop: the window (crates/desktop/src/     *)
(* app.rs), the capture thread (capture.rs: start_adb and the fallbacks,   *)
(* simulator.rs) with the two threads that may kill the collector process, *)
(* the collector on the phone as the desktop sees it, and the session file *)
(* (session.rs: AsyncSessionWriter and SessionWriter), a bounded backlog   *)
(* between the window and the worker thread that writes the file, and the  *)
(* thread that finishes it.  Status lines and diagnostics are left out:    *)
(* they share the inbox of the window and change nothing there.            *)
(***************************************************************************)
EXTENDS Integers, Sequences

CONSTANTS
  InboxCapacity,  (* messages the channel to the window holds (20,000)          *)
  PipeCapacity,   (* records the collector's standard output holds              *)
  MaxEvents,      (* bound on the events of a session                           *)
  MaxSessions,    (* bound on the sessions                                      *)
  Backlog,        (* commands the channel to the file's worker holds (16,384)   *)
  None

ASSUME BacklogSize == Backlog \in Nat
ASSUME ChannelSizes == {InboxCapacity, PipeCapacity, MaxEvents, MaxSessions} \subseteq Nat

VARIABLES
  phase,          (* the window: CapturePhase                                    *)
  capture,        (* the window: self.capture or self.simulator_stop is Some     *)
  received,       (* the window: received_events                                 *)
  rejected,       (* the window: rejected_records                                *)
  error,          (* the window: capture_error is Some                           *)
  agent_graceful, (* the window: agent_graceful is Some(true)                    *)
  sessions,       (* sessions started so far                                     *)
  inbox,          (* messages to the window                                      *)
  stop,           (* CaptureHandle: the shared flag                              *)
  control,        (* CaptureHandle: the collector's standard input               *)
  child,          (* CaptureHandle: the collector process is in its slot         *)
  killer,         (* the thread of CaptureHandle::stop runs                      *)
  watcher,        (* the readiness thread of start_adb runs                      *)
  pc,             (* the capture thread                                          *)
  detected,       (* the thread: the first preflight report is full_ebpf_ready   *)
  capture_ready,  (* the thread: Capabilities was read                           *)
  measured,       (* the thread: measurement_seen                                *)
  recovered,      (* the thread: the trace of a failed Perfetto start is read    *)
  collector,      (* the collector process                                       *)
  wrote,          (* the collector: how much of its preamble it wrote            *)
  pipe,           (* the collector's standard output                             *)
  emitted,        (* events of the session, whatever their source                *)
  forwarded,      (* events sent to the window                                   *)
  sources,        (* where the measurements sent to the window come from         *)
  early,          (* the stop came before the process was in its slot            *)
  worker,         (* the file's worker: "open" until it returns, then "closed"   *)
                  (* or "failed"                                                 *)
  backlog,        (* commands in the channel to the worker                       *)
  persisted,      (* SessionWriter.persisted                                     *)
  footer,         (* the Footer in the file                                      *)
  finisher,       (* where AsyncSessionWriter::finish is                         *)
  call            (* the arguments of finish                                     *)

writer == <<worker, backlog, persisted, footer, finisher, call>>
window == <<phase, capture, received, rejected, error, agent_graceful, sessions>>
handle == <<stop, control, child, killer, watcher>>
notes == <<detected, capture_ready, measured, recovered>>
process == <<collector, wrote, pipe>>
history == <<emitted, forwarded, sources>>
elsewhere == <<window, writer, early>>
vars == <<elsewhere, inbox, handle, pc, notes, process, history>>

Phases == {"idle", "preparing", "recording", "stopping", "analyzing", "complete", "error"}
Busy == {"preparing", "recording", "stopping", "analyzing"}

\* Wire records: the collector's preamble, "info" being a SourceInfo of stage
\* "recording"; events and DiskStats; the SourceInfo of a fallback and of a
\* finished Perfetto trace; Footers with graceful true and false.
Preamble == <<"hello", "info", "ready">>
Records == {"hello", "info", "ready", "event", "counters", "fallback", "complete", "footer", "partial"}
Messages == Records \cup {"analysis", "ended_ok", "ended_err", "finalized_ok", "finalized_err"}
Steps == {"none", "preflight", "deploy", "spawn", "child", "check", "read", "wait", "cleanup",
          "fallback", "choose", "counters", "closing", "perfetto", "tracing", "pull", "project",
          "events", "simulator", "simulate", "end_ok", "end_err", "gone"}

Alive == collector \in {"running", "closed", "hung"}

-----------------------------------------------------------------------------
(* The session file *)

Call == [seen : Nat, rejected : Nat, graceful : BOOLEAN]
Footer == [seen : Nat, persisted : Nat, dropped : Nat, rejected : Nat, graceful : BOOLEAN]

WriterTypes ==
  /\ worker \in {"none", "open", "closed", "failed"}
  /\ backlog \in Seq({"event", "other", "finish"}) /\ Len(backlog) <= Backlog
  /\ persisted \in Nat
  /\ footer \in Footer \cup {None}
  /\ finisher \in {"idle", "send", "join", "ok", "failed"}
  /\ call \in Call \cup {None}

WriterInit ==
  /\ worker = "none" /\ backlog = <<>> /\ persisted = 0 /\ footer = None
  /\ finisher = "idle" /\ call = None

\* AsyncSessionWriter::create
Create ==
  /\ worker' = "open" /\ backlog' = <<>> /\ persisted' = 0 /\ footer' = None
  /\ finisher' = "idle" /\ call' = None

\* Mutant: the channel has no bound.
AppendsAlways == worker = "open"

\* AsyncSessionWriter::append fails when the backlog is full or the worker gone.
Appends == worker = "open" /\ Len(backlog) < Backlog
AppendRecord(kind) ==
  /\ backlog' = IF Appends THEN Append(backlog, IF kind = "event" THEN kind ELSE "other")
                ELSE backlog
  /\ UNCHANGED <<worker, persisted, footer, finisher, call>>

\* AsyncSessionWriter::finish is called on a thread of its own.
CallFinish(arguments) ==
  /\ finisher' = "send" /\ call' = arguments
  /\ UNCHANGED <<worker, backlog, persisted, footer>>

\* The worker that writes the file

SaturatingSub(a, b) == IF a > b THEN a - b ELSE 0

\* A write fails, or a record of the backlog is written.
PersistRecord ==
  /\ worker = "open" /\ backlog # <<>> /\ Head(backlog) # "finish"
  /\ \/ /\ persisted' = persisted + (IF Head(backlog) = "event" THEN 1 ELSE 0)
        /\ backlog' = Tail(backlog)
        /\ UNCHANGED worker
     \/ worker' = "failed" /\ backlog' = <<>> /\ UNCHANGED persisted
  /\ UNCHANGED <<footer, finisher, call>>

\* The Footer of a Finish command
FooterOf ==
  [seen |-> call.seen, persisted |-> persisted,
   dropped |-> SaturatingSub(call.seen, persisted + call.rejected),
   rejected |-> call.rejected, graceful |-> call.graceful]

PersistFinish ==
  /\ worker = "open" /\ backlog # <<>> /\ Head(backlog) = "finish"
  /\ backlog' = <<>>
  /\ \/ worker' = "closed" /\ footer' = FooterOf
     \/ worker' = "failed" /\ UNCHANGED footer
  /\ UNCHANGED <<persisted, finisher, call>>

\* AsyncSessionWriter::finish: a blocking send, then a join

FinishSend ==
  /\ finisher = "send"
  /\ \/ worker = "failed" /\ finisher' = "failed" /\ UNCHANGED backlog
     \/ /\ worker = "open" /\ Len(backlog) < Backlog
        /\ backlog' = Append(backlog, "finish") /\ finisher' = "join"
  /\ UNCHANGED <<worker, persisted, footer, call>>

FinishJoin ==
  /\ finisher = "join" /\ worker # "open"
  /\ finisher' = IF worker = "closed" THEN "ok" ELSE "failed"
  /\ UNCHANGED <<worker, backlog, persisted, footer, call>>

-----------------------------------------------------------------------------
(* Every part of a session has its type, and no channel holds more than its
   size.                                                                    *)
TypeOK ==
  /\ WriterTypes
  /\ phase \in Phases /\ capture \in {"none", "device", "simulator"}
  /\ received \in Nat /\ rejected \in Nat /\ sessions \in 0 .. MaxSessions
  /\ {error, agent_graceful, stop, child, killer, watcher, detected, capture_ready, measured,
      recovered, early} \subseteq BOOLEAN
  /\ inbox \in Seq(Messages) /\ Len(inbox) <= InboxCapacity
  /\ control \in {"none", "open", "closed"}
  /\ pc \in Steps
  /\ collector \in {"none", "running", "closed", "hung", "exited", "failed"}
  /\ wrote \in 0 .. Len(Preamble)
  /\ pipe \in Seq(Records) /\ Len(pipe) <= PipeCapacity
  /\ emitted \in 0 .. MaxEvents /\ forwarded \in 0 .. MaxEvents
  /\ sources \subseteq {"ebpf", "host"}

-----------------------------------------------------------------------------
(* The capture thread *)

\* Sending to the window waits for room.
Send(messages) ==
  /\ Len(inbox) + Len(messages) <= InboxCapacity
  /\ inbox' = inbox \o messages

Goto(step) == pc' = step
Quiet == UNCHANGED <<inbox, history, elsewhere>>
SendHost(messages) == Send(messages) /\ sources' = sources \cup {"host"}
Close == control' = IF control = "open" THEN "closed" ELSE control

Preflight ==
  /\ pc = "preflight"
  /\ \/ Goto("cleanup") /\ UNCHANGED detected
     \/ \E next \in {"perfetto", "counters"} : Goto(next) /\ UNCHANGED detected
     \/ detected' = TRUE /\ Goto(IF stop THEN "end_ok" ELSE "deploy")
  /\ Quiet
  /\ UNCHANGED <<handle, capture_ready, measured, recovered, process>>

Deploy ==
  /\ pc = "deploy"
  /\ Goto("cleanup") \/ Goto(IF stop THEN "end_ok" ELSE "spawn")
  /\ Quiet
  /\ UNCHANGED <<handle, notes, process>>

\* start_capture, and the collector's standard input goes to its slot.
Spawn ==
  /\ pc = "spawn"
  /\ \/ Goto("cleanup") /\ UNCHANGED <<control, collector>>
     \/ Goto("child") /\ control' = "open" /\ collector' = "running"
  /\ Quiet
  /\ UNCHANGED <<stop, child, killer, watcher, notes, wrote, pipe>>

StoreChild ==
  /\ pc = "child"
  /\ child' = TRUE /\ watcher' = TRUE
  /\ Goto("check")
  /\ Quiet
  /\ UNCHANGED <<stop, control, killer, notes, process>>

\* Mutant: a stop that came before the slots were filled is not looked at.
ForgetStop == UNCHANGED control

\* The stop flag is read again once both slots are filled.
CloseIfStopped == IF stop THEN Close ELSE UNCHANGED control

CheckStop ==
  /\ pc = "check"
  /\ CloseIfStopped
  /\ Goto("read")
  /\ Quiet
  /\ UNCHANGED <<stop, child, killer, watcher, notes, process>>

\* Mutant: only events count as measurements.
EventIsMeasurement(record) == record = "event"

\* measurement_seen: everything but Hello, Control, and a Health or Footer
\* without events.
IsMeasurement(record) == record \in {"info", "ready", "event"} \/ (record = "footer" /\ emitted > 0)

ReadLine ==
  /\ pc = "read" /\ pipe # <<>>
  /\ LET record == Head(pipe)
     IN /\ Send(<<record>>)
        /\ measured' = (measured \/ IsMeasurement(record))
        /\ capture_ready' = (capture_ready \/ record = "ready")
        /\ forwarded' = forwarded + (IF record = "event" THEN 1 ELSE 0)
        /\ sources' = IF record \in {"info", "ready", "event"} THEN sources \cup {"ebpf"} ELSE sources
  /\ pipe' = Tail(pipe)
  /\ UNCHANGED <<elsewhere, pc, handle, detected, recovered, collector, wrote, emitted>>

\* A line that is no record is reported and skipped.
RejectLine ==
  /\ pc = "read" /\ pipe # <<>>
  /\ pipe' = Tail(pipe)
  /\ Quiet
  /\ UNCHANGED <<pc, handle, notes, collector, wrote>>

\* A line too long, or a failed read, ends the reading; or the output ends.
ReadEnds ==
  /\ pc = "read"
  /\ \/ pipe # <<>> /\ Goto("cleanup")
     \/ pipe = <<>> /\ collector \in {"closed", "exited", "failed"} /\ Goto("wait")
  /\ Quiet
  /\ UNCHANGED <<handle, notes, process>>

\* The exit status is waited for without a limit.
Wait ==
  /\ pc = "wait" /\ ~Alive
  /\ IF collector = "failed" \/ (~capture_ready /\ ~stop)
     THEN Goto("cleanup") /\ UNCHANGED control
     ELSE Goto("end_ok") /\ Close
  /\ Quiet
  /\ UNCHANGED <<stop, child, killer, watcher, notes, process>>

\* Mutant: the failed collector is left running.
LeaveCollector == UNCHANGED collector

\* child.kill() and child.wait()
KillCollector == collector' = IF Alive THEN "failed" ELSE collector

\* After an error: the collector is killed and, when nothing was measured, a
\* fallback is tried.
Cleanup ==
  /\ pc = "cleanup"
  /\ Close
  /\ IF child THEN KillCollector ELSE UNCHANGED collector
  /\ pipe' = <<>>
  /\ Goto(IF ~capture_ready /\ ~measured /\ ~stop /\ detected THEN "fallback" ELSE "end_err")
  /\ Quiet
  /\ UNCHANGED <<stop, child, killer, watcher, notes, wrote>>

\* The phone is examined again: an error, or another boot, ends the capture.
Fallback ==
  /\ pc = "fallback"
  /\ \/ Goto("end_err") /\ Quiet
     \/ Goto("choose") /\ Send(<<"fallback">>) /\ UNCHANGED <<history, elsewhere>>
  /\ UNCHANGED <<handle, notes, process>>

Choose ==
  /\ pc = "choose"
  /\ IF stop THEN Goto("end_ok") ELSE Goto("perfetto") \/ Goto("counters")
  /\ Quiet
  /\ UNCHANGED <<handle, notes, process>>

\* capture_diskstats: one reading per turn, and the flag is read after it.
Counters ==
  /\ pc = "counters"
  /\ \/ Goto("end_err") /\ Quiet
     \/ /\ SendHost(<<"counters">>)
        /\ Goto(IF stop THEN "closing" ELSE "counters")
        /\ UNCHANGED <<emitted, forwarded, elsewhere>>
  /\ UNCHANGED <<handle, notes, process>>

Closing ==
  /\ pc = "closing"
  /\ Send(<<"footer">>)
  /\ Goto("end_ok")
  /\ UNCHANGED <<history, elsewhere, handle, notes, process>>

\* capture_perfetto up to its loop.  A start that fails leaves nothing behind, or
\* a trace that is recovered, or a process that cannot be stopped.
Perfetto ==
  /\ pc = "perfetto"
  /\ \/ stop /\ Goto("end_ok") /\ Quiet /\ UNCHANGED recovered
     \/ /\ ~stop /\ SendHost(<<"hello", "info">>)
        /\ Goto("tracing")
        /\ UNCHANGED <<emitted, forwarded, elsewhere, recovered>>
     \/ /\ ~stop /\ Send(<<"analysis">>)
        /\ Goto("project") /\ recovered' = TRUE
        /\ UNCHANGED <<history, elsewhere>>
     \/ ~stop /\ (Goto("counters") \/ Goto("end_err")) /\ Quiet /\ UNCHANGED recovered
  /\ UNCHANGED <<handle, detected, capture_ready, measured, process>>

\* A turn of the loop; the trace may reach its limit and end by itself.
Tracing ==
  /\ pc = "tracing"
  /\ \/ Goto("pull") /\ Quiet
     \/ ~stop /\ Goto("end_err") /\ Quiet
     \/ /\ ~stop /\ SendHost(<<"counters">>)
        /\ UNCHANGED <<pc, emitted, forwarded, elsewhere>>
  /\ UNCHANGED <<handle, notes, process>>

Pull ==
  /\ pc = "pull"
  /\ \/ Goto("end_err") /\ Quiet
     \/ Goto("project") /\ Send(<<"analysis">>) /\ UNCHANGED <<history, elsewhere>>
  /\ UNCHANGED <<handle, notes, process>>

\* project_records, up to and after its events
Project ==
  /\ pc = "project"
  /\ \/ Goto("end_err") /\ Quiet
     \/ /\ SendHost(<<"complete", "ready">>)
        /\ Goto("events")
        /\ UNCHANGED <<emitted, forwarded, elsewhere>>
  /\ UNCHANGED <<handle, notes, process>>

SendEvent ==
  /\ pc \in {"events", "simulate"} /\ emitted < MaxEvents
  /\ pc = "simulate" => ~stop
  /\ SendHost(<<"event">>)
  /\ emitted' = emitted + 1 /\ forwarded' = forwarded + 1
  /\ UNCHANGED <<pc, elsewhere, handle, notes, process>>

EventsEnd ==
  /\ pc = "events"
  /\ \/ Goto("end_err") /\ Quiet
     \/ /\ Goto(IF recovered THEN "end_err" ELSE "end_ok")
        /\ Send(<<"footer">>) \/ Send(<<"partial">>)
        /\ UNCHANGED <<history, elsewhere>>
  /\ UNCHANGED <<handle, notes, process>>

\* simulator.rs
SimulatorStarts ==
  /\ pc = "simulator"
  /\ Send(<<"hello">>)
  /\ Goto("simulate")
  /\ UNCHANGED <<history, elsewhere, handle, notes, process>>

SimulatorEnds ==
  /\ pc = "simulate" /\ stop
  /\ Send(<<"footer">>)
  /\ Goto("end_ok")
  /\ UNCHANGED <<history, elsewhere, handle, notes, process>>

End ==
  /\ pc \in {"end_ok", "end_err"}
  /\ Send(<<IF pc = "end_ok" THEN "ended_ok" ELSE "ended_err">>)
  /\ Goto("gone")
  /\ UNCHANGED <<history, elsewhere, handle, notes, process>>

-----------------------------------------------------------------------------
(* The threads that may kill the collector *)

\* CaptureHandle::stop: its thread returns when it finds the slot empty or the
\* process gone, and kills the process after ten seconds.
Killer ==
  /\ killer /\ killer' = FALSE
  /\ IF child /\ Alive THEN KillCollector ELSE UNCHANGED collector
  /\ Quiet
  /\ UNCHANGED <<stop, control, child, watcher, pc, notes, wrote, pipe>>

\* Mutant: the deadline only reports a silent collector.
WatcherReports == UNCHANGED collector

\* The readiness deadline of thirty seconds
WatcherKills == IF ~capture_ready /\ Alive THEN KillCollector ELSE UNCHANGED collector

Watcher ==
  /\ watcher /\ watcher' = FALSE
  /\ WatcherKills
  /\ Quiet
  /\ UNCHANGED <<stop, control, child, killer, pc, notes, wrote, pipe>>

-----------------------------------------------------------------------------
(* The collector process, as the desktop sees it *)

Write(record) ==
  /\ collector = "running" /\ Len(pipe) < PipeCapacity
  /\ pipe' = Append(pipe, record)
  /\ UNCHANGED <<elsewhere, inbox, handle, pc, notes, forwarded, sources>>

WritePreamble ==
  /\ wrote < Len(Preamble)
  /\ Write(Preamble[wrote + 1])
  /\ wrote' = wrote + 1
  /\ UNCHANGED <<collector, emitted>>

WriteEvent ==
  /\ wrote = Len(Preamble) /\ emitted < MaxEvents
  /\ Write("event")
  /\ emitted' = emitted + 1
  /\ UNCHANGED <<collector, wrote>>

\* End of file on standard input stops the capture loop, which writes the Footer.
Finish ==
  /\ wrote = Len(Preamble) /\ control = "closed"
  /\ Write("footer")
  /\ collector' = "exited"
  /\ UNCHANGED <<wrote, emitted>>

\* It may close its output, exit with any status, or hang, at any time.
Fail ==
  /\ \/ collector = "running" /\ collector' \in {"closed", "exited", "failed", "hung"}
     \/ collector = "closed" /\ collector' \in {"exited", "failed"}
  /\ Quiet
  /\ UNCHANGED <<handle, pc, notes, wrote, pipe>>

-----------------------------------------------------------------------------
(* The window *)

IsRunning == phase \in Busy \/ capture # "none"

\* reset_analysis and a new capture thread
Reset(kind, first) ==
  /\ capture' = kind /\ pc' = first
  /\ received' = 0 /\ rejected' = 0 /\ error' = FALSE /\ agent_graceful' = FALSE
  /\ stop' = FALSE /\ control' = "none" /\ child' = FALSE /\ killer' = FALSE /\ watcher' = FALSE
  /\ detected' = FALSE /\ capture_ready' = FALSE /\ measured' = FALSE /\ recovered' = FALSE
  /\ collector' = "none" /\ wrote' = 0 /\ pipe' = <<>>
  /\ emitted' = 0 /\ forwarded' = 0 /\ sources' = {} /\ early' = FALSE

\* start_device and start_simulator return while is_running.
CanStart == ~IsRunning

StartDevice ==
  /\ CanStart /\ sessions < MaxSessions
  /\ sessions' = sessions + 1
  /\ Create /\ Reset("device", "preflight") /\ phase' = "preparing"
  /\ UNCHANGED inbox

StartSimulator ==
  /\ CanStart /\ sessions < MaxSessions
  /\ sessions' = sessions + 1
  /\ Create /\ Reset("simulator", "simulator") /\ phase' = "recording"
  /\ UNCHANGED inbox

\* The session file cannot be created.
StartFails ==
  /\ CanStart
  /\ phase' = "error"
  /\ UNCHANGED <<capture, received, rejected, error, agent_graceful, sessions, writer, early,
                 inbox, handle, pc, notes, process, history>>

Stoppable == phase \in {"preparing", "recording"}

\* CaptureHandle::stop, or the flag of the simulator
StopCapture ==
  /\ stop' = TRUE
  /\ Close
  /\ killer' = (capture = "device")
  /\ early' = ~child
  /\ UNCHANGED <<child, watcher>>

\* The Stop button, or a request to close the window
Stop ==
  /\ Stoppable
  /\ StopCapture
  /\ phase' = "stopping"
  /\ UNCHANGED <<capture, received, rejected, error, agent_graceful, sessions, writer, inbox, pc,
                 notes, process, history>>

\* Mutant: readiness shows Recording in every phase.
ShownAlways(before, record) ==
  IF record \in {"info", "ready", "counters"} THEN "recording" ELSE before

\* ingest_record: the phase after a record
Shown(before, record) ==
  IF before = "preparing" /\ record \in {"info", "ready", "counters"} THEN "recording" ELSE before

\* Mutant: a record that could not be stored is only counted.
RefusalIgnored(refused) == error

\* ingest_record: capture_error
ErrorAfter(refused) == error \/ refused

\* ingest_record: a record the session file refuses stops the capture.
Ingest ==
  /\ inbox # <<>> /\ Head(inbox) \in Records
  /\ LET record == Head(inbox)
         stored == record \notin {"footer", "partial"}
         refused == stored /\ ~Appends
         stops == refused /\ Stoppable
     IN /\ IF stored THEN AppendRecord(record) ELSE UNCHANGED writer
        /\ rejected' = rejected + (IF refused THEN 1 ELSE 0)
        /\ error' = ErrorAfter(refused)
        /\ IF stops THEN StopCapture ELSE UNCHANGED <<handle, early>>
        /\ phase' = Shown(IF stops THEN "stopping" ELSE phase, record)
        /\ received' = received + (IF record = "event" THEN 1 ELSE 0)
        /\ agent_graceful' = (IF stored THEN agent_graceful ELSE record = "footer")
  /\ inbox' = Tail(inbox)
  /\ UNCHANGED <<capture, sessions, pc, notes, process, history>>

AnalysisStarted ==
  /\ inbox # <<>> /\ Head(inbox) = "analysis"
  /\ phase' = "analyzing"
  /\ inbox' = Tail(inbox)
  /\ UNCHANGED <<capture, received, rejected, error, agent_graceful, sessions, writer, early,
                 handle, pc, notes, process, history>>

\* HostMessage::Ended and finish_session
Ended ==
  /\ inbox # <<>> /\ Head(inbox) \in {"ended_ok", "ended_err"}
  /\ error' = (error \/ Head(inbox) = "ended_err")
  /\ phase' = "analyzing"
  /\ CallFinish([seen |-> received, rejected |-> rejected, graceful |-> agent_graceful /\ ~error'])
  /\ capture' = "none"
  /\ inbox' = Tail(inbox)
  /\ UNCHANGED <<received, rejected, agent_graceful, sessions, early, handle, pc, notes, process,
                 history>>

Finalized ==
  /\ inbox # <<>> /\ Head(inbox) \in {"finalized_ok", "finalized_err"}
  /\ error' = (error \/ Head(inbox) = "finalized_err")
  /\ phase' = IF error' THEN "error" ELSE "complete"
  /\ inbox' = Tail(inbox)
  /\ UNCHANGED <<capture, received, rejected, agent_graceful, sessions, writer, early, handle, pc,
                 notes, process, history>>

-----------------------------------------------------------------------------
(* The session file *)

outside == <<window, early, handle, pc, notes, process, history>>

Persist == (PersistRecord \/ PersistFinish) /\ UNCHANGED <<outside, inbox>>
FinishFile == (FinishSend \/ FinishJoin) /\ UNCHANGED <<outside, inbox>>

\* The finishing thread reports to the window.
Report ==
  /\ finisher \in {"ok", "failed"}
  /\ Send(<<IF finisher = "ok" THEN "finalized_ok" ELSE "finalized_err">>)
  /\ finisher' = "idle"
  /\ UNCHANGED <<worker, backlog, persisted, footer, call, outside>>

-----------------------------------------------------------------------------
Init ==
  /\ WriterInit
  /\ phase = "idle" /\ capture = "none"
  /\ received = 0 /\ rejected = 0 /\ error = FALSE /\ agent_graceful = FALSE /\ sessions = 0
  /\ inbox = <<>>
  /\ stop = FALSE /\ control = "none" /\ child = FALSE /\ killer = FALSE /\ watcher = FALSE
  /\ pc = "none"
  /\ detected = FALSE /\ capture_ready = FALSE /\ measured = FALSE /\ recovered = FALSE
  /\ collector = "none" /\ wrote = 0 /\ pipe = <<>>
  /\ emitted = 0 /\ forwarded = 0 /\ sources = {} /\ early = FALSE

Thread ==
  \/ Preflight \/ Deploy \/ Spawn \/ StoreChild \/ CheckStop \/ ReadLine \/ RejectLine \/ ReadEnds
  \/ Wait \/ Cleanup \/ Fallback \/ Choose \/ Counters \/ Closing \/ Perfetto \/ Tracing \/ Pull
  \/ Project \/ SendEvent \/ EventsEnd \/ SimulatorStarts \/ SimulatorEnds \/ End
Collector == WritePreamble \/ WriteEvent \/ Finish \/ Fail
Receive == Ingest \/ AnalysisStarted \/ Ended \/ Finalized
File == Persist \/ FinishFile \/ Report

Next ==
  \/ Thread \/ Killer \/ Watcher \/ Collector
  \/ StartDevice \/ StartSimulator \/ StartFails \/ Stop \/ Receive
  \/ File

Spec == Init /\ [][Next]_vars

(* Every thread of the desktop goes on, the window handles its messages, an ADB
   command ends (CommandSpec::execute gives up after 20 seconds), and a
   collector that neither hangs nor fails ends once its input is closed.  Nobody
   has to press Start or Stop.                                              *)
FairSpec ==
  /\ Spec
  /\ WF_vars(Thread) /\ WF_vars(Killer) /\ WF_vars(Watcher)
  /\ WF_vars(Receive)
  /\ WF_vars(Persist) /\ WF_vars(FinishFile) /\ WF_vars(Report)
  /\ WF_vars(WritePreamble) /\ WF_vars(Finish)

-----------------------------------------------------------------------------
(* Properties *)

(* When the window lets the user start again or closes, nothing of the previous
   capture is left: its thread has returned, its process is gone, its file is
   closed and no message of it is on its way.                               *)
OneCapture ==
  ~IsRunning => /\ pc \in {"none", "gone"} /\ ~Alive
                /\ worker # "open" /\ finisher = "idle" /\ inbox = <<>>

(* A session never mixes measurements of the collector with those of a fallback:
   after a failed start a fallback is used only if nothing was measured.    *)
OneSource == sources # {"ebpf", "host"}

(* A session file that says it ended gracefully holds every event that the capture
   thread read and forwarded, and reports no loss.                          *)
GracefulIsComplete ==
  (footer # None /\ footer.graceful)
    => footer.persisted = forwarded /\ footer.seen = forwarded
       /\ footer.dropped = 0 /\ footer.rejected = 0

(* A late message never takes the window back: a stopping capture only goes on
   to be analyzed, and an analyzed one to be complete or failed.            *)
PhaseForward ==
  [][/\ phase = "stopping" => phase' \in {"stopping", "analyzing"}
     /\ phase = "analyzing" => phase' \in {"analyzing", "complete", "error"}]_vars

Over == phase \in {"complete", "error"}

(* A capture that is asked to stop ends, whatever the collector does, except
   when it hangs after a stop that came before its process was in its slot:
   then the thread that would kill it has already returned.                 *)
StopEnds ==
  [](phase = "stopping" => <>(Over \/ (early /\ collector \in {"hung", "closed"})))

(* A capture does not stay in preparation, even if the collector is silent. *)
PreparationEnds == [](phase = "preparing" => <>(phase # "preparing"))

(* The session-close identity of the protocol.                              *)
FooterBalances ==
  footer # None => footer.seen = footer.persisted + footer.dropped + footer.rejected

(* A session has one source, and once it ended nothing of its capture is left
   to mix with the next one.                                                *)
SessionsAreApart ==
  /\ OneCapture
  /\ OneSource

(* Phases only go on: a capture leaves its preparation, and one that is stopped
   ends.                                                                    *)
CaptureEnds ==
  /\ PhaseForward
  /\ PreparationEnds
  /\ StopEnds

=============================================================================
