--------------------------- MODULE PerfettoOwnership ---------------------------
(***************************************************************************)
(* PerfettoCapture (crates/desktop/src/perfetto_capture.rs): one capture   *)
(* owns a process of the phone, a trace on the phone, and a manifest and a *)
(* trace on the host.  Every command to the phone is a step; between two   *)
(* steps processes exit, identifiers are reused, the phone reboots, and    *)
(* the desktop is killed and asked to recover.                             *)
(*                                                                         *)
(* The arguments of the process carry a nonce, so `own` says whether a     *)
(* command line names the capture's files.  Start ticks have the           *)
(* resolution of the scheduler clock and start again after a reboot.       *)
(***************************************************************************)
EXTENDS Naturals, FiniteSets

CONSTANTS
  Pids,         (* process identifiers of the phone                          *)
  MaxTicks, MaxBoots, MaxForeign, MaxErrors,   (* bounds                     *)
  None

ASSUME OwnershipAssumption ==
  /\ MaxTicks \in Nat /\ MaxBoots \in Nat /\ MaxForeign \in Nat /\ MaxErrors \in Nat
  /\ None \notin Pids \cup Nat \cup {"partial", "complete"}
  /\ None \notin [own : BOOLEAN, ticks : Nat] \cup [pid : Pids, ticks : Nat]
  /\ None \notin [boot : Nat \cup {None}, pid : Pids \cup {None}, ticks : Nat \cup {None}]

VARIABLES
  boot, ticks, procs,   (* the phone: procs[p] is None or [own, ticks]        *)
  remote,       (* the trace on the phone: None, "partial" or "complete"     *)
  at,           (* the next step of the desktop                              *)
  then,         (* where a successful check of ownership leads               *)
  owner,        (* PerfettoOwner in memory: [boot, pid, ticks]               *)
  manifest,     (* the same on disk, None or Torn                            *)
  seen,         (* the lifetime read before a command line                   *)
  local, staging, backups,   (* the traces on the host                       *)
  launchedIn,   (* history: the boot in which the process was started        *)
  strangers,    (* history: foreign processes at the last check of ownership *)
  wronged,      (* history: one of them was signalled                        *)
  foreign, errors

vars == <<boot, ticks, procs, remote, at, then, owner, manifest, seen, local, staging, backups,
          launchedIn, strangers, wronged, foreign, errors>>
phone == <<boot, ticks, procs, remote, foreign>>
host == <<local, staging, backups>>
history == <<launchedIn, strangers, wronged>>

Own(p) == procs[p] # None /\ procs[p].own
Running == \E p \in Pids : Own(p)
Lives(p) == procs[p] # None

(* What a truncated manifest holds, and an owner that was never read.      *)
Torn == [boot |-> None, pid |-> None, ticks |-> None]

Init ==
  /\ boot = 0 /\ ticks = 0 /\ procs = [p \in Pids |-> None]
  /\ remote = None
  /\ at = "boot" /\ then = None
  /\ owner = Torn
  /\ manifest = None /\ seen = None
  /\ local = None /\ staging = None /\ backups = {}
  /\ launchedIn = None /\ strangers = {} /\ wronged = FALSE
  /\ foreign = 0 /\ errors = 0

-----------------------------------------------------------------------------
(* The phone. *)

Tick ==
  /\ ticks < MaxTicks /\ ticks' = ticks + 1
  /\ UNCHANGED <<boot, procs, remote, foreign, at, then, owner, manifest, seen, host, history, errors>>

Fork(p, own) == procs' = [procs EXCEPT ![p] = [own |-> own, ticks |-> ticks]]

StartForeign ==
  \E p \in Pids :
    /\ foreign < MaxForeign /\ ~Lives(p)
    /\ foreign' = foreign + 1
    /\ Fork(p, FALSE)
    /\ UNCHANGED <<boot, ticks, remote, at, then, owner, manifest, seen, host, history, errors>>

(* A process ends; the trace of a capture is then complete, unless its     *)
(* final flush failed.                                                     *)
Exit ==
  \E p \in Pids :
    /\ Lives(p)
    /\ procs' = [procs EXCEPT ![p] = None]
    /\ strangers' = strangers \ {p}
    /\ IF Own(p) THEN remote' \in {remote, "complete"} ELSE UNCHANGED remote
    /\ UNCHANGED <<boot, ticks, foreign, at, then, owner, manifest, seen, host, launchedIn, wronged,
                   errors>>

Reboot ==
  /\ boot < MaxBoots /\ boot' = boot + 1
  /\ ticks' = 0 /\ procs' = [p \in Pids |-> None] /\ strangers' = {}
  /\ UNCHANGED <<remote, foreign, at, then, owner, manifest, seen, host, launchedIn, wronged, errors>>

-----------------------------------------------------------------------------
(* start *)

Go(step) == at' = step /\ then' = then

ReadBoot ==
  /\ at = "boot" /\ Go("persist")
  /\ owner' = [owner EXCEPT !.boot = boot]
  /\ UNCHANGED <<phone, manifest, seen, host, history, errors>>

(* persist: the file is truncated, then written. *)
Truncate ==
  /\ at \in {"persist", "persist pid", "persist ticks", "persist found"}
  /\ manifest' = Torn
  /\ at' = CASE at = "persist" -> "write" [] at = "persist pid" -> "write pid"
             [] at = "persist ticks" -> "write ticks" [] OTHER -> "write found"
  /\ UNCHANGED <<phone, then, owner, seen, host, history, errors>>

\* The process is started before there is a manifest.
LaunchFirst == at \in {"persist", "launch"}
MayLaunch == at = "launch"

Write ==
  /\ at \in {"write", "write pid", "write ticks", "write found"}
  /\ manifest' = owner
  /\ at' = CASE at = "write" -> "launch" [] at = "write pid" -> "stat"
             [] at = "write ticks" -> "alive" [] OTHER -> "alive"
  /\ then' = CASE at = "write ticks" -> "recording" [] at = "write found" -> "kill" [] OTHER -> then
  /\ UNCHANGED <<phone, owner, seen, host, history, errors>>

(* The command may fork before it fails, and its output may be lost.       *)
Launch ==
  \E p \in Pids, told, forked \in BOOLEAN :
    /\ MayLaunch
    /\ ~Lives(p)
    /\ told => forked
    /\ IF forked
       THEN /\ Fork(p, TRUE) /\ launchedIn' = boot /\ remote' \in {None, "partial"}
       ELSE UNCHANGED <<procs, launchedIn, remote>>
    /\ owner' = [owner EXCEPT !.pid = IF told THEN p ELSE None]
    /\ Go("persist pid")
    /\ UNCHANGED <<boot, ticks, foreign, manifest, seen, host, strangers, wronged, errors>>

ReadTicks ==
  /\ at = "stat"
  /\ IF owner.pid # None /\ Lives(owner.pid)
     THEN Go("persist ticks") /\ owner' = [owner EXCEPT !.ticks = procs[owner.pid].ticks]
     ELSE Go("failed") /\ UNCHANGED owner
  /\ UNCHANGED <<phone, manifest, seen, host, history, errors>>

-----------------------------------------------------------------------------
(* owned_process_alive: boot, then stat, then the command line; `then` is  *)
(* what the caller does if the process is there, "pull" if it is not.      *)

CheckBoot ==
  /\ at = "alive"
  /\ Go(IF boot # owner.boot \/ owner.pid = None THEN "failed" ELSE "alive stat")
  /\ UNCHANGED <<phone, owner, manifest, seen, host, history, errors>>

Gone == at' = (IF then = "recording" THEN "failed" ELSE "pull") /\ UNCHANGED then

CheckStat ==
  /\ at = "alive stat"
  /\ IF ~Lives(owner.pid) \/ procs[owner.pid].ticks # owner.ticks THEN Gone
     ELSE Go("alive command")
  /\ UNCHANGED <<phone, owner, manifest, seen, host, history, errors>>

\* The start ticks alone identify the process.
TrustTicks(p) == Lives(p)
NamesTrace(p) == Own(p)

CheckCommand ==
  /\ at = "alive command"
  /\ at' = IF NamesTrace(owner.pid) THEN then ELSE "failed"
  /\ strangers' = {p \in Pids : Lives(p) /\ ~Own(p)}
  /\ UNCHANGED <<phone, then, owner, manifest, seen, host, launchedIn, wronged, errors>>

(* stop_and_pull of a capture that was started. *)
Stop ==
  /\ at = "recording" /\ at' = "alive" /\ then' = "kill"
  /\ UNCHANGED <<phone, owner, manifest, seen, host, history, errors>>

(* kill -INT: the process ends when it has flushed its trace (Exit).       *)
\* The trace is retrieved as soon as the signal was sent.
PullAtOnce == "pull"
AfterKill == "alive"

Kill ==
  /\ at = "kill" /\ at' = AfterKill /\ then' = "wait"
  /\ wronged' = (wronged \/ owner.pid \in strangers)
  /\ UNCHANGED <<phone, owner, manifest, seen, host, launchedIn, strangers, errors>>

(* It is still there: ask again, or give up after fifteen seconds.         *)
Wait ==
  /\ at = "wait" /\ at' \in {"alive", "failed"} /\ UNCHANGED then
  /\ UNCHANGED <<phone, owner, manifest, seen, host, history, errors>>

-----------------------------------------------------------------------------
(* finish_failed_start and recover_and_pull. *)

(* Any command may fail; during start that is a StartupFailure.  Later it  *)
(* is reported, and the user may ask for a recovery, as they may after the *)
(* desktop was killed at any step.                                         *)
CommandFails ==
  /\ errors < MaxErrors /\ errors' = errors + 1
  /\ at \in {"write pid", "stat", "write ticks", "alive", "alive stat", "alive command"}
  /\ then \in {None, "recording"}
  /\ Go("failed")
  /\ UNCHANGED <<phone, owner, manifest, seen, host, history>>

Interrupted ==
  /\ errors < MaxErrors /\ errors' = errors + 1
  /\ at \notin {"boot", "counters", "done", "idle"}
  /\ at' = "idle" /\ then' = None /\ seen' = None
  /\ owner' = Torn
  /\ UNCHANGED <<phone, manifest, host, history>>

(* recover: the manifest parses and names the files of its own token.      *)
Readable == manifest # None /\ manifest # Torn

(* recover_and_pull *)
Recover ==
  /\ at = "idle" /\ Readable
  /\ owner' = manifest
  /\ at' = IF boot # manifest.boot THEN "pull" ELSE "establish"
  /\ then' = "recover"
  /\ UNCHANGED <<phone, manifest, seen, host, history, errors>>

(* A failure during start leads to finish_failed_start, in the desktop     *)
(* that is still running; a failure later is reported.                     *)
Failed ==
  /\ at = "failed"
  /\ IF then \in {None, "recording"} THEN at' = "establish" /\ then' = "finish"
     ELSE at' = "idle" /\ then' = None
  /\ UNCHANGED <<phone, owner, manifest, seen, host, history, errors>>

\* Looks for a process only if the launch told its identifier.
OnlyTold == owner.pid # None /\ Running
Enumerated == Running

(* establish_identity: a known lifetime is kept; otherwise pidof lists the *)
(* processes, and the one with both arguments is read before and after.    *)
(* Others are skipped.                                                     *)
Establish ==
  /\ at = "establish"
  /\ IF owner.pid # None /\ owner.ticks # None THEN at' = "alive" /\ then' = "kill" /\ UNCHANGED seen
     ELSE IF boot # owner.boot THEN at' = "failed" /\ UNCHANGED <<then, seen>>
     ELSE IF Enumerated
          THEN \E p \in Pids : Own(p) /\ seen' = [pid |-> p, ticks |-> procs[p].ticks]
                                 /\ at' = "establish command" /\ UNCHANGED then
          ELSE at' = (IF then = "finish" THEN "exists" ELSE "pull") /\ UNCHANGED <<then, seen>>
  /\ UNCHANGED <<phone, owner, manifest, host, history, errors>>

EstablishCommand ==
  /\ at = "establish command"
  /\ Go(IF ~Lives(seen.pid) THEN "failed"
        ELSE IF Own(seen.pid) THEN "establish after"
        ELSE IF then = "finish" THEN "exists" ELSE "pull")
  /\ UNCHANGED <<phone, owner, manifest, seen, host, history, errors>>

EstablishAfter ==
  /\ at = "establish after"
  /\ IF Lives(seen.pid) /\ procs[seen.pid].ticks = seen.ticks
     THEN Go("persist found") /\ owner' = [owner EXCEPT !.pid = seen.pid, !.ticks = seen.ticks]
     ELSE Go("failed") /\ UNCHANGED owner
  /\ UNCHANGED <<phone, manifest, seen, host, history, errors>>

(* finish_failed_start without a process: a trace is retrieved, else the   *)
(* caller falls back on the device's counters.                             *)
TraceExists ==
  /\ at = "exists"
  /\ Go(IF remote # None THEN "pull" ELSE "counters")
  /\ UNCHANGED <<phone, owner, manifest, seen, host, history, errors>>

(* pull: the download may be cut short.                                    *)
Download ==
  /\ at = "pull"
  /\ IF remote = None THEN Go("idle") /\ UNCHANGED staging
     ELSE Go("install") /\ staging' \in {remote, "partial"}
  /\ UNCHANGED <<phone, owner, manifest, seen, local, backups, history, errors>>

\* Whatever was downloaded takes the place of what was there.
ReplaceAlways == TRUE
MayReplace == local = None \/ staging = "complete"

Backup ==
  /\ at = "install"
  /\ IF MayReplace
     THEN /\ Go("rename") /\ local' = None
          /\ backups' = IF local = None THEN backups ELSE backups \cup {local}
     ELSE Go("idle") /\ UNCHANGED <<local, backups>>
  /\ UNCHANGED <<phone, owner, manifest, seen, staging, history, errors>>

Rename ==
  /\ at = "rename" /\ Go("idle")
  /\ local' = staging /\ staging' = None
  /\ UNCHANGED <<phone, owner, manifest, seen, backups, history, errors>>

Desktop ==
  \/ ReadBoot \/ Truncate \/ Write \/ Launch \/ ReadTicks
  \/ CheckBoot \/ CheckStat \/ CheckCommand \/ Stop \/ Kill \/ Wait
  \/ CommandFails \/ Interrupted \/ Recover \/ Failed \/ Establish \/ EstablishCommand \/ EstablishAfter
  \/ TraceExists \/ Download \/ Backup \/ Rename

Next == Tick \/ StartForeign \/ Exit \/ Reboot \/ Desktop
Spec == Init /\ [][Next]_vars

-----------------------------------------------------------------------------
(* owned_process_alive before kill -INT: no process that existed when      *)
(* ownership was checked is signalled, but the one of this capture, through *)
(* reused identifiers, equal start ticks and reboots.                      *)
OnlyOursIsSignalled == ~wronged

(* stop_and_pull and recover_and_pull: a trace is retrieved only once its  *)
(* process has ended, if the manifest names the boot it was started in.    *)
RetrievedAfterExit ==
  at \in {"pull", "install", "rename"} /\ launchedIn = owner.boot => ~Running

(* pull: "Existing complete source is never replaced by a failed           *)
(* retrieval": a complete trace makes room only for a complete one, and it *)
(* is kept beside it.                                                      *)
CompleteIsKept ==
  [][local = "complete" /\ local' # "complete"
       => local' = None /\ staging = "complete" /\ "complete" \in backups']_<<local, staging, backups>>

(* start: whenever a process of the capture runs, there is a manifest; it  *)
(* can be read unless the desktop is rewriting it, or died doing so.       *)
RunningIsRecorded == Running => manifest # None

(* finish_failed_start: the counters replace the trace only if no process  *)
(* of the capture runs and it left no trace.                               *)
CountersAreAlone == at = "counters" => ~Running /\ remote = None

(* Through crashes, reboots, reused identifiers and failing commands: only *)
(* the process of this capture is signalled, its trace is taken after its  *)
(* end, it is on record while it runs, and counters start only without it. *)
CaptureIsOwned ==
  /\ [](OnlyOursIsSignalled /\ RetrievedAfterExit /\ RunningIsRecorded /\ CountersAreAlone)
  /\ CompleteIsKept
=============================================================================
