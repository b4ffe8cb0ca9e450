------------------------ MODULE PerfettoOwnershipProofs ------------------------
(***************************************************************************)
(* Proofs about PerfettoOwnership, for any number of process identifiers,  *)
(* reboots, foreign processes and failing commands.                        *)
(***************************************************************************)
EXTENDS PerfettoOwnership, TLAPS

Processes == [own : BOOLEAN, ticks : Nat]
Owners == [boot : Nat \cup {None}, pid : Pids \cup {None}, ticks : Nat \cup {None}]
Lifetimes == [pid : Pids, ticks : Nat]
Traces == {None, "partial", "complete"}

\* The steps of the desktop: before the launch, until the start ticks are read,
\* with a known lifetime, in search of one, and without one.
Early == {"boot", "persist", "write", "launch"}
Starting == {"persist pid", "write pid", "stat"}
Known == {"persist ticks", "write ticks", "persist found", "write found", "alive", "alive stat",
          "alive command", "recording", "kill", "wait"}
Looking == {"establish", "establish command", "establish after"}
Ending == {"exists", "pull", "install", "rename", "counters", "idle", "failed"}
Alive == {"alive", "alive stat", "alive command"}

Places == Early \cup Starting \cup Known \cup Looking \cup Ending

PhoneTypes ==
  /\ boot \in Nat /\ ticks \in Nat /\ foreign \in Nat /\ launchedIn \in Nat \cup {None}
  /\ procs \in [Pids -> Processes \cup {None}]
  /\ remote \in Traces
StepTypes ==
  /\ at \in Places
  /\ then \in {None, "recording", "kill", "wait", "recover", "finish"}
IdentityTypes ==
  owner \in Owners /\ manifest \in Owners \cup {None} /\ seen \in Lifetimes \cup {None}
HostTypes ==
  /\ local \in Traces /\ staging \in Traces /\ backups \subseteq Traces \ {None}
  /\ strangers \subseteq Pids /\ wronged \in BOOLEAN /\ errors \in Nat
(* Every part of the phone, the manifest and the traces has its type.       *)
TypeOK == PhoneTypes /\ StepTypes /\ IdentityTypes /\ HostTypes

\* An identity, where it is known, is that of the capture's process.
Identifies(i) ==
  \A p \in Pids : Own(p) =>
    /\ i.pid # None => i.pid = p
    /\ i.ticks # None => i.ticks = procs[p].ticks

(* At most one process is the capture's, of the boot it was launched in, and
   every identity the desktop holds is its.                                 *)
ProcessInv ==
  /\ \A p, q \in Pids : Own(p) /\ Own(q) => p = q
  /\ Running => launchedIn = boot
  /\ Identifies(owner)
  /\ manifest # None => Identifies(manifest)
  /\ seen # None => Identifies(seen)

\* Before the launch there is no process and no identity.
EarlyInv ==
  at \in Early =>
    /\ ~Running /\ seen = None
    /\ owner.pid = None /\ owner.ticks = None
    /\ manifest # None => manifest.pid = None /\ manifest.ticks = None

\* What is known at a step of the desktop.
StepInv ==
  /\ at \in Known => owner.pid # None /\ owner.ticks # None
  /\ at \in Alive => then \in {"recording", "kill", "wait"}
  /\ at = "wait" => then = "wait"
  /\ at \in {"establish command", "establish after"} => seen # None
  /\ at = "kill" => owner.pid \notin strangers
  /\ at = "exists" => ~Running
  /\ at \in {"write", "launch"} => manifest # None
  /\ at = "rename" => local = None

(* What is inductive: the checks of ownership suffice because the identities the
   desktop holds, in memory, on disk and in its latest answer, are the process's. *)
IInv ==
  /\ TypeOK /\ ProcessInv /\ EarlyInv /\ StepInv
  /\ OnlyOursIsSignalled /\ RetrievedAfterExit /\ RunningIsRecorded /\ CountersAreAlone

-----------------------------------------------------------------------------
(* Types *)

\* A command to the phone changes neither its processes nor its files.
DesktopKeeps == UNCHANGED <<boot, ticks, procs, remote, foreign, launchedIn>>

(* No step of the desktop but the launch changes the phone. *)
LEMMA QuietSteps ==
  ASSUME Desktop, ~Launch
  PROVE  DesktopKeeps
BY Zenon DEF Desktop, DesktopKeeps, phone, host, history, ReadBoot, Truncate, Write, ReadTicks, CheckBoot,
   CheckStat, CheckCommand, Stop, Kill, Wait, CommandFails, Interrupted, Recover, Failed, Establish,
   EstablishCommand, EstablishAfter, TraceExists, Download, Backup, Rename

(* The types of the phone. *)
LEMMA PhoneSteps ==
  ASSUME PhoneTypes, Next
  PROVE  PhoneTypes'
<1> USE DEF PhoneTypes
<1>1. CASE Tick
  <2>1. ticks' \in Nat
    BY <1>1 DEF Tick
  <2> QED BY Zenon, <1>1, <2>1 DEF Tick, history
<1>2. CASE StartForeign
  <2>1. PICK p \in Pids : foreign' = foreign + 1 /\ Fork(p, FALSE)
    BY Zenon, <1>2 DEF StartForeign
  <2>2. [own |-> FALSE, ticks |-> ticks] \in Processes
    BY DEF Processes
  <2>3. procs' \in [Pids -> Processes \cup {None}]
    BY Zenon, <2>1, <2>2 DEF Fork
  <2>4. foreign' \in Nat
    BY <1>2 DEF StartForeign
  <2> QED BY Zenon, <1>2, <2>3, <2>4 DEF StartForeign, history
<1>3. CASE Exit
  <2>1. procs' \in [Pids -> Processes \cup {None}]
    BY Zenon, <1>3 DEF Exit
  <2>2. remote' \in Traces
    BY Zenon, <1>3 DEF Exit, Traces
  <2> QED BY Zenon, <1>3, <2>1, <2>2 DEF Exit
<1>4. CASE Reboot
  <2>1. procs' \in [Pids -> Processes \cup {None}]
    BY Zenon, <1>4 DEF Reboot
  <2>2. boot' \in Nat /\ ticks' \in Nat
    BY <1>4 DEF Reboot
  <2> QED BY Zenon, <1>4, <2>1, <2>2 DEF Reboot
<1>5. CASE Launch
  <2>1. PICK p \in Pids, forked \in BOOLEAN :
          IF forked
          THEN Fork(p, TRUE) /\ launchedIn' = boot /\ remote' \in {None, "partial"}
          ELSE UNCHANGED <<procs, launchedIn, remote>>
    BY Zenon, <1>5 DEF Launch
  <2>2. [own |-> TRUE, ticks |-> ticks] \in Processes
    BY DEF Processes
  <2>3. procs' \in [Pids -> Processes \cup {None}]
    BY Zenon, <2>1, <2>2 DEF Fork
  <2>4. launchedIn' \in Nat \cup {None} /\ remote' \in Traces
    BY Zenon, <2>1 DEF Traces
  <2> QED BY Zenon, <1>5, <2>3, <2>4 DEF Launch
<1>6. CASE Desktop /\ ~Launch
  BY Zenon, <1>6, QuietSteps DEF DesktopKeeps
<1> QED BY Zenon, <1>1, <1>2, <1>3, <1>4, <1>5, <1>6 DEF Next

(* The desktop is at a step of its code. *)
LEMMA PlaceSteps ==
  ASSUME StepTypes, StepInv, Next
  PROVE  StepTypes'
<1>1. CASE Tick \/ StartForeign \/ Exit \/ Reboot
  BY Zenon, <1>1 DEF Tick, StartForeign, Exit, Reboot, StepTypes
<1>2. CASE Desktop
  <2> USE DEF StepTypes, StepInv, Alive, Places, Early, Starting, Known, Looking, Ending
  <2>1. CASE ReadBoot
    BY <2>1 DEF ReadBoot, Go
  <2>2. CASE Truncate
    BY <2>2 DEF Truncate
  <2>3. CASE Write
    BY <2>3 DEF Write
  <2>4. CASE Launch
    BY <2>4 DEF Launch, Go
  <2>5. CASE ReadTicks
    BY <2>5 DEF ReadTicks, Go
  <2>6. CASE CheckBoot
    BY <2>6 DEF CheckBoot, Go
  <2>7. CASE CheckStat
    BY <2>7 DEF CheckStat, Go, Gone
  <2>8. CASE CheckCommand
    BY <2>8 DEF CheckCommand
  <2>9. CASE Stop
    BY <2>9 DEF Stop
  <2>10. CASE Kill
    BY <2>10 DEF Kill, AfterKill
  <2>11. CASE Wait
    BY <2>11 DEF Wait
  <2>12. CASE CommandFails
    BY <2>12 DEF CommandFails, Go
  <2>13. CASE Interrupted
    BY <2>13 DEF Interrupted
  <2>14. CASE Recover
    BY <2>14 DEF Recover
  <2>15. CASE Failed
    BY <2>15 DEF Failed
  <2>16. CASE Establish
    BY <2>16 DEF Establish
  <2>17. CASE EstablishCommand
    BY <2>17 DEF EstablishCommand, Go
  <2>18. CASE EstablishAfter
    BY <2>18 DEF EstablishAfter, Go
  <2>19. CASE TraceExists
    BY <2>19 DEF TraceExists, Go
  <2>20. CASE Download
    BY <2>20 DEF Download, Go
  <2>21. CASE Backup
    BY <2>21 DEF Backup, Go
  <2>22. CASE Rename
    BY <2>22 DEF Rename, Go
  <2> HIDE DEF StepTypes, StepInv, Alive, Places, Early, Starting, Known, Looking, Ending
  <2> QED BY Zenon, <1>2, <2>1, <2>2, <2>3, <2>4, <2>5, <2>6, <2>7, <2>8, <2>9, <2>10, <2>11,
       <2>12, <2>13, <2>14, <2>15, <2>16, <2>17, <2>18, <2>19, <2>20, <2>21, <2>22 DEF Desktop
<1> QED BY Zenon, <1>1, <1>2 DEF Next

(* Owner, manifest and lifetime are records of their types. *)
LEMMA IdentitySteps ==
  ASSUME TypeOK, StepInv, Next
  PROVE  IdentityTypes'
<1> USE DEF IdentityTypes
<1>0. IdentityTypes /\ PhoneTypes
  BY Zenon DEF TypeOK
<1>1. Torn \in Owners
  BY DEF Torn, Owners
<1>2. CASE ReadBoot
  <2>1. [owner EXCEPT !.boot = boot] \in Owners
    BY <1>0 DEF Owners, PhoneTypes
  <2> QED BY Zenon, <1>0, <1>2, <2>1 DEF ReadBoot
<1>3. CASE Truncate \/ Write
  BY Zenon, <1>0, <1>1, <1>3 DEF Truncate, Write
<1>4. CASE Launch
  <2>1. PICK p \in Pids, told \in BOOLEAN : owner' = [owner EXCEPT !.pid = IF told THEN p ELSE None]
    BY Zenon, <1>4 DEF Launch
  <2>2. owner' \in Owners
    BY <1>0, <2>1 DEF Owners
  <2> QED BY Zenon, <1>0, <1>4, <2>2 DEF Launch
<1>5. CASE ReadTicks
  <2>1. CASE owner' = owner
    BY Zenon, <1>0, <1>5, <2>1 DEF ReadTicks
  <2>2. CASE owner.pid # None /\ Lives(owner.pid) /\ owner' = [owner EXCEPT !.ticks = procs[owner.pid].ticks]
    <3>1. owner.pid \in Pids
      BY <1>0, <2>2 DEF Owners
    <3>2. procs[owner.pid] \in Processes
      BY Zenon, <1>0, <2>2, <3>1 DEF PhoneTypes, Lives
    <3>3. owner' \in Owners
      BY <1>0, <2>2, <3>2 DEF Owners, Processes
    <3> QED BY Zenon, <1>0, <1>5, <3>3 DEF ReadTicks
  <2> QED BY Zenon, <1>5, <2>1, <2>2 DEF ReadTicks
<1>6. CASE Interrupted
  BY Zenon, <1>0, <1>1, <1>6 DEF Interrupted
<1>7. CASE Recover
  BY Zenon, <1>0, <1>7 DEF Recover, Readable
<1>8. CASE Establish
  <2>1. CASE seen' = seen
    BY Zenon, <1>0, <1>8, <2>1 DEF Establish
  <2>2. CASE \E p \in Pids : Own(p) /\ seen' = [pid |-> p, ticks |-> procs[p].ticks]
    <3>1. PICK p \in Pids : Own(p) /\ seen' = [pid |-> p, ticks |-> procs[p].ticks]
      BY Zenon, <2>2
    <3>2. procs[p] \in Processes
      BY Zenon, <1>0, <3>1 DEF PhoneTypes, Own
    <3>3. seen' \in Lifetimes
      BY <3>1, <3>2 DEF Lifetimes, Processes
    <3> QED BY Zenon, <1>0, <1>8, <3>3 DEF Establish
  <2> QED BY Zenon, <1>8, <2>1, <2>2 DEF Establish
<1>9. CASE EstablishAfter
  <2>1. CASE owner' = owner
    BY Zenon, <1>0, <1>9, <2>1 DEF EstablishAfter
  <2>2. CASE owner' = [owner EXCEPT !.pid = seen.pid, !.ticks = seen.ticks]
    <3>1. seen \in Lifetimes
      BY Zenon, <1>0, <1>9 DEF EstablishAfter, StepInv
    <3>2. owner' \in Owners
      BY <1>0, <2>2, <3>1 DEF Owners, Lifetimes
    <3> QED BY Zenon, <1>0, <1>9, <3>2 DEF EstablishAfter
  <2> QED BY Zenon, <1>9, <2>1, <2>2 DEF EstablishAfter
<1>10. CASE UNCHANGED <<owner, manifest, seen>>
  BY Zenon, <1>0, <1>10
<1> QED BY Zenon, <1>2, <1>3, <1>4, <1>5, <1>6, <1>7, <1>8, <1>9, <1>10
     DEF Next, Desktop, Tick, StartForeign, Exit, Reboot, CheckBoot, CheckStat, CheckCommand, Stop, Kill,
         Wait, CommandFails, Failed, EstablishCommand, TraceExists, Download, Backup, Rename

(* The types of the traces on the host and of the history. *)
LEMMA HostSteps ==
  ASSUME HostTypes, PhoneTypes, Next
  PROVE  HostTypes'
<1> USE DEF HostTypes
<1>1. CASE Exit \/ Reboot \/ CheckCommand
  BY Zenon, <1>1 DEF Exit, Reboot, CheckCommand, host
<1>2. CASE CommandFails \/ Interrupted
  <2>0. errors' = errors + 1
    BY Zenon, <1>2 DEF CommandFails, Interrupted
  <2>1. errors' \in Nat
    BY <2>0
  <2> QED BY Zenon, <1>2, <2>1 DEF CommandFails, Interrupted, host, history
<1>3. CASE Kill
  BY Zenon, <1>3 DEF Kill, host
<1>4. CASE Download
  BY Zenon, <1>4 DEF Download, history, PhoneTypes, Traces
<1>5. CASE Backup
  <2>1. local' \in Traces /\ backups' \subseteq Traces \ {None}
    BY Zenon, <1>5 DEF Backup, Traces
  <2> QED BY Zenon, <1>5, <2>1 DEF Backup, history
<1>6. CASE Rename
  BY Zenon, <1>6 DEF Rename, history, Traces
<1>7. CASE UNCHANGED <<host, strangers, wronged, errors>>
  BY Zenon, <1>7 DEF host
<1> QED BY Zenon, <1>1, <1>2, <1>3, <1>4, <1>5, <1>6, <1>7
     DEF Next, Desktop, host, history, Tick, StartForeign, ReadBoot, Truncate, Write, Launch, ReadTicks,
         CheckBoot, CheckStat, Stop, Wait, Recover, Failed, Establish, EstablishCommand, EstablishAfter,
         TraceExists

-----------------------------------------------------------------------------
(* The process of the capture *)

\* Identifies, after the step.
IdentifiesNext(i) ==
  \A p \in Pids : Own(p)' =>
    /\ i.pid # None => i.pid = p
    /\ i.ticks # None => i.ticks = procs'[p].ticks

\* The step makes no process the capture's.
Fewer == \A p \in Pids : Own(p)' => Own(p) /\ procs'[p] = procs[p]

(* Only a launch makes a process the capture's. *)
LEMMA FewerRun ==
  ASSUME PhoneTypes, Next, ~Launch
  PROVE  Fewer /\ launchedIn' = launchedIn /\ (Running' => Running /\ boot' = boot)
<1>1. CASE procs' = procs /\ UNCHANGED <<boot, launchedIn>>
  BY Zenon, <1>1 DEF Fewer, Own, Running
<1>2. CASE StartForeign
  <2>1. PICK p \in Pids : Fork(p, FALSE)
    BY Zenon, <1>2 DEF StartForeign
  <2>2. procs'[p].own <=> FALSE
    <3>1. procs'[p] = [own |-> FALSE, ticks |-> ticks]
      BY Zenon, <2>1 DEF Fork, PhoneTypes
    <3>2. [own |-> FALSE, ticks |-> ticks].own = FALSE
      OBVIOUS
    <3> QED BY Zenon, <3>1, <3>2
  <2>3. \A q \in Pids : q # p => procs'[q] = procs[q]
    BY Zenon, <2>1 DEF Fork, PhoneTypes
  <2>4. Fewer
    BY Zenon, <2>2, <2>3 DEF Fewer, Own
  <2>5. UNCHANGED <<boot, launchedIn>>
    BY Zenon, <1>2 DEF StartForeign, history
  <2> QED BY Zenon, <2>4, <2>5 DEF Running, Fewer
<1>3. CASE Exit
  <2>1. PICK p \in Pids : procs' = [procs EXCEPT ![p] = None]
    BY Zenon, <1>3 DEF Exit
  <2>2. procs'[p] = None
    BY Zenon, <2>1 DEF PhoneTypes
  <2>3. \A q \in Pids : q # p => procs'[q] = procs[q]
    BY Zenon, <2>1 DEF PhoneTypes
  <2>4. Fewer
    BY Zenon, <2>2, <2>3 DEF Fewer, Own
  <2>5. UNCHANGED <<boot, launchedIn>>
    BY Zenon, <1>3 DEF Exit
  <2> QED BY Zenon, <2>4, <2>5 DEF Running, Fewer
<1>4. CASE Reboot
  <2>1. \A p \in Pids : procs'[p] = None
    BY Zenon, <1>4 DEF Reboot
  <2> QED BY Zenon, <1>4, <2>1 DEF Reboot, Fewer, Own, Running
<1> QED BY Zenon, <1>1, <1>2, <1>3, <1>4, QuietSteps DEF Next, Tick, DesktopKeeps, history

(* Identities that are kept, read or found remain those of the process. *)
LEMMA ProcessSteps ==
  ASSUME TypeOK, ProcessInv, StepInv, Next, ~Launch
  PROVE  ProcessInv'
<1>0. PhoneTypes /\ IdentityTypes
  BY Zenon DEF TypeOK
<1>1. Fewer /\ launchedIn' = launchedIn /\ (Running' => Running /\ boot' = boot)
  BY Zenon, <1>0, FewerRun
<1>2. ASSUME NEW i, Identifies(i) PROVE IdentifiesNext(i)
  BY Zenon, <1>1, <1>2 DEF Identifies, IdentifiesNext, Fewer
<1>3. (\A p, q \in Pids : Own(p) /\ Own(q) => p = q)' /\ (Running => launchedIn = boot)'
  BY Zenon, <1>1 DEF ProcessInv, Fewer
<1>4. Torn.pid = None /\ Torn.ticks = None
  BY DEF Torn
<1>5. Identifies(Torn)
  BY Zenon, <1>4 DEF Identifies
<1>6. IdentifiesNext(owner')
  <2>1. CASE ReadBoot
    <3>1. owner'.pid = owner.pid /\ owner'.ticks = owner.ticks
      BY <1>0, <2>1 DEF ReadBoot, IdentityTypes, Owners
    <3>2. IdentifiesNext(owner)
      BY Zenon, <1>2 DEF ProcessInv
    <3> QED BY Zenon, <3>1, <3>2 DEF IdentifiesNext
  <2>2. CASE ReadTicks
    <3>1. CASE owner' = owner
      BY Zenon, <1>2, <3>1 DEF ProcessInv
    <3>2. CASE owner.pid # None /\ Lives(owner.pid) /\ owner' = [owner EXCEPT !.ticks = procs[owner.pid].ticks]
      <4>1. owner'.pid = owner.pid /\ owner'.ticks = procs[owner.pid].ticks
        BY <1>0, <3>2 DEF IdentityTypes, Owners
      <4>2. Identifies(owner')
        BY Zenon, <3>2, <4>1 DEF ProcessInv, Identifies
      <4> QED BY Zenon, <1>2, <4>2
    <3> QED BY Zenon, <2>2, <3>1, <3>2 DEF ReadTicks
  <2>3. CASE EstablishAfter
    <3>1. CASE owner' = owner
      BY Zenon, <1>2, <3>1 DEF ProcessInv
    <3>2. CASE owner' = [owner EXCEPT !.pid = seen.pid, !.ticks = seen.ticks]
      <4>1. owner'.pid = seen.pid /\ owner'.ticks = seen.ticks
        BY <1>0, <3>2 DEF IdentityTypes, Owners
      <4>2. Identifies(seen)
        BY Zenon, <2>3 DEF ProcessInv, StepInv, EstablishAfter
      <4>3. Identifies(owner')
        BY Zenon, <4>1, <4>2 DEF Identifies
      <4> QED BY Zenon, <1>2, <4>3
    <3> QED BY Zenon, <2>3, <3>1, <3>2 DEF EstablishAfter
  <2>4. CASE Interrupted
    BY Zenon, <1>2, <1>5, <2>4 DEF Interrupted
  <2>5. CASE Recover
    BY Zenon, <1>2, <2>5 DEF Recover, Readable, ProcessInv
  <2>6. CASE owner' = owner
    BY Zenon, <1>2, <2>6 DEF ProcessInv
  <2> QED BY Zenon, <2>1, <2>2, <2>3, <2>4, <2>5, <2>6
       DEF Next, Desktop, Tick, StartForeign, Exit, Reboot, Truncate, Write, CheckBoot, CheckStat, CheckCommand,
           Stop, Kill, Wait, CommandFails, Failed, Establish, EstablishCommand, TraceExists, Download, Backup,
           Rename
<1>7. manifest' # None => IdentifiesNext(manifest')
  <2>1. CASE Truncate
    BY Zenon, <1>2, <1>5, <2>1 DEF Truncate
  <2>2. CASE Write
    BY Zenon, <1>2, <2>2 DEF Write, ProcessInv
  <2>3. CASE manifest' = manifest
    BY Zenon, <1>2, <2>3 DEF ProcessInv
  <2> QED BY Zenon, <2>1, <2>2, <2>3
       DEF Next, Desktop, Tick, StartForeign, Exit, Reboot, ReadBoot, ReadTicks, CheckBoot, CheckStat,
           CheckCommand, Stop, Kill, Wait, CommandFails, Interrupted, Recover, Failed, Establish,
           EstablishCommand, EstablishAfter, TraceExists, Download, Backup, Rename
<1>8. seen' # None => IdentifiesNext(seen')
  <2>1. CASE Establish
    <3>1. CASE seen' = seen
      BY Zenon, <1>2, <3>1 DEF ProcessInv
    <3>2. CASE \E p \in Pids : Own(p) /\ seen' = [pid |-> p, ticks |-> procs[p].ticks]
      <4>1. PICK p \in Pids : Own(p) /\ seen' = [pid |-> p, ticks |-> procs[p].ticks]
        BY Zenon, <3>2
      <4>2. seen'.pid = p /\ seen'.ticks = procs[p].ticks
        BY <4>1
      <4>3. Identifies(seen')
        BY Zenon, <4>1, <4>2 DEF Identifies, ProcessInv
      <4> QED BY Zenon, <1>2, <4>3
    <3> QED BY Zenon, <2>1, <3>1, <3>2 DEF Establish
  <2>2. CASE seen' = None
    BY Zenon, <2>2
  <2>3. CASE seen' = seen
    BY Zenon, <1>2, <2>3 DEF ProcessInv
  <2> QED BY Zenon, <2>1, <2>2, <2>3
       DEF Next, Desktop, Tick, StartForeign, Exit, Reboot, ReadBoot, Truncate, Write, ReadTicks, CheckBoot,
           CheckStat, CheckCommand, Stop, Kill, Wait, CommandFails, Interrupted, Recover, Failed,
           EstablishCommand, EstablishAfter, TraceExists, Download, Backup, Rename
<1> QED BY Zenon, <1>3, <1>6, <1>7, <1>8 DEF ProcessInv, Identifies, IdentifiesNext

(* The one launch: no process, and no identity but the launched one's. *)
LEMMA LaunchProcess ==
  ASSUME TypeOK, ProcessInv, EarlyInv, StepInv, Launch
  PROVE  ProcessInv' /\ manifest' # None /\ at' = "persist pid" /\ seen' = None
<1>0. PhoneTypes /\ IdentityTypes
  BY Zenon DEF TypeOK
<1>1. /\ ~Running /\ seen = None
      /\ owner.pid = None /\ owner.ticks = None
      /\ manifest # None /\ manifest.pid = None /\ manifest.ticks = None
  <2>1. at = "launch" /\ at \in Early
    BY Zenon DEF Launch, MayLaunch, Early
  <2> QED BY Zenon, <2>1 DEF EarlyInv, StepInv
<1>2. PICK p \in Pids, told, forked \in BOOLEAN :
        /\ told => forked
        /\ IF forked THEN Fork(p, TRUE) /\ launchedIn' = boot ELSE UNCHANGED <<procs, launchedIn>>
        /\ owner' = [owner EXCEPT !.pid = IF told THEN p ELSE None]
  BY Zenon DEF Launch
<1>3. UNCHANGED <<boot, manifest, seen>> /\ at' = "persist pid"
  BY Zenon DEF Launch, Go
<1>4. \A q \in Pids : Own(q)' => q = p /\ forked
  <2>1. CASE forked
    <3>1. \A q \in Pids : q # p => procs'[q] = procs[q]
      BY Zenon, <1>0, <1>2, <2>1 DEF Fork, PhoneTypes
    <3> QED BY Zenon, <1>1, <2>1, <3>1 DEF Own, Running
  <2>2. CASE ~forked
    BY Zenon, <1>1, <1>2, <2>2 DEF Own, Running
  <2> QED BY Zenon, <2>1, <2>2
<1>5. owner'.ticks = None /\ owner'.pid \in {p, None}
  BY <1>0, <1>1, <1>2 DEF IdentityTypes, Owners
<1>6. IdentifiesNext(owner') /\ IdentifiesNext(manifest')
  BY Zenon, <1>1, <1>3, <1>4, <1>5 DEF IdentifiesNext
<1>7. Running' => launchedIn' = boot'
  BY Zenon, <1>2, <1>3, <1>4 DEF Running
<1> QED BY Zenon, <1>1, <1>3, <1>4, <1>6, <1>7 DEF ProcessInv, Identifies, IdentifiesNext

(* Nothing before the launch starts or names a process, and nothing returns
   there.                                                                   *)
LEMMA EarlySteps ==
  ASSUME TypeOK, ProcessInv, EarlyInv, StepInv, Next
  PROVE  EarlyInv'
<1> SUFFICES ASSUME at' \in Early PROVE EarlyInv'
  BY Zenon DEF EarlyInv
<1>0. PhoneTypes /\ IdentityTypes
  BY Zenon DEF TypeOK
<1>1. ~Launch
  <2>1. "persist pid" \notin Early
    BY DEF Early
  <2> QED BY Zenon, <2>1, LaunchProcess
<1>2. Fewer /\ (Running' => Running)
  BY Zenon, <1>0, <1>1, FewerRun
<1>3. Torn.pid = None /\ Torn.ticks = None
  BY DEF Torn
<1>4. CASE Tick \/ StartForeign \/ Exit \/ Reboot
  BY Zenon, <1>2, <1>4 DEF Tick, StartForeign, Exit, Reboot, EarlyInv
<1>5. CASE ReadBoot
  <2>1. owner'.pid = owner.pid /\ owner'.ticks = owner.ticks
    BY <1>0, <1>5 DEF ReadBoot, IdentityTypes, Owners
  <2>2. at \in Early
    BY <1>5 DEF ReadBoot, Early
  <2> QED BY Zenon, <1>2, <1>5, <2>1, <2>2 DEF EarlyInv, ReadBoot
<1>6. CASE Truncate
  <2>1. at \in Early
    BY <1>6 DEF Truncate, Early
  <2> QED BY Zenon, <1>2, <1>3, <1>6, <2>1 DEF EarlyInv, Truncate
<1>7. CASE Write
  <2>1. at \in Early
    BY <1>7 DEF Write, Early
  <2> QED BY Zenon, <1>2, <1>7, <2>1 DEF EarlyInv, Write
<1>8. CASE ~(Tick \/ StartForeign \/ Exit \/ Reboot \/ ReadBoot \/ Truncate \/ Write)
  <2>1. ReadTicks \/ CheckBoot \/ CheckStat \/ CheckCommand \/ Stop \/ Kill \/ Wait \/ CommandFails
          \/ Interrupted \/ Recover \/ Failed \/ Establish \/ EstablishCommand \/ EstablishAfter
          \/ TraceExists \/ Download \/ Backup \/ Rename
    BY Zenon, <1>1, <1>8 DEF Next, Desktop
  <2>2. CASE CheckCommand
    BY <2>2 DEF CheckCommand, Early, StepInv, Alive
  <2>3. CASE ReadTicks \/ CheckBoot \/ CheckStat
    BY <2>3 DEF ReadTicks, CheckBoot, CheckStat, Go, Gone, Early
  <2>4. CASE Stop \/ Kill \/ Wait \/ CommandFails \/ Interrupted
    BY <2>4 DEF Stop, Kill, Wait, CommandFails, Interrupted, Go, AfterKill, Early
  <2>5. CASE Recover \/ Failed \/ EstablishCommand \/ EstablishAfter
    BY <2>5 DEF Recover, Failed, EstablishCommand, EstablishAfter, Go, Early
  <2>6. CASE Establish
    BY <2>6 DEF Establish, Early
  <2>7. CASE TraceExists \/ Download \/ Backup \/ Rename
    BY <2>7 DEF TraceExists, Download, Backup, Rename, Go, Early
  <2> QED BY Zenon, <2>1, <2>2, <2>3, <2>4, <2>5, <2>6, <2>7
<1> QED BY Zenon, <1>4, <1>5, <1>6, <1>7, <1>8

-----------------------------------------------------------------------------
(* The steps of the desktop *)

(* None is no identifier, time, trace or record. *)
LEMMA NoneIsApart ==
  /\ None \notin Pids /\ None \notin Nat /\ None # "complete"
  /\ None \notin Owners /\ None \notin Lifetimes /\ Torn \in Owners
<1>1. Torn \in Owners
  BY DEF Torn, Owners
<1> QED BY Zenon, <1>1, OwnershipAssumption DEF Owners, Lifetimes

(* What the checks of ownership establish about the process. *)
LEMMA Checks ==
  ASSUME TypeOK, ProcessInv, StepInv
  PROVE  /\ at = "alive stat" /\ (~Lives(owner.pid) \/ procs[owner.pid].ticks # owner.ticks) => ~Running
         /\ at = "establish command" /\ ~Own(seen.pid) => ~Running
         /\ manifest # None /\ boot # manifest.boot /\ launchedIn = manifest.boot => ~Running
<1>1. ASSUME at = "alive stat", Running PROVE Lives(owner.pid) /\ procs[owner.pid].ticks = owner.ticks
  <2>1. owner.pid # None /\ owner.ticks # None
    BY <1>1 DEF StepInv, Known
  <2> QED BY Zenon, <1>1, <2>1 DEF ProcessInv, Identifies, Running, Own, Lives
<1>2. ASSUME at = "establish command", Running PROVE Own(seen.pid)
  <2>1. seen # None
    BY Zenon, <1>2 DEF StepInv
  <2>2. seen.pid # None
    BY <2>1, OwnershipAssumption DEF TypeOK, IdentityTypes, Lifetimes
  <2> QED BY Zenon, <1>2, <2>1, <2>2 DEF ProcessInv, Identifies, Running
<1> QED BY Zenon, <1>1, <1>2 DEF ProcessInv

\* What depends on the step the desktop is at.
Safe ==
  /\ StepInv
  /\ OnlyOursIsSignalled /\ RetrievedAfterExit /\ RunningIsRecorded /\ CountersAreAlone

(* Steps of the phone. *)
LEMMA PhoneSafe ==
  ASSUME TypeOK, Safe, Tick \/ StartForeign \/ Exit \/ Reboot
  PROVE  Safe'
<1>1. UNCHANGED <<at, then, owner, manifest, seen, local, wronged, launchedIn>>
  BY Zenon DEF Tick, StartForeign, Exit, Reboot, host, history
<1>2. Running' => Running
  <2>1. ~Launch
    <3>1. "persist pid" # "launch"
      OBVIOUS
    <3> QED BY Zenon, <1>1, <3>1 DEF Launch, MayLaunch, Go
  <2> QED BY Zenon, <2>1, FewerRun DEF TypeOK, Next
<1>3. strangers' \subseteq strangers
  BY Zenon DEF Tick, StartForeign, Exit, Reboot, history
<1>4. ~Running => remote' = remote
  BY Zenon DEF Tick, StartForeign, Exit, Reboot, Running
<1>5. StepInv'
  BY Zenon, <1>1, <1>2, <1>3 DEF Safe, StepInv
<1> QED BY Zenon, <1>1, <1>2, <1>4, <1>5 DEF Safe, OnlyOursIsSignalled, RetrievedAfterExit,
     RunningIsRecorded, CountersAreAlone

(* The launch. *)
LEMMA LaunchSafe ==
  ASSUME TypeOK, ProcessInv, EarlyInv, Safe, Launch
  PROVE  Safe'
<1>1. at' = "persist pid" /\ manifest' # None
  BY Zenon, LaunchProcess DEF Safe
<1>2. wronged' = wronged
  BY Zenon DEF Launch
<1>3. StepInv'
  BY <1>1 DEF StepInv, Known, Alive
<1> QED BY <1>1, <1>2, <1>3 DEF Safe, OnlyOursIsSignalled, RetrievedAfterExit, RunningIsRecorded,
     CountersAreAlone

(* The other steps of the desktop. *)
LEMMA DesktopSafe ==
  ASSUME TypeOK, ProcessInv, EarlyInv, Safe, Desktop, ~Launch
  PROVE  Safe'
<1>0. DesktopKeeps /\ (Running' <=> Running)
  BY Zenon, QuietSteps DEF DesktopKeeps, Running, Own
<1>1. /\ at = "alive stat" /\ (~Lives(owner.pid) \/ procs[owner.pid].ticks # owner.ticks) => ~Running
      /\ at = "establish command" /\ ~Own(seen.pid) => ~Running
      /\ manifest # None /\ boot # manifest.boot /\ launchedIn = manifest.boot => ~Running
  BY Zenon, Checks DEF Safe
<1> USE DEF Safe, DesktopKeeps, OnlyOursIsSignalled, RetrievedAfterExit, RunningIsRecorded,
     CountersAreAlone, StepInv, Known, Alive, host, history
<1>2. CASE ReadBoot
  BY <1>0, <1>2 DEF ReadBoot, Go
<1>3. CASE Truncate
  <2>1. manifest' # None
    BY Zenon, <1>3, NoneIsApart DEF Truncate
  <2> QED BY <1>0, <1>3, <2>1 DEF Truncate
<1>4. CASE Write
  <2>1. manifest' # None
    BY Zenon, <1>4, NoneIsApart DEF Write, TypeOK, IdentityTypes
  <2> QED BY <1>0, <1>4, <2>1 DEF Write
<1>5. CASE ReadTicks
  <2>1. CASE at' = "failed"
    BY <1>0, <1>5, <2>1 DEF ReadTicks
  <2>2. CASE owner.pid # None /\ Lives(owner.pid) /\ at' = "persist ticks"
             /\ owner' = [owner EXCEPT !.ticks = procs[owner.pid].ticks]
    <3>1. owner \in Owners /\ owner.pid \in Pids
      BY <2>2 DEF TypeOK, IdentityTypes, Owners
    <3>2. procs[owner.pid] \in Processes
      BY Zenon, <2>2, <3>1 DEF TypeOK, PhoneTypes, Lives
    <3>3. owner'.pid # None /\ owner'.ticks # None
      BY <2>2, <3>1, <3>2, NoneIsApart DEF Owners, Processes
    <3> QED BY <1>0, <1>5, <2>2, <3>3 DEF ReadTicks
  <2> QED BY Zenon, <1>5, <2>1, <2>2 DEF ReadTicks, Go
<1>6. CASE CheckBoot
  BY <1>0, <1>6 DEF CheckBoot, Go
<1>7. CASE CheckStat
  BY <1>0, <1>1, <1>7 DEF CheckStat, Go, Gone
<1>8. CASE CheckCommand
  <2>1. CASE Own(owner.pid)
    <3>1. at' = then /\ owner.pid \notin strangers'
      BY Zenon, <1>8, <2>1 DEF CheckCommand, NamesTrace
    <3> QED BY <1>0, <1>8, <3>1 DEF CheckCommand
  <2>2. CASE ~Own(owner.pid)
    <3>1. at' = "failed"
      BY Zenon, <1>8, <2>2 DEF CheckCommand, NamesTrace
    <3> QED BY <1>0, <1>8, <3>1 DEF CheckCommand
  <2> QED BY Zenon, <2>1, <2>2
<1>9. CASE Stop
  BY <1>0, <1>9 DEF Stop
<1>10. CASE Kill
  BY <1>0, <1>10 DEF Kill, AfterKill
<1>11. CASE Wait
  BY <1>0, <1>11 DEF Wait
<1>12. CASE CommandFails
  BY <1>0, <1>12 DEF CommandFails, Go
<1>13. CASE Interrupted
  BY <1>0, <1>13 DEF Interrupted
<1>14. CASE Recover
  BY <1>0, <1>1, <1>14 DEF Recover, Readable
<1>15. CASE Failed
  BY <1>0, <1>15 DEF Failed
<1>16. CASE Establish
  <2>1. at' = "establish command" => seen' # None
    <3>1. ASSUME NEW p \in Pids, Own(p), seen' = [pid |-> p, ticks |-> procs[p].ticks]
          PROVE  seen' # None
      <4>1. procs[p] \in Processes
        BY Zenon, <3>1 DEF TypeOK, PhoneTypes, Own
      <4>2. [pid |-> p, ticks |-> procs[p].ticks] \in Lifetimes
        BY <4>1 DEF Lifetimes, Processes
      <4> QED BY Zenon, <3>1, <4>2, NoneIsApart
    <3>2. "establish command" \notin {"alive", "failed", "exists", "pull"}
      OBVIOUS
    <3> QED BY Zenon, <1>16, <3>1, <3>2 DEF Establish
  <2> QED BY <1>0, <1>16, <2>1 DEF Establish, Enumerated
<1>17. CASE EstablishCommand
  BY <1>0, <1>1, <1>17 DEF EstablishCommand, Go
<1>18. CASE EstablishAfter
  <2>1. CASE at' = "failed"
    BY <1>0, <1>18, <2>1 DEF EstablishAfter
  <2>2. CASE at' = "persist found" /\ owner' = [owner EXCEPT !.pid = seen.pid, !.ticks = seen.ticks]
    <3>1. owner \in Owners /\ seen \in Lifetimes
      BY Zenon, <1>18 DEF EstablishAfter, TypeOK, IdentityTypes
    <3>2. owner'.pid # None /\ owner'.ticks # None
      BY <2>2, <3>1, NoneIsApart DEF Owners, Lifetimes
    <3> QED BY <1>0, <1>18, <2>2, <3>2 DEF EstablishAfter
  <2> QED BY Zenon, <1>18, <2>1, <2>2 DEF EstablishAfter, Go
<1>19. CASE TraceExists
  BY <1>0, <1>19 DEF TraceExists, Go
<1>20. CASE Download
  BY <1>0, <1>20 DEF Download, Go
<1>21. CASE Backup
  BY <1>0, <1>21 DEF Backup, Go
<1>22. CASE Rename
  BY <1>0, <1>22 DEF Rename, Go
<1> QED BY Zenon, <1>2, <1>3, <1>4, <1>5, <1>6, <1>7, <1>8, <1>9, <1>10, <1>11, <1>12,
     <1>13, <1>14, <1>15, <1>16, <1>17, <1>18, <1>19, <1>20, <1>21, <1>22 DEF Desktop

-----------------------------------------------------------------------------
(* The theorems *)

(* The invariant holds throughout. *)
LEMMA Invariance == Spec => []IInv
<1>1. Init => IInv
  <2> SUFFICES ASSUME Init PROVE IInv
    OBVIOUS
  <2>0. \A p \in Pids : ~Own(p)
    BY Zenon DEF Init, Own
  <2>1. PhoneTypes
    <3>1. procs \in [Pids -> Processes \cup {None}]
      BY Zenon DEF Init
    <3> QED BY <3>1 DEF Init, PhoneTypes, Traces
  <2>2. StepTypes /\ HostTypes
    BY DEF Init, StepTypes, HostTypes, Traces, Places, Early
  <2>3. IdentityTypes
    BY Zenon, NoneIsApart DEF Init, IdentityTypes
  <2>4. ProcessInv
    BY Zenon, <2>0 DEF Init, ProcessInv, Identifies, Running
  <2>5. EarlyInv
    <3>1. Torn.pid = None /\ Torn.ticks = None
      BY DEF Torn
    <3> QED BY Zenon, <2>0, <3>1 DEF Init, EarlyInv, Running
  <2>6. StepInv /\ OnlyOursIsSignalled /\ CountersAreAlone
    BY DEF Init, StepInv, Known, Alive, OnlyOursIsSignalled, CountersAreAlone
  <2>7. RetrievedAfterExit /\ RunningIsRecorded
    BY Zenon, <2>0 DEF RetrievedAfterExit, RunningIsRecorded, Running
  <2> QED BY Zenon, <2>1, <2>2, <2>3, <2>4, <2>5, <2>6, <2>7 DEF IInv, TypeOK
<1>2. IInv /\ [Next]_vars => IInv'
  <2> SUFFICES ASSUME IInv, [Next]_vars PROVE IInv'
    OBVIOUS
  <2>1. CASE Next
    <3>1. TypeOK /\ ProcessInv /\ EarlyInv /\ Safe
      BY Zenon DEF IInv, Safe
    <3>2. TypeOK'
      BY Zenon, <2>1, <3>1, PhoneSteps, PlaceSteps, IdentitySteps, HostSteps DEF TypeOK, Safe
    <3>3. ProcessInv'
      BY Zenon, <2>1, <3>1, ProcessSteps, LaunchProcess DEF Safe
    <3>4. EarlyInv'
      BY Zenon, <2>1, <3>1, EarlySteps DEF Safe
    <3>5. Safe'
      BY Zenon, <2>1, <3>1, PhoneSafe, LaunchSafe, DesktopSafe DEF Next
    <3> QED BY Zenon, <3>2, <3>3, <3>4, <3>5 DEF IInv, Safe
  <2>2. CASE UNCHANGED vars
    <3>1. TypeOK'
      BY Zenon, <2>2 DEF vars, IInv, TypeOK, PhoneTypes, StepTypes, IdentityTypes, HostTypes
    <3>2. ProcessInv' /\ EarlyInv'
      BY Zenon, <2>2 DEF vars, IInv, ProcessInv, EarlyInv, Identifies, Running, Own
    <3>3. StepInv'
      BY Zenon, <2>2 DEF vars, IInv, StepInv, Running, Own
    <3>4. OnlyOursIsSignalled' /\ RetrievedAfterExit' /\ RunningIsRecorded' /\ CountersAreAlone'
      BY Zenon, <2>2 DEF vars, IInv, OnlyOursIsSignalled, RetrievedAfterExit, RunningIsRecorded,
         CountersAreAlone, Running, Own
    <3> QED BY Zenon, <3>1, <3>2, <3>3, <3>4 DEF IInv
  <2> QED BY Zenon, <2>1, <2>2
<1> QED BY <1>1, <1>2, PTL DEF Spec

(* The manifest, the owner in memory and the traces are of their types. *)
THEOREM TypeCorrect == Spec => []TypeOK
<1>1. IInv => TypeOK
  BY Zenon DEF IInv
<1> QED BY <1>1, Invariance, PTL

(* perfetto_capture.rs: for any number of process identifiers, reboots, reused
   identifiers, foreign processes, failing commands and kills of the desktop,
   only the capture's process is signalled, its trace is retrieved after its end,
   it is on record while it runs, counters start only without it, and a complete
   trace makes room only for a complete one and is kept beside it.          *)
THEOREM OwnershipCorrect == Spec => CaptureIsOwned
<1>1. IInv => OnlyOursIsSignalled /\ RetrievedAfterExit /\ RunningIsRecorded /\ CountersAreAlone
  BY Zenon DEF IInv
<1>2. IInv /\ [Next]_vars
        => [local = "complete" /\ local' # "complete"
              => local' = None /\ staging = "complete" /\ "complete" \in backups']_<<local, staging, backups>>
  <2> SUFFICES ASSUME IInv, [Next]_vars, local = "complete", local' # "complete"
               PROVE  local' = None /\ staging = "complete" /\ "complete" \in backups'
    BY Zenon
  <2>1. None # "complete"
    BY Zenon, NoneIsApart
  <2>2. ~Rename
    BY Zenon, <2>1 DEF Rename, IInv, StepInv
  <2>3. Backup
    BY Zenon, <2>2 DEF Next, vars, host, Desktop, Tick, StartForeign, Exit, Reboot, ReadBoot, Truncate, Write,
       Launch, ReadTicks, CheckBoot, CheckStat, CheckCommand, Stop, Kill, Wait, CommandFails, Interrupted,
       Recover, Failed, Establish, EstablishCommand, EstablishAfter, TraceExists, Download
  <2> QED BY Zenon, <2>1, <2>3 DEF Backup, MayReplace
<1> QED BY <1>1, <1>2, Invariance, PTL DEF Spec, CaptureIsOwned, CompleteIsKept
=============================================================================
