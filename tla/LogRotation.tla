----------------------------- MODULE LogRotation -----------------------------
(***************************************************************************)
(* The rotated diagnostic log (RotatingJsonl, diagnostics.rs).  A rotation *)
(* is a row of removals and renames; any of them may fail, which fails the *)
(* append, or the program may end there and open the log anew.  The open   *)
(* file keeps its content whatever it is called, so names and files are    *)
(* kept apart.  Records have size one.                                     *)
(***************************************************************************)
EXTENDS Naturals, Sequences, FiniteSets, SequencesExt

CONSTANTS
  MaxFiles,      (* max_files: names 1 .. MaxFiles beside the log, name 0    *)
  MaxBytes,      (* max_bytes                                                *)
  MaxRecords, MaxFaults,   (* bounds                                         *)
  None

VARIABLES
  name,          (* the file under each name, None if there is none          *)
  content,       (* records of the files                                     *)
  log,           (* [file, bytes] of the writer, None while it is closed     *)
  step,          (* None, or [do, at]: the next step of a rotation            *)
  written,       (* record |-> rotations begun before it                     *)
  rotations, faults

vars == <<name, content, log, step, written, rotations, faults>>

Init ==
  /\ name = [i \in 0 .. MaxFiles |-> IF i = 0 THEN 1 ELSE None]
  /\ content = <<<<>>>>
  /\ log = [file |-> 1, bytes |-> 0]
  /\ step = None /\ written = <<>> /\ rotations = 0 /\ faults = 0

-----------------------------------------------------------------------------
\* The size of a log that was there is not known.
OpenedEmpty(file) == [file |-> file, bytes |-> 0]
Opened(file) == [file |-> file, bytes |-> Len(content'[file])]

(* open_append creates the file if there is none.                          *)
OpenAppend ==
  IF name[0] = None
  THEN /\ content' = Append(content, <<>>)
       /\ name' = [name EXCEPT ![0] = Len(content')]
       /\ log' = Opened(Len(content'))
  ELSE /\ UNCHANGED <<name, content>>
       /\ log' = Opened(name[0])

WithLimits ==
  /\ log = None /\ OpenAppend
  /\ UNCHANGED <<step, written, rotations, faults>>

Write(file) ==
  /\ Len(written) < MaxRecords
  /\ content' = [content EXCEPT ![file] = Append(@, Len(written) + 1)]
  /\ written' = Append(written, rotations)

To(do, at) == [do |-> do, at |-> at]
Doing(do) == step # None /\ step.do = do
MustRotate == log.bytes > 0 /\ log.bytes + 1 > MaxBytes

AppendRecord ==
  /\ log # None /\ step = None
  /\ IF MustRotate
     THEN /\ rotations' = rotations + 1 /\ step' = To("shift", MaxFiles - 1)
          /\ UNCHANGED <<content, log, written>>
     ELSE /\ Write(log.file) /\ log' = [log EXCEPT !.bytes = @ + 1]
          /\ UNCHANGED <<step, rotations>>
  /\ UNCHANGED <<name, faults>>

\* The file stays under its old name, too.
Copied(from, to) == [name EXCEPT ![to] = name[from]]
Moved(from, to) == [name EXCEPT ![to] = name[from], ![from] = None]

\* The oldest log is not among those that move up.
ShiftBelow(i) == IF name[i] # None /\ i + 1 < MaxFiles THEN Moved(i, i + 1) ELSE name
Shift(i) == IF name[i] # None THEN Moved(i, i + 1) ELSE name

(* A rename onto another name removes it first.                            *)
Rotate ==
  /\ Doing("shift") /\ step.at > 0
  /\ IF name[step.at] # None /\ name[step.at + 1] # None
     THEN name' = [name EXCEPT ![step.at + 1] = None] /\ UNCHANGED step
     ELSE name' = Shift(step.at) /\ step' = To("shift", step.at - 1)
  /\ UNCHANGED <<content, log, written, rotations, faults>>

RotateCurrent ==
  /\ Doing("shift") /\ step.at = 0
  /\ IF name[1] # None
     THEN name' = [name EXCEPT ![1] = None] /\ UNCHANGED step
     ELSE name' = (IF name[0] # None THEN Moved(0, 1) ELSE name) /\ step' = To("open", 0)
  /\ UNCHANGED <<content, log, written, rotations, faults>>

(* The append goes on with the new log.                                    *)
Reopen ==
  /\ Doing("open") /\ OpenAppend /\ step' = To("write", 0)
  /\ UNCHANGED <<written, rotations, faults>>

WriteRotated ==
  /\ Doing("write") /\ Write(log.file) /\ step' = None
  /\ log' = [log EXCEPT !.bytes = 1]
  /\ UNCHANGED <<name, rotations, faults>>

(* A step fails and the append with it, or the program ends.               *)
Fail ==
  /\ step # None /\ faults < MaxFaults /\ faults' = faults + 1 /\ step' = None
  /\ UNCHANGED <<name, content, log, written, rotations>>

Crash ==
  /\ log # None /\ faults < MaxFaults /\ faults' = faults + 1
  /\ log' = None /\ step' = None
  /\ UNCHANGED <<name, content, written, rotations>>

Next ==
  \/ WithLimits \/ AppendRecord \/ Rotate \/ RotateCurrent \/ Reopen \/ WriteRotated
  \/ Fail \/ Crash
Spec == Init /\ [][Next]_vars

-----------------------------------------------------------------------------
Files == [i \in 1 .. MaxFiles + 1 |-> IF name[MaxFiles + 1 - i] = None THEN <<>> ELSE content[name[MaxFiles + 1 - i]]]
Records == FlattenSeq(Files)

(* From the highest name to the log itself the records are in the order in *)
(* which they were appended, whatever failed.                              *)
OrderIsKept == \A i, j \in DOMAIN Records : i < j => Records[i] < Records[j]

(* rotate: a record is removed at the earliest by the rotation after those *)
(* that took it through all the names.                                     *)
RecentAreKept ==
  \A r \in DOMAIN written : rotations - written[r] <= MaxFiles => r \in ToSet(Records)

(* append: no file grows past its limit, also when the log was there       *)
(* before the program was.                                                 *)
FilesAreBounded == \A f \in DOMAIN content : Len(content[f]) <= MaxBytes

(* Through failing renames and crashes the rotated log keeps the order of  *)
(* its records, the recent ones and its bounds.                            *)
LogIsKept ==
  /\ OrderIsKept
  /\ RecentAreKept
  /\ FilesAreBounded
=============================================================================
