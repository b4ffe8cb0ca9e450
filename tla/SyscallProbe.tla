----------------------------- MODULE SyscallProbe -----------------------------
(***************************************************************************)
(* File I/O records: the programs on raw_syscalls:sys_enter and sys_exit   *)
(* (crates/android-ebpf/src/main.rs) join the two ends of a read, write,   *)
(* pread64 or pwrite64 in FILE_STARTS, and the collector                   *)
(* (crates/android-agent/src/main.rs: parse_kernel_event) looks the path   *)
(* up under /proc while the process goes on opening and closing            *)
(* descriptors.                                                            *)
(*                                                                         *)
(* A missed callback is a program run the kernel skipped.  The fields      *)
(* `call`, `exit` and `missed` and the variable `swaps` are history.       *)
(***************************************************************************)
EXTENDS Naturals, Sequences, FiniteSets, SequencesExt

CONSTANTS
  Threads,
  Fds,
  Files,           (* files, by path                                        *)
  InodeOf,         (* the device and inode of each file; a deleted file's may be reused *)
  StartsCapacity,  (* max_entries of FILE_STARTS                            *)
  QueueCapacity,   (* FileIo records the ring holds                         *)
  MaxCalls,        (* bound on the calls                                    *)
  MaxSwaps,        (* bound on the descriptors reopened                     *)
  None

Syscalls == {"read", "pread", "other"}
Traced == {"read", "pread"}

VARIABLES
  running,  (* running[t]: the system call thread t is in                    *)
  made,     (* calls made so far                                             *)
  fdFile,   (* the file each descriptor refers to                            *)
  swapped,  (* descriptors reopened so far                                   *)
  starts,   (* FILE_STARTS                                                   *)
  queue,    (* FileIo records in the ring                                    *)
  lookup,   (* the record whose path is being resolved                       *)
  report    (* the FileIo event the last step produced                       *)

vars == <<running, made, fdFile, swapped, starts, queue, lookup, report>>

Identity(fd) == IF fdFile[fd] = None THEN None ELSE InodeOf[fdFile[fd]]

Init ==
  /\ running = [t \in Threads |-> None]
  /\ made = 0
  /\ fdFile \in [Fds -> Files]
  /\ swapped = 0
  /\ starts = <<>>
  /\ queue = <<>>
  /\ lookup = None
  /\ report = None

-----------------------------------------------------------------------------
(* The programs.                                                           *)

\* A filtered entry that leaves the pending call.
SupersedeTraced(t, traced) ==
  IF traced THEN Restrict(starts, DOMAIN starts \ {t}) ELSE starts

\* Every observed entry supersedes a pending call.
Supersede(t, traced) == Restrict(starts, DOMAIN starts \ {t})

\* A callback the kernel skipped leaves a pending call as it is.
Missed(t) ==
  [u \in DOMAIN starts |->
     IF u = t THEN [starts[u] EXCEPT !.missed = @ + 1] ELSE starts[u]]

\* capture_sys_enter and syscall_fd_identity; `passes` is the filter, and
\* `known` whether the descriptor table could be read.
CaptureSysEnter(t, id, fd, passes, known) ==
  LET traced == id \in Traced /\ passes
      rest   == Supersede(t, traced)
  IN starts' =
       IF traced /\ Cardinality(DOMAIN rest) < StartsCapacity
       THEN [u \in DOMAIN rest \cup {t} |->
               IF u # t THEN rest[u]
               ELSE [syscall |-> id, fd |-> fd, inode |-> IF known THEN Identity(fd) ELSE None,
                     call |-> made + 1, missed |-> 0]]
       ELSE rest

SysEnter(t, id, fd, seen, passes, known) ==
  /\ running[t] = None /\ made < MaxCalls
  /\ made' = made + 1
  /\ running' = [running EXCEPT ![t] = [syscall |-> id, call |-> made + 1]]
  /\ IF seen THEN CaptureSysEnter(t, id, fd, passes, known) ELSE starts' = Missed(t)
  /\ report' = None
  /\ UNCHANGED <<fdFile, swapped, queue, lookup>>

AnyReturn(id, start) == TRUE

\* A lost exit must not consume a later, unrelated return value.
SameSyscall(id, start) == id = start.syscall

\* An exit that removes the entry only when it reports.
CaptureDetail(t, detail) ==
  IF t \notin DOMAIN starts \/ ~detail THEN UNCHANGED <<starts, queue>>
  ELSE starts' = Restrict(starts, DOMAIN starts \ {t}) /\ queue' = queue

\* capture_sys_exit; `detail` is what mode, threshold, sampling and errors say.
CaptureSysExit(t, detail) ==
  IF t \notin DOMAIN starts THEN UNCHANGED <<starts, queue>>
  ELSE /\ starts' = Restrict(starts, DOMAIN starts \ {t})
       /\ queue' = IF /\ SameSyscall(running[t].syscall, starts[t])
                      /\ detail /\ Len(queue) < QueueCapacity
                   THEN Append(queue, [fd |-> starts[t].fd, inode |-> starts[t].inode,
                                       call |-> starts[t].call, exit |-> running[t].call,
                                       missed |-> starts[t].missed])
                   ELSE queue

SysExit(t, seen, detail) ==
  /\ running[t] # None
  /\ running' = [running EXCEPT ![t] = None]
  /\ IF seen THEN CaptureSysExit(t, detail) ELSE starts' = Missed(t) /\ queue' = queue
  /\ report' = None
  /\ UNCHANGED <<made, fdFile, swapped, lookup>>

-----------------------------------------------------------------------------
(* The process closes and reopens a descriptor.                            *)

Swap(fd, f) ==
  /\ swapped < MaxSwaps
  /\ f # fdFile[fd]
  /\ fdFile' = [fdFile EXCEPT ![fd] = f]
  /\ swapped' = swapped + 1
  /\ lookup' = IF lookup # None /\ lookup.fd = fd THEN [lookup EXCEPT !.swaps = @ + 1] ELSE lookup
  /\ report' = None
  /\ UNCHANGED <<running, made, starts, queue>>

-----------------------------------------------------------------------------
(* parse_kernel_event, KIND_FILE_IO.                                       *)

\* fd_identity_matches
Matches(inode, fd) == inode # None /\ Identity(fd) = inode

Event(record, path, swaps) ==
  [call |-> record.call, exit |-> record.exit, missed |-> record.missed,
   inode |-> record.inode, path |-> path, swaps |-> swaps]

\* resolve_fd_identity before the path is read
FirstIdentity ==
  /\ lookup = None /\ queue # <<>>
  /\ queue' = Tail(queue)
  /\ LET record == Head(queue) IN
     IF Matches(record.inode, record.fd)
     THEN /\ lookup' = [record |-> record, fd |-> record.fd, step |-> "readlink",
                        path |-> None, swaps |-> 0]
          /\ report' = None
     ELSE /\ report' = Event(record, None, 0)
          /\ lookup' = None
  /\ UNCHANGED <<running, made, fdFile, swapped, starts>>

\* resolve_fd_path
ReadLink ==
  /\ lookup # None /\ lookup.step = "readlink"
  /\ lookup' = [lookup EXCEPT !.step = "again", !.path = fdFile[lookup.fd]]
  /\ report' = None
  /\ UNCHANGED <<running, made, fdFile, swapped, starts, queue>>

Trusted == lookup.path

\* The path is dropped if the identity differs after readlink.
Checked == IF Matches(lookup.record.inode, lookup.fd) THEN lookup.path ELSE None

SecondIdentity ==
  /\ lookup # None /\ lookup.step = "again"
  /\ report' = Event(lookup.record, Checked, lookup.swaps)
  /\ lookup' = None
  /\ UNCHANGED <<running, made, fdFile, swapped, starts, queue>>

-----------------------------------------------------------------------------
Next ==
  \/ \E t \in Threads, id \in Syscalls, fd \in Fds, seen, passes, known \in BOOLEAN :
       SysEnter(t, id, fd, seen, passes, known)
  \/ \E t \in Threads, seen, detail \in BOOLEAN : SysExit(t, seen, detail)
  \/ \E fd \in Fds, f \in Files \cup {None} : Swap(fd, f)
  \/ FirstIdentity
  \/ ReadLink
  \/ SecondIdentity

Spec == Init /\ [][Next]_vars

-----------------------------------------------------------------------------
(* A FileIo event joins the entry and the exit of one system call unless   *)
(* the kernel skipped two callbacks of the thread in between: one missed   *)
(* entry or exit is always noticed (capture_sys_enter supersedes,          *)
(* capture_sys_exit compares the call number).                             *)
FileIoIsOneCall ==
  report # None /\ report.call # report.exit => report.missed >= 2

(* The path of a FileIo event names a file with the inode the call was     *)
(* entered with, unless the descriptor was reopened at least twice while   *)
(* the collector resolved it (parse_kernel_event checks the identity       *)
(* before and after readlink).                                             *)
PathIsOfTheInode ==
  report # None /\ report.path # None =>
    InodeOf[report.path] = report.inode \/ report.swaps >= 2

(* FILE_STARTS keeps an entry of a thread outside of system calls only     *)
(* after a missed exit, and never more than one per thread: nothing else   *)
(* fills the map (capture_sys_exit removes before it decides).             *)
StartsAreLive ==
  \A t \in DOMAIN starts :
    \/ running[t] # None /\ running[t].call = starts[t].call
    \/ starts[t].missed > 0

(* A FileIo event is of one call and its path of the inode that call was   *)
(* entered with, and FILE_STARTS holds nothing but live calls and what     *)
(* missed exits left.                                                      *)
FileIoIsTrue ==
  /\ FileIoIsOneCall
  /\ PathIsOfTheInode
  /\ StartsAreLive
=============================================================================
