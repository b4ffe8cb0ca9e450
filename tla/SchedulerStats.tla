---------------------------- MODULE SchedulerStats ----------------------------
(***************************************************************************)
(* The kernel's scheduler accounting switch, shared by every collector on  *)
(* the device (crates/android-agent/src/scheduler_stats.rs).               *)
(*                                                                         *)
(* Each capture reads the switch, turns it on if it found it off, and on   *)
(* leaving turns it off again if it was the one that turned it on: by      *)
(* restore at the end of the capture and, when that or anything before it  *)
(* failed, by Drop.  Reads and writes of the file are separate steps that  *)
(* may fail; something else on the device may write it once.               *)
(***************************************************************************)
EXTENDS Naturals, TLAPS

CONSTANTS Collectors

VARIABLES
  switch,     (* what the file holds                                        *)
  first,      (* what it held before any capture                            *)
  pc,         (* the step of each collector                                 *)
  owns,       (* owns_enable                                                *)
  dropping,   (* the attempt to restore is that of Drop, the last           *)
  unrestored, (* the last attempt of a collector could not read or write    *)
  outside     (* something else wrote the file                              *)

vars == <<switch, first, pc, owns, dropping, unrestored, outside>>

Init ==
  /\ switch \in {"0", "1"} /\ first = switch
  /\ pc = [c \in Collectors |-> "start"]
  /\ owns = [c \in Collectors |-> FALSE]
  /\ dropping = [c \in Collectors |-> FALSE]
  /\ unrestored = FALSE /\ outside = FALSE

Go(c, from, to) == pc[c] = from /\ pc' = [pc EXCEPT ![c] = to]

\* A collector that takes the switch whatever it found.
OwnAlways(c) == TRUE
Owns(c) == switch = "0"

\* What cannot be read is captured without a guard.
ReadBefore(c) ==
  /\ \/ /\ Go(c, "start", IF switch = "0" THEN "write" ELSE "capture")
        /\ owns' = [owns EXCEPT ![c] = Owns(c)]
     \/ Go(c, "start", "capture") /\ UNCHANGED owns
  /\ UNCHANGED <<switch, first, dropping, unrestored, outside>>

\* An error drops the guard.
DropGuard(c, from) == Go(c, from, "restore") /\ dropping' = [dropping EXCEPT ![c] = TRUE]

WriteOn(c) ==
  /\ \/ Go(c, "write", "verify") /\ switch' = "1" /\ UNCHANGED dropping
     \/ DropGuard(c, "write") /\ UNCHANGED switch
  /\ UNCHANGED <<first, owns, unrestored, outside>>

VerifyOn(c) ==
  /\ \/ switch = "1" /\ Go(c, "verify", "capture") /\ UNCHANGED dropping
     \/ DropGuard(c, "verify")
  /\ UNCHANGED <<switch, first, owns, unrestored, outside>>

Stop(c) ==
  /\ (Go(c, "capture", "restore") /\ UNCHANGED dropping) \/ DropGuard(c, "capture")
  /\ UNCHANGED <<switch, first, owns, unrestored, outside>>

\* The guard has nothing left to restore.
Restored(c, from) ==
  /\ Go(c, from, "done")
  /\ owns' = [owns EXCEPT ![c] = FALSE]
  /\ dropping' = [dropping EXCEPT ![c] = FALSE]

\* An attempt that fails keeps owns_enable; Drop makes the next and the last.
Again(c, from) ==
  /\ Go(c, from, IF dropping[c] THEN "done" ELSE "restore")
  /\ owns' = [owns EXCEPT ![c] = ~dropping[c]]
  /\ dropping' = [dropping EXCEPT ![c] = ~dropping[c]]

Restore(c) ==
  /\ \/ owns[c] /\ switch = "1" /\ Go(c, "restore", "off") /\ UNCHANGED <<owns, dropping>>
     \/ ~(owns[c] /\ switch = "1") /\ Restored(c, "restore")
  /\ UNCHANGED <<switch, first, unrestored, outside>>

WriteOff(c) ==
  /\ Go(c, "off", "verify_off")
  /\ switch' = "0"
  /\ UNCHANGED <<first, owns, dropping, unrestored, outside>>

RestoreFails(c) ==
  /\ owns[c] /\ (Again(c, "restore") \/ Again(c, "off"))
  /\ unrestored' = (unrestored \/ dropping[c])
  /\ UNCHANGED <<switch, first, outside>>

\* Something else than "0" is read back, or nothing.
VerifyOff(c) ==
  /\ (switch = "0" /\ Restored(c, "verify_off")) \/ Again(c, "verify_off")
  /\ UNCHANGED <<switch, first, unrestored, outside>>

(* The next capture of this collector.                                     *)
NextCapture(c) ==
  /\ Go(c, "done", "start")
  /\ UNCHANGED <<switch, first, owns, dropping, unrestored, outside>>

Outside ==
  /\ ~outside /\ outside' = TRUE
  /\ switch' \in {"0", "1"}
  /\ UNCHANGED <<first, pc, owns, dropping, unrestored>>

Step(c) ==
  \/ ReadBefore(c) \/ WriteOn(c) \/ VerifyOn(c) \/ Stop(c) \/ Restore(c) \/ WriteOff(c)
  \/ RestoreFails(c) \/ VerifyOff(c) \/ NextCapture(c)

Next == (\E c \in Collectors : Step(c)) \/ Outside

Spec == Init /\ [][Next]_vars

(* When no capture is running the switch is as it was before the first,    *)
(* however many captures overlapped, unless something else wrote it or a   *)
(* collector could not read or write it when its guard was dropped         *)
(* (SchedulerStatsGuard::restore).                                         *)
SwitchRestored ==
  ~outside /\ ~unrestored /\ (\A c \in Collectors : pc[c] \in {"start", "done"}) => switch = first

-----------------------------------------------------------------------------
(* Proof, for any number of collectors *)

Places == {"start", "write", "verify", "capture", "restore", "off", "verify_off", "done"}
TypeOK ==
  /\ switch \in {"0", "1"} /\ first \in {"0", "1"} /\ outside \in BOOLEAN /\ unrestored \in BOOLEAN
  /\ pc \in [Collectors -> Places] /\ owns \in [Collectors -> BOOLEAN]
  /\ dropping \in [Collectors -> BOOLEAN]

\* A switch that was off is on only while some owner is yet to turn it off: one
\* that reads back what another wrote may give up, but the other has not.  A
\* switch that was on is never owned.
OwnersInv ==
  /\ TypeOK
  /\ \A c \in Collectors : pc[c] \in {"write", "verify", "off", "verify_off"} => owns[c]
  /\ \A c \in Collectors : pc[c] \in {"start", "done"} => ~owns[c]
  /\ ~outside /\ first = "1" => switch = "1" /\ \A c \in Collectors : ~owns[c]
  /\ ~outside /\ ~unrestored /\ first = "0" /\ switch = "1" =>
       \E c \in Collectors : owns[c] /\ pc[c] \in {"verify", "capture", "restore", "off"}

(* A step of one collector keeps the invariant. *)
LEMMA StepKeepsOwners ==
  ASSUME OwnersInv, NEW c \in Collectors, Step(c)
  PROVE  OwnersInv'
<1> DEFINE Others == \A d \in Collectors : d # c => (owns'[d] <=> owns[d])
           Typed == owns' \in [Collectors -> BOOLEAN] /\ dropping' \in [Collectors -> BOOLEAN]
<1>0. TypeOK /\ UNCHANGED <<first, outside>>
  BY Zenon DEF Step, OwnersInv, ReadBefore, WriteOn, VerifyOn, Stop, Restore, WriteOff, RestoreFails, VerifyOff,
               NextCapture
<1>1. ASSUME NEW o \in BOOLEAN, owns' = [owns EXCEPT ![c] = o]
      PROVE  owns' \in [Collectors -> BOOLEAN] /\ (owns'[c] <=> o) /\ Others
  BY Zenon, <1>0, <1>1 DEF TypeOK
<1>2. ASSUME NEW o \in BOOLEAN, dropping' = [dropping EXCEPT ![c] = o]
      PROVE  dropping' \in [Collectors -> BOOLEAN]
  BY Zenon, <1>0, <1>2 DEF TypeOK
<1>3. ASSUME NEW from, DropGuard(c, from)
      PROVE  Go(c, from, "restore") /\ dropping' \in [Collectors -> BOOLEAN]
  BY Zenon, <1>2, <1>3 DEF DropGuard
<1>4. ASSUME NEW from, Restored(c, from)
      PROVE  Go(c, from, "done") /\ Typed /\ ~owns'[c] /\ Others
  BY Zenon, <1>1, <1>2, <1>4 DEF Restored
<1>5. ASSUME NEW from, Again(c, from)
      PROVE  /\ (Go(c, from, "done") /\ dropping[c] /\ ~owns'[c]) \/ (Go(c, from, "restore") /\ owns'[c])
             /\ Typed /\ Others
  <2>1. dropping[c] \in BOOLEAN /\ (~dropping[c]) \in BOOLEAN
    BY Zenon, <1>0 DEF TypeOK
  <2>2. Typed /\ (owns'[c] <=> ~dropping[c]) /\ Others
    BY Zenon, <1>1, <1>2, <1>5, <2>1 DEF Again
  <2>3. Go(c, from, IF dropping[c] THEN "done" ELSE "restore")
    BY Zenon, <1>5 DEF Again
  <2> QED BY Zenon, <2>1, <2>2, <2>3
<1> USE DEF OwnersInv, TypeOK, Places, Go
<1>6. CASE ReadBefore(c)
  <2>1. CASE Go(c, "start", "capture") /\ UNCHANGED owns
    BY <1>0, <1>6, <2>1 DEF ReadBefore
  <2>2. CASE /\ Go(c, "start", IF switch = "0" THEN "write" ELSE "capture")
             /\ owns' = [owns EXCEPT ![c] = Owns(c)]
    <3>1. owns' \in [Collectors -> BOOLEAN] /\ (owns'[c] <=> switch = "0") /\ Others
      BY Zenon, <1>1, <2>2 DEF Owns
    <3> QED BY <1>0, <1>6, <2>2, <3>1 DEF ReadBefore
  <2> QED BY Zenon, <1>6, <2>1, <2>2 DEF ReadBefore
<1>7. CASE WriteOn(c)
  <2>1. CASE DropGuard(c, "write") /\ UNCHANGED switch
    BY <1>0, <1>3, <1>7, <2>1 DEF WriteOn
  <2>2. CASE Go(c, "write", "verify") /\ switch' = "1" /\ UNCHANGED dropping
    BY <1>0, <1>7, <2>2 DEF WriteOn
  <2> QED BY Zenon, <1>7, <2>1, <2>2 DEF WriteOn
<1>8. CASE VerifyOn(c)
  BY <1>0, <1>3, <1>8 DEF VerifyOn
<1>9. CASE Stop(c)
  BY <1>0, <1>3, <1>9 DEF Stop
<1>10. CASE Restore(c)
  <2>1. CASE owns[c] /\ switch = "1" /\ Go(c, "restore", "off") /\ UNCHANGED <<owns, dropping>>
    BY <1>0, <1>10, <2>1 DEF Restore
  <2>2. CASE ~(owns[c] /\ switch = "1") /\ Restored(c, "restore")
    BY <1>0, <1>4, <1>10, <2>2 DEF Restore
  <2> QED BY Zenon, <1>10, <2>1, <2>2 DEF Restore
<1>11. CASE WriteOff(c)
  BY <1>0, <1>11 DEF WriteOff
<1>12. CASE RestoreFails(c)
  <2>1. PICK from \in {"restore", "off"} : Again(c, from)
    BY Zenon, <1>12 DEF RestoreFails
  <2>2. unrestored' \in BOOLEAN /\ (unrestored' <=> unrestored \/ dropping[c])
    BY Zenon, <1>0, <1>12 DEF RestoreFails
  <2>3. /\ (Go(c, from, "done") /\ dropping[c] /\ ~owns'[c]) \/ (Go(c, from, "restore") /\ owns'[c])
        /\ Typed /\ Others
    BY Zenon, <1>5, <2>1
  <2> QED BY <1>0, <1>12, <2>2, <2>3 DEF RestoreFails
<1>13. CASE VerifyOff(c)
  <2>1. CASE switch = "0" /\ Restored(c, "verify_off")
    BY <1>0, <1>4, <1>13, <2>1 DEF VerifyOff
  <2>2. CASE Again(c, "verify_off")
    BY <1>0, <1>5, <1>13, <2>2 DEF VerifyOff
  <2> QED BY Zenon, <1>13, <2>1, <2>2 DEF VerifyOff
<1>14. CASE NextCapture(c)
  BY <1>0, <1>14 DEF NextCapture
<1> QED BY Zenon, <1>6, <1>7, <1>8, <1>9, <1>10, <1>11, <1>12, <1>13, <1>14 DEF Step

(* Whatever number of captures overlap and however their reads and writes of the
   file interleave or fail, the switch is as it was before the first when none
   runs, unless something else wrote it or the last attempt of a guard to
   restore it failed.                                                       *)
THEOREM RestoreCorrect == Spec => []SwitchRestored
<1>1. Init => OwnersInv
  BY DEF Init, OwnersInv, TypeOK, Places
<1>2. OwnersInv /\ [Next]_vars => OwnersInv'
  <2> SUFFICES ASSUME OwnersInv, [Next]_vars PROVE OwnersInv'
    OBVIOUS
  <2>1. CASE Outside
    BY <2>1 DEF Outside, OwnersInv, TypeOK
  <2>2. CASE UNCHANGED vars
    BY Zenon, <2>2 DEF vars, OwnersInv, TypeOK
  <2> QED BY Zenon, <2>1, <2>2, StepKeepsOwners DEF Next
<1>3. OwnersInv => SwitchRestored
  BY DEF OwnersInv, TypeOK, SwitchRestored
<1> QED BY <1>1, <1>2, <1>3, PTL DEF Spec
=============================================================================
