----------------------------- MODULE DiskCounters -----------------------------
(***************************************************************************)
(* Device counters of a session and their view (analysis_ui.rs,            *)
(* DiskStatsView): the phone's /proc/diskstats are recorded now and then,  *)
(* a frame that shows them adds up the differences of successive           *)
(* snapshots, from where the last frame stopped.  Counters start again     *)
(* with a device and with the phone.  The four counters of a device grow   *)
(* and start again together; one stands for them.                          *)
(***************************************************************************)
EXTENDS Integers, Sequences, FiniteSets, SequencesExt

CONSTANTS
  Disks,
  MaxWork, MaxPlugs, MaxBoot, MaxShots,      (* bounds                       *)
  None

VARIABLES
  phone,     (* [boot, elapsed, counter of each disk or None]                *)
  done,      (* truth: what each disk did since the session began            *)
  plugs,
  shots,     (* disk_stats: records of the session, with the truth           *)
  stats      (* DiskStatsView                                                *)

vars == <<phone, done, plugs, shots, stats>>

Empty == [processed |-> 0, previous |-> None, totals |-> [d \in Disks |-> 0], resets |-> 0]

Init ==
  /\ phone = [boot |-> 1, elapsed |-> 0, counter |-> [d \in Disks |-> 1]]
  /\ done = [d \in Disks |-> 0]
  /\ plugs = 0
  /\ shots = <<>>
  /\ stats = Empty

-----------------------------------------------------------------------------
(* The phone *)

Work(d) ==
  /\ phone.counter[d] # None /\ phone.counter[d] < MaxWork
  /\ phone' = [phone EXCEPT !.counter[d] = @ + 1]
  /\ done' = [done EXCEPT ![d] = @ + 1]
  /\ UNCHANGED <<plugs, shots, stats>>

(* A disk goes, or comes back with counters of its own.                    *)
Plug(d) ==
  /\ plugs < MaxPlugs /\ plugs' = plugs + 1
  /\ phone' = [phone EXCEPT !.counter[d] = IF @ = None THEN 0 ELSE None]
  /\ UNCHANGED <<done, shots, stats>>

Reboot ==
  /\ phone.boot < MaxBoot
  /\ phone' = [phone EXCEPT !.boot = @ + 1, !.counter = [d \in Disks |-> 0]]
  /\ UNCHANGED <<done, plugs, shots, stats>>

(* capture_perfetto records what it reads, at times of a millisecond.      *)
Shot ==
  /\ Len(shots) < MaxShots
  /\ \E t \in {phone.elapsed, phone.elapsed + 1} :
       /\ phone' = [phone EXCEPT !.elapsed = t]
       /\ shots' = Append(shots, [boot |-> phone.boot, at |-> t, counter |-> phone.counter, done |-> done])
  /\ UNCHANGED <<done, plugs, stats>>

-----------------------------------------------------------------------------
(* DiskStatsView::sync *)

\* disk_delta that wraps around.
DeltaWraps(before, after) == IF after >= before THEN after - before ELSE after
DiskDelta(before, after) == IF after >= before THEN after - before ELSE None

(* parse_diskstats: the disks a snapshot has a whole line of.              *)
Parsed(s) == {d \in Disks : s.counter[d] # None}

SyncOne(v, s) ==
  LET old   == v.previous
      both  == Parsed(s) \cap Parsed(old)
      delta == [d \in both |-> DiskDelta(old.counter[d], s.counter[d])]
      gone  == {d \in both : delta[d] = None}
      next  == [v EXCEPT !.previous = s]
  IN IF old = None THEN next
     ELSE IF old.boot # s.boot \/ s.at <= old.at THEN [next EXCEPT !.resets = @ + 1]
     ELSE [next EXCEPT !.totals = [d \in Disks |-> @[d] + IF d \in both \ gone THEN delta[d] ELSE 0],
                       !.resets = @ + Cardinality(gone)]

Synced(v, all) ==
  LET from == IF v.processed > Len(all) THEN Empty ELSE v
  IN [FoldLeft(SyncOne, from, SubSeq(all, from.processed + 1, Len(all))) EXCEPT !.processed = Len(all)]

(* A frame of the page; it is not drawn while another page is shown.       *)
Sync == stats' = Synced(stats, shots) /\ UNCHANGED <<phone, done, plugs, shots>>

(* reset_analysis and apply_loaded_session                                 *)
NewSession ==
  /\ shots # <<>>
  /\ shots' = <<>> /\ stats' = Empty
  /\ phone' = [phone EXCEPT !.elapsed = 0]
  /\ done' = [d \in Disks |-> 0]
  /\ UNCHANGED plugs

Next == (\E d \in Disks : Work(d) \/ Plug(d)) \/ Reboot \/ Shot \/ Sync \/ NewSession
Spec == Init /\ [][Next]_vars

-----------------------------------------------------------------------------
(* DiskStatsView: totals do not depend on when frames were drawn; they     *)
(* never exceed what the disk did between the first snapshot and the last, *)
(* through reboots, disks that come and go and counters that start again;  *)
(* and they miss nothing where no interval was left out.                   *)
CountersAreTrue ==
  LET shown == Synced(stats, shots) IN
  /\ shown = Synced(Empty, shots)
  /\ shots # <<>> => \A d \in Disks :
       LET work == Last(shots).done[d] - Head(shots).done[d] IN
       /\ shown.totals[d] <= work
       /\ shown.resets = 0 /\ plugs = 0 /\ phone.boot = 1 => shown.totals[d] = work
=============================================================================
