----------------------------- MODULE F2fsExtents ------------------------------
(***************************************************************************)
(* File origins from F2FS extents (crates/android-agent/src/main.rs:       *)
(* F2fsExtentAttributor), for kernels without exact attribution.  F2FS     *)
(* tracepoints report which sectors of the logical device a file occupies, *)
(* block_bio_remap how the device mapper moves a range to the physical     *)
(* device, and a block_rq_issue there is given the files whose extents it  *)
(* overlaps.  The probes of crates/android-ebpf/src/main.rs write the      *)
(* records, from blocks of SectorsPerBlock sectors.                        *)
(*                                                                         *)
(* `placed` is history: when each sector was last reported, and last       *)
(* remapped, as holding data of each file.                                 *)
(***************************************************************************)
EXTENDS Integers, Sequences, FiniteSets, SequencesExt

CONSTANTS
  Inodes,
  Blocks,      (* blocks of the logical device; NullAddr is not one of them  *)
  SectorsPerBlock,
  Lookups,     (* [block, count, result] of the lookups of blocks            *)
  Folios,      (* [block, data] of the folios that are written               *)
  Mode,        (* the mode of the active filter                              *)
  Shift,       (* where the device mapper puts them on the physical device   *)
  ExtentTtl,   (* EXTENT_TTL_NS                                              *)
  MaxExtents,  (* MAX_EXTENTS                                                *)
  MaxBio,      (* bound on the sectors of a bio or request                   *)
  MaxTime,     (* bound on the clock                                         *)
  MaxRecords,  (* bound on the extent and remap records                      *)
  None

Devices == {"logical", "physical"}
Range1(first, count) == first .. first + count - 1

MODE_BALANCED == 1
NullAddr == 0
Sectors == UNION {Range1(b * SectorsPerBlock, SectorsPerBlock) : b \in Blocks}

VARIABLES
  now,
  records,    (* extent and remap records so far                              *)
  extents,    (* the queue of extents, oldest insertion first                 *)
  overflowed, (* MAX_EXTENTS dropped an extent                                *)
  placed,     (* placed[d][i][s]: last time sector s of device d was i's      *)
  issued      (* the request of the last step and the origins it was given    *)

vars == <<now, records, extents, overflowed, placed, issued>>

Never == 0
Places == Sectors \cup {s + Shift : s \in Sectors}

Init ==
  /\ now = 1
  /\ records = 0
  /\ extents = <<>>
  /\ overflowed = FALSE
  /\ placed = [d \in Devices |-> [i \in Inodes |-> [s \in Places |-> Never]]]
  /\ issued = None

-----------------------------------------------------------------------------
\* Drops an extent one tick early.
PruneEqual(queue) ==
  LET kept == {k \in 1 .. Len(queue) + 1 :
                 k = Len(queue) + 1 \/ (now - queue[k].ts < ExtentTtl)}
  IN SubSeq(queue, CHOOSE k \in kept : \A j \in kept : k <= j, Len(queue))

\* prune: expired extents are dropped from the front only
Prune(queue) ==
  LET kept == {k \in 1 .. Len(queue) + 1 :
                 k = Len(queue) + 1 \/ (now - queue[k].ts <= ExtentTtl)}
  IN SubSeq(queue, CHOOSE k \in kept : \A j \in kept : k <= j, Len(queue))

Push(queue, e) == Append(IF Len(queue) = MaxExtents THEN Tail(queue) ELSE queue, e)
PushAll(queue, es) == FoldLeft(Push, queue, es)

End(e) == e.sector + e.sectors

-----------------------------------------------------------------------------
(* observe_raw_extent: an extent that is known is refreshed where it is.   *)

SameExtent(a, b) ==
  a.device = b.device /\ a.sector = b.sector /\ a.sectors = b.sectors /\ a.inode = b.inode

(* `real` tells whether the file is there, which only the history knows.   *)
ObserveExtent(i, first, count, real) ==
  LET e     == [ts |-> now, device |-> "logical", sector |-> first, sectors |-> count, inode |-> i]
      queue == Prune(extents)
      known == {k \in DOMAIN queue : SameExtent(queue[k], e)}
  IN /\ Range1(first, count) \subseteq Sectors
     /\ extents' = IF known # {}
                   THEN [queue EXCEPT ![CHOOSE k \in known : \A j \in known : j <= k].ts = now]
                   ELSE Push(queue, e)
     /\ overflowed' = (overflowed \/ (known = {} /\ Len(queue) = MaxExtents))
     /\ placed' = [placed EXCEPT !["logical"][i] =
                     [s \in Places |-> IF real /\ s \in Range1(first, count) THEN now ELSE @[s]]]
     /\ records < MaxRecords /\ records' = records + 1
     /\ issued' = None
     /\ UNCHANGED now

(* emit_f2fs_file_extent: a lookup that failed, found no block or covers   *)
(* none is no extent.                                                      *)
Quiet == issued' = None /\ UNCHANGED <<now, records, extents, overflowed, placed>>

\* A failed lookup is an extent.
AnyResult(block, count, result) == Mode >= MODE_BALANCED /\ block # NullAddr /\ count # 0
IsExtent(block, count, result) ==
  Mode >= MODE_BALANCED /\ result = 0 /\ block # NullAddr /\ count # 0

EmitFileExtent(i, block, count, result) ==
  IF IsExtent(block, count, result)
  THEN ObserveExtent(i, block * SectorsPerBlock, count * SectorsPerBlock, result = 0)
  ELSE Quiet

(* emit_f2fs_folio_extent: one block, of data and not of the file system.  *)
EmitFolioExtent(i, block, data) ==
  IF Mode >= MODE_BALANCED /\ data /\ block # NullAddr
  THEN ObserveExtent(i, block * SectorsPerBlock, SectorsPerBlock, data)
  ELSE Quiet

-----------------------------------------------------------------------------
(* observe_bio_remap: every overlapping extent of the old device, and of   *)
(* the final one, is translated.                                           *)

Max2(a, b) == IF a >= b THEN a ELSE b
Min2(a, b) == IF a <= b THEN a ELSE b

\* A translation that drops the last sector of a partial overlap.
TranslateShort(e, first, count, target) ==
  LET start == Max2(e.sector, first) IN
  [e EXCEPT !.ts = now, !.device = "physical", !.sector = target + (start - first), !.sectors = 1]

Translate(e, first, count, target) ==
  LET start == Max2(e.sector, first)
      end   == Min2(End(e), first + count)
  IN [e EXCEPT !.ts = now, !.device = "physical",
               !.sector = target + (start - first), !.sectors = end - start]

ObserveRemap(first, count) ==
  LET queue   == Prune(extents)
      overlap == SelectSeq(queue, LAMBDA e : e.sector < first + count /\ first < End(e))
      moved   == [k \in DOMAIN overlap |-> Translate(overlap[k], first, count, first + Shift)]
  IN /\ Range1(first, count) \subseteq Sectors
     /\ extents' = PushAll(queue, moved)
     /\ overflowed' = (overflowed \/ Len(queue) + Len(moved) > MaxExtents)
     /\ placed' = [placed EXCEPT !["physical"] =
          [i \in Inodes |-> [s \in Places |->
             IF /\ s - Shift \in Range1(first, count)
                /\ placed["logical"][i][s - Shift] # Never
                /\ now - placed["logical"][i][s - Shift] <= ExtentTtl
             THEN now ELSE @[i][s]]]]
     /\ records < MaxRecords /\ records' = records + 1
     /\ issued' = None
     /\ UNCHANGED now

(* emit_bio_remap writes what the device mapper did.                       *)
EmitBioRemap(first, count) == Mode >= MODE_BALANCED /\ ObserveRemap(first, count)

-----------------------------------------------------------------------------
(* origins_for_issue.                                                      *)

\* One origin per file identity: the first overlapping extent's.
Origins(queue, first, count) ==
  {queue[k] : k \in {k \in DOMAIN queue :
     /\ queue[k].device = "physical"
     /\ queue[k].sector < first + count /\ first < End(queue[k])
     /\ \A j \in 1 .. k - 1 :
          ~(/\ queue[j].inode = queue[k].inode /\ queue[j].device = "physical"
            /\ queue[j].sector < first + count /\ first < End(queue[j]))}}

Issue(first, count) ==
  LET queue == Prune(extents)
      found == Origins(queue, first + Shift, count)
  IN /\ Range1(first, count) \subseteq Sectors
     /\ extents' = queue
     /\ issued' = [sectors |-> Range1(first + Shift, count),
                   inodes |-> {e.inode : e \in found}]
     /\ UNCHANGED <<now, records, overflowed, placed>>

Tick ==
  /\ now < MaxTime
  /\ now' = now + 1
  /\ issued' = None
  /\ UNCHANGED <<records, extents, overflowed, placed>>

Next ==
  \/ \E i \in Inodes, x \in Lookups : EmitFileExtent(i, x.block, x.count, x.result)
  \/ \E i \in Inodes, x \in Folios : EmitFolioExtent(i, x.block, x.data)
  \/ \E first \in Sectors, count \in 1 .. MaxBio : EmitBioRemap(first, count)
  \/ \E first \in Sectors, count \in 1 .. MaxBio : Issue(first, count)
  \/ Tick

Spec == Init /\ [][Next]_vars

-----------------------------------------------------------------------------
(* A request is given every file that the records of the last TTL place in *)
(* one of its sectors, until MAX_EXTENTS had to drop an extent: neither    *)
(* pruning, refreshing in place, merging duplicates, blocks nor the        *)
(* arithmetic of a partly overlapping remap loses one.  Failed lookups,    *)
(* missing blocks and metadata give it no file that was never placed: a    *)
(* remap of the physical device may move an origin, but makes none up.     *)
RecentOriginsFound ==
  issued # None =>
    /\ ~overflowed => \A i \in Inodes, s \in issued.sectors :
         LET t == placed["physical"][i][s] IN
         t # Never /\ now - t <= ExtentTtl => i \in issued.inodes
    /\ \A i \in issued.inodes : \E s \in Sectors : placed["logical"][i][s] # Never

=============================================================================
