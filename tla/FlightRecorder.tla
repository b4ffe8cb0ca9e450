---------------------------- MODULE FlightRecorder ----------------------------
(***************************************************************************)
(* The collector's flight recorder (crates/android-agent/src/main.rs:      *)
(* FlightRecorder): a byte- and time-bounded queue of the records written  *)
(* so far, from which a triggered segment takes the past.                  *)
(*                                                                         *)
(* A record's time stamp may lie before that of the previous one, by the   *)
(* order in which CPUs reserve ring slots.  `observed` is history.         *)
(***************************************************************************)
EXTENDS Naturals, Sequences, SequencesExt

CONSTANTS
  MaxBytes,     (* max_bytes                                                 *)
  Window,       (* window_ns                                                 *)
  Sizes,        (* encoded sizes of records                                  *)
  Skew,         (* how late a record may be                                  *)
  MaxTime,      (* bound on the clock                                        *)
  MaxRecords    (* bound on the records observed                             *)

VARIABLES
  now,
  records, bytes, evicted,
  observed

vars == <<now, records, bytes, evicted, observed>>

Init ==
  /\ now = 0
  /\ records = <<>> /\ bytes = 0 /\ evicted = 0
  /\ observed = <<>>

Monus(a, b) == IF a >= b THEN a - b ELSE 0
Bytes(queue) == FoldLeft(LAMBDA sum, r : sum + r.size, 0, queue)

\* The positions at which the queue may start: from there its bytes fit and
\* its front is within the window of the newest record.
Kept(queue, ts) ==
  {k \in 1 .. Len(queue) + 1 :
     /\ Bytes(SubSeq(queue, k, Len(queue))) <= MaxBytes
     /\ k <= Len(queue) => queue[k].ts >= Monus(ts, Window)}

\* Drops one record more than it must.
FirstAfter(queue, ts) ==
  LET first == CHOOSE k \in Kept(queue, ts) : \A j \in Kept(queue, ts) : k <= j
  IN IF first = 1 \/ first > Len(queue) THEN first ELSE first + 1

First(queue, ts) == CHOOSE k \in Kept(queue, ts) : \A j \in Kept(queue, ts) : k <= j

BytesKept(queue, first) == 0
BytesEvicted(queue, first) == Bytes(SubSeq(queue, 1, first - 1))

\* FlightRecorder::observe
Observe(ts, size) ==
  /\ Len(observed) < MaxRecords
  /\ observed' = Append(observed, [ts |-> ts, size |-> size])
  /\ IF size > MaxBytes
     THEN evicted' = evicted + 1 /\ UNCHANGED <<records, bytes>>
     ELSE LET queue == Append(records, [ts |-> ts, size |-> size])
              first == First(queue, ts)
          IN /\ records' = SubSeq(queue, first, Len(queue))
             /\ bytes' = bytes + size - BytesEvicted(queue, first)
             /\ evicted' = evicted + first - 1
  /\ UNCHANGED now

Tick ==
  /\ now < MaxTime
  /\ now' = now + 1
  /\ UNCHANGED <<records, bytes, evicted, observed>>

Next ==
  \/ \E late \in 0 .. Skew, size \in Sizes : late <= now /\ Observe(now - late, size)
  \/ Tick

Spec == Init /\ [][Next]_vars

\* A start that promises what was asked for.
RequestedStart(requested) == requested

\* retained_start
RetainedStart(requested) ==
  LET found == {k \in DOMAIN records : records[k].ts >= requested}
  IN IF found = {} THEN requested
     ELSE records[CHOOSE k \in found : \A j \in found : k <= j].ts

-----------------------------------------------------------------------------
InOrder == \A k \in 1 .. Len(observed) - 1 : observed[k].ts <= observed[k + 1].ts

(* What a segment says it retains is there: if records arrived in the      *)
(* order of their time stamps, every record after retained_start(t) that   *)
(* fits the recorder at all is still in it, for every requested start t    *)
(* (retained_start, the eviction loop of observe).                         *)
RetainedStartIsHonest ==
  InOrder =>
    \A requested \in 0 .. MaxTime :
      \A k \in DOMAIN observed :
        observed[k].size <= MaxBytes /\ observed[k].ts > RetainedStart(requested) =>
          \E j \in DOMAIN records : records[j] = observed[k]

(* The recorder's own accounts agree: bytes is the size of what it holds,  *)
(* within max_bytes, and every record is held or counted as evicted        *)
(* (observe, retained_bytes).                                              *)
RecorderAccounts ==
  /\ bytes = Bytes(records) /\ bytes <= MaxBytes
  /\ evicted + Len(records) = Len(observed)

(* In order, a record leaves the recorder only when it falls out of the    *)
(* window of the newest record or when it and its successors exceed        *)
(* max_bytes (the eviction loop of observe).                               *)
EvictsOnlyWhenItMust ==
  InOrder /\ observed # <<>> =>
    \A k \in DOMAIN observed :
      \/ \E j \in DOMAIN records : records[j] = observed[k]
      \/ observed[k].ts < Monus(Last(observed).ts, Window)
      \/ Bytes(SubSeq(observed, k, Len(observed))) > MaxBytes

(* FlightRecorder holds what retained_start promises, evicts only for its  *)
(* window or its bytes, and counts what it evicted.                        *)
RecorderIsHonest ==
  /\ RetainedStartIsHonest
  /\ RecorderAccounts
  /\ EvictsOnlyWhenItMust
=============================================================================
