------------------------------- MODULE Intervals -------------------------------
(***************************************************************************)
(* The interval, percentile and histogram arithmetic of the analysis       *)
(* (crates/protocol/src/lib.rs).  An interval is a pair <<start, end>> and *)
(* stands for the instants start .. end - 1.                               *)
(***************************************************************************)
EXTENDS Integers, Sequences, FiniteSets, SequencesExt

Larger(a, b) == IF a >= b THEN a ELSE b
Smaller(a, b) == IF a <= b THEN a ELSE b
Before(a, b) == a[1] < b[1] \/ (a[1] = b[1] /\ a[2] < b[2])
Sorted(intervals) == SetToSortSeq(intervals, Before)
Instants(intervals) == UNION {i[1] .. i[2] - 1 : i \in intervals}

-----------------------------------------------------------------------------
(* union_duration.  `Grow` is how an interval that meets the current run   *)
(* moves the end of it.                                                    *)
Latest(a, b) == b

DurationOfRuns(Grow(_, _), intervals) ==
  LET values == Sorted({i \in intervals : i[2] >= i[1]})
      Extend(run, next) ==
        IF next[1] <= run.end
        THEN [run EXCEPT !.end = Grow(@, next[2])]
        ELSE [total |-> run.total + run.end - run.start, start |-> next[1], end |-> next[2]]
      runs == FoldLeft(Extend, [total |-> 0, start |-> values[1][1], end |-> values[1][2]],
                       Tail(values))
  IN  IF values = <<>> THEN 0 ELSE runs.total + runs.end - runs.start

\* A nested interval pulls the end of the run back.
UnionTakesLatest(intervals) == DurationOfRuns(Latest, intervals)

UnionDuration(intervals) == DurationOfRuns(Larger, intervals)

(* uncovered_intervals, with the same parameter for its cursor. *)
Gaps(Grow(_, _), from, to, intervals) ==
  LET values == Sorted({i \in {<<Larger(i[1], from), Smaller(i[2], to)>> : i \in intervals} :
                          i[2] > i[1]})
      Walk(scan, i) ==
        [cursor |-> Grow(scan.cursor, i[2]),
         found  |-> IF i[1] > scan.cursor THEN Append(scan.found, <<scan.cursor, i[1]>>)
                    ELSE scan.found]
      scan == FoldLeft(Walk, [cursor |-> from, found |-> <<>>], values)
  IN  IF scan.cursor < to THEN Append(scan.found, <<scan.cursor, to>>) ELSE scan.found

\* The cursor follows the interval read last.
UncoveredFollowsLatest(from, to, intervals) == Gaps(Latest, from, to, intervals)

UncoveredIntervals(from, to, intervals) == Gaps(Larger, from, to, intervals)

(* merge_interval: the run of at most `limit` intervals that touch the new *)
(* one, which grows as it goes, is replaced by it.                         *)
Splice(intervals, new, limit) ==
  LET first == Cardinality({k \in DOMAIN intervals : intervals[k][2] < new[1]})
      Absorb(run, i) ==
        IF run.met < limit /\ run.open /\ i[1] <= run.end
        THEN [run EXCEPT !.start = Smaller(@, i[1]), !.end = Larger(@, i[2]), !.met = @ + 1]
        ELSE [run EXCEPT !.open = FALSE]
      run == FoldLeft(Absorb, [start |-> new[1], end |-> new[2], met |-> 0, open |-> TRUE],
                      SubSeq(intervals, first + 1, Len(intervals)))
  IN  IF new[2] < new[1] THEN intervals
      ELSE SubSeq(intervals, 1, first) \o << <<run.start, run.end>> >>
             \o SubSeq(intervals, first + run.met + 1, Len(intervals))

\* Only the first interval met is merged.
MergeOne(intervals, new) == Splice(intervals, new, 1)

MergeInterval(intervals, new) == Splice(intervals, new, Len(intervals))

-----------------------------------------------------------------------------
\* Rounds the rank down.
PercentileBelow(sorted, p, None) ==
  IF sorted = <<>> THEN None ELSE sorted[Larger((p * Len(sorted)) \div 100, 1)]

(* percentile of a sorted sequence, None when it is empty. *)
Percentile(sorted, p, None) ==
  LET rank == Larger((p * Len(sorted) + 99) \div 100, 1)
  IN  IF sorted = <<>> THEN None ELSE sorted[rank]

(* Histogram::record and a mutant of it: a value on a boundary falls into  *)
(* the bucket above.                                                       *)
RecordAbove(boundaries, counts, value) ==
  [counts EXCEPT ![Cardinality({k \in DOMAIN boundaries : boundaries[k] <= value}) + 1] = @ + 1]

HistogramRecord(boundaries, counts, value) ==
  [counts EXCEPT ![Cardinality({k \in DOMAIN boundaries : boundaries[k] < value}) + 1] = @ + 1]

TotalCount(counts) == FoldLeft(+, 0, counts)

(* Histogram::percentile_range and histogram_percentile_upper: the upper   *)
(* bound of the first bucket that reaches the rank, the lower bound of the *)
(* overflow bucket.                                                        *)
PercentileRange(boundaries, counts, p) ==
  LET rank == (TotalCount(counts) * p + 99) \div 100
      k == CHOOSE i \in DOMAIN counts :
             /\ TotalCount(SubSeq(counts, 1, i)) >= rank
             /\ \A j \in 1 .. i - 1 : TotalCount(SubSeq(counts, 1, j)) < rank
  IN  [lower |-> IF k = 1 THEN 0 ELSE boundaries[k - 1] + 1,
       bounded |-> k <= Len(boundaries),
       upper |-> IF k <= Len(boundaries) THEN boundaries[k] ELSE 0]

PercentileUpper(boundaries, counts, p, None) ==
  IF TotalCount(counts) = 0 \/ p = 0 \/ p > 100 THEN None
  ELSE LET range == PercentileRange(boundaries, counts, p)
       IN  IF range.bounded THEN range.upper ELSE range.lower
=============================================================================
