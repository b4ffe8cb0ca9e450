----------------------------- MODULE GraphSummary -----------------------------
(***************************************************************************)
(* The summary of a cohort of requests (graph_summary.rs): distributions   *)
(* of a value, counts of the sectors accessed, payload and reuse by        *)
(* address.  Requests of one device are observed one by one; the           *)
(* accumulators are finished from what they hold.                          *)
(***************************************************************************)
EXTENDS Integers, Sequences, FiniteSets, SequencesExt

CONSTANTS
  Sectors, Lengths, Times,   (* sectors, lengths and issue times, None for an unknown time *)
  MaxSector,                 (* u64::MAX                                     *)
  MaxRows,
  None

VARIABLES
  rows,       (* LocalityAccumulator: [sector, length, write, ts]            *)
  edges,      (* AddressAccumulator: sector |-> <<reads, writes>>            *)
  empty       (* unknown_or_empty                                            *)

vars == <<rows, edges, empty>>

Init == rows = <<>> /\ edges = <<>> /\ empty = 0

-----------------------------------------------------------------------------
(* Distribution: a sorted sequence of values *)

Finish(values) == SortSeq(values, <)
Count(values, Test(_)) == Len(SelectSeq(values, Test))

(* The value of rank i of n points spread over all ranks.                  *)
Spread(n, limit) ==
  LET most == IF limit < 2 THEN 2 ELSE limit
      samples == IF n < most THEN n ELSE most
  IN [i \in 1 .. samples |-> IF samples = 1 THEN 1 ELSE ((i - 1) * (n - 1)) \div (samples - 1) + 1]

\* The probability of the sample and not of its value.
CdfAtRank(values, index) == index
CdfAt(values, index) == Count(values, LAMBDA v : v <= values[index])

(* cdf_points: <<value, values up to it>>, once for each value.            *)
CdfPoints(values, limit) ==
  FoldLeft(LAMBDA points, index :
             IF points # <<>> /\ Last(points)[1] = values[index] THEN points
             ELSE Append(points, <<values[index], CdfAt(values, index)>>),
           <<>>, Spread(Len(values), limit))

\* A value at the upper boundary is in the bin below it.
UpToBoundary(values, upper, scale) == Count(values, LAMBDA v : v * scale <= upper)
BelowBoundary(values, upper, scale) == Count(values, LAMBDA v : v * scale < upper)

(* histogram: boundaries are multiplied by the number of bins, `scale`.    *)
Histogram(values, requested) ==
  IF values = <<>> THEN <<>>
  ELSE IF Head(values) = Last(values)
       THEN <<[lower |-> Head(values), upper |-> Last(values), scale |-> 1, count |-> Len(values)]>>
  ELSE LET least == Head(values)
           span == Last(values) - least
           n == IF requested < Len(values) THEN requested ELSE Len(values)
           upper(i) == least * n + i * span
           end(i) == IF i = 0 THEN 0 ELSE IF i = n THEN Len(values) ELSE BelowBoundary(values, upper(i), n)
       IN [i \in 1 .. n |-> [lower |-> upper(i - 1), upper |-> upper(i), scale |-> n,
                             count |-> end(i) - end(i - 1)]]

-----------------------------------------------------------------------------
(* AddressAccumulator *)

Saturating(sector) == IF sector > MaxSector THEN MaxSector ELSE sector
Direction(write) == IF write THEN <<0, 1>> ELSE <<1, 0>>
Edge(e, sector) == IF sector \in DOMAIN e THEN e[sector] ELSE <<0, 0>>
Change(e, sector, write, sign) ==
  [s \in DOMAIN e \cup {sector} |->
     IF s = sector THEN <<Edge(e, s)[1] + sign * Direction(write)[1], Edge(e, s)[2] + sign * Direction(write)[2]>>
     ELSE e[s]]

(* LocalityAccumulator::observe *)
Row(sector, length, write, ts) == [sector |-> sector, length |-> length, write |-> write, ts |-> ts]

Observe ==
  \E sector \in Sectors, length \in Lengths, write \in BOOLEAN, ts \in Times \cup {None} :
    LET end == Saturating(sector + length) IN
    /\ Len(rows) < MaxRows
    /\ rows' = Append(rows, Row(sector, length, write, ts))
    /\ IF end <= sector
       THEN empty' = empty + 1 /\ UNCHANGED edges
       ELSE edges' = Change(Change(edges, sector, write, 1), end, write, -1) /\ UNCHANGED empty

\* Rows of equal counts are joined across sectors nobody accessed.
JoinsNext(last, start, counts) == last.counts = counts
Joins(last, start, counts) == last.end = start /\ last.counts = counts

(* finish: a sweep over the boundaries; the counts before a boundary are   *)
(* those of the sectors up to it.                                          *)
Sweep(a, sector) ==
  LET next == <<a.counts[1] + edges[sector][1], a.counts[2] + edges[sector][2]>>
      row == [start |-> a.previous, end |-> sector, counts |-> a.counts]
  IN [counts |-> next, previous |-> sector,
      rows |-> IF a.previous = None \/ a.counts = <<0, 0>> THEN a.rows
               ELSE IF a.rows # <<>> /\ Joins(Last(a.rows), a.previous, a.counts)
                    THEN [a.rows EXCEPT ![Len(a.rows)].end = sector]
               ELSE Append(a.rows, row)]

AddressCounts ==
  FoldLeft(Sweep, [counts |-> <<0, 0>>, previous |-> None, rows |-> <<>>], SetToSortSeq(DOMAIN edges, <)).rows

-----------------------------------------------------------------------------
(* LocalityAccumulator *)

(* The payload of the bins of sectors: the index of a row's bin.           *)
PayloadBin(bins, sector) ==
  LET below == Cardinality({i \in DOMAIN bins : bins[i].upper <= sector * bins[i].scale})
  IN (IF below < Len(bins) THEN below ELSE Len(bins) - 1) + 1

Payload(bins, i) ==
  FoldLeft(LAMBDA sum, r : IF PayloadBin(bins, r.sector) = i THEN sum + r.length ELSE sum, 0, rows)

\* Reads and writes of a sector follow each other.
ReuseOfSector(r) == r.sector
ReuseKey(r) == <<r.sector, r.write>>

(* Rows by time, those without one first.                                  *)
ByTime == SortSeq([i \in DOMAIN rows |-> i],
                  LAMBDA i, j : LET a == rows[i].ts b == rows[j].ts
                                IN IF a = None \/ b = None THEN IF a = b THEN i < j ELSE a = None
                                   ELSE a < b \/ (a = b /\ i < j))

Reuse ==
  FoldLeft(LAMBDA a, i :
             LET r == rows[i] key == ReuseKey(r) IN
             IF r.ts = None THEN a
             ELSE [last |-> [k \in DOMAIN a.last \cup {key} |-> IF k = key THEN r.ts ELSE a.last[k]],
                   gaps |-> IF key \in DOMAIN a.last THEN Append(a.gaps, [row |-> i, gap |-> r.ts - a.last[key]])
                            ELSE a.gaps],
           [last |-> <<>>, gaps |-> <<>>], ByTime).gaps

-----------------------------------------------------------------------------
Next == Observe
Spec == Init /\ [][Next]_vars

Values == Finish([i \in DOMAIN rows |-> rows[i].sector])
Covers(r, s) == r.sector <= s /\ s < Saturating(r.sector + r.length)
Accesses(s, write) == Cardinality({i \in DOMAIN rows : rows[i].write = write /\ Covers(rows[i], s)})

(* AddressAccumulator: the rows are apart and in order, a sector is in a   *)
(* row if it was accessed, with the number of its reads and writes, and    *)
(* rows that touch differ.                                                 *)
AddressesAreCounted ==
  LET counts == AddressCounts IN
  /\ \A i \in 1 .. Len(counts) - 1 :
       /\ counts[i].end <= counts[i + 1].start
       /\ counts[i].end = counts[i + 1].start => counts[i].counts # counts[i + 1].counts
  /\ \A s \in 0 .. MaxSector :
       LET found == {i \in DOMAIN counts : counts[i].start <= s /\ s < counts[i].end}
           truth == <<Accesses(s, FALSE), Accesses(s, TRUE)>>
       IN IF truth = <<0, 0>> THEN found = {}
          ELSE \E i \in found : found = {i} /\ counts[i].counts = truth

(* histogram: a value counts in the bin whose boundaries enclose it, a     *)
(* value on a boundary in the upper bin, the largest in the last; and the  *)
(* payload of a row is in the bin of its sector.                           *)
BinsHoldTheirValues ==
  \A requested \in 1 .. 4 :
    LET bins == Histogram(Values, requested)
        inside(i, v) == /\ bins[i].lower <= v * bins[i].scale
                        /\ v * bins[i].scale < bins[i].upper \/ i = Len(bins)
    IN \A i \in DOMAIN bins :
         /\ bins[i].count = Count(Values, LAMBDA v : inside(i, v))
         /\ Payload(bins, i) = FoldLeft(LAMBDA sum, r : IF inside(i, r.sector) THEN sum + r.length ELSE sum, 0, rows)

(* cdf_points: however few points are drawn, each has the share of values  *)
(* up to its own, with all its ties; values rise, and the last point has   *)
(* them all.                                                               *)
CdfIsExact ==
  rows # <<>> => \A limit \in 2 .. 3 :
    LET points == CdfPoints(Values, limit) IN
    /\ \A i \in DOMAIN points : points[i][2] = Cardinality({k \in DOMAIN rows : rows[k].sector <= points[i][1]})
    /\ \A i \in 1 .. Len(points) - 1 : points[i][1] < points[i + 1][1]
    /\ Last(points)[2] = Len(rows)

(* finish: the gap of a row is the time since the latest earlier request   *)
(* of its sector and direction; rows without one or without time have no   *)
(* gap.                                                                    *)
ReuseIsSincePrevious ==
  LET gaps == Reuse
      earlier(i) == {j \in DOMAIN rows :
                       /\ rows[j].ts # None /\ rows[i].ts # None
                       /\ rows[j].sector = rows[i].sector /\ rows[j].write = rows[i].write
                       /\ rows[j].ts < rows[i].ts \/ (rows[j].ts = rows[i].ts /\ j < i)}
  IN \A i \in DOMAIN rows :
       LET found == {k \in DOMAIN gaps : gaps[k].row = i} IN
       IF earlier(i) = {} THEN found = {}
       ELSE \E k \in found : /\ found = {k}
                             /\ \E j \in earlier(i) : gaps[k].gap = rows[i].ts - rows[j].ts
                             /\ \A j \in earlier(i) : gaps[k].gap <= rows[i].ts - rows[j].ts

(* The numbers beside a graph are those of its rows: accesses of each      *)
(* address, bins, distribution and reuse.                                  *)
NumbersAreExact ==
  /\ AddressesAreCounted
  /\ BinsHoldTheirValues
  /\ CdfIsExact
  /\ ReuseIsSincePrevious
=============================================================================
