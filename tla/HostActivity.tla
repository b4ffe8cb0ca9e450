----------------------------- MODULE HostActivity -----------------------------
(***************************************************************************)
(* Device activity and host bandwidth of a Perfetto session: host_bw.rs    *)
(* and window_series.rs, fed live by app.rs or from a saved file by        *)
(* session.rs.  What really went on is `requests`; the session holds the   *)
(* part of it the capture and the file retained.  Idle time may be claimed *)
(* only where that part is all.                                            *)
(***************************************************************************)
EXTENDS Integers, Sequences, FiniteSets, SequencesExt

CONSTANTS
  Devices,
  MaxTime,       (* time is 0 .. MaxTime                                     *)
  MaxRequests,
  MaxWaits,      (* scheduler waits in the trace                             *)
  BurstGap,      (* the 500,000 ns of build_intervals                        *)
  None

VARIABLES
  requests,      (* truth: [device, issue, done, fate]                       *)
  waits,
  scope,         (* the capture wrote its scope marker                       *)
  torn,          (* the session ends without its footer                      *)
  order,         (* records still to be read, in the order of the reader     *)
  read,          (* requests read                                            *)
  activity       (* ActivityTimeline                                         *)

vars == <<requests, waits, scope, torn, order, read, activity>>

(* What becomes of a request: its completion is saved with or without the  *)
(* issue it was paired with, its line of the file is damaged, its issue    *)
(* record stays unmatched, or the kernel drops its records.                *)
Fates == {"timed", "untimed", "damaged", "unmatched", "lost"}

Init ==
  /\ requests = <<>> /\ waits = 0 /\ read = 0
  /\ scope \in BOOLEAN /\ torn \in BOOLEAN
  /\ order = <<"capture">>
  /\ activity = [devices |-> [d \in Devices |-> {}], range |-> None, observed |-> [d \in Devices |-> 0],
                 missing |-> [d \in Devices |-> 0], unfiltered |-> FALSE, expected |-> None,
                 expectedOf |-> <<>>, supplied |-> FALSE, reconstructed |-> FALSE, limitation |-> FALSE]

-----------------------------------------------------------------------------
(* IntervalUnion: a set of intervals <<start, end>> *)

ByStart(p, q) == p[1] < q[1]
Later(a, b) == IF a > b THEN a ELSE b
Sooner(a, b) == IF a < b THEN a ELSE b

\* Intervals that touch stay apart.
JoinsInside(start, end) == start < end
Joins(start, end) == start <= end

UnionInsert(u, from, to) ==
  IF from >= to THEN u
  ELSE LET before == {p \in u : p[1] <= from /\ Joins(from, p[2])}
           start == IF before = {} THEN from ELSE (CHOOSE p \in before : TRUE)[1]
           end == IF before = {} THEN to ELSE Later(to, (CHOOSE p \in before : TRUE)[2])
           after == SetToSortSeq({p \in u \ before : p[1] >= start}, ByStart)
           last == FoldLeft(LAMBDA e, p : IF Joins(p[1], e) THEN Later(e, p[2]) ELSE e, end, after)
       IN {p \in u \ before : p[1] < start \/ ~Joins(p[1], last)} \cup {<<start, last>>}

Clipped(u, from, to) ==
  {<<Later(p[1], from), Sooner(p[2], to)>> : p \in {q \in u : Later(q[1], from) < Sooner(q[2], to)}}

Duration(u, from, to) ==
  FoldLeft(LAMBDA sum, p : sum + p[2] - p[1], 0, SetToSortSeq(Clipped(u, from, to), ByStart))

(* The activity of several devices is that of their union.                 *)
Combined(devices, from, to) ==
  FoldLeft(LAMBDA u, p : UnionInsert(u, p[1], p[2]), {},
           SetToSeq(UNION {Clipped(activity.devices[d], from, to) : d \in devices}))

-----------------------------------------------------------------------------
(* The capture *)

Saved(fate) == fate \in {"timed", "untimed", "damaged"}
Total(f) == FoldLeft(LAMBDA sum, d : sum + f[d], 0, SetToSeq(Devices))

Request ==
  \E d \in Devices, a \in 0 .. MaxTime, b \in 0 .. MaxTime, fate \in Fates :
    /\ order = <<"capture">> /\ Len(requests) < MaxRequests /\ a < b
    /\ \A i \in DOMAIN requests : requests[i].done <= b
    /\ requests' = Append(requests, [device |-> d, issue |-> a, done |-> b, fate |-> fate])
    /\ UNCHANGED <<waits, scope, torn, order, read, activity>>

Wait ==
  /\ order = <<"capture">> /\ waits < MaxWaits /\ waits' = waits + 1
  /\ UNCHANGED <<requests, scope, torn, order, read, activity>>

(* Live, the records come as emit_trace writes them; saved ones are read   *)
(* events first.  A live session has no damaged lines.                     *)
Stop ==
  /\ order = <<"capture">>
  /\ \/ /\ \A i \in DOMAIN requests : requests[i].fate # "damaged"
        /\ order' = <<"recording", "complete", "events", "footer">>
     \/ order' = <<"events", "recording", "complete", "footer", "integrity">>
  /\ UNCHANGED <<requests, waits, scope, torn, read, activity>>

Lossless == \A i \in DOMAIN requests : requests[i].fate # "lost"
Completions(d) == {i \in DOMAIN requests : requests[i].device = d /\ Saved(requests[i].fate)}
Completed == Cardinality({i \in DOMAIN requests : Saved(requests[i].fate)})

(* DeviceCoverage rows of the trace, less those that are not whole.        *)
WholeDevices ==
  {d \in Devices :
     /\ \E i \in DOMAIN requests : requests[i].device = d /\ requests[i].fate # "lost"
     /\ \A i \in DOMAIN requests : requests[i].device = d => requests[i].fate \notin {"untimed", "unmatched"}}

-----------------------------------------------------------------------------
(* ActivityTimeline *)

Recording ==
  /\ Head(order) = "recording" /\ order' = Tail(order)
  /\ activity' = [activity EXCEPT !.reconstructed = FALSE, !.unfiltered = scope]
  /\ UNCHANGED <<requests, waits, scope, torn, read>>

(* Sessions of earlier versions have totals and no rows of devices.        *)
Complete ==
  /\ Head(order) = "complete" /\ order' = Tail(order)
  /\ \E rows \in BOOLEAN :
       LET whole == WholeDevices = {requests[i].device : i \in DOMAIN requests}
       IN activity' = [activity EXCEPT
            !.reconstructed = FALSE,
            !.expected = IF Lossless /\ (rows \/ whole) THEN Completed ELSE None,
            !.supplied = Lossless /\ rows,
            !.expectedOf = IF Lossless /\ rows THEN [d \in WholeDevices |-> Cardinality(Completions(d))] ELSE <<>>]
  /\ UNCHANGED <<requests, waits, scope, torn, read>>

Observe(io) ==
  [activity EXCEPT
     !.range = IF io.fate # "timed" THEN @
               ELSE IF @ = None THEN <<io.issue, io.done>>
               ELSE <<Sooner(@[1], io.issue), Later(@[2], io.done)>>,
     !.observed[io.device] = @ + 1,
     !.devices[io.device] = IF io.fate = "timed" THEN UnionInsert(@, io.issue, io.done) ELSE @,
     !.missing[io.device] = IF io.fate = "timed" THEN @ ELSE @ + 1]

ReadEvent ==
  /\ Head(order) = "events" /\ read < Len(requests)
  /\ read' = read + 1
  /\ activity' = IF requests[read + 1].fate \in {"timed", "untimed"} THEN Observe(requests[read + 1]) ELSE activity
  /\ UNCHANGED <<requests, waits, scope, torn, order>>

EventsRead ==
  /\ Head(order) = "events" /\ read = Len(requests) /\ order' = Tail(order)
  /\ UNCHANGED <<requests, waits, scope, torn, read, activity>>

FooterAgrees(expected, seen, observed) == expected = observed /\ seen = observed

(* The footer counts all events.                                           *)
Footer ==
  /\ Head(order) = "footer" /\ order' = Tail(order)
  /\ activity' = IF torn THEN activity
                 ELSE [activity EXCEPT !.reconstructed =
                         /\ activity.unfiltered
                         /\ FooterAgrees(activity.expected, Completed + waits, Total(activity.observed))]
  /\ UNCHANGED <<requests, waits, scope, torn, read>>

Integrity ==
  /\ Head(order) = "integrity" /\ order' = Tail(order)
  /\ activity' = [activity EXCEPT !.limitation = torn \/ \E i \in DOMAIN requests : requests[i].fate = "damaged"]
  /\ UNCHANGED <<requests, waits, scope, torn, read>>

\* What other devices lack does not matter to this one, nor what it lacks.
WholeOrSupplied(d) == activity.supplied \/ Total(activity.missing) = 0
WholeOf(d) ==
  IF activity.supplied
  THEN d \in DOMAIN activity.expectedOf /\ activity.expectedOf[d] = activity.observed[d] /\ activity.missing[d] = 0
  ELSE Total(activity.missing) = 0

ReconstructedFor(devices) ==
  /\ activity.reconstructed /\ activity.expected = Total(activity.observed)
  /\ devices # {} /\ \A d \in devices : WholeOf(d)
  /\ ~activity.limitation

(* calculate: busy and idle time of the range, None where it is unknown.   *)
Busy(devices, from, to) ==
  IF ReconstructedFor(devices) THEN Duration(Combined(devices, from, to), from, to) ELSE None

-----------------------------------------------------------------------------
(* WindowSeries *)

(* build: windows of a width, the last one cut at the end of the range.    *)
Windows(from, to, width) ==
  [i \in 1 .. (to - from + width - 1) \div width |->
     <<from + (i - 1) * width, Sooner(from + i * width, to)>>]

(* build: the busy time of each window.                                    *)
WindowBusy(samples, u) == [i \in DOMAIN samples |-> Duration(u, samples[i][1], samples[i][2])]

\* The end of the range belongs to no window.
IndexInWindow(samples, from, width, ts) ==
  LET i == (ts - from) \div width + 1 IN IF i \in DOMAIN samples THEN i ELSE None
IndexOfWindow(samples, from, width, ts) == Sooner((ts - from) \div width, Len(samples) - 1) + 1

(* build_intervals: runs, gaps between them, or bursts of runs close by.   *)
Runs(devices, from, to) == SetToSortSeq(Clipped(Combined(devices, from, to), from, to), ByStart)

\* The time after the last run is no gap.
GapsBetween(runs, from, to) ==
  LET edge(i) == IF i = 1 THEN from ELSE runs[i - 1][2]
  IN SelectSeq([i \in DOMAIN runs |-> <<edge(i), runs[i][1]>>], LAMBDA g : g[1] < g[2])
Gaps(runs, from, to) ==
  LET edge(i) == IF i = 1 THEN from ELSE runs[i - 1][2]
  IN SelectSeq([i \in 1 .. Len(runs) + 1 |-> <<edge(i), IF i > Len(runs) THEN to ELSE runs[i][1]>>],
               LAMBDA g : g[1] < g[2])

Bursts(runs) ==
  FoldLeft(LAMBDA spans, r : IF spans # <<>> /\ r[1] - Last(spans)[2] <= BurstGap
                             THEN [spans EXCEPT ![Len(spans)] = <<@[1], r[2]>>]
                             ELSE Append(spans, r), <<>>, runs)

\* An interval has its start and not its end.
IndexFromStart(spans, ts) ==
  LET i == Cardinality({k \in DOMAIN spans : spans[k][2] <= ts}) + 1
  IN IF i \in DOMAIN spans /\ spans[i][1] <= ts THEN i ELSE None
IndexOfInterval(spans, ts) ==
  LET i == Cardinality({k \in DOMAIN spans : spans[k][2] < ts}) + 1
  IN IF i \in DOMAIN spans /\ spans[i][1] < ts THEN i ELSE None

-----------------------------------------------------------------------------
Next ==
  \/ Request \/ Wait \/ Stop
  \/ order # <<>> /\ (Recording \/ Complete \/ ReadEvent \/ EventsRead \/ Footer \/ Integrity)
Spec == Init /\ [][Next]_vars

Ready == order = <<>>
Moments == 0 .. MaxTime - 1    (* [t, t+1) *)
BusyMoments(devices) ==
  {t \in Moments : \E i \in DOMAIN requests :
     requests[i].device \in devices /\ requests[i].issue <= t /\ t < requests[i].done}
Ranges == {<<a, b>> \in (0 .. MaxTime) \X (0 .. MaxTime) : a < b}

(* calculate: where busy and idle time are given, they are those of all    *)
(* requests of the devices, also of those that other filters, damaged      *)
(* lines, a lost footer or records without an issue keep from the session. *)
IdleIsMeasured ==
  Ready => \A devices \in SUBSET Devices, r \in Ranges :
    Busy(devices, r[1], r[2]) # None =>
      Busy(devices, r[1], r[2]) = Cardinality({t \in BusyMoments(devices) : r[1] <= t /\ t < r[2]})

(* IntervalUnion: the intervals are apart from each other and hold what    *)
(* was inserted.                                                           *)
UnionsAreApart ==
  \A d \in Devices :
    /\ \A p, q \in activity.devices[d] : p # q => p[2] < q[1] \/ q[2] < p[1]
    /\ \A t \in Moments :
         (\E p \in activity.devices[d] : p[1] <= t /\ t < p[2])
           <=> \E i \in 1 .. read : /\ requests[i].device = d /\ requests[i].fate = "timed"
                                    /\ requests[i].issue <= t /\ t < requests[i].done

(* build: every completion in the range, its two ends included, is counted *)
(* in one window that contains it, and the busy time of the windows adds   *)
(* up to that of the range.                                                *)
WindowsTileTheRange ==
  Ready => \A r \in Ranges, width \in 1 .. 3 :
    LET samples == Windows(r[1], r[2], width)
        u == Combined(Devices, r[1], r[2])
    IN /\ \A ts \in r[1] .. r[2] :
            LET i == IndexOfWindow(samples, r[1], width, ts)
            IN i \in DOMAIN samples /\ samples[i][1] <= ts /\ ts <= samples[i][2]
       /\ Duration(u, r[1], r[2])
            = FoldLeft(LAMBDA sum, b : sum + b, 0, WindowBusy(samples, u))

(* build_intervals: busy runs and idle gaps take turns and cover the range *)
(* without overlap.                                                        *)
RunsAndGapsTakeTurns ==
  Ready => \A r \in Ranges :
    LET runs == Runs(Devices, r[1], r[2])
        all == SetToSortSeq(ToSet(runs) \cup ToSet(Gaps(runs, r[1], r[2])), ByStart)
    IN /\ Head(all)[1] = r[1] /\ Last(all)[2] = r[2]
       /\ \A i \in 1 .. Len(all) - 1 : all[i][2] = all[i + 1][1]
       /\ \A i \in 1 .. Len(all) - 1 : all[i] \in ToSet(runs) <=> all[i + 1] \notin ToSet(runs)

(* build_intervals: a completion that ends a run is of the burst of its    *)
(* request, however the runs were joined.                                  *)
CompletionsAreInTheirBurst ==
  Ready /\ activity.range # None =>
    LET bursts == Bursts(Runs(Devices, activity.range[1], activity.range[2])) IN
    \A i \in DOMAIN requests : requests[i].fate = "timed" =>
      LET b == IndexOfInterval(bursts, requests[i].done)
      IN b # None /\ bursts[b][1] <= requests[i].issue

(* Busy and idle time, windows, runs and gaps of the host are those of the *)
(* requests that were made.                                                *)
ActivityIsMeasured ==
  /\ IdleIsMeasured
  /\ UnionsAreApart
  /\ WindowsTileTheRange
  /\ RunsAndGapsTakeTurns
  /\ CompletionsAreInTheirBurst
=============================================================================
