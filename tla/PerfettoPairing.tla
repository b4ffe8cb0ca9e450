---------------------------- MODULE PerfettoPairing ----------------------------
(***************************************************************************)
(* Block requests in a Perfetto trace: perfetto.rs decode and analyze, and *)
(* the Projection of perfetto_projection.rs.  The kernel handles           *)
(* requests of one device and direction, which the trace records without   *)
(* their identity; analyze pairs records by their range of sectors and     *)
(* gives up where that could be wrong.  `req`, the identity, is known to   *)
(* the properties and not to the code.                                     *)
(*                                                                         *)
(* CPUs write their packets separately and events are sorted by time, so   *)
(* events of the same time come in any order.  Records get lost in the     *)
(* kernel's buffers, in damaged packets, behind the end of a truncated     *)
(* file, or at the limit of the projection.  The trace covers the requests *)
(* from their start.                                                       *)
(***************************************************************************)
EXTENDS Integers, Sequences, FiniteSets, SequencesExt

CONSTANTS
  Requests,     (* numbers of requests of one device and direction           *)
  Extents,      (* their ranges <<sector, sectors>>                          *)
  Cpus,
  MaxTime, MaxRequeues, MaxLosses,                       (* bounds           *)
  MAX_PENDING, MAX_EVENTS,
  Snapshots,    (* what a trace may say of the process of the issuing thread:
                   sequences of [at, pid, start]                             *)
  Hotplug,      (* whether a CPU may be offline when the trace ends          *)
  None

VARIABLES
  time,
  request,      (* truth: [at, extent, since] of each request                *)
  events,       (* decoded events in the order of analyze                    *)
  quality,      (* TraceQuality                                              *)
  overruns,     (* truth: records each CPU lost                              *)
  losses, requeues,
  result        (* None, then the analysis                                   *)

vars == <<time, request, events, quality, overruns, losses, requeues, result>>

Init ==
  /\ time = 1
  /\ request = [r \in Requests |-> [at |-> "new", extent |-> None, since |-> 0]]
  /\ events = <<>>
  /\ quality = [truncated |-> FALSE, limited |-> FALSE, errors |-> 0, service |-> 0,
                start |-> [c \in Cpus |-> 0], end |-> <<>>]
  /\ overruns = [c \in Cpus |-> 0]
  /\ losses = 0 /\ requeues = 0
  /\ result = None

-----------------------------------------------------------------------------
(* Recording and decoding *)

(* Events of this time are in an order of their own.                       *)
Places == {i \in 0 .. Len(events) : \A j \in i + 1 .. Len(events) : events[j].ts = time'}

Retain(e) ==
  IF quality.truncated THEN UNCHANGED <<events, quality>>
  ELSE IF Len(events) >= MAX_EVENTS
       THEN quality' = [quality EXCEPT !.limited = TRUE] /\ UNCHANGED events
  ELSE /\ \E i \in Places : events' = InsertAt(events, i + 1, e)
       /\ UNCHANGED quality

(* service_stats: the tracing service lost a chunk, and counts it.         *)
ServiceStats(q, lost) == [q EXCEPT !.service = lost]

(* The packet is damaged or lost, or the file ends here.                   *)
Damaged ==
  /\ losses < MaxLosses /\ losses' = losses + 1
  /\ quality' \in {[quality EXCEPT !.errors = 1], [quality EXCEPT !.truncated = TRUE],
                    ServiceStats(quality, 1)}
  /\ UNCHANGED <<events, overruns>>

Overrun ==
  /\ losses < MaxLosses /\ losses' = losses + 1
  /\ \E c \in Cpus : overruns' = [overruns EXCEPT ![c] = 1]
  /\ UNCHANGED <<events, quality>>

Record(kind, r, extent) ==
  \/ Retain([kind |-> kind, req |-> r, extent |-> extent, ts |-> time']) /\ UNCHANGED <<overruns, losses>>
  \/ Damaged
  \/ Overrun

-----------------------------------------------------------------------------
(* The kernel *)

(* Two steps of a request are not simultaneous; those of others may be.    *)
At(r) ==
  /\ result = None /\ quality.end = <<>>
  /\ time' \in {time, time + 1} /\ time' <= MaxTime
  /\ request[r].since < time'

Becomes(r, at, x) == request' = [request EXCEPT ![r] = [at |-> at, extent |-> x, since |-> time']]

Started(r) == \A q \in Requests : q < r => request[q].at # "new"

Insert ==
  \E r \in Requests, x \in Extents :
    /\ At(r) /\ Started(r) /\ request[r].at = "new"
    /\ Becomes(r, "queued", x)
    /\ Record("Insert", r, x)
    /\ UNCHANGED <<requeues, result>>

(* A request is issued as it was queued, or without having been queued.    *)
Issue ==
  \E r \in Requests, x \in Extents :
    /\ At(r) /\ Started(r)
    /\ \/ request[r].at = "new"
       \/ request[r].at = "queued" /\ x = request[r].extent
    /\ Becomes(r, "issued", x)
    /\ Record("Issue", r, x)
    /\ UNCHANGED <<requeues, result>>

Requeue ==
  \E r \in Requests :
    /\ At(r) /\ request[r].at = "issued" /\ requeues < MaxRequeues
    /\ requeues' = requeues + 1
    /\ Becomes(r, "queued", request[r].extent)
    /\ Record("Requeue", r, request[r].extent)
    /\ UNCHANGED result

(* A request completes at once or in parts.                                *)
Complete ==
  \E r \in Requests, n \in 0 .. 2 :
    LET x == request[r].extent IN
    /\ At(r) /\ request[r].at = "issued"
    /\ n <= x[2] /\ (n = 0 => x[2] = 0)
    /\ IF n = x[2] THEN Becomes(r, "done", x) ELSE Becomes(r, "issued", <<x[1] + n, x[2] - n>>)
    /\ Record("Complete", r, <<x[1], n>>)
    /\ UNCHANGED <<requeues, result>>

-----------------------------------------------------------------------------
(* TraceQuality *)

(* kernel_lost_events: CPUs of the last snapshot against the first.        *)
KernelLost(q) ==
  IF q.end = <<>> \/ \E c \in DOMAIN q.end : c \notin DOMAIN q.start THEN None
  ELSE Cardinality({c \in DOMAIN q.end : q.end[c] > q.start[c]})

\* Losses of the kernel do not count.
CompromisedInFile(q) == q.truncated \/ q.limited \/ q.errors > 0 \/ q.service > 0
Compromised(q) ==
  q.truncated \/ q.limited \/ q.errors > 0 \/ q.service > 0 \/ KernelLost(q) \notin {None, 0}

-----------------------------------------------------------------------------
(* analyze: a step of the loop takes the state a and the event number i.   *)

\* Ranges of the same start are the same.
SameStart(d, e) == d.extent[1] = e.extent[1]
SameRange(d, e) == d.extent = e.extent
Overlaps(d, e) ==
  IF d.extent[2] = 0 \/ e.extent[2] = 0 THEN d.extent[1] = e.extent[1]
  ELSE d.extent[1] < e.extent[1] + e.extent[2] /\ e.extent[1] < d.extent[1] + d.extent[2]

Nothing == [pending |-> <<>>, inserted |-> <<>>, limited |-> FALSE,
            completions |-> <<>>, unmatched |-> {}, orphans |-> {}, requeues |-> {}]

OnInsert(a, i) ==
  IF Len(a.inserted) >= MAX_PENDING
  THEN [a EXCEPT !.orphans = @ \cup ToSet(a.inserted), !.inserted = <<i>>, !.limited = TRUE]
  ELSE [a EXCEPT !.inserted = Append(@, i)]

Taint(pending, e) ==
  [k \in DOMAIN pending |-> IF Overlaps(events[pending[k].issue], e)
                            THEN [pending[k] EXCEPT !.compromised = TRUE] ELSE pending[k]]

OnIssue(a, i) ==
  LET e == events[i]
      matching == SelectSeq(a.inserted, LAMBDA j : Overlaps(events[j], e))
      insert == IF Len(matching) = 1 /\ SameRange(events[matching[1]], e) THEN matching[1] ELSE None
      full == Len(a.pending) >= MAX_PENDING
      overlap == \E k \in DOMAIN a.pending : Overlaps(events[a.pending[k].issue], e)
      new == [issue |-> i, insert |-> insert, compromised |-> a.limited \/ overlap \/ full]
  IN [a EXCEPT !.inserted = SelectSeq(@, LAMBDA j : j # insert),
               !.unmatched = IF full THEN @ \cup {a.pending[k].issue : k \in DOMAIN a.pending} ELSE @,
               !.limited = @ \/ full,
               !.pending = IF full THEN <<new>> ELSE Append(Taint(@, e), new)]

OnRequeue(a, i) ==
  LET matched == \E k \in DOMAIN a.pending : Overlaps(events[a.pending[k].issue], events[i])
  IN [a EXCEPT !.pending = Taint(@, events[i]),
               !.requeues = IF matched THEN @ ELSE @ \cup {i}]

(* One candidate of the very range that nothing compromised gives timing;  *)
(* with several, or a partial completion, they are compromised and stay.   *)
OnComplete(a, i) ==
  LET e == events[i]
      candidates == SelectSeq(a.pending, LAMBDA p : Overlaps(events[p.issue], e))
      only == candidates[1]
      one == Len(candidates) = 1
      consumed == one /\ SameRange(events[only.issue], e)
      timed == /\ consumed /\ ~only.compromised /\ ~Compromised(quality)
               /\ e.ts > events[only.issue].ts
      queued == timed /\ only.insert # None /\ events[only.insert].ts < events[only.issue].ts
  IN [a EXCEPT
        !.completions = Append(@, [complete |-> i, candidates |-> {candidates[k].issue : k \in DOMAIN candidates},
                                   issue |-> IF timed THEN only.issue ELSE None,
                                   insert |-> IF queued THEN only.insert ELSE None]),
        !.pending = IF consumed THEN SelectSeq(@, LAMBDA p : p # only) ELSE Taint(@, e)]

OnEvent(a, i) ==
  CASE events[i].kind = "Insert" -> OnInsert(a, i)
    [] events[i].kind = "Issue" -> OnIssue(a, i)
    [] events[i].kind = "Requeue" -> OnRequeue(a, i)
    [] events[i].kind = "Complete" -> OnComplete(a, i)

\* A request that ends at the start of another still counts.
EndedEarly(ends, start) == Cardinality({j \in DOMAIN ends : ends[j] < start})
Ended(ends, start) == Cardinality({j \in DOMAIN ends : ends[j] <= start})

(* with_analysis: the depth at an issue, from the intervals that were      *)
(* paired, sorted by start and record.                                     *)
Depths(completions) ==
  LET timed == SelectSeq(completions, LAMBDA o : o.issue # None)
      rows == SetToSortSeq({[start |-> events[timed[k].issue].ts, id |-> timed[k].issue,
                             end |-> events[timed[k].complete].ts] : k \in DOMAIN timed},
                           LAMBDA p, q : p.start < q.start \/ (p.start = q.start /\ p.id < q.id))
      ends == [k \in DOMAIN rows |-> rows[k].end]
  IN {[id |-> rows[k].id, depth |-> k - Ended(ends, rows[k].start)] : k \in DOMAIN rows}

(* Projection::new: the time since the last event of the kind.             *)
Gap(i) ==
  LET before == {j \in 1 .. i - 1 : events[j].kind = events[i].kind}
  IN IF before = {} THEN None ELSE events[i].ts - events[Max(before)].ts

\* Any single candidate describes the issue.
SingleCandidate(o) == IF Cardinality(o.candidates) = 1 THEN Max(o.candidates) ELSE None
(* The record whose CPU, gap, bandwidth, depth and access pattern the row  *)
(* shows as those of its issue.                                            *)
Described(o) == IF o.issue # None /\ Cardinality(o.candidates) = 1 THEN Max(o.candidates) ELSE None

(* process_candidate: the last snapshot up to the issue names the process, *)
(* unless another of the same time contradicts it.  A row without time is  *)
(* dropped by Projection::new.                                             *)
ProcessCandidate(snapshots, ts) ==
  LET rows == {r \in ToSet(snapshots) : r.at # None /\ r.at <= ts}
      latest == {r \in rows : \A q \in rows : q.at <= r.at}
  IN IF Cardinality(latest) = 1 /\ \A r \in latest : r.start = None \/ r.start <= ts
     THEN (CHOOSE r \in latest : TRUE).pid ELSE None

(* Projection::completion: the row that is saved.  Sizes fit 32 bits.      *)
Completion(o, snapshots) ==
  LET device == IF o.issue = None THEN None ELSE events[o.complete].ts - events[o.issue].ts
      queue  == IF o.insert = None THEN None ELSE events[o.issue].ts - events[o.insert].ts
  IN [at |-> events[o.complete].ts,
      issued |-> IF o.issue = None THEN events[o.complete].ts ELSE events[o.issue].ts,
      device |-> device, queue |-> queue,
      total |-> IF device = None THEN None ELSE device + IF queue = None THEN 0 ELSE queue,
      described |-> Described(o),
      issue_gap |-> IF Described(o) = None THEN None ELSE Gap(Described(o)),
      completion_gap |-> Gap(o.complete),
      process |-> IF o.issue = None THEN None ELSE ProcessCandidate(snapshots, events[o.issue].ts)]

Analysis(snapshots) ==
  LET end == FoldLeft(OnEvent, Nothing, [i \in 1 .. Len(events) |-> i])
  IN [completions |-> end.completions, depths |-> Depths(end.completions), requeues |-> end.requeues,
      unmatched |-> end.unmatched \cup {end.pending[k].issue : k \in DOMAIN end.pending},
      orphans |-> end.orphans \cup ToSet(end.inserted),
      rows |-> [k \in DOMAIN end.completions |-> Completion(end.completions[k], snapshots)],
      snapshots |-> snapshots]

(* The trace ends with a snapshot of the counters of the CPUs that are     *)
(* online, and is analyzed.                                                *)
EndTrace ==
  /\ result = None /\ quality.end = <<>>
  /\ \E online \in {c \in SUBSET Cpus : c = Cpus \/ (Hotplug /\ c # {})} :
       quality' = [quality EXCEPT !.end = [c \in online |-> overruns[c]]]
  /\ UNCHANGED <<time, request, events, overruns, losses, requeues, result>>

Analyze ==
  /\ result = None /\ quality.end # <<>>
  /\ \E snapshots \in Snapshots : result' = Analysis(snapshots)
  /\ UNCHANGED <<time, request, events, quality, overruns, losses, requeues>>

Next ==
  Insert \/ Issue \/ Requeue \/ Complete \/ EndTrace \/ Analyze
Spec == Init /\ [][Next]_vars

-----------------------------------------------------------------------------
Timed == {k \in DOMAIN result.completions : result.completions[k].issue # None}

(* analyze: a completion that is given an issuer and a latency is the      *)
(* completion of the request that was issued there, through overlapping    *)
(* and repeated ranges, requeues, partial completions, events out of order *)
(* and losses that were reported.                                          *)
PairingIsTrue ==
  result # None =>
    \A k \in Timed :
      events[result.completions[k].issue].req = events[result.completions[k].complete].req

(* analyze: an issue is unmatched, or was consumed by the one completion   *)
(* that had it as its only candidate and covers its range.                 *)
IssuesAreAccounted ==
  result # None =>
    \A i \in DOMAIN events : events[i].kind = "Issue" =>
      Cardinality({k \in DOMAIN result.completions :
                     /\ result.completions[k].candidates = {i}
                     /\ events[i].extent = events[result.completions[k].complete].extent})
        = IF i \in result.unmatched THEN 0 ELSE 1

(* with_analysis: the depth at a timed issue is the number of timed        *)
(* requests in flight at that moment, itself included.                     *)
DepthIsInFlight ==
  result # None =>
    \A d \in result.depths :
      d.depth = Cardinality({k \in Timed :
                  LET o == result.completions[k] IN
                  /\ events[o.issue].ts < events[d.id].ts \/ (events[o.issue].ts = events[d.id].ts /\ o.issue <= d.id)
                  /\ events[o.complete].ts > events[d.id].ts})

(* completion: what a row tells of its issue is of the record that issued  *)
(* this request; its stages add up to the time from there, or from the     *)
(* insertion of that request; no event of the kind was decoded between an  *)
(* event and the one its gap counts from; and its process had the thread   *)
(* before the issue, with no snapshot up to the issue that says otherwise. *)
RowsAreTrue ==
  result # None =>
    \A k \in DOMAIN result.rows :
      LET row == result.rows[k]
          o   == result.completions[k]
      IN /\ row.described # None =>
              /\ events[row.described].req = events[o.complete].req
              /\ row.at = row.issued + row.device
         /\ row.total # None /\ row.queue # None =>
              \E j \in DOMAIN events : /\ events[j].kind = "Insert"
                                       /\ events[j].ts = row.at - row.total
         /\ row.issue_gap # None =>
              \A j \in DOMAIN events : events[j].kind = "Issue" =>
                events[j].ts >= row.issued \/ events[j].ts <= row.issued - row.issue_gap
         /\ row.process # None =>
              \E s \in ToSet(result.snapshots) :
                /\ s.pid = row.process /\ s.at # None /\ s.at <= row.issued
                /\ \A q \in ToSet(result.snapshots) :
                     q.at # None /\ s.at <= q.at /\ q.at <= row.issued => q.pid = s.pid

(* analyze: pairs are of one request, every issue is accounted for once,   *)
(* the depth counts the requests in flight, and rows are of their request. *)
PairingIsSound ==
  /\ PairingIsTrue
  /\ IssuesAreAccounted
  /\ DepthIsInFlight
  /\ RowsAreTrue
=============================================================================
