------------------------------ MODULE ViewWorkers ------------------------------
(***************************************************************************)
(* The views the desktop computes in the background from the analysis on   *)
(* screen (selection.rs, graph_summary_ui.rs, footprint_ui.rs,             *)
(* analysis_ui.rs, scheduler_ui.rs): the summary of the selected requests, *)
(* the summary of all of them, the footprint lanes, the trends and the     *)
(* scheduler waits.  Each has a thread that works on a snapshot while      *)
(* records arrive and the user changes the filter, the axes or the layout; *)
(* frames take its answer, unless the receiver was dropped meanwhile.      *)
(*                                                                         *)
(* A thread and its answer are the snapshot they were started with.        *)
(***************************************************************************)
EXTENDS Naturals

CONSTANTS
  MaxEvents,    (* bound on the records and the clicks                       *)
  None

VARIABLES
  now,          (* [gen, query, axes, mode, live]: analysis_generation, the  *)
                (* filter, the axes, the layout of the lanes, and whether a  *)
                (* capture runs                                              *)
  sel,          (* SelectionState: [summary, pending, queued, discard]       *)
  all,          (* all_summary and all_pending                               *)
  foot,         (* FootprintState: view and pending                          *)
  trend,        (* trend_view and trend_pending                              *)
  waits,        (* SchedulerState: signature, view, pending, selected        *)
  latest,       (* history: the newest selection since they were cleared     *)
  events

vars == <<now, sel, all, foot, trend, waits, latest, events>>

(* The default of SelectionState, and a view without worker.               *)
NoSelection == [summary |-> None, pending |-> None, queued |-> None, discard |-> FALSE]
NoView == [view |-> None, pending |-> None]
NoWaits == [sig |-> None, view |-> None, pending |-> None, selected |-> FALSE]

Init ==
  /\ now = [gen |-> 0, query |-> 0, axes |-> "address", mode |-> 0, live |-> FALSE]
  /\ sel = NoSelection /\ all = NoView /\ foot = NoView /\ trend = NoView /\ waits = NoWaits
  /\ latest = None
  /\ events = 0

(* A thread started now; `ready` once its answer is in the channel.        *)
Job(req) == [snap |-> now, req |-> req, ready |-> FALSE]

-----------------------------------------------------------------------------
(* What the user and the capture do *)

Event == events < MaxEvents /\ events' = events + 1

(* A record of the capture: the analysis changes under the views.          *)
Ingest ==
  /\ Event /\ now.live
  /\ now' = [now EXCEPT !.gen = @ + 1]
  /\ UNCHANGED <<sel, all, foot, trend, waits, latest>>

(* reset_analysis *)
StartCapture ==
  /\ Event /\ ~now.live
  /\ now' = [now EXCEPT !.gen = @ + 1, !.query = 0, !.mode = 0, !.live = TRUE]
  /\ sel' = NoSelection /\ all' = NoView /\ foot' = NoView /\ trend' = NoView /\ waits' = NoWaits
  /\ latest' = None

EndCapture ==
  /\ Event /\ now.live
  /\ now' = [now EXCEPT !.live = FALSE]
  /\ UNCHANGED <<sel, all, foot, trend, waits, latest>>

\* The answers that are under way survive a change of the filter.
DropViewOnly(v) == [v EXCEPT !.view = None]
Invalidated(v) == NoView

(* invalidate_query; the scheduler's view notices by its signature.        *)
SetQuery ==
  /\ Event
  /\ now' = [now EXCEPT !.query = 1 - @]
  /\ sel' = NoSelection /\ all' = NoView
  /\ foot' = Invalidated(foot) /\ trend' = Invalidated(trend)
  /\ latest' = None
  /\ UNCHANGED waits

\* Selections outlive a change of the axes.
KeepSelection == sel
AfterAxes == NoSelection

SetAxes ==
  /\ Event
  /\ now' = [now EXCEPT !.axes = IF @ = "address" THEN "waits" ELSE "address"]
  /\ sel' = AfterAxes /\ all' = NoView
  /\ latest' = None
  /\ UNCHANGED <<foot, trend, waits>>

\* The lanes of the old layout are kept until the new ones are built.
KeepLanes == foot
AfterMode == NoView

SetMode ==
  /\ Event /\ now.axes = "address"
  /\ now' = [now EXCEPT !.mode = 1 - @]
  /\ foot' = AfterMode
  /\ UNCHANGED <<sel, all, trend, waits, latest>>

\* The first request is discarded, the second is not remembered.
BegunOrDropped(s, req) ==
  IF s.pending # None THEN [s EXCEPT !.discard = TRUE]
  ELSE [s EXCEPT !.discard = FALSE, !.pending = Job(req)]
(* begin_selection: a second request waits for the first, whose answer is  *)
(* then discarded.                                                         *)
Begun(s, req) ==
  IF s.pending # None THEN [s EXCEPT !.queued = req, !.discard = TRUE]
  ELSE [s EXCEPT !.discard = FALSE, !.pending = Job(req)]

Select ==
  /\ Event /\ now.axes = "address"
  /\ sel' = Begun(sel, events')
  /\ latest' = events'
  /\ UNCHANGED <<now, all, foot, trend, waits>>

(* A rectangle in a lane replaces the receiver of an older worker.         *)
SelectInLane ==
  /\ Event /\ now.axes = "address" /\ foot.view # None
  /\ sel' = [sel EXCEPT !.queued = None, !.discard = FALSE, !.pending = Job(events')]
  /\ latest' = events'
  /\ UNCHANGED <<now, all, foot, trend, waits>>

ClearSelection ==
  /\ Event /\ now.axes = "address"
  /\ sel.summary # None \/ sel.pending # None \/ sel.queued # None
  /\ sel' = [NoSelection EXCEPT !.discard = TRUE]
  /\ latest' = None
  /\ UNCHANGED <<now, all, foot, trend, waits>>

SelectWaits ==
  /\ Event /\ now.axes = "waits" /\ waits.view # None /\ ~waits.selected
  /\ waits' = [waits EXCEPT !.selected = TRUE]
  /\ UNCHANGED <<now, sel, all, foot, trend, latest>>

-----------------------------------------------------------------------------
(* The threads *)

Finished(v) == [v EXCEPT !.pending.ready = TRUE]
Busy(v) == v.pending # None /\ ~v.pending.ready

FinishSelection == Busy(sel) /\ sel' = Finished(sel) /\ UNCHANGED <<now, all, foot, trend, waits, latest, events>>
FinishAll == Busy(all) /\ all' = Finished(all) /\ UNCHANGED <<now, sel, foot, trend, waits, latest, events>>
FinishFootprint == Busy(foot) /\ foot' = Finished(foot) /\ UNCHANGED <<now, sel, all, trend, waits, latest, events>>
FinishTrend == Busy(trend) /\ trend' = Finished(trend) /\ UNCHANGED <<now, sel, all, foot, waits, latest, events>>
FinishWaits == Busy(waits) /\ waits' = Finished(waits) /\ UNCHANGED <<now, sel, all, foot, trend, latest, events>>

-----------------------------------------------------------------------------
(* The frames *)

Ready(v) == v.pending # None /\ v.pending.ready

\* The answer of a superseded request is shown until the next one is there.
ShowAny(s) == s.pending
Answer(s) == IF s.discard THEN None ELSE s.pending

(* poll_selection *)
PolledSelection ==
  IF ~Ready(sel) THEN sel
  ELSE LET taken == [sel EXCEPT !.summary = Answer(sel), !.pending = None, !.queued = None]
       IN IF sel.queued = None THEN taken ELSE Begun(taken, sel.queued)

\* A summary is as good as any of the same axes.
SameAxes(snap) == snap.axes = now.axes
Current(snap) == snap.axes = now.axes /\ (now.live \/ snap.gen = now.gen)

(* poll_graph_summary, after poll_selection made s of the selection; `due` *)
(* tells whether the refresh interval of a running capture is over.        *)
PolledAll(s, due) ==
  LET kept == [view |-> IF all.view # None /\ Current(all.view.snap) THEN all.view ELSE None,
               pending |-> IF all.pending # None /\ Current(all.pending.snap) THEN all.pending ELSE None]
      taken == IF Ready(kept) THEN [view |-> kept.pending, pending |-> None] ELSE kept
      wanted == taken.view = None \/ (now.live /\ taken.view.snap.gen # now.gen /\ due)
  IN IF s.summary # None \/ s.pending # None THEN [all EXCEPT !.pending = None]
     ELSE IF wanted /\ taken.pending = None THEN [taken EXCEPT !.pending = Job(None)]
     ELSE taken

SelectionFrame ==
  \E due \in BOOLEAN :
    /\ now.axes = "address"
    /\ sel' = PolledSelection
    /\ all' = PolledAll(sel', due)
    /\ UNCHANGED <<now, foot, trend, waits, latest, events>>

(* footprint_lanes_ui *)
FootprintFrame ==
  \E due \in BOOLEAN :
    /\ now.axes = "address"
    /\ LET taken == IF ~Ready(foot) THEN foot
                    ELSE [view |-> IF foot.pending.snap.mode = now.mode THEN foot.pending ELSE foot.view,
                          pending |-> None]
           stale == taken.view = None \/ (taken.view.snap.gen # now.gen /\ (~now.live \/ due))
       IN foot' = IF stale /\ taken.pending = None THEN [taken EXCEPT !.pending = Job(None)] ELSE taken
    /\ UNCHANGED <<now, sel, all, trend, waits, latest, events>>

TrendFits(snap) == now.live \/ snap.gen = now.gen

\* The refresh interval holds after the capture too.
AlwaysThrottled(v, due) == v # None /\ (v.snap.gen = now.gen \/ ~due)
Fresh(v, due) == v # None /\ (v.snap.gen = now.gen \/ (now.live /\ ~due))

(* refresh_trend_view: in the background only while a capture runs.        *)
TrendFrame ==
  \E due \in BOOLEAN :
    /\ LET taken == IF ~Ready(trend) THEN trend
                    ELSE [view |-> IF TrendFits(trend.pending.snap) THEN trend.pending ELSE trend.view,
                          pending |-> None]
       IN trend' = IF taken.pending # None \/ Fresh(taken.view, due) THEN taken
                   ELSE IF now.live THEN [taken EXCEPT !.pending = Job(None)]
                   ELSE [taken EXCEPT !.view = Job(None)]
    /\ UNCHANGED <<now, sel, all, foot, waits, latest, events>>

\* A selection in the waits keeps them through a change of the filter.
SelectionPins(changed) == ~waits.selected
Refreshes(changed) == changed \/ ~waits.selected

(* poll_scheduler; what is selected pins the view.                         *)
SchedulerFrame ==
  \E due \in BOOLEAN :
    /\ now.axes = "waits"
    /\ LET sig == [gen |-> now.gen, query |-> now.query]
           queryChanged == waits.sig = None \/ waits.sig.query # now.query
           renew == waits.sig # sig /\ (queryChanged \/ ~now.live \/ due) /\ Refreshes(queryChanged)
           begun == IF renew THEN [NoWaits EXCEPT !.sig = sig, !.pending = Job(None)] ELSE waits
       IN waits' = IF Ready(begun) THEN [begun EXCEPT !.view = begun.pending, !.pending = None] ELSE begun
    (* selection_panel detaches the request summaries on this axis.        *)
    /\ sel' = [sel EXCEPT !.summary = None, !.pending = None, !.queued = None]
    /\ all' = NoView
    /\ UNCHANGED <<now, foot, trend, latest, events>>

Threads == FinishSelection \/ FinishAll \/ FinishFootprint \/ FinishTrend \/ FinishWaits
Next ==
  \/ Ingest \/ StartCapture \/ EndCapture
  \/ SetQuery \/ SetAxes \/ SetMode \/ Select \/ SelectInLane \/ ClearSelection \/ SelectWaits
  \/ Threads
  \/ SelectionFrame \/ FootprintFrame \/ TrendFrame \/ SchedulerFrame

(* Threads run; a page that is shown is drawn again and again.             *)
Fairness ==
  /\ WF_vars(FinishSelection) /\ WF_vars(FinishAll) /\ WF_vars(FinishFootprint)
  /\ WF_vars(FinishTrend) /\ WF_vars(FinishWaits)
  /\ WF_vars(SelectionFrame) /\ WF_vars(FootprintFrame) /\ WF_vars(TrendFrame) /\ WF_vars(SchedulerFrame)

Spec == Init /\ [][Next]_vars /\ Fairness

-----------------------------------------------------------------------------
(* begin_selection, poll_selection: the answer that appears is the one to  *)
(* the newest selection, never to one that was superseded or cleared.      *)
SelectionIsLatest ==
  [][sel'.summary # None /\ sel'.summary # sel.summary => sel'.summary.req = latest']_<<sel, latest>>

(* The selection on screen was computed for the axes and the filter that   *)
(* are on screen.                                                          *)
SelectionMatchesPlot ==
  sel.summary # None => /\ sel.summary.snap.axes = now.axes
                        /\ sel.summary.snap.query = now.query

(* footprint_lanes_ui: lanes, and a late answer about to become lanes, are *)
(* of the chosen layout and filter.                                        *)
LanesMatchLayout ==
  foot.view # None => foot.view.snap.mode = now.mode /\ foot.view.snap.query = now.query

(* refresh_trend_view: trends are of the filter on screen.                 *)
TrendsMatchFilter == trend.view # None => trend.view.snap.query = now.query

(* poll_graph_summary: what a frame shows for all requests once no capture *)
(* runs is of the last state of the analysis.                              *)
SummaryIsOfAnalysis ==
  [][SelectionFrame /\ ~now.live /\ sel'.summary = None /\ sel'.pending = None
       => all'.view = None \/ all'.view.snap.gen = now.gen]_vars

(* poll_scheduler: waits that a frame shows are of the filter on screen,   *)
(* though a selection pins them against the records of a capture.          *)
WaitsMatchFilter ==
  [][SchedulerFrame /\ waits'.view # None => waits'.view.snap.query = now.query]_vars

(* The newest selection is answered, unless it is cleared or made          *)
(* meaningless by another filter or axis.                                  *)
SelectionIsAnswered ==
  latest # None /\ now.axes = "address"
    ~> latest = None \/ now.axes # "address" \/ (sel.summary # None /\ sel.summary.req = latest)

(* refresh_trend_view: after a capture the trends settle on its last state. *)
TrendsSettle == ~now.live ~> now.live \/ (trend.view # None /\ trend.view.snap.gen = now.gen)

(* Answers of workers that arrive late never appear beside axes, layout or *)
(* filter that they were not computed for.                                 *)
ScreenIsCurrent ==
  /\ []SelectionMatchesPlot
  /\ []LanesMatchLayout
  /\ []TrendsMatchFilter
  /\ SelectionIsLatest
  /\ SummaryIsOfAnalysis
  /\ WaitsMatchFilter

(* The newest selection is answered, and trends settle once a capture has  *)
(* ended.                                                                  *)
ViewsSettle ==
  /\ SelectionIsAnswered
  /\ TrendsSettle
=============================================================================
