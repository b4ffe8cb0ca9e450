------------------------------- MODULE MCWorkers -------------------------------
(***************************************************************************)
(* The background work of the desktop in one run: a behaviour is one of    *)
(* SessionWorkers, which this module extends, ViewWorkers or DevicePanel,  *)
(* as `part` says.  The constants are the smallest with two files, one     *)
(* change of a file, a load beside a reanalysis or a baseline, a selection *)
(* superseded in a capture, and two phones with two inspections.           *)
(***************************************************************************)
EXTENDS SessionWorkers

VARIABLES
  part,
  now, sel, all, foot, trend, waits, latest, events,
  phone, rooted, panel, listing, preflights, channel, changes, errors

V == INSTANCE ViewWorkers WITH MaxEvents <- 3
D == INSTANCE DevicePanel WITH
  app <- panel, Phones <- {"p", "q"}, MaxChanges <- 1, MaxPreflights <- 2, MaxErrors <- 1

viewVars == <<now, sel, all, foot, trend, waits, latest, events>>
panelVars == <<phone, rooted, panel, listing, preflights, channel, changes, errors>>
workersVars == <<part, vars, viewVars, panelVars>>

(* The two files are alike, so the one recorded last may be the first; one *)
(* phone grants root, and it is there from the start.                      *)
WorkersInit ==
  /\ part \in {"sessions", "views", "phones"}
  /\ Init /\ V!Init /\ D!Init
  /\ app \in IF part = "sessions" THEN {Fresh, Recorded("a")} ELSE {Fresh}
  /\ IF part = "phones" THEN phone["p"] = "device"
     ELSE phone = [p \in {"p", "q"} |-> "absent"]
  /\ rooted = [p \in {"p", "q"} |-> IF p = "p" THEN "SuCommand" ELSE None]

InSessions == part = "sessions" /\ UNCHANGED <<part, viewVars, panelVars>>
InViews == part = "views" /\ UNCHANGED <<part, vars, panelVars>>
InPhones == part = "phones" /\ UNCHANGED <<part, vars, viewVars>>

WorkersNext ==
  \/ InSessions /\ Next
  \/ InViews /\ V!Next
  \/ InPhones /\ D!Next

(* The threads run, commands of adb are killed when they take too long,    *)
(* and the window is drawn every 250 ms.                                   *)
WorkersFairness ==
  /\ WF_workersVars(InSessions /\ Frame)
  /\ \A k \in {"open", "reanalyze", "baseline"} : WF_workersVars(InSessions /\ Work(k))
  /\ WF_workersVars(InViews /\ V!FinishSelection) /\ WF_workersVars(InViews /\ V!FinishTrend)
  /\ WF_workersVars(InViews /\ V!SelectionFrame) /\ WF_workersVars(InViews /\ V!TrendFrame)
  /\ WF_workersVars(InPhones /\ D!Refresh) /\ WF_workersVars(InPhones /\ D!ListDevices)
  /\ WF_workersVars(InPhones /\ D!Receive) /\ WF_workersVars(InPhones /\ D!Preflight)

WorkersSpec == WorkersInit /\ [][WorkersNext]_workersVars /\ WorkersFairness

-----------------------------------------------------------------------------
(* Late answers of workers never appear beside what they are not of. *)
ScreenIsCurrent == V!ScreenIsCurrent
(* begin_selection, refresh_trend_view, drain_messages: views settle, and  *)
(* the only phone that is connected gets selected.                         *)
WindowSettles ==
  /\ part = "views" => V!ViewsSettle
  /\ D!OnlyPhoneIsSelected
(* drain_messages: reports and the choice of a phone follow the phones. *)
PanelIsConsistent == D!PanelIsConsistent
=============================================================================
