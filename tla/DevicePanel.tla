------------------------------ MODULE DevicePanel ------------------------------
(***************************************************************************)
(* Discovery, choice and inspection of phones (adb.rs, capture.rs and      *)
(* app.rs).  Each `adb devices` and each preflight runs on a thread of its *)
(* own and answers through the channel of the application, while phones    *)
(* come and go, another one is chosen, or a capture starts.                *)
(***************************************************************************)
EXTENDS Naturals, Sequences, FiniteSets, Functions

CONSTANTS
  Phones,
  MaxChanges, MaxPreflights, MaxErrors,    (* bounds *)
  None

VARIABLES
  phone,      (* truth: absent, unauthorized or device                       *)
  rooted,     (* truth: how a phone grants root, None if it does not         *)
  app,        (* [selected, devices, preflight, pending, running]            *)
  listing,    (* threads of refresh_devices                                  *)
  preflights, (* threads in preflight: [serial, at, report, capture]         *)
  channel,    (* HostMessages on their way                                   *)
  changes, errors

vars == <<phone, rooted, app, listing, preflights, channel, changes, errors>>

States == {"absent", "unauthorized", "device"}

Init ==
  /\ phone \in [Phones -> {"absent", "device"}]
  /\ rooted \in [Phones -> {"SuCommand", "adb root", None}]
  /\ app = [selected |-> None, devices |-> [p \in Phones |-> "absent"], preflight |-> None,
            pending |-> FALSE, running |-> None]
  /\ listing = 0 /\ preflights = <<>> /\ channel = <<>>
  /\ changes = 0 /\ errors = 0

-----------------------------------------------------------------------------
(* The desk *)

Change ==
  /\ changes < MaxChanges /\ changes' = changes + 1
  /\ \E p \in Phones :
       \E s \in States \ {phone[p]} : phone' = [phone EXCEPT ![p] = s]
  /\ UNCHANGED <<rooted, app, listing, preflights, channel, errors>>

-----------------------------------------------------------------------------
(* Discovery *)

Refresh ==
  /\ ~app.pending /\ app.running = None
  /\ app' = [app EXCEPT !.pending = TRUE]
  /\ listing' = listing + 1
  /\ UNCHANGED <<phone, rooted, preflights, channel, changes, errors>>

(* parse_devices has a row for each phone; a command that hangs is killed  *)
(* after 20 seconds.                                                       *)
ListDevices ==
  /\ listing > 0 /\ listing' = listing - 1
  /\ \/ /\ channel' = Append(channel, [kind |-> "Devices", devices |-> phone])
        /\ UNCHANGED errors
     \/ /\ errors < MaxErrors /\ errors' = errors + 1
        /\ channel' = Append(channel, [kind |-> "Failed"])
  /\ UNCHANGED <<phone, rooted, app, preflights, changes>>

-----------------------------------------------------------------------------
(* The user *)

Choices == {p \in Phones : app.devices[p] = "device"}

(* The list of the side panel forgets the report of another phone; that of *)
(* the compact menu does not.                                              *)
Select ==
  /\ app.running = None
  /\ \E p \in Choices \ {app.selected} :
       app' \in {[app EXCEPT !.selected = p, !.preflight = None], [app EXCEPT !.selected = p]}
  /\ UNCHANGED <<phone, rooted, listing, preflights, channel, changes, errors>>

Thread(p, capture) ==
  [serial |-> p, at |-> "root", capture |-> capture,
   report |-> [serial |-> p, root |-> FALSE, method |-> "Shell"]]

Inspect ==
  /\ app.running = None /\ app.selected # None /\ Len(preflights) < MaxPreflights
  /\ preflights' = Append(preflights, Thread(app.selected, FALSE))
  /\ UNCHANGED <<phone, rooted, app, listing, channel, changes, errors>>

\* The report of an earlier inspection is kept.
KeepReport(report) == report
ForgetReport(report) == None

Start ==
  /\ app.running = None /\ app.selected # None /\ Len(preflights) < MaxPreflights
  /\ app' = [app EXCEPT !.preflight = ForgetReport(@), !.running = app.selected]
  /\ preflights' = Append(preflights, Thread(app.selected, TRUE))
  /\ UNCHANGED <<phone, rooted, listing, channel, changes, errors>>

(* The capture ends, with or without its preflight (CaptureLifecycle).     *)
Finish ==
  \E i \in DOMAIN preflights :
    /\ preflights[i].capture /\ preflights[i].at = "done"
    /\ preflights' = [preflights EXCEPT ![i].at = "over"]
    /\ channel' = Append(channel, [kind |-> "Finished"])
    /\ UNCHANGED <<phone, rooted, app, listing, changes, errors>>

-----------------------------------------------------------------------------
(* AdbClient::preflight *)

Reached(p) == phone[p] = "device"

(* detect_root tries the shell and the two ways of su, then restarts adbd. *)
DetectRoot(t) ==
  [t EXCEPT !.at = "read",
            !.report.root = Reached(t.serial) /\ rooted[t.serial] # None,
            !.report.method = IF Reached(t.serial) /\ rooted[t.serial] = "SuCommand" THEN "SuCommand" ELSE "Shell"]

(* The properties and files of the phone; any of them may fail.  The list  *)
(* of events and the query of Perfetto may fail without consequence.       *)
Answer(t) == IF Reached(t.serial) THEN [kind |-> "Preflight", report |-> t.report] ELSE [kind |-> "Failed"]

Preflight ==
  \E i \in DOMAIN preflights :
    LET t == preflights[i] IN
    /\ t.at \in {"root", "read"}
    /\ IF t.at = "read"
       THEN /\ preflights' = [preflights EXCEPT ![i].at = "done"]
            /\ channel' = IF t.capture /\ ~Reached(t.serial) THEN channel ELSE Append(channel, Answer(t))
       ELSE /\ preflights' = [preflights EXCEPT ![i] = DetectRoot(t)]
            /\ UNCHANGED channel
    /\ UNCHANGED <<phone, rooted, app, listing, changes, errors>>

-----------------------------------------------------------------------------
(* drain_messages *)

\* The phone that was chosen stays chosen.
KeepSelected(devices) ==
  IF app.selected # None THEN app.selected
  ELSE IF Cardinality({p \in Phones : devices[p] = "device"}) = 1
       THEN CHOOSE p \in Phones : devices[p] = "device" ELSE None
StillSelected(devices) ==
  LET available == {p \in Phones : devices[p] = "device"} IN
  IF app.selected \in available THEN app.selected
  ELSE IF Cardinality(available) = 1 THEN CHOOSE p \in available : TRUE
  ELSE None

OnDevices(devices) ==
  IF app.running # None THEN [app EXCEPT !.pending = FALSE]
  ELSE [app EXCEPT !.pending = FALSE, !.devices = devices, !.selected = StillSelected(devices),
                   !.preflight = IF StillSelected(devices) # app.selected \/ devices # app.devices THEN None ELSE @]

\* Any report is shown.
AnyReport(report) == TRUE
Wanted(report) == report.serial = app.selected

OnPreflight(report) == IF Wanted(report) THEN [app EXCEPT !.preflight = report] ELSE app

\* A failed discovery is not over.
FailedPending(pending) == pending
FailedOver(pending) == FALSE

OnFailed == [app EXCEPT !.pending = FailedOver(@), !.preflight = None]

Receive ==
  /\ channel # <<>> /\ channel' = Tail(channel)
  /\ app' = CASE Head(channel).kind = "Devices" -> OnDevices(Head(channel).devices)
              [] Head(channel).kind = "Preflight" -> OnPreflight(Head(channel).report)
              [] Head(channel).kind = "Failed" -> OnFailed
              [] Head(channel).kind = "Finished" -> [app EXCEPT !.running = None]
  /\ UNCHANGED <<phone, rooted, listing, preflights, changes, errors>>

Next ==
  \/ Change \/ Refresh \/ ListDevices \/ Select \/ Inspect \/ Start \/ Finish
  \/ Preflight \/ Receive

(* Frames refresh and receive, and threads end: execute kills a command    *)
(* that takes too long.                                                    *)
Fairness == WF_vars(Refresh) /\ WF_vars(ListDevices) /\ WF_vars(Receive) /\ WF_vars(Preflight)
Spec == Init /\ [][Next]_vars /\ Fairness

-----------------------------------------------------------------------------
(* While a capture runs, the report that is shown and exported with it is  *)
(* of its phone, whichever phones were inspected before and answer late.   *)
ReportIsOfCapture == app.running # None /\ app.preflight # None => app.preflight.serial = app.running

(* The phone that Start would use is one that the last list has connected  *)
(* and authorized.                                                         *)
SelectedIsListed == app.running = None /\ app.selected # None => app.devices[app.selected] = "device"

(* A phone that stays connected while no other is gets selected, also      *)
(* after discoveries that failed, unless a capture runs.                   *)
OnlyPhoneIsSelected ==
  \A p \in Phones :
    <>[](phone = [q \in Phones |-> IF q = p THEN "device" ELSE "absent"])
      => []<>(app.selected = p \/ app.running # None)

(* The report beside a capture is of its phone, and a phone that Start     *)
(* would use is connected.                                                 *)
PanelIsConsistent ==
  /\ ReportIsOfCapture
  /\ SelectedIsListed
=============================================================================
