---------------------------- MODULE SessionWorkers ----------------------------
(***************************************************************************)
(* What the desktop shows of saved sessions: open_session, Perfetto        *)
(* recovery, reanalysis of a time range, and the comparison baseline (app.rs, *)
(* perfetto_ui.rs, reanalysis.rs, compare_explore.rs, session.rs).  Each   *)
(* load is a thread that reads the file in steps and answers through a     *)
(* channel; the channel is read by the frames of the user interface, and   *)
(* only by those that draw the page it belongs to.                         *)
(*                                                                         *)
(* A loaded analysis is what was read of which version of which file: its  *)
(* head and its tail, which for a time range are the pass over the block   *)
(* events and the pass over their evidence.                                *)
(***************************************************************************)
EXTENDS Naturals, TLAPS

CONSTANTS
  Pages,            (* "Overview", "Compare" and pages that draw no load     *)
  Paths,            (* session files                                         *)
  Ranges,           (* time ranges a session can be reanalyzed for           *)
  MaxWrites,        (* bound on changes of the files by a recorder           *)
  MaxLoads,         (* bound on the loads that are started                   *)
  None

(* What was read of a file, and a thread that reads it.                    *)
Views == [path : Paths, window : Ranges \cup {None}, head : Nat, tail : Nat]
Threads ==
  [path : Paths, window : Ranges \cup {None}, at : {"stat", "head", "tail", "check", "answered"},
   before : Nat, head : Nat, tail : Nat, ok : BOOLEAN, cancel : BOOLEAN]

ASSUME WorkersAssumption ==
  /\ MaxWrites \in Nat /\ MaxLoads \in Nat
  /\ None \notin Paths \cup Views \cup Threads \cup [path : Paths, view : Views] \cup [gen : Nat, view : Views]

VARIABLES
  app,              (* [phase, path, view, gen]: the phase, session_path,    *)
                    (* the analyzer and analysis_generation                  *)
  page,
  load,             (* load[k] is the thread of kind k, None when nothing is *)
                    (* pending                                               *)
  version,          (* the contents of each file                             *)
  comparison,       (* the baseline, None or [path, view]                    *)
  current,          (* the right-hand side, None or [gen, view]              *)
  closing,          (* "open", "asked" (close_after_capture) or "closed"     *)
  loads, writes

vars == <<app, page, load, version, comparison, current, closing, loads, writes>>

Kinds == {"open", "reanalyze", "baseline"}
Running(a) == a.phase = "Analyzing"

(* Nothing was done yet, or a capture has just been recorded and analyzed. *)
Fresh == [phase |-> "Idle", path |-> None, view |-> None, gen |-> 0]
Recorded(p) ==
  [phase |-> "Complete", path |-> p, gen |-> 1,
   view |-> [path |-> p, window |-> None, head |-> 0, tail |-> 0]]

Init ==
  /\ app \in {Fresh} \cup {Recorded(p) : p \in Paths}
  /\ page = "Overview"
  /\ load = [k \in Kinds |-> None]
  /\ version = [p \in Paths |-> 0]
  /\ comparison = None /\ current = None
  /\ closing = "open"
  /\ loads = 0 /\ writes = 0

-----------------------------------------------------------------------------
(* The user *)

Start(k, path, window) ==
  /\ loads < MaxLoads /\ loads' = loads + 1
  /\ load' = [load EXCEPT ![k] = [path |-> path, window |-> window, at |-> "stat", before |-> 0,
                                  head |-> 0, tail |-> 0, ok |-> TRUE, cancel |-> FALSE]]

OpenSession ==
  \E p \in Paths :
    /\ closing # "closed" /\ ~Running(app)
    /\ Start("open", p, None)
    /\ app' = [app EXCEPT !.phase = "Analyzing"]
    /\ UNCHANGED <<page, version, comparison, current, closing, writes>>

(* recover_perfetto writes a new session beside the open one and loads it. *)
RecoverPerfetto ==
  \E p \in Paths :
    /\ closing # "closed" /\ ~Running(app)
    /\ app.path # None /\ p # app.path
    /\ Start("open", p, None)
    /\ app' = [app EXCEPT !.phase = "Analyzing"]
    /\ UNCHANGED <<page, version, comparison, current, closing, writes>>

\* Reanalysis leaves the phase alone, and the page it is shown on.
StayInPhase == app.phase
PhaseOfReanalysis == "Analyzing"

BeginReanalysis ==
  \E w \in Ranges \cup {None} :
    /\ closing # "closed" /\ page = "Overview" /\ ~Running(app)
    /\ load["reanalyze"] = None /\ app.path # None
    /\ Start("reanalyze", app.path, w)
    /\ app' = [app EXCEPT !.phase = PhaseOfReanalysis]
    /\ UNCHANGED <<page, version, comparison, current, closing, writes>>

(* compare_ui is drawn on its page, unless an analysis is being prepared.  *)
CompareShown == closing # "closed" /\ page = "Compare" /\ ~Running(app)

OpenBaseline ==
  \E p \in Paths :
    /\ CompareShown /\ load["baseline"] = None
    /\ Start("baseline", p, None)
    /\ UNCHANGED <<app, page, version, comparison, current, closing, writes>>

CancelLoad ==
  /\ CompareShown /\ load["baseline"] # None /\ ~load["baseline"].cancel
  /\ load' = [load EXCEPT !["baseline"].cancel = TRUE]
  /\ UNCHANGED <<app, page, version, comparison, current, closing, loads, writes>>

KeepAsBaseline ==
  /\ CompareShown /\ load["baseline"] = None /\ app.view # None
  /\ comparison' = [path |-> app.path, view |-> app.view]
  /\ UNCHANGED <<app, page, load, version, current, closing, loads, writes>>

ClearBaseline ==
  /\ CompareShown /\ comparison # None
  /\ comparison' = None /\ current' = None
  /\ UNCHANGED <<app, page, load, version, closing, loads, writes>>

Turn ==
  \E to \in Pages \ {page} :
    /\ closing # "closed"
    /\ page' = to
    /\ UNCHANGED <<app, load, version, comparison, current, closing, loads, writes>>

\* The request to close is cancelled and not remembered.
Forget == "open"
Remember == "asked"

\* Once the window is closed main returns, and the threads end with it.
Exit ==
  /\ closing' = "closed"
  /\ app' = Fresh /\ page' = "Overview" /\ load' = [k \in Kinds |-> None]
  /\ comparison' = None /\ current' = None

(* The window's close button: deferred while something runs.               *)
Close ==
  /\ closing # "closed"
  /\ IF Running(app) THEN closing' = Remember /\ UNCHANGED <<app, page, load, comparison, current>>
     ELSE Exit
  /\ UNCHANGED <<version, loads, writes>>

-----------------------------------------------------------------------------
(* The threads: load_analysis_window *)

(* A recorder, or another program, changes a file.                         *)
Rewrite ==
  \E p \in Paths :
    /\ closing # "closed" /\ writes < MaxWrites /\ writes' = writes + 1
    /\ version' = [version EXCEPT ![p] = @ + 1]
    /\ UNCHANGED <<app, page, load, comparison, current, closing, loads>>

\* The metadata of the file is not compared.
AssumeUnchanged(w) == TRUE
Unchanged(w) == version[w.path] = w.before

(* An error of the file system, wherever it happens, is an answer; so is a *)
(* range without or with too many requests.                                *)
Refused(w) == [w EXCEPT !.at = "answered", !.ok = FALSE]
ReadMetadata(w) == {[w EXCEPT !.at = "head", !.before = version[w.path]]}

(* The first pass over the file, then the evidence of a selected window    *)
(* and the rest of the file.                                               *)
ReadHead(w) == {[w EXCEPT !.at = "tail", !.head = version[w.path]], Refused(w)}
ReadTail(w) == {[w EXCEPT !.at = "check", !.tail = version[w.path]]}

Advance(w) ==
  IF w.cancel /\ w.at # "stat" THEN {Refused(w)}
  ELSE CASE w.at = "stat" -> ReadMetadata(w)
         [] w.at = "head" -> ReadHead(w)
         [] w.at = "tail" -> ReadTail(w)
         [] w.at = "check" -> {IF Unchanged(w) THEN [w EXCEPT !.at = "answered"] ELSE Refused(w)}

Work(k) ==
  /\ load[k] # None /\ load[k].at # "answered"
  /\ \E w \in Advance(load[k]) : load' = [load EXCEPT ![k] = w]
  /\ UNCHANGED <<app, page, version, comparison, current, closing, loads, writes>>

-----------------------------------------------------------------------------
(* A frame *)

Answered(k) == load[k] # None /\ load[k].at = "answered"
Loaded(w) == [path |-> w.path, window |-> w.window, head |-> w.head, tail |-> w.tail]

\* A new analysis keeps the generation of the one it replaces.
SameGeneration(a) == a.gen
NextGeneration(a) == a.gen + 1

(* apply_loaded_session *)
Apply(a, path, view) ==
  [phase |-> "Complete", path |-> path, view |-> view, gen |-> NextGeneration(a)]

\* Answers are taken from the channel only while nothing is being prepared.
DrainShown(a) == Answered("open") /\ ~Running(a)
MayDrain(a) == Answered("open")

(* drain_messages: SessionLoaded *)
Drained(a) ==
  IF ~MayDrain(a) THEN a
  ELSE IF load["open"].ok THEN Apply(a, load["open"].path, Loaded(load["open"]))
  ELSE [a EXCEPT !.phase = "Error"]

(* poll_reanalysis: the result goes with the session that is open now.     *)
Reanalyzed(a) ==
  LET w == load["reanalyze"]
  IN IF w.ok /\ ~w.cancel THEN Apply(a, a.path, Loaded(w)) ELSE [a EXCEPT !.phase = "Complete"]

\* The baseline is named after the session that is open when it arrives.
NamedAfterCurrent(w) == app.path
BaselinePath(w) == w.path

Frame ==
  LET drained == Drained(app)
      shown == ~Running(drained)
      poll == shown /\ page = "Overview" /\ Answered("reanalyze")
      compare == shown /\ page = "Compare"
      baseline == load["baseline"]
      next == IF poll THEN Reanalyzed(drained) ELSE drained
      settled ==
        /\ app' = next
        /\ load' = [k \in Kinds |->
                      IF \/ k = "open" /\ MayDrain(app)
                         \/ k = "reanalyze" /\ poll
                         \/ k = "baseline" /\ compare /\ Answered(k)
                      THEN None ELSE load[k]]
        /\ comparison' = IF compare /\ Answered("baseline") /\ baseline.ok
                         THEN [path |-> BaselinePath(baseline), view |-> Loaded(baseline)]
                         ELSE comparison
        /\ current' = IF /\ compare /\ comparison' # None /\ next.view # None
                         /\ (current = None \/ current.gen # next.gen)
                      THEN [gen |-> next.gen, view |-> next.view]
                      ELSE current
        /\ UNCHANGED <<page, closing>>
  IN /\ closing # "closed"
     /\ IF closing = "asked" /\ ~Running(drained) THEN Exit ELSE settled
     /\ UNCHANGED <<version, loads, writes>>

Next ==
  \/ OpenSession \/ RecoverPerfetto \/ BeginReanalysis
  \/ OpenBaseline \/ CancelLoad \/ KeepAsBaseline \/ ClearBaseline
  \/ Turn \/ Close \/ Rewrite \/ Frame
  \/ \E k \in Kinds : Work(k)

(* The threads run, and the window asks for a frame every 250 ms.          *)
Fairness == WF_vars(Frame) /\ \A k \in Kinds : WF_vars(Work(k))
Spec == Init /\ [][Next]_vars /\ Fairness

-----------------------------------------------------------------------------
Shown == {v \in {app.view, IF comparison = None THEN None ELSE comparison.view} : v # None}

(* load_analysis_window: what is shown was read from one version of its    *)
(* file, though it is read piecewise while a recorder may be writing.      *)
ViewIsOneVersion == \A v \in Shown : v.head = v.tail

(* poll_reanalysis: the analysis on screen is of the session whose path    *)
(* the desktop holds, which exports and later reanalyses read.             *)
ViewIsOfSession == app.view # None => app.view.path = app.path

(* poll_comparison_load: the baseline bears the path it was read from,     *)
(* whatever was opened while it loaded.                                    *)
BaselineIsItsPath == comparison # None => comparison.path = comparison.view.path

(* compare_ui: the right-hand side, once taken for a generation, is the    *)
(* analysis of that generation.                                            *)
CurrentIsShown == current # None /\ current.gen = app.gen => current.view = app.view

(* open_session, recover_perfetto: every load is answered, whatever page   *)
(* is shown.                                                               *)
LoadIsAnswered == load["open"] # None /\ closing = "open" ~> load["open"] = None \/ closing = "closed"

(* close_after_capture: a close that was deferred to the end of a load     *)
(* closes the window.                                                      *)
CloseIsHonoured == closing = "asked" /\ load["reanalyze"] = None ~> closing = "closed"

(* "Results open automatically when processing and saving finish"; "Cancel *)
(* or an error keeps the existing analysis": a reanalysis comes to an end. *)
ReanalysisIsAnswered == load["reanalyze"] # None ~> load["reanalyze"] = None

(* What the analysis and comparison pages show is one version of one file, *)
(* the one whose path they hold.                                           *)
ShownIsOneSession ==
  /\ ViewIsOneVersion
  /\ ViewIsOfSession
  /\ BaselineIsItsPath
  /\ CurrentIsShown

(* Loads are answered, and a close that waits for one is honoured.         *)
LoadsEnd ==
  /\ LoadIsAnswered
  /\ CloseIsHonoured

-----------------------------------------------------------------------------
(* Proofs, for any number of files, ranges, loads and changes of the files *)

\* What was read is of one version of its file.
OneVersion(v) == v.head = v.tail

Phases == {"Idle", "Analyzing", "Complete", "Error"}
Apps == [phase : Phases, path : Paths \cup {None}, view : Views \cup {None}, gen : Nat]
Baselines == [path : Paths, view : Views]
Currents == [gen : Nat, view : Views]

\* An analysis on screen is one version of the file whose path the desktop holds.
AppOf(a) == a \in Apps /\ (a.view # None => a.view.path = a.path /\ OneVersion(a.view))
AppInv == AppOf(app)

\* So is the baseline, for the path it bears.
BaselineOf(b) == b \in Baselines /\ b.path = b.view.path /\ OneVersion(b.view)
ComparisonInv == comparison # None => BaselineOf(comparison)

\* The right-hand side is of an earlier generation or the one on screen.
CurrentOf(c, a) == c \in Currents /\ c.gen <= a.gen /\ (c.gen = a.gen => c.view = a.view)
CurrentInv == current # None => CurrentOf(current, app)

\* What a thread has read so far is of versions in the order it read them, so a
\* last version equal to the first is the only one it saw.
ReadSoFar(w, v) ==
  /\ w.at = "head" => w.before <= v
  /\ w.at = "tail" => w.before <= w.head /\ w.head <= v
  /\ w.at = "check" => w.before <= w.head /\ w.head <= w.tail /\ w.tail <= v
  /\ w.at = "answered" /\ w.ok => w.head = w.tail

\* A thread that has read so far.
ThreadOf(w) == w \in Threads /\ ReadSoFar(w, version[w.path])

\* All threads and files.
ThreadsInv ==
  /\ version \in [Paths -> Nat] /\ load \in [Kinds -> Threads \cup {None}]
  /\ \A k \in Kinds : load[k] # None => ThreadOf(load[k])

\* A load of the open session is the only one, and the desktop shows that it runs.
BusyInv ==
  /\ load["open"] # None \/ load["reanalyze"] # None => Running(app)
  /\ load["reanalyze"] # None => load["open"] = None /\ load["reanalyze"].path = app.path

\* The types of the rest.
RestInv ==
  /\ page \in {"Overview"} \cup Pages /\ closing \in {"open", "asked", "closed"}
  /\ loads \in Nat /\ writes \in Nat

(* What is inductive: an analysis can be trusted when it is shown because of what
   its thread knew of the file when it answered.                            *)
IInv == AppInv /\ ComparisonInv /\ CurrentInv /\ ThreadsInv /\ BusyInv /\ RestInv

-----------------------------------------------------------------------------
(* The threads *)

(* None is no path and no record. *)
LEMMA NoneIsApart ==
  /\ None \notin Paths /\ None \notin Views /\ None \notin Threads
  /\ None \notin Baselines /\ None \notin Currents
BY Zenon, WorkersAssumption DEF Baselines, Currents

(* A step of load_analysis_window reads the same file on. *)
LEMMA AdvanceReads ==
  ASSUME version \in [Paths -> Nat], NEW w, ThreadOf(w), w.at # "answered", NEW u \in Advance(w)
  PROVE  ThreadOf(u) /\ u.path = w.path
<1> DEFINE v == version[w.path]
<1>0. w \in Threads /\ v \in Nat /\ ReadSoFar(w, v)
  <2>1. w \in Threads /\ ReadSoFar(w, v)
    BY Zenon DEF ThreadOf
  <2>2. w.path \in Paths
    BY <2>1 DEF Threads
  <2> QED BY Zenon, <2>1, <2>2
<1> HIDE DEF v
<1>1. ASSUME u = Refused(w) PROVE u \in Threads /\ u.path = w.path /\ ReadSoFar(u, v)
  <2>1. /\ u \in Threads /\ u.path = w.path /\ u.at = "answered" /\ u.ok = FALSE
    BY <1>0, <1>1 DEF Refused, Threads
  <2> QED BY <2>1 DEF ReadSoFar
<1>2. ASSUME w.at = "stat", u = [w EXCEPT !.at = "head", !.before = v]
      PROVE  u \in Threads /\ u.path = w.path /\ ReadSoFar(u, v)
  <2>1. u \in Threads /\ u.path = w.path /\ u.at = "head" /\ u.before = v
    BY <1>0, <1>2 DEF Threads
  <2> QED BY <1>0, <1>2, <2>1 DEF ReadSoFar, Threads
<1>3. ASSUME w.at = "head", u = [w EXCEPT !.at = "tail", !.head = v]
      PROVE  u \in Threads /\ u.path = w.path /\ ReadSoFar(u, v)
  <2>1. u \in Threads /\ u.path = w.path /\ u.at = "tail" /\ u.before = w.before /\ u.head = v
    BY <1>0, <1>3 DEF Threads
  <2> QED BY <1>0, <1>3, <2>1 DEF ReadSoFar, Threads
<1>4. ASSUME w.at = "tail", u = [w EXCEPT !.at = "check", !.tail = v]
      PROVE  u \in Threads /\ u.path = w.path /\ ReadSoFar(u, v)
  <2>1. u \in Threads /\ u.path = w.path /\ u.at = "check" /\ u.before = w.before
        /\ u.head = w.head /\ u.tail = v
    BY <1>0, <1>4 DEF Threads
  <2> QED BY <1>0, <1>4, <2>1 DEF ReadSoFar, Threads
<1>5. ASSUME w.at = "check", Unchanged(w), u = [w EXCEPT !.at = "answered"]
      PROVE  u \in Threads /\ u.path = w.path /\ ReadSoFar(u, v)
  BY <1>0, <1>5 DEF Threads, ReadSoFar, Unchanged, v
<1>6. \/ u = Refused(w)
      \/ w.at = "stat" /\ u = [w EXCEPT !.at = "head", !.before = v]
      \/ w.at = "head" /\ u = [w EXCEPT !.at = "tail", !.head = v]
      \/ w.at = "tail" /\ u = [w EXCEPT !.at = "check", !.tail = v]
      \/ w.at = "check" /\ Unchanged(w) /\ u = [w EXCEPT !.at = "answered"]
  <2>1. w.at \in {"stat", "head", "tail", "check"}
    BY <1>0 DEF Threads
  <2>2. CASE w.cancel /\ w.at # "stat"
    BY Zenon, <2>2 DEF Advance
  <2>3. CASE ~(w.cancel /\ w.at # "stat")
    <3>1. CASE w.at = "stat"
      BY <2>3, <3>1 DEF Advance, ReadMetadata, v
    <3>2. CASE w.at = "head"
      BY <2>3, <3>2 DEF Advance, ReadHead, v
    <3>3. CASE w.at = "tail"
      BY <2>3, <3>3 DEF Advance, ReadTail, v
    <3>4. CASE w.at = "check"
      BY <2>3, <3>4 DEF Advance
    <3> QED BY Zenon, <2>1, <3>1, <3>2, <3>3, <3>4
  <2> QED BY Zenon, <2>2, <2>3
<1>7. u \in Threads /\ u.path = w.path /\ ReadSoFar(u, v)
  BY Zenon, <1>1, <1>2, <1>3, <1>4, <1>5, <1>6
<1> QED BY Zenon, <1>7 DEF ThreadOf, v

(* What an answer brings is one version of the file that was asked for. *)
LEMMA LoadedIsOne ==
  ASSUME NEW w, ThreadOf(w), w.at = "answered", w.ok
  PROVE  Loaded(w) \in Views /\ OneVersion(Loaded(w)) /\ Loaded(w).path = w.path
<1>1. w \in Threads /\ w.head = w.tail
  BY Zenon DEF ThreadOf, ReadSoFar
<1> QED BY <1>1 DEF Loaded, Threads, Views, OneVersion

(* Files only get newer, so threads that are left alone have still read in order. *)
LEMMA ThreadsFrom ==
  ASSUME ThreadsInv, version' \in [Paths -> Nat], \A p \in Paths : version[p] <= version'[p],
         load' \in [Kinds -> Threads \cup {None}],
         \A k \in Kinds : load'[k] # None => load'[k] = load[k] \/ ThreadOf(load[k])'
  PROVE  ThreadsInv'
<1>1. ASSUME NEW w, ThreadOf(w) PROVE w \in Threads /\ ReadSoFar(w, version'[w.path])
  <2>1. w \in Threads /\ ReadSoFar(w, version[w.path]) /\ version \in [Paths -> Nat]
    BY Zenon, <1>1 DEF ThreadOf, ThreadsInv
  <2>2. w.path \in Paths /\ w.before \in Nat /\ w.head \in Nat /\ w.tail \in Nat
    BY <2>1 DEF Threads
  <2>3. version[w.path] \in Nat /\ version'[w.path] \in Nat /\ version[w.path] <= version'[w.path]
    BY Zenon, <2>1, <2>2
  <2>4. ReadSoFar(w, version'[w.path])
    BY <2>1, <2>2, <2>3 DEF ReadSoFar
  <2> QED BY Zenon, <2>1, <2>4
<1>2. ASSUME NEW k \in Kinds, load'[k] # None
      PROVE  load'[k] \in Threads /\ ReadSoFar(load'[k], version'[load'[k].path])
  BY Zenon, <1>1, <1>2 DEF ThreadsInv, ThreadOf
<1> QED BY Zenon, <1>2 DEF ThreadsInv, ThreadOf

(* Files that are left alone are as new as they were. *)
LEMMA SameVersions ==
  ASSUME ThreadsInv, version' = version
  PROVE  version' \in [Paths -> Nat] /\ \A p \in Paths : version[p] <= version'[p]
<1>1. \A p \in Paths : version[p] \in Nat
  BY Zenon DEF ThreadsInv
<1>2. \A p \in Paths : version[p] <= version'[p]
  BY <1>1
<1> QED BY Zenon, <1>2 DEF ThreadsInv

(* A new thread has read nothing. *)
LEMMA StartThread ==
  ASSUME ThreadsInv, version' = version, NEW k \in Kinds, NEW p \in Paths, NEW x \in Ranges \cup {None},
         Start(k, p, x)
  PROVE  /\ ThreadsInv' /\ load'[k] # None /\ load'[k].path = p
         /\ \A j \in Kinds \ {k} : load'[j] = load[j]
<1> DEFINE w == [path |-> p, window |-> x, at |-> "stat", before |-> 0, head |-> 0, tail |-> 0,
                 ok |-> TRUE, cancel |-> FALSE]
<1>1. w \in Threads /\ w.path = p /\ w.at = "stat"
  BY DEF Threads
<1>2. load' = [load EXCEPT ![k] = w] /\ load \in [Kinds -> Threads \cup {None}]
  BY Zenon DEF Start, ThreadsInv
<1> HIDE DEF w
<1>3. load' \in [Kinds -> Threads \cup {None}] /\ load'[k] = w /\ \A j \in Kinds \ {k} : load'[j] = load[j]
  BY Zenon, <1>1, <1>2
<1>4. ThreadOf(w)'
  BY <1>1 DEF ThreadOf, ReadSoFar
<1>5. ThreadsInv'
  <2>1. \A j \in Kinds : load'[j] # None => load'[j] = load[j] \/ ThreadOf(load[j])'
    BY Zenon, <1>3, <1>4 DEF ThreadOf
  <2> QED BY Zenon, <1>3, <2>1, ThreadsFrom, SameVersions
<1> QED BY Zenon, <1>1, <1>3, <1>5, NoneIsApart

(* Loading changes the phase and nothing that is shown. *)
LEMMA PhaseKeeps ==
  ASSUME NEW a, AppOf(a), NEW ph \in Phases
  PROVE  LET b == [a EXCEPT !.phase = ph]
         IN AppOf(b) /\ b.phase = ph /\ b.path = a.path /\ b.view = a.view /\ b.gen = a.gen
<1> DEFINE b == [a EXCEPT !.phase = ph]
<1>1. a \in Apps
  BY Zenon DEF AppOf
<1>2. b \in Apps /\ b.phase = ph /\ b.path = a.path /\ b.view = a.view /\ b.gen = a.gen
  BY <1>1 DEF Apps
<1> QED BY Zenon, <1>2 DEF AppOf

-----------------------------------------------------------------------------
(* The steps of the user *)

(* A step that keeps view and generation keeps what is shown. *)
LEMMA KeptShown ==
  ASSUME AppInv, ComparisonInv, CurrentInv, AppOf(app)', UNCHANGED <<comparison, current>>,
         app'.view = app.view, app'.gen = app.gen
  PROVE  AppInv' /\ ComparisonInv' /\ CurrentInv'
BY Zenon DEF AppInv, ComparisonInv, CurrentInv, CurrentOf

(* open_session and recover_perfetto. *)
LEMMA OpenStep ==
  ASSUME IInv, OpenSession \/ RecoverPerfetto
  PROVE  AppInv' /\ ComparisonInv' /\ CurrentInv' /\ ThreadsInv' /\ BusyInv'
<1>1. PICK p \in Paths : Start("open", p, None)
  BY Zenon DEF OpenSession, RecoverPerfetto
<1>2. /\ ~Running(app) /\ app' = [app EXCEPT !.phase = "Analyzing"]
      /\ UNCHANGED <<version, comparison, current>>
  BY Zenon DEF OpenSession, RecoverPerfetto
<1>3. "open" \in Kinds /\ "reanalyze" \in Kinds \ {"open"} /\ "Analyzing" \in Phases
  BY DEF Kinds, Phases
<1>4. ThreadsInv' /\ load'["reanalyze"] = load["reanalyze"]
  BY Zenon, <1>1, <1>2, <1>3, StartThread DEF IInv
<1>5. AppOf(app)' /\ app'.phase = "Analyzing" /\ app'.path = app.path
      /\ app'.view = app.view /\ app'.gen = app.gen
  BY Zenon, <1>2, <1>3, PhaseKeeps DEF IInv, AppInv, AppOf
<1>6. BusyInv'
  BY Zenon, <1>2, <1>4, <1>5 DEF IInv, BusyInv, Running
<1> QED BY Zenon, <1>2, <1>4, <1>5, <1>6, KeptShown DEF IInv

(* begin_reanalysis. *)
LEMMA ReanalysisStep ==
  ASSUME IInv, BeginReanalysis
  PROVE  AppInv' /\ ComparisonInv' /\ CurrentInv' /\ ThreadsInv' /\ BusyInv'
<1>1. PICK x \in Ranges \cup {None} : Start("reanalyze", app.path, x)
  BY Zenon DEF BeginReanalysis
<1>2. /\ ~Running(app) /\ app' = [app EXCEPT !.phase = "Analyzing"] /\ app.path # None
      /\ UNCHANGED <<version, comparison, current>>
  BY Zenon DEF BeginReanalysis, PhaseOfReanalysis
<1>3. "reanalyze" \in Kinds /\ "open" \in Kinds \ {"reanalyze"} /\ "Analyzing" \in Phases
  BY DEF Kinds, Phases
<1>4. app.path \in Paths
  BY <1>2 DEF IInv, AppInv, AppOf, Apps
<1>5. ThreadsInv' /\ load'["open"] = load["open"] /\ load'["reanalyze"].path = app.path
  BY Zenon, <1>1, <1>2, <1>3, <1>4, StartThread DEF IInv
<1>6. AppOf(app)' /\ app'.phase = "Analyzing" /\ app'.path = app.path
      /\ app'.view = app.view /\ app'.gen = app.gen
  BY Zenon, <1>2, <1>3, PhaseKeeps DEF IInv, AppInv, AppOf
<1>7. BusyInv'
  BY Zenon, <1>2, <1>5, <1>6 DEF IInv, BusyInv, Running
<1> QED BY Zenon, <1>2, <1>5, <1>6, <1>7, KeptShown DEF IInv

(* A baseline is loaded. *)
LEMMA BaselineStep ==
  ASSUME IInv, OpenBaseline
  PROVE  AppInv' /\ ComparisonInv' /\ CurrentInv' /\ ThreadsInv' /\ BusyInv'
<1>1. PICK p \in Paths : Start("baseline", p, None)
  BY Zenon DEF OpenBaseline
<1>2. UNCHANGED <<app, version, comparison, current>>
  BY Zenon DEF OpenBaseline
<1>3. "baseline" \in Kinds /\ "open" \in Kinds \ {"baseline"} /\ "reanalyze" \in Kinds \ {"baseline"}
  BY DEF Kinds
<1>4. ThreadsInv' /\ load'["open"] = load["open"] /\ load'["reanalyze"] = load["reanalyze"]
  BY Zenon, <1>1, <1>2, <1>3, StartThread DEF IInv
<1> QED BY Zenon, <1>2, <1>4 DEF IInv, AppInv, ComparisonInv, CurrentInv, BusyInv

(* Its load is cancelled. *)
LEMMA CancelStep ==
  ASSUME IInv, CancelLoad
  PROVE  AppInv' /\ ComparisonInv' /\ CurrentInv' /\ ThreadsInv' /\ BusyInv'
<1> DEFINE w == load["baseline"]
           u == [w EXCEPT !.cancel = TRUE]
<1>1. w # None /\ load' = [load EXCEPT !["baseline"] = u] /\ UNCHANGED <<app, version, comparison, current>>
  BY Zenon DEF CancelLoad
<1>2. "baseline" \in Kinds /\ "open" \in Kinds \ {"baseline"} /\ "reanalyze" \in Kinds \ {"baseline"}
  BY DEF Kinds
<1>3. ThreadOf(w) /\ load \in [Kinds -> Threads \cup {None}]
  BY Zenon, <1>1, <1>2 DEF IInv, ThreadsInv
<1> HIDE DEF w
<1>4. /\ u \in Threads /\ u.at = w.at /\ u.path = w.path /\ u.before = w.before /\ u.head = w.head
      /\ u.tail = w.tail /\ u.ok = w.ok
  <2>1. w \in Threads
    BY Zenon, <1>3 DEF ThreadOf
  <2> QED BY <2>1 DEF Threads
<1> HIDE DEF u
<1>5. u \in Threads /\ ReadSoFar(u, version'[u.path])
  BY Zenon, <1>1, <1>3, <1>4 DEF ThreadOf, ReadSoFar
<1>6. load' \in [Kinds -> Threads \cup {None}] /\ load'["baseline"] = u
      /\ \A j \in Kinds \ {"baseline"} : load'[j] = load[j]
  BY Zenon, <1>1, <1>2, <1>3, <1>4
<1>7. ThreadsInv'
  <2>1. \A j \in Kinds : load'[j] # None => load'[j] = load[j] \/ ThreadOf(load[j])'
    BY Zenon, <1>5, <1>6 DEF ThreadOf
  <2> QED BY Zenon, <1>1, <1>6, <2>1, ThreadsFrom, SameVersions DEF IInv
<1> QED BY Zenon, <1>1, <1>2, <1>6, <1>7 DEF IInv, AppInv, ComparisonInv, CurrentInv, BusyInv

(* The analysis on screen becomes the baseline. *)
LEMMA KeepStep ==
  ASSUME IInv, KeepAsBaseline
  PROVE  AppInv' /\ ComparisonInv' /\ CurrentInv' /\ ThreadsInv' /\ BusyInv'
<1> DEFINE b == [path |-> app.path, view |-> app.view]
<1>1. app.view # None /\ comparison' = b /\ UNCHANGED <<app, load, version, current>>
  BY Zenon DEF KeepAsBaseline
<1>2. app \in Apps /\ app.view.path = app.path /\ OneVersion(app.view)
  BY Zenon, <1>1 DEF IInv, AppInv, AppOf
<1>3. app.view \in Views
  BY <1>1, <1>2 DEF Apps
<1>4. app.view.path \in Paths
  BY <1>3 DEF Views
<1>5. b \in Baselines /\ b.path = app.path /\ b.view = app.view
  BY <1>2, <1>3, <1>4 DEF Baselines
<1> QED BY Zenon, <1>1, <1>2, <1>5 DEF IInv, AppInv, ComparisonInv, CurrentInv, BusyInv, BaselineOf, ThreadsInv,
     ThreadOf

(* The window is closed. *)
LEMMA ExitStep ==
  ASSUME IInv, Exit, version' = version
  PROVE  AppInv' /\ ComparisonInv' /\ CurrentInv' /\ ThreadsInv' /\ BusyInv'
<1>1. /\ app' = Fresh /\ comparison' = None /\ current' = None
      /\ load' \in [Kinds -> Threads \cup {None}] /\ \A k \in Kinds : load'[k] = None
  BY Zenon DEF Exit
<1>2. AppOf(Fresh)
  BY DEF AppOf, Fresh, Apps, Phases
<1>3. "open" \in Kinds /\ "reanalyze" \in Kinds
  BY DEF Kinds
<1>4. AppOf(app)' /\ ThreadsInv'
  BY Zenon, <1>1, <1>2 DEF AppOf, IInv, ThreadsInv
<1> QED BY Zenon, <1>1, <1>3, <1>4 DEF AppInv, ComparisonInv, CurrentInv, BusyInv

-----------------------------------------------------------------------------
(* Threads, files and frames *)

(* A thread reads on. *)
LEMMA WorkStep ==
  ASSUME IInv, NEW k \in Kinds, Work(k)
  PROVE  AppInv' /\ ComparisonInv' /\ CurrentInv' /\ ThreadsInv' /\ BusyInv'
<1> DEFINE w == load[k]
<1>1. /\ w # None /\ w.at # "answered" /\ UNCHANGED <<app, version, comparison, current>>
      /\ \E u \in Advance(w) : load' = [load EXCEPT ![k] = u]
  BY Zenon DEF Work
<1>2. PICK u \in Advance(w) : load' = [load EXCEPT ![k] = u]
  BY Zenon, <1>1
<1>3. ThreadOf(w) /\ load \in [Kinds -> Threads \cup {None}] /\ version \in [Paths -> Nat]
  BY Zenon, <1>1 DEF IInv, ThreadsInv
<1>4. ThreadOf(u) /\ u.path = w.path
  BY Zenon, <1>1, <1>3, AdvanceReads
<1>5. u \in Threads /\ ReadSoFar(u, version'[u.path])
  BY Zenon, <1>1, <1>4 DEF ThreadOf
<1>6. /\ load' \in [Kinds -> Threads \cup {None}]
      /\ load'[k] = u /\ \A j \in Kinds \ {k} : load'[j] = load[j]
  BY Zenon, <1>2, <1>3, <1>5
<1>7. ThreadsInv'
  <2>1. \A j \in Kinds : load'[j] # None => load'[j] = load[j] \/ ThreadOf(load[j])'
    BY Zenon, <1>5, <1>6 DEF ThreadOf
  <2> QED BY Zenon, <1>1, <1>6, <2>1, ThreadsFrom, SameVersions DEF IInv
<1>8. \A j \in Kinds : (load'[j] # None => load[j] # None /\ load'[j].path = load[j].path)
                       /\ (load[j] = None => load'[j] = None)
  BY Zenon, <1>1, <1>4, <1>6
<1>9. "open" \in Kinds /\ "reanalyze" \in Kinds
  BY DEF Kinds
<1>10. BusyInv'
  BY Zenon, <1>1, <1>8, <1>9 DEF IInv, BusyInv
<1> QED BY Zenon, <1>1, <1>7, <1>10 DEF IInv, AppInv, ComparisonInv, CurrentInv

(* A recorder writes a file. *)
LEMMA RewriteStep ==
  ASSUME IInv, Rewrite
  PROVE  AppInv' /\ ComparisonInv' /\ CurrentInv' /\ ThreadsInv' /\ BusyInv'
<1>1. PICK p \in Paths : version' = [version EXCEPT ![p] = @ + 1]
  BY Zenon DEF Rewrite
<1>2. UNCHANGED <<app, load, comparison, current>>
  BY Zenon DEF Rewrite
<1>3. version \in [Paths -> Nat] /\ load \in [Kinds -> Threads \cup {None}]
  BY Zenon DEF IInv, ThreadsInv
<1>4. version' \in [Paths -> Nat] /\ \A q \in Paths : version[q] <= version'[q]
  BY <1>1, <1>3
<1>5. ThreadsInv'
  BY Zenon, <1>2, <1>3, <1>4, ThreadsFrom DEF IInv
<1> QED BY Zenon, <1>2, <1>5 DEF IInv, AppInv, ComparisonInv, CurrentInv, BusyInv

(* drain_messages leaves one version of one file, under a new generation if it
   changes what is shown.                                                   *)
LEMMA DrainedIsOne ==
  ASSUME IInv
  PROVE  /\ AppOf(Drained(app)) /\ app.gen <= Drained(app).gen
         /\ Drained(app).gen = app.gen => Drained(app).view = app.view
         /\ ~Answered("open") => Drained(app) = app
<1> DEFINE w == load["open"]
<1>0. AppOf(app) /\ app \in Apps
  BY Zenon DEF IInv, AppInv, AppOf
<1>1. app.gen \in Nat
  BY <1>0 DEF Apps
<1>2. CASE ~Answered("open")
  <2>1. Drained(app) = app
    BY Zenon, <1>2 DEF Drained, MayDrain
  <2>2. app.gen <= app.gen
    BY <1>1
  <2> QED BY Zenon, <1>0, <2>1, <2>2
<1>3. CASE Answered("open") /\ w.ok
  <2>1. Drained(app) = [phase |-> "Complete", path |-> w.path, view |-> Loaded(w), gen |-> app.gen + 1]
    BY Zenon, <1>3 DEF Drained, MayDrain, Apply, NextGeneration
  <2>2. "open" \in Kinds
    BY DEF Kinds
  <2>3. ThreadOf(w) /\ w.at = "answered" /\ w \in Threads
    BY Zenon, <1>3, <2>2 DEF Answered, IInv, ThreadsInv, ThreadOf
  <2>4. Loaded(w) \in Views /\ OneVersion(Loaded(w)) /\ Loaded(w).path = w.path
    BY Zenon, <1>3, <2>3, LoadedIsOne
  <2>5. w.path \in Paths
    BY <2>3 DEF Threads
  <2> HIDE DEF w
  <2>6. /\ Drained(app) \in Apps /\ Drained(app).view = Loaded(w) /\ Drained(app).path = w.path
        /\ Drained(app).gen = app.gen + 1
    BY <1>1, <2>1, <2>4, <2>5 DEF Apps, Phases
  <2>7. app.gen <= Drained(app).gen /\ Drained(app).gen # app.gen
    BY <1>1, <2>6
  <2> QED BY Zenon, <1>3, <2>4, <2>6, <2>7 DEF AppOf
<1>4. CASE Answered("open") /\ ~w.ok
  <2>1. Drained(app) = [app EXCEPT !.phase = "Error"]
    BY Zenon, <1>4 DEF Drained, MayDrain
  <2>2. "Error" \in Phases
    BY DEF Phases
  <2>3. AppOf(Drained(app)) /\ Drained(app).view = app.view /\ Drained(app).gen = app.gen
    <3> DEFINE b == [app EXCEPT !.phase = "Error"]
    <3>1. AppOf(b) /\ b.view = app.view /\ b.gen = app.gen
      BY Zenon, <1>0, <2>2, PhaseKeeps
    <3> HIDE DEF b
    <3> QED BY Zenon, <2>1, <3>1 DEF b
  <2>4. app.gen <= app.gen
    BY <1>1
  <2> QED BY Zenon, <1>4, <2>3, <2>4
<1> QED BY Zenon, <1>2, <1>3, <1>4

(* A frame applies what was answered. *)
LEMMA FrameStep ==
  ASSUME IInv, Frame
  PROVE  AppInv' /\ ComparisonInv' /\ CurrentInv' /\ ThreadsInv' /\ BusyInv'
<1> DEFINE d == Drained(app)
           compare == ~Running(d) /\ page = "Compare"
           w == load["baseline"]
<1>0. version' = version /\ "open" \in Kinds /\ "reanalyze" \in Kinds /\ "baseline" \in Kinds
  BY DEF Frame, Kinds
<1>1. /\ AppOf(d) /\ app.gen <= d.gen
      /\ d.gen = app.gen => d.view = app.view
      /\ ~Answered("open") => d = app
  BY Zenon, DrainedIsOne
<1>2. ~(~Running(d) /\ Answered("reanalyze"))
  BY Zenon, <1>1 DEF IInv, BusyInv, Answered
<1>3. CASE Exit
  BY Zenon, <1>0, <1>3, ExitStep
<1>4. CASE ~Exit
  <2> HIDE DEF d
  <2>1. /\ app' = d
        /\ load' = [k \in Kinds |-> IF \/ k = "open" /\ MayDrain(app)
                                       \/ k = "baseline" /\ compare /\ Answered(k)
                                    THEN None ELSE load[k]]
        /\ comparison' = IF compare /\ Answered("baseline") /\ w.ok
                         THEN [path |-> w.path, view |-> Loaded(w)] ELSE comparison
        /\ current' = IF /\ compare /\ comparison' # None /\ d.view # None
                         /\ (current = None \/ current.gen # d.gen)
                      THEN [gen |-> d.gen, view |-> d.view] ELSE current
    BY Zenon, <1>2, <1>4 DEF Frame, BaselinePath, d
  <2>2. AppInv'
    BY Zenon, <1>1, <2>1 DEF AppInv, AppOf
  <2>3. ComparisonInv'
    <3>1. CASE compare /\ Answered("baseline") /\ w.ok
      <4>1. ThreadOf(w) /\ w.at = "answered" /\ w \in Threads
        BY Zenon, <1>0, <3>1 DEF Answered, IInv, ThreadsInv, ThreadOf
      <4>2. Loaded(w) \in Views /\ OneVersion(Loaded(w)) /\ Loaded(w).path = w.path
        BY Zenon, <3>1, <4>1, LoadedIsOne
      <4>3. w.path \in Paths
        BY <4>1 DEF Threads
      <4>4. comparison' = [path |-> w.path, view |-> Loaded(w)]
        BY Zenon, <2>1, <3>1
      <4> HIDE DEF w
      <4>5. comparison' \in Baselines /\ comparison'.path = w.path /\ comparison'.view = Loaded(w)
        BY <4>2, <4>3, <4>4 DEF Baselines
      <4> QED BY Zenon, <4>2, <4>5 DEF ComparisonInv, BaselineOf
    <3>2. CASE ~(compare /\ Answered("baseline") /\ w.ok)
      BY Zenon, <2>1, <3>2 DEF IInv, ComparisonInv
    <3> QED BY Zenon, <3>1, <3>2
  <2>4. CurrentInv'
    <3>0. d \in Apps /\ app \in Apps
      BY Zenon, <1>1 DEF AppOf, IInv, AppInv
    <3>1. CASE current' = [gen |-> d.gen, view |-> d.view] /\ d.view # None
      <4>1. d.view \in Views /\ d.gen \in Nat
        BY <3>0, <3>1 DEF Apps
      <4>2. current' \in Currents /\ current'.gen = d.gen /\ current'.view = d.view /\ d.gen <= d.gen
        BY <3>1, <4>1 DEF Currents
      <4> QED BY Zenon, <2>1, <4>2 DEF CurrentInv, CurrentOf
    <3>2. CASE current' = current /\ current # None
      <4>1. current \in Currents /\ current.gen <= app.gen /\ (current.gen = app.gen => current.view = app.view)
        BY Zenon, <3>2 DEF IInv, CurrentInv, CurrentOf
      <4>2. current.gen \in Nat /\ app.gen \in Nat /\ d.gen \in Nat
        BY <3>0, <4>1 DEF Currents, Apps
      <4>3. current.gen <= d.gen /\ (current.gen = d.gen => current.view = d.view)
        BY <1>1, <4>1, <4>2
      <4> QED BY Zenon, <2>1, <3>2, <4>1, <4>3 DEF CurrentInv, CurrentOf
    <3> QED BY Zenon, <2>1, <3>1, <3>2 DEF CurrentInv
  <2>5. load' \in [Kinds -> Threads \cup {None}] /\ \A k \in Kinds : load'[k] = None \/ load'[k] = load[k]
    <3>1. load \in [Kinds -> Threads \cup {None}]
      BY Zenon DEF IInv, ThreadsInv
    <3> QED BY Zenon, <2>1, <3>1
  <2>6. ThreadsInv'
    BY Zenon, <1>0, <2>5, ThreadsFrom, SameVersions DEF IInv
  <2>7. BusyInv'
    <3>1. Answered("open") => load'["open"] = None /\ load'["reanalyze"] = None
      BY Zenon, <1>0, <2>1, <2>5 DEF MayDrain, IInv, BusyInv, Answered
    <3> QED BY Zenon, <1>0, <1>1, <2>1, <2>5, <3>1 DEF IInv, BusyInv
  <2> QED BY Zenon, <2>2, <2>3, <2>4, <2>6, <2>7
<1> QED BY Zenon, <1>3, <1>4

(* The types of the rest are kept. *)
LEMMA RestStep ==
  ASSUME RestInv, Next
  PROVE  RestInv'
<1>1. page' \in {"Overview"} \cup Pages
  BY Zenon DEF RestInv, Next, OpenSession, RecoverPerfetto, BeginReanalysis, OpenBaseline, CancelLoad,
     KeepAsBaseline, ClearBaseline, Turn, Close, Exit, Rewrite, Frame, Work
<1>2. closing' \in {"open", "asked", "closed"}
  BY Zenon DEF RestInv, Next, OpenSession, RecoverPerfetto, BeginReanalysis, OpenBaseline, CancelLoad,
     KeepAsBaseline, ClearBaseline, Turn, Close, Exit, Rewrite, Frame, Work, Remember
<1>3. loads' \in {loads, loads + 1} /\ writes' \in {writes, writes + 1}
  BY Zenon DEF Next, OpenSession, RecoverPerfetto, BeginReanalysis, OpenBaseline, CancelLoad,
     KeepAsBaseline, ClearBaseline, Turn, Close, Exit, Rewrite, Frame, Work, Start
<1>4. loads' \in Nat /\ writes' \in Nat
  BY <1>3 DEF RestInv
<1> QED BY Zenon, <1>1, <1>2, <1>4 DEF RestInv

-----------------------------------------------------------------------------
(* The theorem *)

(* The invariant holds throughout. *)
LEMMA Invariance == Spec => []IInv
<1>1. Init => IInv
  <2> SUFFICES ASSUME Init PROVE IInv
    OBVIOUS
  <2>1. AppOf(app)
    <3>1. AppOf(Fresh)
      BY DEF AppOf, Fresh, Apps, Phases
    <3>2. ASSUME NEW p \in Paths PROVE AppOf(Recorded(p))
      <4>1. Recorded(p) \in Apps /\ Recorded(p).view.path = Recorded(p).path
            /\ Recorded(p).view.head = Recorded(p).view.tail
        BY DEF Recorded, Apps, Phases, Views
      <4> QED BY Zenon, <4>1 DEF AppOf, OneVersion
    <3> QED BY Zenon, <3>1, <3>2 DEF Init
  <2>2. ThreadsInv
    <3>1. version \in [Paths -> Nat]
      BY DEF Init
    <3> QED BY Zenon, <3>1 DEF Init, ThreadsInv
  <2>3. load["open"] = None /\ load["reanalyze"] = None
    BY DEF Init, Kinds
  <2>4. RestInv
    BY DEF Init, RestInv
  <2> QED BY Zenon, <2>1, <2>2, <2>3, <2>4 DEF Init, IInv, AppInv, ComparisonInv, CurrentInv, BusyInv
<1>2. IInv /\ [Next]_vars => IInv'
  <2> SUFFICES ASSUME IInv, [Next]_vars PROVE IInv'
    OBVIOUS
  <2>1. CASE Next
    <3>1. RestInv'
      BY Zenon, <2>1, RestStep DEF IInv
    <3>2. CASE ClearBaseline \/ Turn
      BY Zenon, <3>1, <3>2 DEF ClearBaseline, Turn, IInv, AppInv, ComparisonInv, CurrentInv, ThreadsInv,
         ThreadOf, BusyInv
    <3>3. CASE Close
      <4>1. CASE Exit
        BY Zenon, <3>1, <3>3, <4>1, ExitStep DEF Close, IInv
      <4>2. CASE ~Exit
        BY Zenon, <3>1, <3>3, <4>2
           DEF Close, IInv, AppInv, ComparisonInv, CurrentInv, ThreadsInv, ThreadOf, BusyInv
      <4> QED BY Zenon, <4>1, <4>2
    <3> QED BY Zenon, <2>1, <3>1, <3>2, <3>3, OpenStep, ReanalysisStep, BaselineStep, CancelStep, KeepStep,
         RewriteStep, FrameStep, WorkStep DEF Next, IInv
  <2>2. CASE UNCHANGED vars
    BY Zenon, <2>2 DEF vars, IInv, AppInv, ComparisonInv, CurrentInv, ThreadsInv, ThreadOf, BusyInv, RestInv
  <2> QED BY Zenon, <2>1, <2>2
<1> QED BY <1>1, <1>2, PTL DEF Spec

(* load_analysis_window, drain_messages, poll_comparison_load: for any number of
   files, loads and changes of the files, the analysis and the baseline on screen
   are each of one version of the file whose path the desktop holds for them, and
   the right-hand side of a comparison is the analysis of its generation.   *)
THEOREM ShownCorrect == Spec => []ShownIsOneSession
<1>1. IInv => ShownIsOneSession
  <2> SUFFICES ASSUME IInv PROVE ShownIsOneSession
    OBVIOUS
  <2>1. ViewIsOneVersion
    BY Zenon DEF IInv, AppInv, AppOf, ComparisonInv, BaselineOf, OneVersion, ViewIsOneVersion, Shown
  <2> QED BY Zenon, <2>1 DEF IInv, AppInv, AppOf, ComparisonInv, BaselineOf, CurrentInv, CurrentOf,
       ShownIsOneSession, ViewIsOfSession, BaselineIsItsPath, CurrentIsShown
<1> QED BY <1>1, Invariance, PTL
=============================================================================
