-------------------------------- MODULE LiveTop -------------------------------
(***************************************************************************)
(* The collector's running top lists (crates/android-agent/src/main.rs:    *)
(* BoundedTop, LiveHeavyHitters): time spent per process, from block       *)
(* requests, and per file, from FileIo and RequestOrigin events.  A list   *)
(* holds a bounded number of keys.                                         *)
(*                                                                         *)
(* `spent` and `seen` are history: what was really observed of each key.   *)
(***************************************************************************)
EXTENDS Naturals, FiniteSets, Functions, FiniteSetsExt

CONSTANTS
  Keys,         (* processes, or files                                       *)
  Requests,
  Capacity,     (* keys a list keeps                                         *)
  Shown,        (* entries a snapshot shows: 20                              *)
  Latencies,    (* durations of a FileIo                                     *)
  MaxTime,      (* bound on the clock                                        *)
  MaxObserved,  (* bound on the observations                                 *)
  None

VARIABLES
  now,
  pending,    (* LiveHeavyHitters.pending                                    *)
  processes, files,
  live,       (* live[r]: issue time and process of the request in flight at r *)
  lost,       (* lost[r]: events of r lost since its pending entry, up to two *)
  lostTwo,    (* two were, of some request                                    *)
  spent, seen

vars == <<now, pending, processes, files, live, lost, lostTwo, spent, seen>>

Lists == {"processes", "files"}
Empty == [entries |-> <<>>, evicted |-> 0, total |-> 0]

Init ==
  /\ now = 0
  /\ pending = <<>>
  /\ processes = Empty /\ files = Empty
  /\ live = [r \in Requests |-> None]
  /\ lost = [r \in Requests |-> 0]
  /\ lostTwo = FALSE
  /\ spent = [l \in Lists |-> [k \in Keys |-> 0]]
  /\ seen = [l \in Lists |-> [k \in Keys |-> 0]]

-----------------------------------------------------------------------------
(* BoundedTop::observe.  Among entries with the same least time, any may   *)
(* be the one that goes.                                                   *)

Credit(entries, key, latency) ==
  [k \in DOMAIN entries \cup {key} |->
     IF k # key THEN entries[k]
     ELSE IF k \in DOMAIN entries
     THEN [count |-> entries[k].count + 1, time |-> entries[k].time + latency]
     ELSE [count |-> 1, time |-> latency]]

Least(entries) == {k \in DOMAIN entries : \A j \in DOMAIN entries : entries[k].time <= entries[j].time}

\* Evicts for any newcomer, and lets it inherit the evicted entry.
Inherit(list, key, latency) ==
  IF key \in DOMAIN list.entries \/ Cardinality(DOMAIN list.entries) < Capacity
  THEN {[list EXCEPT !.entries = Credit(@, key, latency), !.total = @ + latency]}
  ELSE {[list EXCEPT !.entries =
           Credit(Restrict(@, DOMAIN @ \ {k}), key, latency + list.entries[k].time),
         !.evicted = @ + 1, !.total = @ + latency] : k \in Least(list.entries)}

\* Turns a newcomer away without counting it.
TurnAway(list, key, latency) ==
  IF key \in DOMAIN list.entries \/ Cardinality(DOMAIN list.entries) < Capacity
  THEN {[list EXCEPT !.entries = Credit(@, key, latency), !.total = @ + latency]}
  ELSE {[list EXCEPT !.total = @ + latency]}

Observe(list, key, latency) ==
  IF key \in DOMAIN list.entries \/ Cardinality(DOMAIN list.entries) < Capacity
  THEN {[list EXCEPT !.entries = Credit(@, key, latency), !.total = @ + latency]}
  ELSE {IF latency > list.entries[k].time
        THEN [list EXCEPT !.entries = Credit(Restrict(@, DOMAIN @ \ {k}), key, latency),
                          !.evicted = @ + 1, !.total = @ + latency]
        ELSE [list EXCEPT !.evicted = @ + 1, !.total = @ + latency]
        : k \in Least(list.entries)}

\* snapshot: the largest entries, and the time they cover
ShownKeys(entries) ==
  {k \in DOMAIN entries : Cardinality({j \in DOMAIN entries : entries[j].time > entries[k].time}) < Shown}
Covered(list) ==
  LET keys == ShownKeys(list.entries) IN
  IF Cardinality(keys) <= Shown THEN MapThenSumSet(LAMBDA k : list.entries[k].time, keys)
  ELSE Min({MapThenSumSet(LAMBDA k : list.entries[k].time, s) : s \in kSubset(Shown, keys)})

Record(l, key, latency) ==
  /\ seen' = [seen EXCEPT ![l][key] = @ + 1]
  /\ spent' = [spent EXCEPT ![l][key] = @ + latency]

Observations == MapThenSumSet(LAMBDA l : MapThenSumSet(LAMBDA k : seen[l][k], Keys), Lists)

-----------------------------------------------------------------------------
(* LiveHeavyHitters::observe.                                              *)

Issue(r, key, delivered) ==
  /\ live[r] = None /\ Observations < MaxObserved
  /\ live' = [live EXCEPT ![r] = [ts |-> now, key |-> key]]
  /\ pending' = IF delivered
                THEN [q \in DOMAIN pending \cup {r} |->
                        IF q = r THEN [ts |-> now, key |-> key] ELSE pending[q]]
                ELSE pending
  /\ lost' = [lost EXCEPT ![r] = IF delivered THEN 0 ELSE Min({@ + 1, 2})]
  /\ lostTwo' = (lostTwo \/ lost'[r] >= 2)
  /\ UNCHANGED <<now, processes, files, spent, seen>>

\* A completion that leaves its issue behind.
KeepPending(r) == pending
RemovePending(r) == Restrict(pending, DOMAIN pending \ {r})

Complete(r, delivered) ==
  /\ live[r] # None
  /\ live' = [live EXCEPT ![r] = None]
  /\ lost' = [lost EXCEPT ![r] = IF delivered THEN @ ELSE Min({@ + 1, 2})]
  /\ lostTwo' = (lostTwo \/ lost'[r] >= 2)
  /\ IF delivered /\ r \in DOMAIN pending
     THEN /\ processes' \in Observe(processes, pending[r].key, now - pending[r].ts)
          /\ pending' = RemovePending(r)
          /\ Record("processes", live[r].key, now - live[r].ts)
     ELSE UNCHANGED <<pending, processes, spent, seen>>
  /\ UNCHANGED <<now, files>>

FileIo(key, latency) ==
  /\ Observations < MaxObserved
  /\ files' \in Observe(files, key, latency)
  /\ Record("files", key, latency)
  /\ UNCHANGED <<now, pending, processes, live, lost, lostTwo>>

\* A RequestOrigin counts the file and adds no time.
RequestOrigin(key) ==
  /\ Observations < MaxObserved
  /\ files' \in Observe(files, key, 0)
  /\ Record("files", key, 0)
  /\ UNCHANGED <<now, pending, processes, live, lost, lostTwo>>

Tick ==
  /\ now < MaxTime
  /\ now' = now + 1
  /\ UNCHANGED <<pending, processes, files, live, lost, lostTwo, spent, seen>>

Next ==
  \/ \E r \in Requests, key \in Keys, delivered \in BOOLEAN :
       Issue(r, key, delivered)
  \/ \E r \in Requests, delivered \in BOOLEAN : Complete(r, delivered)
  \/ \E key \in Keys, latency \in Latencies : FileIo(key, latency)
  \/ \E key \in Keys : RequestOrigin(key)
  \/ Tick

Spec == Init /\ [][Next]_vars
-----------------------------------------------------------------------------
(* A list never overstates: an entry's time and count are at most what was *)
(* observed of its key, and what a snapshot covers is at most the total    *)
(* (BoundedTop::observe, snapshot).                                        *)
TopNeverOverstates ==
  /\ \A k \in DOMAIN files.entries :
       files.entries[k].count <= seen["files"][k] /\ files.entries[k].time <= spent["files"][k]
  /\ Covered(files) <= files.total /\ Covered(processes) <= processes.total

(* Until a key is turned away or evicted the file list is exact, so        *)
(* evicted_keys = 0 in a snapshot means nothing is missing from it.        *)
ExactUntilEviction ==
  files.evicted = 0 =>
    \A k \in Keys : seen["files"][k] > 0 =>
      k \in DOMAIN files.entries /\ files.entries[k].time = spent["files"][k]

(* The time of a process is the time of its own requests unless both a     *)
(* completion and the next issue of a request pointer were lost: the       *)
(* pending entry a lost completion leaves is overwritten by the next issue *)
(* (LiveHeavyHitters::observe).                                            *)
ProcessTimeIsOwn ==
  ~lostTwo /\ processes.evicted = 0 =>
    \A k \in DOMAIN processes.entries : processes.entries[k].time = spent["processes"][k]

(* The live top lists never overstate a key, are exact until they say that *)
(* they evicted one, and give a process the time of its own requests.      *)
TopIsHonest ==
  /\ TopNeverOverstates
  /\ ExactUntilEviction
  /\ ProcessTimeIsOwn
=============================================================================
