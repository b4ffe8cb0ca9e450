---------------------------- MODULE RequestLifetimes ----------------------------
(***************************************************************************)
(* One request identity over several lifetimes, as AnalysisEngine and      *)
(* FilePathCoverageEngine (crates/protocol/src) see it.  Kernel addresses  *)
(* are reused, so the identity of the request and of its bios recur; the   *)
(* engine tells lifetimes apart by evidence_windows.  Answers are cached,  *)
(* and all but the coverage engine retain a bounded tail of the evidence.  *)
(*                                                                         *)
(* Every record carries the lifetime it was emitted for, as history.       *)
(***************************************************************************)
EXTENDS RequestGraph

CONSTANTS
  Bios, Files,
  Incomplete,         (* whether the collector may report a set as incomplete *)
  Ttl,                (* the evidence horizon: 30 s                          *)
  Kept, Drained,      (* MAX_ANALYSIS_SAMPLES and a tenth of it              *)
  MaxCached,          (* MAX_DERIVED_CACHE_ENTRIES                           *)
  MaxTime, MaxLives, MaxOrigins, MaxLost

VARIABLES
  now,
  lives,      (* lives[n]: [start, issue, seen] of the n-th use of the identity *)
  open,       (* the last one has not completed                              *)
  ended,      (* when the one before it did                                  *)
  lost,       (* events of the request lost                                  *)
  pending,    (* the correlator's entry: a lifetime                          *)
  completed,  (* completed, from the first to the last                       *)
  last,       (* last_request_completion                                     *)
  windows,    (* evidence_windows                                            *)
  nodes, edges,
  from,       (* index of the oldest retained completed, node and edge       *)
  cache,      (* transaction_cache                                           *)
  slow,       (* slow_reason_cache: the request whose reason is cached       *)
  shown,      (* the last answer: [of, origins, reason]                      *)
  uncorrelated

vars == <<now, lives, open, ended, lost, pending, completed, last, windows, nodes, edges, from, cache,
          slow, shown, uncorrelated>>

Init ==
  /\ now = 0
  /\ lives = <<>> /\ open = FALSE /\ ended = None /\ lost = 0
  /\ pending = None
  /\ completed = <<>> /\ last = None /\ windows = <<>>
  /\ nodes = <<>> /\ edges = <<>>
  /\ from = [completed |-> 1, nodes |-> 1, edges |-> 1]
  /\ cache = <<>> /\ slow = None /\ shown = None
  /\ uncorrelated = 0

Key(io) == <<io.issue, io.end>>

\* Compares with the limit before the push that reaches it.
PushOver(list, first) == IF Len(list) - first + 1 > Kept THEN first + Drained ELSE first

(* bounded_push, and the same in ingest: a full list loses its oldest part.  *)
(* `first` is the index of the oldest element kept.                        *)
BoundedPush(list, first) == IF Len(list) - first + 1 = Kept THEN first + Drained ELSE first

-----------------------------------------------------------------------------
(* The device: bios are linked to the request from `start` on; a lifetime  *)
(* begins after the one before has ended, on a clock of nanoseconds.  The  *)
(* event of the issue may be lost; then the request is not pending.        *)
BlockIssue ==
  \E seen \in BOOLEAN, start \in Monus(now, Ttl) .. now :
    /\ ~open /\ Len(lives) < MaxLives
    /\ ended # None => ended < start
    /\ ~seen => lost < MaxLost
    /\ lives' = Append(lives, [start |-> start, issue |-> now, seen |-> seen])
    /\ open' = TRUE
    /\ lost' = IF seen THEN lost ELSE lost + 1
    /\ pending' = IF seen THEN Len(lives') ELSE pending
    /\ slow' = IF seen THEN None ELSE slow
    /\ shown' = None
    /\ UNCHANGED <<now, ended, completed, last, windows, nodes, edges, from, cache, uncorrelated>>

(* The evidence window: from the completion before, at most Ttl back. *)
WideWindow(issue, end) == <<Monus(issue, Ttl), end>>

Window(issue, end) ==
  <<Larger(Monus(issue, Ttl), IF last = None THEN 0 ELSE last + 1), end>>

Completion(n) ==
  [id |-> "r", insert |-> None, issue |-> lives[n].issue, end |-> now, measured |-> TRUE,
   operation |-> "read", bytes |-> 1, pid |-> 1, tid |-> 1, sector |-> 1, foreign |-> FALSE,
   life |-> n]

(* ingest of BlockComplete. *)
BlockComplete ==
  /\ open
  /\ open' = FALSE /\ ended' = now
  /\ shown' = None
  /\ IF pending = None
     THEN /\ uncorrelated' = uncorrelated + 1
          /\ UNCHANGED <<pending, completed, last, windows, from>>
     ELSE LET io == Completion(pending)
              kept == BoundedPush(completed, from.completed)
              gone == {Key(completed[k]) : k \in from.completed .. kept - 1}
          IN  /\ pending' = None
              /\ last' = now
              /\ windows' = [k \in (DOMAIN windows \cup {Key(io)}) \ gone |->
                               IF k = Key(io) THEN Window(io.issue, io.end) ELSE windows[k]]
              /\ completed' = Append(completed, io)
              /\ from' = [from EXCEPT !.completed = kept]
              /\ UNCHANGED uncorrelated
  /\ UNCHANGED <<now, lives, lost, nodes, edges, cache, slow>>

\* The graphs outlive the evidence they were built from.
StillCached == cache

(* invalidate_derived *)
NothingCached == <<>>

(* ingest of RequestOrigin: a node and an edge whose identities come from  *)
(* the request and the bio.  The record is stamped when the bio is linked, *)
(* once in a lifetime, and may arrive later.                               *)
RequestOrigin ==
  \E n \in DOMAIN lives, bio \in Bios, file \in Files, incomplete \in Incomplete :
    /\ Len(nodes) < MaxOrigins
    /\ \A v \in ToSet(nodes) : v.life = n => v.id # <<"origin", bio>>
    /\ LET id == <<"origin", bio>>
       IN  /\ nodes' = Append(nodes,
                [n |-> Len(nodes), id |-> id, start |-> lives[n].start, end |-> lives[n].start,
                 file |-> file, path |-> file.inode, pid |-> 1, tid |-> 1, operation |-> None,
                 life |-> n])
           /\ edges' = Append(edges,
                [n |-> Len(edges), id |-> <<20, bio>>, from |-> id, to |-> RequestNode,
                 confidence |-> Exact, marks |-> IF incomplete THEN {"incomplete"} ELSE {},
                 life |-> n])
           /\ from' = [from EXCEPT !.nodes = BoundedPush(nodes, @), !.edges = BoundedPush(edges, @)]
    /\ cache' = NothingCached /\ slow' = None /\ shown' = None
    /\ UNCHANGED <<now, lives, open, ended, lost, pending, completed, last, windows, uncorrelated>>

Tick ==
  /\ now < MaxTime /\ now' = now + 1 /\ shown' = None
  /\ UNCHANGED <<lives, open, ended, lost, pending, completed, last, windows, nodes, edges, from, cache,
                 slow, uncorrelated>>

-----------------------------------------------------------------------------
(* evidence_time_matches *)
Matches(known, io, ts) ==
  LET w == IF Key(io) \in DOMAIN known THEN known[Key(io)]
           ELSE <<Monus(io.issue, Ttl), io.end>>
  IN  ts >= w[1] /\ ts <= w[2]

Tail_(list, first) == {list[k] : k \in first .. Len(list)}

(* What transaction_for builds, from the evidence kept since `first` and   *)
(* the evidence windows `known`.                                           *)
OriginsIn(known, io, first) ==
  FileOriginsFor(
    BuildTransactionGraph(io, {}, {},
      {v \in Tail_(nodes, first.nodes) : Matches(known, io, v.start)}, Tail_(edges, first.edges)),
    RequestNode)
OriginsOf(io, first) == OriginsIn(windows, io, first)

(* transaction_for, of a completed request that is retained.  cached_why_slow *)
(* keeps its answer for the request identity.                              *)
Retained == Tail_(completed, from.completed)

Select ==
  \E io \in Retained :
    LET known == Key(io) \in DOMAIN cache
        origins == IF known THEN cache[Key(io)] ELSE OriginsOf(io, from)
        room == IF Cardinality(DOMAIN cache) >= MaxCached THEN {} ELSE DOMAIN cache
    IN  /\ cache' = IF known THEN cache
                    ELSE [k \in room \cup {Key(io)} |-> IF k = Key(io) THEN origins ELSE cache[k]]
        /\ slow' = IF slow = None THEN io.life ELSE slow
        /\ shown' = [of |-> io, origins |-> origins, reason |-> slow']
        /\ UNCHANGED <<now, lives, open, ended, lost, pending, completed, last, windows, nodes, edges,
                       from, uncorrelated>>

\* A projection starts without windows.
NoWindows(selected) == <<>>

(* select_completed: a filter copies the evidence, and the windows of the  *)
(* requests it lets through.                                               *)
SelectedWindows(selected) ==
  [k \in {Key(io) : io \in selected} \cap DOMAIN windows |-> windows[k]]

Next == BlockIssue \/ BlockComplete \/ RequestOrigin \/ Tick \/ Select
Spec == Init /\ [][Next]_vars

-----------------------------------------------------------------------------
(* FilePathCoverageEngine::finish: every completion, all the evidence. *)
Everything == [completed |-> 1, nodes |-> 1, edges |-> 1]

(* FilePathConfidence::from_origins *)
Confidence(origins) ==
  IF origins = {} \/ \E o \in origins : o.incomplete \/ o.confidence = ContextOnly
  THEN "unresolved"
  ELSE IF \A o \in origins : o.confidence = Exact THEN "exact" ELSE "probable"

Coverage(whole) ==
  LET confidences == [k \in DOMAIN completed |-> Confidence(whole[k])]
  IN  [c \in {"exact", "probable", "unresolved"} |->
         Cardinality({k \in DOMAIN completed : confidences[k] = c})
           + IF c = "unresolved" THEN uncorrelated ELSE 0]

OwnNodes(n) == {v \in ToSet(nodes) : v.life = n}
Undisturbed(n) == \A k \in 1 .. n : lives[k].seen

\* What all the evidence says of each completion, and the retained evidence
\* of each retained one.
Whole == [k \in DOMAIN completed |-> OriginsOf(completed[k], Everything)]
Detail == [k \in from.completed .. Len(completed) |-> OriginsOf(completed[k], from)]

(* evidence_windows: the files a request is attributed to are those that   *)
(* were recorded for this use of its identity, as long as no earlier use   *)
(* went unseen, and none of them is missing when all evidence is kept.     *)
OriginsAreOwn(whole) ==
  \A k \in DOMAIN completed :
    Undisturbed(completed[k].life) =>
      {o.file : o \in whole[k]} = {v.file : v \in OwnNodes(completed[k].life)}

(* transaction_cache: what is shown of a request is what its evidence says *)
(* now, however late that arrived.                                         *)
AnswersAreCurrent(detail) ==
  shown # None => \A k \in DOMAIN detail : completed[k] = shown.of => shown.origins = detail[k]

(* Retention: the detail of a request never names a file that the whole    *)
(* evidence does not, as long as no earlier use of its identity went       *)
(* unseen; evidence_windows holds the retained requests and no others.     *)
RetainedDetailIsPartial(detail, whole) ==
  /\ \A k \in DOMAIN detail :
       Undisturbed(completed[k].life) =>
         {o.file : o \in detail[k]} \subseteq {o.file : o \in whole[k]}
  /\ DOMAIN windows = {Key(io) : io \in Retained}
  /\ Len(completed) - from.completed + 1 <= Kept
  /\ Len(nodes) - from.nodes + 1 <= Kept

(* select_completed: a filter that lets through nothing but one request    *)
(* does not change what that is attributed to.                             *)
FilteringKeepsOrigins(detail) ==
  \A k \in DOMAIN detail :
    OriginsIn(SelectedWindows({completed[k]}), completed[k], from) = detail[k]

(* FilePathCoverageEngine::finish: every completion is in one class, and   *)
(* one without origins of its own, or without an issue, is unresolved.     *)
CoverageIsHonest(coverage) ==
  LET bare == {k \in DOMAIN completed :
                 Undisturbed(completed[k].life) /\ OwnNodes(completed[k].life) = {}}
  IN  /\ coverage["exact"] + coverage["probable"] + coverage["unresolved"]
           = Len(completed) + uncorrelated
      /\ coverage["unresolved"] >= uncorrelated + Cardinality(bare)

Attributed(detail, whole) ==
  /\ OriginsAreOwn(whole)
  /\ AnswersAreCurrent(detail)
  /\ RetainedDetailIsPartial(detail, whole)
  /\ FilteringKeepsOrigins(detail)
  /\ CoverageIsHonest(Coverage(whole))

(* A request is attributed to the files of this use of its identity,       *)
(* through late evidence, caches, retention and filters.                   *)
AttributionIsOwn == Attributed(Detail, Whole)
=============================================================================
