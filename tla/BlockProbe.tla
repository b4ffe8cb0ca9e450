------------------------------ MODULE BlockProbe ------------------------------
(***************************************************************************)
(* The block probes (crates/android-ebpf/src/main.rs: handle_raw_block,    *)
(* handle_block, process_block) running on several CPUs, with the BPF maps *)
(* they share, the per-CPU aggregate, the ring buffer, the block layer     *)
(* that fires them, and the collector that switches the filter generation  *)
(* and drains the ring.                                                    *)
(*                                                                         *)
(* A handler runs in two steps.  It fires: raw accounting, identity,       *)
(* timestamp and the first read of the active configuration.  It finishes: *)
(* matches_filter reads the active configuration again, then maps,         *)
(* counters and ring are updated.  Anything may happen in between on other *)
(* CPUs, and on the same CPU in an interrupt.                              *)
(***************************************************************************)
EXTENDS Integers, FiniteSets, Sequences

CONSTANTS
  Requests,        (* physical requests, each used once                       *)
  Ptrs,            (* values of request_id                                    *)
  PtrOf,           (* the request_id of each request                          *)
  Size,            (* bytes of each request                                   *)
  Worker,          (* the identity of a kernel worker                         *)
  Contexts,        (* where handlers run: the task and interrupt level of CPUs *)
  Cpus,
  CpuOf,           (* the CPU of each context                                 *)
  Above,           (* the contexts that interrupt each context                *)
  Probe,           (* "raw": raw tracepoints; "exact": tracepoints with the
                      request pointer; "hash": fallback_request_id            *)
  Counters,        (* the fields of KernelAggregate that are followed         *)
  ConfigOf,        (* the configuration of each generation                    *)
  MaxGeneration,   (* the last generation the collector applies               *)
  RawCapacity,     (* max_entries of RAW_COMPLETIONS                          *)
  StartsCapacity,  (* max_entries of BLOCK_STARTS                             *)
  RingCapacity,    (* records the ring buffer holds                           *)
  MaxAttempts,     (* bound on the inserts and issues of each request         *)
  MaxMissed,       (* bound on program runs the kernel skips                  *)
  MaxMerged,       (* bound on queued requests merged into another            *)
  None

Kinds == {"insert", "issue", "complete"}
Owners == Requests \cup {Worker}
Modes == {"basic", "balanced", "deep", "raw_all"}
Config == [mode : Modes, accepts : SUBSET Owners, include_errors : BOOLEAN]
Generations == 0 .. MaxGeneration

ASSUME ConstantsAssumption ==
  /\ PtrOf \in [Requests -> Ptrs]
  /\ IsFiniteSet(Ptrs)
  /\ Size \in [Requests -> Nat]
  /\ CpuOf \in [Contexts -> Cpus]
  /\ Above \in [Contexts -> SUBSET Contexts]
  /\ Probe \in {"raw", "exact", "hash"}
  /\ MaxGeneration \in Nat
  /\ \A g \in 1 .. MaxGeneration : ConfigOf[g] \in Config
  /\ RawCapacity \in Nat /\ StartsCapacity \in Nat /\ RingCapacity \in Nat
  /\ MaxAttempts \in [Requests -> Nat] /\ MaxMissed \in Nat /\ MaxMerged \in Nat

VARIABLES
  life,        (* life[r]: where request r is in the block layer              *)
  todo,        (* todo[r]: bytes of r not yet completed                       *)
  failed,      (* failed[r]: a part of r failed since its latest issue        *)
  attempts,    (* attempts[r]: inserts and issues of r so far                 *)
  merged,      (* queued requests merged away                                 *)
  missed,      (* program runs skipped by the kernel                          *)
  refused,     (* issues a full RAW_COMPLETIONS refused                       *)
  clock,       (* bpf_ktime_get_ns                                            *)
  active,      (* FILTER_ACTIVE                                               *)
  raw,         (* RAW_COMPLETIONS                                             *)
  starts,      (* BLOCK_STARTS                                                *)
  aggregates,  (* AGGREGATES                                                  *)
  ring,        (* EVENTS                                                      *)
  handler,     (* handler[c]: the program run in context c                    *)
  total,       (* every counter bump since the start                          *)
  joined       (* what the latest observed completion was joined with         *)

layer == <<life, todo, failed, attempts, merged, missed, refused>>
vars == <<life, todo, failed, attempts, merged, missed, refused, clock, active, raw, starts,
          aggregates, ring, handler, total, joined>>

CompletionState == [remaining : Nat, error : BOOLEAN]
Event == [kind : Kinds, request : Requests, ts : Nat]
\* A BlockStart: `insert` and `issue` are the requests whose events set
\* insert_ts_ns and issue_ts_ns; the code sees only the timestamps.
BlockStart == [insert : Requests \cup {None}, insert_ts : Nat,
               issue : Requests \cup {None}, issue_ts : Nat, owner : Owners]
Run == [kind : Kinds, request : Requests, owner : Owners, ts : Nat, error : BOOLEAN,
        config : Generations]
Joined == [request : Requests, insert : Requests \cup {None}, issue : Requests \cup {None},
           owner : Owners, error : BOOLEAN]
Aggregate == [generation : Generations, count : [Counters -> Nat]]

ASSUME NoneAssumption ==
  /\ None \notin Requests
  /\ None \notin CompletionState /\ None \notin BlockStart /\ None \notin Run
  /\ None \notin Joined

Used(map) == {p \in Ptrs : map[p] # None}

Types ==
  /\ life \in [Requests -> {"idle", "queued", "issued", "done"}]
  /\ todo \in [Requests -> Nat]
  /\ failed \in [Requests -> BOOLEAN]
  /\ attempts \in [Requests -> Nat]
  /\ merged \in Nat /\ missed \in Nat /\ refused \in Nat /\ clock \in Nat
  /\ active \in Generations
  /\ raw \in [Ptrs -> CompletionState \cup {None}]
  /\ starts \in [Ptrs -> BlockStart \cup {None}]
  /\ aggregates \in [Cpus -> Aggregate]
  /\ ring \in Seq(Event)
  /\ handler \in [Contexts -> Run \cup {None}]
  /\ total \in [Counters -> Nat]
  /\ joined \in Joined \cup {None}

(* Every map, counter and handler has its type, and neither the two hash maps
   nor the ring ever hold more than their size.                             *)
TypeOK ==
  /\ Types
  /\ Cardinality(Used(raw)) <= RawCapacity
  /\ Cardinality(Used(starts)) <= StartsCapacity
  /\ Len(ring) <= RingCapacity

-----------------------------------------------------------------------------
(* Maps, counters and ring *)

\* Mutant: one entry too many.
HasRoomForMore(map, p, capacity) == map[p] # None \/ Cardinality(Used(map)) <= capacity

\* A BPF hash map refuses a new key when it is full; it always replaces an old one.
HasRoom(map, p, capacity) == map[p] # None \/ Cardinality(Used(map)) < capacity

\* active_filter: generation 0 is no configuration, which matches everything
\* and records everything.
ConfigAt(g) ==
  IF g = 0 THEN [mode |-> "raw_all", accepts |-> Owners, include_errors |-> FALSE]
  ELSE ConfigOf[g]

\* matches_filter
MatchesFilter(owner) == owner \in ConfigAt(active).accepts

Zero == [n \in Counters |-> 0]
Add(count, names) == [n \in Counters |-> IF n \in names THEN count[n] + 1 ELSE count[n]]

\* Mutant: the counters of the previous generation are kept.
AddToAny(a, generation, names) == [generation |-> generation, count |-> Add(a.count, names)]

\* aggregate_mut and the counters one program run bumps: an aggregate of
\* another generation is started afresh.
AggregateMut(a, generation, names) ==
  [generation |-> generation,
   count |-> Add(IF a.generation = generation THEN a.count ELSE Zero, names)]

Bump(c, generation, names) ==
  /\ aggregates' = IF names = {} THEN aggregates
                   ELSE [aggregates EXCEPT ![CpuOf[c]] = AggregateMut(@, generation, names)]
  /\ total' = Add(total, names)

\* submit_event for each of `events` in turn; the first failed reservation ends
\* the program (`?`).
Fits(events) == RingCapacity - Len(ring) >= Len(events)
Submit(events) ==
  ring' = ring \o SubSeq(events, 1, IF Fits(events) THEN Len(events) ELSE RingCapacity - Len(ring))
Dropped(events) == IF Fits(events) THEN {} ELSE {"ring_reserve_failures"}

-----------------------------------------------------------------------------
(* The block layer fires a probe *)

Idle(r) == \A c \in Contexts : handler[c] # None => handler[c].request # r
InFlight(r) == life[r] \in {"queued", "issued"} \/ ~Idle(r)

\* A request pointer has one user at a time; a hash may have several.
Admissible(r) ==
  Probe # "hash" => \A q \in Requests \ {r} : PtrOf[q] = PtrOf[r] => ~InFlight(q)

Enabled(c) == \A d \in {c} \cup Above[c] : handler[d] = None

\* The kernel skips a program that interrupts itself; a tracepoint program is
\* skipped while any tracepoint program runs on the CPU.
Recursion(c, kind) ==
  \E d \in Contexts : /\ d # c /\ CpuOf[d] = CpuOf[c] /\ handler[d] # None
                      /\ Probe = "raw" => handler[d].kind = kind

\* CompletionState::new and CompletionState::advance
NewState(bytes) == [remaining |-> bytes, error |-> FALSE]

\* Mutant: a later success clears the error of an earlier part.
AdvanceLast(s, bytes, error) == [remaining |-> s.remaining - bytes, error |-> error]

Advance(s, bytes, error) ==
  [remaining |-> s.remaining - bytes, error |-> s.error \/ error]

\* The identity of an issue: that of a still-unissued queue record, else the
\* running task.
IssueOwner(r, who) ==
  LET start == starts[PtrOf[r]]
  IN IF Probe # "hash" /\ start # None /\ start.issue_ts = 0 THEN start.owner ELSE who

Start(c, kind, r, owner, error) ==
  /\ handler' = [handler EXCEPT ![c] =
       [kind |-> kind, request |-> r, owner |-> owner, ts |-> clock + 1, error |-> error,
        config |-> active]]
  /\ clock' = clock + 1

\* The program does not run, or returns before process_block.
Skip == UNCHANGED <<handler, clock>>

FireInsert(c, r, who) ==
  /\ Enabled(c) /\ Idle(r) /\ Admissible(r) /\ attempts[r] < MaxAttempts[r]
  /\ life[r] \in {"idle", "issued"}
  /\ life' = [life EXCEPT ![r] = "queued"]
  /\ attempts' = [attempts EXCEPT ![r] = @ + 1]
  /\ \/ ~Recursion(c, "insert") /\ Start(c, "insert", r, who, FALSE) /\ UNCHANGED missed
     \/ Recursion(c, "insert") /\ missed < MaxMissed /\ missed' = missed + 1 /\ Skip
  /\ joined' = None
  /\ UNCHANGED <<todo, failed, merged, refused, active, raw, starts, aggregates, ring, total>>

FireIssue(c, r, who) ==
  LET p == PtrOf[r]
  IN /\ Enabled(c) /\ Idle(r) /\ Admissible(r) /\ attempts[r] < MaxAttempts[r]
     /\ life[r] \in {"idle", "queued", "issued"}
     /\ life' = [life EXCEPT ![r] = "issued"]
     /\ attempts' = [attempts EXCEPT ![r] = @ + 1]
     /\ failed' = [failed EXCEPT ![r] = FALSE]
     /\ \/ /\ ~Recursion(c, "issue")
           /\ Probe = "raw" => HasRoom(raw, p, RawCapacity)
           /\ raw' = IF Probe = "raw" THEN [raw EXCEPT ![p] = NewState(todo[r])] ELSE raw
           /\ Start(c, "issue", r, IssueOwner(r, who), FALSE)
           /\ UNCHANGED <<missed, refused>>
        \/ /\ ~Recursion(c, "issue")
           /\ Probe = "raw" /\ ~HasRoom(raw, p, RawCapacity)
           /\ refused' = refused + 1
           /\ Skip /\ UNCHANGED <<raw, missed>>
        \/ /\ Recursion(c, "issue") /\ missed < MaxMissed
           /\ missed' = missed + 1
           /\ Skip /\ UNCHANGED <<raw, refused>>
     /\ joined' = None
     /\ UNCHANGED <<todo, merged, active, starts, aggregates, ring, total>>

\* Mutant: a partial completion is not stored back.
ForgetPart(p, s) == UNCHANGED raw

\* RAW_COMPLETIONS.insert of the advanced state
StorePart(p, s) == raw' = [raw EXCEPT ![p] = s]

\* The raw part of a completion of `bytes`: process_block runs only for the
\* completion that finishes the issued bytes, with the first error of all parts.
RawComplete(c, r, bytes, error) ==
  LET p == PtrOf[r]
      s == raw[p]
      t == Advance(s, bytes, error)
  IN IF s = None \/ bytes > s.remaining THEN Skip /\ UNCHANGED raw
     ELSE IF t.remaining = 0
          THEN raw' = [raw EXCEPT ![p] = None] /\ Start(c, "complete", r, Worker, t.error)
          ELSE StorePart(p, t) /\ Skip

\* The device completes `bytes` more bytes of r.  Without progress only raw
\* probes are fired, whose state it does not advance: a bound on the clock.
FireComplete(c, r, bytes, error) ==
  /\ Enabled(c) /\ Idle(r)
  /\ life[r] = "issued" /\ bytes <= todo[r]
  /\ bytes = 0 => todo[r] = 0 \/ Probe = "raw"
  /\ todo' = [todo EXCEPT ![r] = @ - bytes]
  /\ failed' = [failed EXCEPT ![r] = @ \/ error]
  /\ life' = [life EXCEPT ![r] = IF bytes = todo[r] THEN "done" ELSE @]
  /\ \/ /\ ~Recursion(c, "complete")
        /\ IF Probe = "raw" THEN RawComplete(c, r, bytes, error)
           ELSE Start(c, "complete", r, Worker, error) /\ UNCHANGED raw
        /\ UNCHANGED missed
     \/ /\ Recursion(c, "complete") /\ missed < MaxMissed
        /\ missed' = missed + 1
        /\ Skip /\ UNCHANGED raw
  /\ joined' = None
  /\ UNCHANGED <<attempts, merged, refused, active, starts, aggregates, ring, total>>

\* A queued request is merged into another one: no probe fires.
Merge(r) ==
  /\ life[r] = "queued" /\ Idle(r) /\ merged < MaxMerged
  /\ life' = [life EXCEPT ![r] = "done"]
  /\ merged' = merged + 1
  /\ joined' = None
  /\ UNCHANGED <<todo, failed, attempts, missed, refused, clock, active, raw, starts, aggregates, ring,
                 handler, total>>

-----------------------------------------------------------------------------
(* The handler finishes: process_block *)

\* The program in context c reaches its end.
Finish(c, kind) ==
  /\ handler[c] # None /\ handler[c].kind = kind
  /\ \A d \in Above[c] : handler[d] = None
  /\ handler' = [handler EXCEPT ![c] = None]
  /\ UNCHANGED <<layer, clock, active, raw>>

RecordsAll(mode) == mode \in {"deep", "raw_all"}

FinishInsert(c) ==
  LET h == handler[c]
      p == PtrOf[h.request]
      room == HasRoom(starts, p, StartsCapacity)
      events == IF RecordsAll(ConfigAt(h.config).mode)
                THEN <<[kind |-> "insert", request |-> h.request, ts |-> h.ts]>> ELSE <<>>
  IN /\ Finish(c, "insert")
     /\ IF MatchesFilter(h.owner)
        THEN /\ starts' = IF room THEN [starts EXCEPT ![p] =
                             [insert |-> h.request, insert_ts |-> h.ts,
                              issue |-> None, issue_ts |-> 0, owner |-> h.owner]]
                          ELSE starts
             /\ Submit(events)
             /\ Bump(c, h.config, Dropped(events) \cup
                                  (IF room THEN {} ELSE {"map_insert_failures"}))
        ELSE Bump(c, h.config, {"filter_suppressed"}) /\ UNCHANGED <<starts, ring>>
     /\ joined' = None

\* Mutant: a start is read but not removed.
KeepStart(p) == UNCHANGED starts

\* BLOCK_STARTS.remove
RemoveStart(p) == starts' = [starts EXCEPT ![p] = None]

\* Mutant: an issue does not replace an issued start (BPF_NOEXIST).
KeepPrior(p, start) ==
  starts' = IF starts[p] # None /\ starts[p].issue_ts # 0 THEN starts
            ELSE [starts EXCEPT ![p] = start]

\* BLOCK_STARTS.insert of an issue
StoreIssue(p, start) == starts' = [starts EXCEPT ![p] = start]

FinishIssue(c) ==
  LET h == handler[c]
      p == PtrOf[h.request]
      prior == starts[p]
      reused == prior # None /\ prior.issue_ts # 0
      room == HasRoom(starts, p, StartsCapacity)
      events == IF RecordsAll(ConfigAt(h.config).mode)
                THEN <<[kind |-> "issue", request |-> h.request, ts |-> h.ts]>> ELSE <<>>
  IN /\ Finish(c, "issue")
     /\ IF ~MatchesFilter(h.owner)
        THEN RemoveStart(p) /\ Bump(c, h.config, {"filter_suppressed"}) /\ UNCHANGED ring
        ELSE IF ~room
        THEN Bump(c, h.config, {"map_insert_failures"}) /\ UNCHANGED <<starts, ring>>
        ELSE /\ StoreIssue(p, [insert |-> IF prior = None THEN None ELSE prior.insert,
                               insert_ts |-> IF prior = None THEN 0 ELSE prior.insert_ts,
                               issue |-> h.request, issue_ts |-> h.ts, owner |-> h.owner])
             /\ Submit(events)
             /\ Bump(c, h.config, {"filter_passed"} \cup Dropped(events) \cup
                                  (IF reused THEN {"key_reused"} ELSE {}))
     /\ joined' = None

\* Mutant: the completion is sent before its issue.
DetailsReversed(mode, detail, start, r, ts) ==
  IF ~detail THEN <<>>
  ELSE <<[kind |-> "complete", request |-> r, ts |-> ts]>> \o
       IF mode = "balanced" THEN <<[kind |-> "issue", request |-> start.issue, ts |-> start.issue_ts]>>
       ELSE <<>>

\* block_event_from_start, and the records of a completed request that the mode
\* asks for, in ring order.
Details(mode, detail, start, r, ts) ==
  LET complete == <<[kind |-> "complete", request |-> r, ts |-> ts]>>
      issue == <<[kind |-> "issue", request |-> start.issue, ts |-> start.issue_ts]>>
      insert == <<[kind |-> "insert", request |-> start.insert, ts |-> start.insert_ts]>>
  IN CASE ~detail -> <<>>
       [] mode = "balanced" -> (IF start.insert_ts = 0 THEN <<>> ELSE insert) \o issue \o complete
       [] OTHER -> complete

\* `slow` stands for the latency thresholds and the sample rate.
FinishComplete(c, slow) ==
  LET h == handler[c]
      p == PtrOf[h.request]
      start == starts[p]
      config == ConfigAt(h.config)
      detail == CASE config.mode = "basic" -> FALSE
                  [] config.mode = "balanced" -> slow \/ (config.include_errors /\ h.error)
                  [] OTHER -> TRUE
      events == Details(config.mode, detail, start, h.request, h.ts)
  IN /\ Finish(c, "complete")
     /\ IF start = None
        THEN Bump(c, h.config, {"expired"}) /\ joined' = None /\ UNCHANGED <<starts, ring>>
        ELSE /\ RemoveStart(p)
             /\ IF start.issue_ts = 0 \/ h.ts < start.issue_ts
                THEN Bump(c, h.config, {"expired"}) /\ joined' = None /\ UNCHANGED ring
                ELSE /\ Submit(events)
                     /\ Bump(c, h.config, {"observed"} \cup Dropped(events) \cup
                                {IF detail THEN "detail_emitted" ELSE "suppressed_fast"})
                     /\ joined' = [request |-> h.request, insert |-> start.insert,
                                   issue |-> start.issue, owner |-> start.owner,
                                   error |-> h.error]

-----------------------------------------------------------------------------
(* The collector *)

\* FilterMaps::apply ends by setting FILTER_ACTIVE.
Activate ==
  /\ active < MaxGeneration
  /\ active' = active + 1
  /\ joined' = None
  /\ UNCHANGED <<layer, clock, raw, starts, aggregates, ring, handler, total>>

\* ring.next()
Drain ==
  /\ ring # <<>>
  /\ ring' = Tail(ring)
  /\ joined' = None
  /\ UNCHANGED <<layer, clock, active, raw, starts, aggregates, handler, total>>

-----------------------------------------------------------------------------
Init ==
  /\ life = [r \in Requests |-> "idle"]
  /\ todo = Size
  /\ failed = [r \in Requests |-> FALSE]
  /\ attempts = [r \in Requests |-> 0]
  /\ merged = 0 /\ missed = 0 /\ refused = 0 /\ clock = 0
  /\ active = 0
  /\ raw = [p \in Ptrs |-> None]
  /\ starts = [p \in Ptrs |-> None]
  /\ aggregates = [k \in Cpus |-> [generation |-> 0, count |-> Zero]]
  /\ ring = <<>>
  /\ handler = [c \in Contexts |-> None]
  /\ total = Zero
  /\ joined = None

Fire(c, r) ==
  \/ \E who \in {r, Worker} : FireInsert(c, r, who) \/ FireIssue(c, r, who)
  \/ \E bytes \in 0 .. Size[r], error \in BOOLEAN : FireComplete(c, r, bytes, error)

Process(c) ==
  \/ FinishInsert(c)
  \/ FinishIssue(c)
  \/ \E slow \in BOOLEAN : FinishComplete(c, slow)

Next ==
  \/ \E c \in Contexts : Process(c) \/ \E r \in Requests : Fire(c, r)
  \/ \E r \in Requests : Merge(r)
  \/ Activate
  \/ Drain

Spec == Init /\ [][Next]_vars

-----------------------------------------------------------------------------
(* Properties *)

Exact == Probe # "hash"
Undisturbed == missed = 0 /\ merged = 0 /\ refused = 0

(* With request pointers, a completion is counted and reported with the issue
   of its own request, although pointers are reused, requests are requeued and
   partly completed, both maps fill up, the filter changes between the events,
   and either queued requests are merged away or the kernel skips one program
   run.                                                                     *)
OwnIssue ==
  (Exact /\ (missed = 0 \/ (missed = 1 /\ merged = 0)) /\ joined # None)
    => joined.issue = joined.request

(* With request pointers, and as long as no queued request is merged away, no
   program run is skipped and RAW_COMPLETIONS has room, the insert and the
   issuer that process_block keeps for a request are its own.               *)
OwnInserter ==
  (Exact /\ Undisturbed /\ joined # None)
    => joined.insert \in {None, joined.request} /\ joined.owner \in {Worker, joined.request}

(* Under the same conditions neither map keeps an entry for a request_id that
   no live request has: the maps do not fill up with finished requests.     *)
NoLeak ==
  Undisturbed =>
    \A p \in Ptrs : (\A r \in Requests : PtrOf[r] = p => ~InFlight(r))
                     => starts[p] = None /\ raw[p] = None

(* The bytes RAW_COMPLETIONS still expects are the bytes the device still owes,
   so CompletionState::advance never reports an ExcessCompletion.           *)
RemainingExact ==
  missed = 0 => \A r \in Requests :
    life[r] = "issued" /\ raw[PtrOf[r]] # None => raw[PtrOf[r]].remaining = todo[r]

(* A raw request is reported as failed exactly when one of the parts completed
   since its latest issue failed.                                           *)
FailureKept ==
  (Probe = "raw" /\ missed = 0 /\ joined # None) => joined.error = failed[joined.request]

Issued == {p \in Ptrs : starts[p] # None /\ starts[p].issue_ts # 0}

(* A passed issue is observed, reported as reused or still in BLOCK_STARTS at
   most once, whatever the keys, the filter and the losses.                 *)
CountersBalance ==
  total["observed"] + total["key_reused"] + Cardinality(Issued) <= total["filter_passed"]

(* process_block joins a completion with the issue, the insert and the     *)
(* issuer of its own request.                                              *)
JoinsAreOwn ==
  /\ OwnIssue
  /\ OwnInserter

(* RAW_COMPLETIONS knows the bytes a request is still owed and whether a   *)
(* part of it failed, and no issue is counted twice.                       *)
AccountsAreExact ==
  /\ RemainingExact
  /\ FailureKept
  /\ CountersBalance
=============================================================================
