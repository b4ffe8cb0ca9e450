--------------------------- MODULE BlockProbeProofs ---------------------------
(***************************************************************************)
(* Types, sizes and counters of BlockProbe, for every set of requests,     *)
(* pointers, CPUs and interrupt levels, every configuration and every map  *)
(* size; and which request an entry of BLOCK_STARTS and RAW_COMPLETIONS    *)
(* belongs to.                                                             *)
(***************************************************************************)
EXTENDS BlockProbe, FiniteSetTheorems, SequenceTheorems, TLAPS

\* A start names a request exactly where it has a timestamp.
StartsOK ==
  \A p \in Ptrs : starts[p] # None =>
    /\ starts[p].insert = None <=> starts[p].insert_ts = 0
    /\ starts[p].issue = None <=> starts[p].issue_ts = 0

\* bpf_ktime_get_ns is never 0 in a handler.
StampsOK == \A c \in Contexts : handler[c] # None => handler[c].ts # 0

TypeInv == TypeOK /\ StartsOK /\ StampsOK

(* The counters of one program run keep their types. *)
LEMMA AddTypes ==
  ASSUME NEW count \in [Counters -> Nat], NEW names
  PROVE  Add(count, names) \in [Counters -> Nat]
BY DEF Add

(* Counting events for a generation keeps the per-CPU aggregates and the totals typed. *)
LEMMA BumpTypes ==
  ASSUME Types, NEW c \in Contexts, NEW g \in Generations, NEW names, Bump(c, g, names)
  PROVE  aggregates' \in [Cpus -> Aggregate] /\ total' \in [Counters -> Nat]
<1>1. total' \in [Counters -> Nat]
  BY Zenon, AddTypes DEF Types, Bump
<1>2. Zero \in [Counters -> Nat]
  BY Zenon DEF Zero
<1>3. \A a \in Aggregate : AggregateMut(a, g, names) \in Aggregate
  BY Zenon, <1>2, AddTypes DEF AggregateMut, Aggregate
<1>4. aggregates' \in [Cpus -> Aggregate]
  <2>1. aggregates \in [Cpus -> Aggregate] /\ CpuOf[c] \in Cpus
    BY Zenon, ConstantsAssumption DEF Types
  <2> QED BY Zenon, <1>3, <2>1 DEF Bump
<1> QED BY Zenon, <1>1, <1>4

(* Records that do not fit are cut off: the ring never exceeds its size. *)
LEMMA SubmitTypes ==
  ASSUME ring \in Seq(Event), Len(ring) <= RingCapacity, NEW events \in Seq(Event), Submit(events)
  PROVE  ring' \in Seq(Event) /\ Len(ring') <= RingCapacity
<1> DEFINE n == IF Fits(events) THEN Len(events) ELSE RingCapacity - Len(ring)
<1>1. Len(ring) \in Nat /\ Len(events) \in Nat /\ RingCapacity \in Nat
  BY Zenon, ConstantsAssumption, LenProperties
<1>2. n \in 0 .. Len(events) /\ Len(ring) + n <= RingCapacity
  BY <1>1 DEF Fits
<1>3. SubSeq(events, 1, n) \in Seq(Event) /\ Len(SubSeq(events, 1, n)) = n
  <2> HIDE DEF n
  <2> QED BY <1>1, <1>2, SubSeqProperties
<1>4. ring' = ring \o SubSeq(events, 1, n)
  BY Zenon DEF Submit
<1> HIDE DEF n
<1> QED BY Zenon, <1>1, <1>2, <1>3, <1>4, ConcatProperties

(* A map with room for a key still respects its size once the key is set. *)
LEMMA RoomKept ==
  ASSUME NEW capacity \in Nat, NEW V, NEW map \in [Ptrs -> V], NEW p \in Ptrs, NEW v,
         Cardinality(Used(map)) <= capacity, v = None \/ HasRoom(map, p, capacity)
  PROVE  Cardinality(Used([map EXCEPT ![p] = v])) <= capacity
<1> DEFINE new == [map EXCEPT ![p] = v]
<1> SUFFICES Cardinality(Used(new)) <= capacity
  BY Zenon
<1>1. IsFiniteSet(Ptrs) /\ IsFiniteSet(Used(map)) /\ IsFiniteSet(Used(new))
  <2>1. Used(map) \subseteq Ptrs /\ Used(new) \subseteq Ptrs
    BY Zenon DEF Used
  <2> HIDE DEF new
  <2> QED BY Zenon, <2>1, FS_Subset, ConstantsAssumption
<1>2. Cardinality(Used(map)) \in Nat /\ Cardinality(Used(new)) \in Nat
  <2> HIDE DEF new
  <2> QED BY Zenon, <1>1, FS_CardinalityType
<1>3. CASE v = None \/ map[p] # None
  <2>1. Used(new) \subseteq Used(map)
    BY Zenon, <1>3 DEF Used
  <2>2. Cardinality(Used(new)) <= Cardinality(Used(map))
    <3> HIDE DEF new
    <3> QED BY Zenon, <1>1, <2>1, FS_Subset
  <2> HIDE DEF new
  <2> QED BY <1>2, <2>2
<1>4. CASE v # None /\ map[p] = None
  <2>1. Used(new) = Used(map) \cup {p} /\ p \notin Used(map)
    BY Zenon, <1>4 DEF Used
  <2>2. Cardinality(Used(new)) = Cardinality(Used(map)) + 1
    <3> HIDE DEF new
    <3> QED BY Zenon, <1>1, <2>1, FS_AddElement
  <2>3. Cardinality(Used(map)) < capacity
    BY Zenon, <1>4 DEF HasRoom
  <2> HIDE DEF new
  <2> QED BY <1>2, <2>2, <2>3
<1> QED BY Zenon, <1>3, <1>4

(* What a program run and a start consist of. *)
LEMMA RunType ==
  ASSUME Types, NEW c \in Contexts, handler[c] # None
  PROVE  /\ handler[c] \in Run
         /\ handler[c].request \in Requests /\ PtrOf[handler[c].request] \in Ptrs
         /\ handler[c].owner \in Owners /\ handler[c].ts \in Nat
         /\ handler[c].config \in Generations /\ handler[c].error \in BOOLEAN
         /\ handler[c].kind \in Kinds
<1>1. handler[c] \in Run
  BY Zenon DEF Types
<1> QED BY Zenon, <1>1, ConstantsAssumption DEF Run

(* The fields of an entry of BLOCK_STARTS have their types. *)
LEMMA StartType ==
  ASSUME Types, NEW p \in Ptrs, starts[p] # None
  PROVE  /\ starts[p] \in BlockStart
         /\ starts[p].insert \in Requests \cup {None} /\ starts[p].insert_ts \in Nat
         /\ starts[p].issue \in Requests \cup {None} /\ starts[p].issue_ts \in Nat
         /\ starts[p].owner \in Owners
<1>1. starts[p] \in BlockStart
  BY Zenon DEF Types
<1> QED BY Zenon, <1>1 DEF BlockStart

(* The fields of an entry of RAW_COMPLETIONS have their types. *)
LEMMA RawType ==
  ASSUME Types, NEW p \in Ptrs, raw[p] # None
  PROVE  raw[p] \in CompletionState /\ raw[p].remaining \in Nat /\ raw[p].error \in BOOLEAN
<1>1. raw[p] \in CompletionState
  BY Zenon DEF Types
<1> QED BY Zenon, <1>1 DEF CompletionState

(* A started program run is well typed and has a nonzero timestamp. *)
LEMMA StartKeeps ==
  ASSUME TypeInv, NEW c \in Contexts, NEW kind \in Kinds, NEW r \in Requests,
         NEW owner \in Owners, NEW error \in BOOLEAN, Start(c, kind, r, owner, error)
  PROVE  handler' \in [Contexts -> Run \cup {None}] /\ clock' \in Nat /\ StampsOK'
<1> DEFINE h == [kind |-> kind, request |-> r, owner |-> owner, ts |-> clock + 1,
                 error |-> error, config |-> active]
<1>1. clock \in Nat /\ active \in Generations /\ handler \in [Contexts -> Run \cup {None}]
  BY Zenon DEF TypeInv, TypeOK, Types
<1>2. h \in Run /\ h.ts # 0
  BY <1>1 DEF Run
<1>3. handler' = [handler EXCEPT ![c] = h] /\ clock' = clock + 1
  BY Zenon DEF Start
<1> HIDE DEF h
<1>4. StampsOK'
  BY Zenon, <1>1, <1>2, <1>3 DEF TypeInv, StampsOK
<1> QED BY <1>1, <1>2, <1>3, <1>4

(* A tracepoint whose program does not run leaves the runs and the clock well typed. *)
LEMMA SkipKeeps ==
  ASSUME TypeInv, Skip
  PROVE  handler' \in [Contexts -> Run \cup {None}] /\ clock' \in Nat /\ StampsOK'
BY Zenon DEF TypeInv, TypeOK, Types, Skip, StampsOK

(* Each firing of a probe preserves types, sizes and stamps. *)
LEMMA FireInsertTypes ==
  ASSUME TypeInv, NEW c \in Contexts, NEW r \in Requests, NEW who \in {r, Worker},
         FireInsert(c, r, who)
  PROVE  TypeInv'
<1>1. who \in Owners /\ "insert" \in Kinds
  BY Zenon DEF Owners, Kinds
<1>2. handler' \in [Contexts -> Run \cup {None}] /\ clock' \in Nat /\ StampsOK'
  BY Zenon, <1>1, StartKeeps, SkipKeeps DEF FireInsert
<1>3. /\ life' \in [Requests -> {"idle", "queued", "issued", "done"}]
      /\ attempts' \in [Requests -> Nat] /\ missed' \in Nat
  <2>1. /\ life \in [Requests -> {"idle", "queued", "issued", "done"}]
        /\ attempts \in [Requests -> Nat] /\ missed \in Nat
    BY Zenon DEF TypeInv, TypeOK, Types
  <2>2. /\ life' = [life EXCEPT ![r] = "queued"] /\ attempts' = [attempts EXCEPT ![r] = @ + 1]
        /\ missed' \in {missed, missed + 1}
    BY Zenon DEF FireInsert
  <2> QED BY <2>1, <2>2
<1>4. StartsOK' /\ Used(raw)' = Used(raw) /\ Used(starts)' = Used(starts)
  BY Zenon DEF TypeInv, StartsOK, Used, FireInsert
<1> QED BY Zenon, <1>2, <1>3, <1>4 DEF TypeInv, TypeOK, Types, FireInsert

(* The submitter that process_block takes for an issue is a thread. *)
LEMMA IssueOwnerType ==
  ASSUME Types, NEW r \in Requests, NEW who \in Owners
  PROVE  IssueOwner(r, who) \in Owners
BY Zenon, StartType, ConstantsAssumption DEF IssueOwner

(* The issue tracepoint preserves types, sizes and stamps. *)
LEMMA FireIssueTypes ==
  ASSUME TypeInv, NEW c \in Contexts, NEW r \in Requests, NEW who \in {r, Worker},
         FireIssue(c, r, who)
  PROVE  TypeInv'
<1> DEFINE p == PtrOf[r]
<1>1. who \in Owners /\ "issue" \in Kinds /\ IssueOwner(r, who) \in Owners /\ p \in Ptrs
  BY Zenon, IssueOwnerType, ConstantsAssumption DEF Owners, Kinds, TypeInv, TypeOK
<1>2. handler' \in [Contexts -> Run \cup {None}] /\ clock' \in Nat /\ StampsOK'
  BY Zenon, <1>1, StartKeeps, SkipKeeps DEF FireIssue
<1>3. /\ life' \in [Requests -> {"idle", "queued", "issued", "done"}]
      /\ attempts' \in [Requests -> Nat] /\ missed' \in Nat /\ refused' \in Nat
      /\ failed' \in [Requests -> BOOLEAN]
  <2>1. /\ life \in [Requests -> {"idle", "queued", "issued", "done"}]
        /\ attempts \in [Requests -> Nat] /\ missed \in Nat /\ refused \in Nat
        /\ failed \in [Requests -> BOOLEAN]
    BY Zenon DEF TypeInv, TypeOK, Types
  <2>2. /\ life' = [life EXCEPT ![r] = "issued"] /\ attempts' = [attempts EXCEPT ![r] = @ + 1]
        /\ missed' \in {missed, missed + 1} /\ refused' \in {refused, refused + 1}
        /\ failed' = [failed EXCEPT ![r] = FALSE]
    BY Zenon DEF FireIssue
  <2> QED BY <2>1, <2>2
<1>4. StartsOK' /\ Used(starts)' = Used(starts)
  BY Zenon DEF TypeInv, StartsOK, Used, FireIssue
<1>5. /\ raw' \in [Ptrs -> CompletionState \cup {None}]
      /\ Cardinality(Used(raw)') <= RawCapacity
  <2>1. /\ raw \in [Ptrs -> CompletionState \cup {None}] /\ todo[r] \in Nat
        /\ Cardinality(Used(raw)) <= RawCapacity /\ RawCapacity \in Nat
    BY Zenon, ConstantsAssumption DEF TypeInv, TypeOK, Types
  <2>2. NewState(todo[r]) \in CompletionState
    BY Zenon, <2>1 DEF NewState, CompletionState
  <2>3. CASE raw' = raw
    BY Zenon, <2>1, <2>3 DEF Used
  <2>4. CASE raw' = [raw EXCEPT ![p] = NewState(todo[r])] /\ HasRoom(raw, p, RawCapacity)
    <3>1. Cardinality(Used([raw EXCEPT ![p] = NewState(todo[r])])) <= RawCapacity
      BY Zenon, <1>1, <2>1, <2>4, RoomKept
    <3>2. Used(raw)' = Used([raw EXCEPT ![p] = NewState(todo[r])])
      BY Zenon, <2>4 DEF Used
    <3> QED BY Zenon, <2>1, <2>2, <2>4, <3>1, <3>2
  <2> QED BY Zenon, <2>3, <2>4 DEF FireIssue
<1> QED BY Zenon, <1>2, <1>3, <1>4, <1>5 DEF TypeInv, TypeOK, Types, FireIssue

(* The completion tracepoint preserves types, sizes and stamps. *)
LEMMA FireCompleteTypes ==
  ASSUME TypeInv, NEW c \in Contexts, NEW r \in Requests, NEW bytes \in 0 .. Size[r],
         NEW error \in BOOLEAN, FireComplete(c, r, bytes, error)
  PROVE  TypeInv'
<1> DEFINE p == PtrOf[r]
           t == Advance(raw[p], bytes, error)
<1>1. Worker \in Owners /\ "complete" \in Kinds /\ p \in Ptrs /\ bytes \in Nat
  BY ConstantsAssumption DEF Owners, Kinds
<1>2. raw[p] # None /\ bytes <= raw[p].remaining => t \in CompletionState /\ t.error \in BOOLEAN
  BY <1>1, RawType DEF Advance, CompletionState, TypeInv, TypeOK
<1>3. handler' \in [Contexts -> Run \cup {None}] /\ clock' \in Nat /\ StampsOK'
  <2>1. CASE Start(c, "complete", r, Worker, error)
    BY Zenon, <1>1, <2>1, StartKeeps
  <2>2. CASE Start(c, "complete", r, Worker, t.error) /\ raw[p] # None /\ bytes <= raw[p].remaining
    BY Zenon, <1>1, <1>2, <2>2, StartKeeps
  <2>3. CASE Skip
    BY Zenon, <2>3, SkipKeeps
  <2>4. raw[p] # None => raw[p].remaining \in Nat
    BY Zenon, <1>1, RawType DEF TypeInv, TypeOK
  <2> HIDE DEF t
  <2> QED BY <1>1, <2>1, <2>2, <2>3, <2>4 DEF FireComplete, RawComplete, t
<1>4. /\ life' \in [Requests -> {"idle", "queued", "issued", "done"}]
      /\ todo' \in [Requests -> Nat] /\ failed' \in [Requests -> BOOLEAN] /\ missed' \in Nat
  <2>1. todo[r] \in Nat /\ todo[r] - bytes \in Nat
    BY <1>1 DEF TypeInv, TypeOK, Types, FireComplete
  <2> QED BY <2>1 DEF TypeInv, TypeOK, Types, FireComplete
<1>5. StartsOK' /\ Used(starts)' = Used(starts)
  BY Zenon DEF TypeInv, StartsOK, Used, FireComplete
<1>6. /\ raw' \in [Ptrs -> CompletionState \cup {None}]
      /\ Cardinality(Used(raw)') <= RawCapacity
  <2>1. /\ raw \in [Ptrs -> CompletionState \cup {None}]
        /\ Cardinality(Used(raw)) <= RawCapacity /\ RawCapacity \in Nat
    BY Zenon, ConstantsAssumption DEF TypeInv, TypeOK, Types
  <2>2. PICK v \in CompletionState \cup {None} :
          raw' = raw \/ (raw' = [raw EXCEPT ![p] = v] /\ (v = None \/ HasRoom(raw, p, RawCapacity)))
    <3>1. raw[p] # None => raw[p].remaining \in Nat
      BY Zenon, <1>1, RawType DEF TypeInv, TypeOK
    <3> HIDE DEF t
    <3> QED BY <1>1, <1>2, <3>1 DEF FireComplete, RawComplete, StorePart, HasRoom, t
  <2>3. Cardinality(Used([raw EXCEPT ![p] = v])) <= RawCapacity \/ raw' = raw
    BY Zenon, <1>1, <2>1, <2>2, RoomKept
  <2>4. Used(raw)' = IF raw' = raw THEN Used(raw) ELSE Used([raw EXCEPT ![p] = v])
    BY Zenon, <2>2 DEF Used
  <2> QED BY Zenon, <2>1, <2>2, <2>3, <2>4
<1> QED BY Zenon, <1>3, <1>4, <1>5, <1>6 DEF TypeInv, TypeOK, Types, FireComplete

(* The end of a program run removes it and nothing else of the handlers. *)
LEMMA FinishKeeps ==
  ASSUME TypeInv, NEW c \in Contexts, NEW kind, Finish(c, kind)
  PROVE  handler' \in [Contexts -> Run \cup {None}] /\ StampsOK' /\ Used(raw)' = Used(raw)
BY Zenon DEF TypeInv, TypeOK, Types, StampsOK, Finish, Used

(* Storing a well-formed start where there is room, or removing one. *)
LEMMA StartsKeeps ==
  ASSUME TypeInv, NEW p \in Ptrs, NEW v \in BlockStart \cup {None},
         v = None \/ HasRoom(starts, p, StartsCapacity),
         v # None => /\ v.insert = None <=> v.insert_ts = 0
                     /\ v.issue = None <=> v.issue_ts = 0,
         starts' = [starts EXCEPT ![p] = v]
  PROVE  /\ starts' \in [Ptrs -> BlockStart \cup {None}]
         /\ Cardinality(Used(starts)') <= StartsCapacity /\ StartsOK'
<1>1. /\ starts \in [Ptrs -> BlockStart \cup {None}] /\ StartsCapacity \in Nat
      /\ Cardinality(Used(starts)) <= StartsCapacity
  BY Zenon, ConstantsAssumption DEF TypeInv, TypeOK, Types
<1>2. Cardinality(Used([starts EXCEPT ![p] = v])) <= StartsCapacity
  BY Zenon, <1>1, RoomKept
<1>3. Used(starts)' = Used([starts EXCEPT ![p] = v])
  BY Zenon DEF Used
<1>4. StartsOK'
  BY Zenon, <1>1 DEF StartsOK, TypeInv
<1> QED BY Zenon, <1>1, <1>2, <1>3, <1>4

(* A step that leaves BLOCK_STARTS alone keeps its type, its size and its entries. *)
LEMMA UnchangedStarts ==
  ASSUME TypeInv, starts' = starts
  PROVE  /\ starts' \in [Ptrs -> BlockStart \cup {None}]
         /\ Cardinality(Used(starts)') <= StartsCapacity /\ StartsOK'
BY Zenon DEF TypeInv, TypeOK, Types, Used, StartsOK

(* A step that leaves the ring alone keeps its type and its size. *)
LEMMA UnchangedRing ==
  ASSUME TypeInv, ring' = ring
  PROVE  ring' \in Seq(Event) /\ Len(ring') <= RingCapacity
BY Zenon DEF TypeInv, TypeOK, Types

(* What each Finish action has to preserve, given the parts above. *)
LEMMA FinishTypes ==
  ASSUME TypeInv, NEW c \in Contexts, NEW kind, Finish(c, kind),
         starts' \in [Ptrs -> BlockStart \cup {None}],
         Cardinality(Used(starts)') <= StartsCapacity, StartsOK',
         ring' \in Seq(Event), Len(ring') <= RingCapacity,
         aggregates' \in [Cpus -> Aggregate], total' \in [Counters -> Nat],
         joined' \in Joined \cup {None}
  PROVE  TypeInv'
<1>1. handler' \in [Contexts -> Run \cup {None}] /\ StampsOK' /\ Used(raw)' = Used(raw)
  BY Zenon, FinishKeeps
<1>2. UNCHANGED <<life, todo, failed, attempts, merged, missed, refused, clock, active, raw>>
  BY Zenon DEF Finish, layer
<1>3. Types'
  BY Zenon, <1>1, <1>2 DEF TypeInv, TypeOK, Types
<1> QED BY Zenon, <1>1, <1>2, <1>3 DEF TypeInv, TypeOK

(* The insert branch of process_block preserves types, sizes and stamps. *)
LEMMA FinishInsertTypes ==
  ASSUME TypeInv, NEW c \in Contexts, FinishInsert(c)
  PROVE  TypeInv'
<1> DEFINE h == handler[c]
           p == PtrOf[h.request]
           v == [insert |-> h.request, insert_ts |-> h.ts, issue |-> None, issue_ts |-> 0,
                 owner |-> h.owner]
           e == [kind |-> "insert", request |-> h.request, ts |-> h.ts]
<1>1. Finish(c, "insert") /\ h # None /\ joined' = None
  BY Zenon DEF FinishInsert, Finish
<1>2. /\ h \in Run /\ h.request \in Requests /\ p \in Ptrs /\ h.ts \in Nat /\ h.ts # 0
      /\ h.config \in Generations /\ h.owner \in Owners
  BY Zenon, <1>1, RunType DEF TypeInv, TypeOK, StampsOK
<1>3. v \in BlockStart /\ v.insert # None /\ v.insert_ts # 0 /\ v.issue = None /\ v.issue_ts = 0
  BY Zenon, <1>2, NoneAssumption DEF BlockStart
<1>4. e \in Event
  BY Zenon, <1>2 DEF Event, Kinds
<1>5. \E names : Bump(c, h.config, names)
  BY Zenon DEF FinishInsert
<1>6. aggregates' \in [Cpus -> Aggregate] /\ total' \in [Counters -> Nat]
  BY Zenon, <1>2, <1>5, BumpTypes DEF TypeInv, TypeOK
<1>7. \/ starts' = starts
      \/ starts' = [starts EXCEPT ![p] = v] /\ HasRoom(starts, p, StartsCapacity)
  BY Zenon DEF FinishInsert
<1>8. ring' = ring \/ Submit(<<e>>) \/ Submit(<<>>)
  BY Zenon DEF FinishInsert
<1> HIDE DEF h, p, v, e
<1>9. /\ starts' \in [Ptrs -> BlockStart \cup {None}]
      /\ Cardinality(Used(starts)') <= StartsCapacity /\ StartsOK'
  BY Zenon, <1>2, <1>3, <1>7, StartsKeeps, UnchangedStarts
<1>10. ring' \in Seq(Event) /\ Len(ring') <= RingCapacity
  <2>1. <<e>> \in Seq(Event) /\ <<>> \in Seq(Event)
    BY <1>4
  <2>2. ring \in Seq(Event) /\ Len(ring) <= RingCapacity
    BY Zenon DEF TypeInv, TypeOK, Types
  <2> QED BY Zenon, <1>8, <2>1, <2>2, SubmitTypes, UnchangedRing
<1> QED BY Zenon, <1>1, <1>6, <1>9, <1>10, FinishTypes

(* The issue branch of process_block preserves types, sizes and stamps. *)
LEMMA FinishIssueTypes ==
  ASSUME TypeInv, NEW c \in Contexts, FinishIssue(c)
  PROVE  TypeInv'
<1> DEFINE h == handler[c]
           p == PtrOf[h.request]
           prior == starts[p]
           v == [insert |-> IF prior = None THEN None ELSE prior.insert,
                 insert_ts |-> IF prior = None THEN 0 ELSE prior.insert_ts,
                 issue |-> h.request, issue_ts |-> h.ts, owner |-> h.owner]
           e == [kind |-> "issue", request |-> h.request, ts |-> h.ts]
<1>1. Finish(c, "issue") /\ h # None /\ joined' = None
  BY Zenon DEF FinishIssue, Finish
<1>2. /\ h \in Run /\ h.request \in Requests /\ p \in Ptrs /\ h.ts \in Nat /\ h.ts # 0
      /\ h.config \in Generations /\ h.owner \in Owners
  BY Zenon, <1>1, RunType DEF TypeInv, TypeOK, StampsOK
<1>3. v \in BlockStart /\ v # None => (v.insert = None <=> v.insert_ts = 0)
                                    /\ v.issue # None /\ v.issue_ts # 0
  <2>1. prior # None => /\ prior.insert \in Requests \cup {None} /\ prior.insert_ts \in Nat
                        /\ prior.insert = None <=> prior.insert_ts = 0
    BY Zenon, <1>2, StartType DEF TypeInv, TypeOK, StartsOK
  <2> HIDE DEF h, p, prior
  <2> QED BY Zenon, <1>2, <2>1, NoneAssumption
<1>4. v \in BlockStart
  <2>1. prior # None => prior.insert \in Requests \cup {None} /\ prior.insert_ts \in Nat
    BY Zenon, <1>2, StartType DEF TypeInv, TypeOK
  <2> HIDE DEF h, p, prior
  <2> QED BY Zenon, <1>2, <2>1 DEF BlockStart
<1>5. e \in Event
  BY Zenon, <1>2 DEF Event, Kinds
<1>6. \E names : Bump(c, h.config, names)
  BY Zenon DEF FinishIssue
<1>7. aggregates' \in [Cpus -> Aggregate] /\ total' \in [Counters -> Nat]
  BY Zenon, <1>2, <1>6, BumpTypes DEF TypeInv, TypeOK
<1>8. \/ starts' = starts
      \/ starts' = [starts EXCEPT ![p] = None]
      \/ starts' = [starts EXCEPT ![p] = v] /\ HasRoom(starts, p, StartsCapacity)
  BY Zenon DEF FinishIssue, RemoveStart, StoreIssue
<1>9. ring' = ring \/ Submit(<<e>>) \/ Submit(<<>>)
  BY Zenon DEF FinishIssue
<1> HIDE DEF h, p, v, e, prior
<1>10. /\ starts' \in [Ptrs -> BlockStart \cup {None}]
       /\ Cardinality(Used(starts)') <= StartsCapacity /\ StartsOK'
  BY Zenon, <1>2, <1>3, <1>4, <1>8, StartsKeeps, UnchangedStarts
<1>11. ring' \in Seq(Event) /\ Len(ring') <= RingCapacity
  <2>1. <<e>> \in Seq(Event) /\ <<>> \in Seq(Event)
    BY <1>5
  <2>2. ring \in Seq(Event) /\ Len(ring) <= RingCapacity
    BY Zenon DEF TypeInv, TypeOK, Types
  <2> QED BY Zenon, <1>9, <2>1, <2>2, SubmitTypes, UnchangedRing
<1> QED BY Zenon, <1>1, <1>7, <1>10, <1>11, FinishTypes

(* The records of a completed request are well typed. *)
LEMMA DetailsTypes ==
  ASSUME TypeInv, NEW mode, NEW detail \in BOOLEAN, NEW p \in Ptrs, starts[p] # None,
         starts[p].issue_ts # 0, NEW r \in Requests, NEW ts \in Nat
  PROVE  Details(mode, detail, starts[p], r, ts) \in Seq(Event)
<1> DEFINE start == starts[p]
           complete == [kind |-> "complete", request |-> r, ts |-> ts]
           issue == [kind |-> "issue", request |-> start.issue, ts |-> start.issue_ts]
           insert == [kind |-> "insert", request |-> start.insert, ts |-> start.insert_ts]
<1>1. /\ start.issue \in Requests /\ start.issue_ts \in Nat /\ start.insert_ts \in Nat
      /\ start.insert_ts # 0 => start.insert \in Requests
  BY Zenon, StartType DEF TypeInv, TypeOK, StartsOK
<1>2. /\ complete \in Event /\ issue \in Event
      /\ start.insert_ts # 0 => insert \in Event
  <2> HIDE DEF start
  <2> QED BY Zenon, <1>1 DEF Event, Kinds
<1>3. Details(mode, detail, start, r, ts) =
        CASE ~detail -> <<>>
          [] mode = "balanced" -> (IF start.insert_ts = 0 THEN <<>> ELSE <<insert>>)
                                  \o <<issue>> \o <<complete>>
          [] OTHER -> <<complete>>
  BY Zenon DEF Details
<1> HIDE DEF start, complete, issue, insert
<1>4. /\ <<complete>> \in Seq(Event) /\ <<issue>> \in Seq(Event) /\ <<>> \in Seq(Event)
      /\ (IF start.insert_ts = 0 THEN <<>> ELSE <<insert>>) \in Seq(Event)
  <2>1. <<complete>> \in Seq(Event) /\ <<issue>> \in Seq(Event) /\ <<>> \in Seq(Event)
    BY <1>2
  <2>2. start.insert_ts # 0 => <<insert>> \in Seq(Event)
    BY <1>2
  <2> QED BY Zenon, <2>1, <2>2
<1>5. (IF start.insert_ts = 0 THEN <<>> ELSE <<insert>>) \o <<issue>> \o <<complete>> \in Seq(Event)
  BY Zenon, <1>4, ConcatProperties
<1>6. Details(mode, detail, start, r, ts) \in Seq(Event)
  BY Zenon, <1>3, <1>4, <1>5
<1> QED BY Zenon, <1>6 DEF start

(* The completion branch of process_block preserves types, sizes and stamps. *)
LEMMA FinishCompleteTypes ==
  ASSUME TypeInv, NEW c \in Contexts, NEW slow \in BOOLEAN, FinishComplete(c, slow)
  PROVE  TypeInv'
<1> DEFINE h == handler[c]
           p == PtrOf[h.request]
           start == starts[p]
           config == ConfigAt(h.config)
           detail == CASE config.mode = "basic" -> FALSE
                       [] config.mode = "balanced" -> slow \/ (config.include_errors /\ h.error)
                       [] OTHER -> TRUE
           events == Details(config.mode, detail, start, h.request, h.ts)
           j == [request |-> h.request, insert |-> start.insert, issue |-> start.issue,
                 owner |-> start.owner, error |-> h.error]
<1>1. Finish(c, "complete") /\ h # None
  BY Zenon DEF FinishComplete, Finish
<1>2. /\ h \in Run /\ h.request \in Requests /\ p \in Ptrs /\ h.ts \in Nat /\ h.ts # 0
      /\ h.config \in Generations /\ h.error \in BOOLEAN
  BY Zenon, <1>1, RunType DEF TypeInv, TypeOK, StampsOK
<1>3. \E names : Bump(c, h.config, names)
  BY Zenon DEF FinishComplete
<1>4. aggregates' \in [Cpus -> Aggregate] /\ total' \in [Counters -> Nat]
  BY Zenon, <1>2, <1>3, BumpTypes DEF TypeInv, TypeOK
<1>5. /\ starts' = starts \/ starts' = [starts EXCEPT ![p] = None]
      /\ \/ ring' = ring /\ joined' = None
         \/ start # None /\ start.issue_ts # 0 /\ Submit(events) /\ joined' = j
  <2> HIDE DEF detail
  <2> QED BY Zenon DEF FinishComplete, RemoveStart, detail
<1>6. detail \in BOOLEAN
  BY Zenon
<1>7. start # None /\ start.issue_ts # 0 => events \in Seq(Event)
  <2> HIDE DEF detail, config
  <2> QED BY Zenon, <1>2, <1>6, DetailsTypes
<1>8. start # None => j \in Joined
  <2>1. start # None => start.insert \in Requests \cup {None} /\ start.owner \in Owners
                        /\ start.issue \in Requests \cup {None}
    BY Zenon, <1>2, StartType DEF TypeInv, TypeOK
  <2> HIDE DEF h, start
  <2> QED BY Zenon, <1>2, <2>1 DEF Joined
<1> HIDE DEF h, p, start, config, detail, events, j
<1>9. /\ starts' \in [Ptrs -> BlockStart \cup {None}]
      /\ Cardinality(Used(starts)') <= StartsCapacity /\ StartsOK'
  BY Zenon, <1>2, <1>5, StartsKeeps, UnchangedStarts
<1>10. ring' \in Seq(Event) /\ Len(ring') <= RingCapacity
  <2>1. ring \in Seq(Event) /\ Len(ring) <= RingCapacity
    BY Zenon DEF TypeInv, TypeOK, Types
  <2> QED BY Zenon, <1>5, <1>7, <2>1, SubmitTypes, UnchangedRing
<1>11. joined' \in Joined \cup {None}
  BY Zenon, <1>5, <1>8
<1> QED BY Zenon, <1>1, <1>4, <1>9, <1>10, <1>11, FinishTypes

(* The remaining steps. *)
LEMMA OtherTypes ==
  ASSUME TypeInv, (\E r \in Requests : Merge(r)) \/ Activate \/ Drain
  PROVE  TypeInv'
<1>1. CASE \E r \in Requests : Merge(r)
  <2>1. PICK r \in Requests : Merge(r)
    BY Zenon, <1>1
  <2>2. life' \in [Requests -> {"idle", "queued", "issued", "done"}] /\ merged' \in Nat
    BY <2>1 DEF Merge, TypeInv, TypeOK, Types
  <2> QED BY Zenon, <2>1, <2>2 DEF Merge, TypeInv, TypeOK, Types, StartsOK, StampsOK, Used
<1>2. CASE Activate
  <2>1. active' \in Generations
    BY <1>2, ConstantsAssumption DEF Activate, TypeInv, TypeOK, Types, Generations
  <2> QED BY Zenon, <1>2, <2>1 DEF Activate, layer, TypeInv, TypeOK, Types, StartsOK, StampsOK, Used
<1>3. CASE Drain
  <2>1. ring' \in Seq(Event) /\ Len(ring') <= RingCapacity
    BY <1>3, ConstantsAssumption DEF Drain, TypeInv, TypeOK, Types
  <2> QED BY Zenon, <1>3, <2>1 DEF Drain, layer, TypeInv, TypeOK, Types, StartsOK, StampsOK, Used
<1> QED BY Zenon, <1>1, <1>2, <1>3

(* The maps, the ring and the counters start empty and well typed. *)
LEMMA InitTypes == Init => TypeInv
<1> SUFFICES ASSUME Init PROVE TypeInv
  BY Zenon
<1>1. Used(raw) = {} /\ Used(starts) = {} /\ Cardinality({}) = 0
  BY Zenon, FS_EmptySet DEF Init, Used
<1>2. Zero \in [Counters -> Nat] /\ 0 \in Generations
  BY ConstantsAssumption DEF Zero, Generations
<1>3. Types
  BY <1>2, ConstantsAssumption DEF Init, Types, Aggregate
<1>4. ring = <<>> /\ Len(ring) = 0
  BY Zenon DEF Init
<1>5. TypeOK
  BY <1>1, <1>3, <1>4, ConstantsAssumption DEF TypeOK
<1> QED BY Zenon, <1>5 DEF Init, TypeInv, StartsOK, StampsOK

(* Every step of the probe preserves types, sizes and stamps. *)
LEMMA NextTypes == TypeInv /\ [Next]_vars => TypeInv'
<1> SUFFICES ASSUME TypeInv, [Next]_vars PROVE TypeInv'
  BY Zenon
<1>1. ASSUME NEW c \in Contexts, Process(c) PROVE TypeInv'
  BY Zenon, <1>1, FinishInsertTypes, FinishIssueTypes, FinishCompleteTypes DEF Process
<1>2. ASSUME NEW c \in Contexts, NEW r \in Requests, Fire(c, r) PROVE TypeInv'
  BY Zenon, <1>2, FireInsertTypes, FireIssueTypes, FireCompleteTypes DEF Fire
<1>3. CASE (\E r \in Requests : Merge(r)) \/ Activate \/ Drain
  BY Zenon, <1>3, OtherTypes
<1>4. CASE UNCHANGED vars
  BY Zenon, <1>4 DEF vars, TypeInv, TypeOK, Types, StartsOK, StampsOK, Used
<1> QED BY Zenon, <1>1, <1>2, <1>3, <1>4 DEF Next

(* Every map, counter, handler and ring record keeps its type, and the maps and
   the ring never exceed their size.                                        *)
THEOREM TypeCorrect == Spec => []TypeOK
<1>1. TypeInv => TypeOK
  BY Zenon DEF TypeInv
<1> QED BY <1>1, InitTypes, NextTypes, PTL DEF Spec

(* The types and stamps that the pairing argument builds on. *)
THEOREM TypeInvariant == Spec => []TypeInv
BY InitTypes, NextTypes, PTL DEF Spec

-----------------------------------------------------------------------------
(* The counters *)

\* The three counters of the balance are followed.
Followed == {"observed", "key_reused", "filter_passed"} \subseteq Counters

(* The starts that have an issue are finitely many, so they can be counted. *)
LEMMA IssuedFinite == IsFiniteSet(Issued) /\ Cardinality(Issued) \in Nat
<1>1. Issued \subseteq Ptrs
  BY Zenon DEF Issued
<1> QED BY Zenon, <1>1, FS_Subset, FS_CardinalityType, ConstantsAssumption

(* Setting one start moves at most its own key in or out of Issued. *)
LEMMA IssuedChange ==
  ASSUME Types, NEW p \in Ptrs, NEW v, starts' = [starts EXCEPT ![p] = v]
  PROVE  /\ (v = None \/ v.issue_ts = 0) /\ p \in Issued => Cardinality(Issued') = Cardinality(Issued) - 1
         /\ v = None \/ v.issue_ts = 0 => Cardinality(Issued') <= Cardinality(Issued)
         /\ p \in Issued => Cardinality(Issued') <= Cardinality(Issued)
         /\ Cardinality(Issued') <= Cardinality(Issued) + 1
         /\ Cardinality(Issued') \in Nat
<1>1. starts \in [Ptrs -> BlockStart \cup {None}]
  BY Zenon DEF Types
<1>2. /\ Issued' \ {p} = Issued \ {p}
      /\ v = None \/ v.issue_ts = 0 => p \notin Issued'
  BY Zenon, <1>1 DEF Issued
<1>3. /\ IsFiniteSet(Issued) /\ Cardinality(Issued) \in Nat
      /\ IsFiniteSet(Issued') /\ Cardinality(Issued') \in Nat
  <2>1. Issued' \subseteq Ptrs
    BY Zenon DEF Issued
  <2> QED BY Zenon, <2>1, IssuedFinite, FS_Subset, FS_CardinalityType, ConstantsAssumption
<1>4. p \in Issued => Cardinality(Issued \ {p}) = Cardinality(Issued) - 1
  BY Zenon, <1>3, FS_RemoveElement
<1>5. p \in Issued' => Cardinality(Issued' \ {p}) = Cardinality(Issued') - 1
  BY Zenon, <1>3, FS_RemoveElement
<1>6. (p \notin Issued => Issued \ {p} = Issued) /\ (p \notin Issued' => Issued' \ {p} = Issued')
  BY Zenon
<1> DEFINE a == Cardinality(Issued)
           b == Cardinality(Issued')
           m == Cardinality(Issued \ {p})
<1>7. a \in Nat /\ b \in Nat /\ (p \in Issued => m = a - 1) /\ (p \notin Issued => m = a)
      /\ (p \in Issued' => m = b - 1) /\ (p \notin Issued' => m = b)
  BY Zenon, <1>2, <1>3, <1>4, <1>5, <1>6
<1> HIDE DEF a, b, m
<1>8. /\ p \notin Issued' /\ p \in Issued => b = a - 1
      /\ p \notin Issued' \/ p \in Issued => b <= a
      /\ b <= a + 1
  BY <1>7
<1> QED BY Zenon, <1>2, <1>7, <1>8 DEF a, b

(* One step of the balance: what a Finish action adds to the three counters. *)
LEMMA BumpCounts ==
  ASSUME Types, Followed, NEW c \in Contexts, NEW g, NEW names, Bump(c, g, names)
  PROVE  \A n \in {"observed", "key_reused", "filter_passed"} :
           /\ total[n] \in Nat
           /\ total'[n] = IF n \in names THEN total[n] + 1 ELSE total[n]
BY Zenon DEF Types, Followed, Bump, Add

Balance == Followed => CountersBalance

(* A step that touches neither the counters nor BLOCK_STARTS keeps the balance. *)
LEMMA BalanceUnchanged ==
  ASSUME Balance, total' = total, starts' = starts
  PROVE  Balance'
BY Zenon DEF Balance, CountersBalance, Issued

(* The insert branch of process_block keeps the balance of the counters. *)
LEMMA InsertBalance ==
  ASSUME TypeInv, Balance, NEW c \in Contexts, FinishInsert(c)
  PROVE  Balance'
<1> SUFFICES ASSUME Followed PROVE CountersBalance'
  BY Zenon DEF Balance, Followed
<1> DEFINE h == handler[c]
           p == PtrOf[h.request]
           v == [insert |-> h.request, insert_ts |-> h.ts, issue |-> None, issue_ts |-> 0,
                 owner |-> h.owner]
<1>1. h # None /\ p \in Ptrs /\ Types
  BY Zenon, RunType DEF FinishInsert, Finish, TypeInv, TypeOK
<1>2. PICK names : Bump(c, h.config, names) /\
        names \cap {"observed", "key_reused", "filter_passed"} = {}
  <2> DEFINE room == HasRoom(starts, p, StartsCapacity)
             events == IF RecordsAll(ConfigAt(h.config).mode)
                       THEN <<[kind |-> "insert", request |-> h.request, ts |-> h.ts]>> ELSE <<>>
             passed == Dropped(events) \cup (IF room THEN {} ELSE {"map_insert_failures"})
  <2>1. Bump(c, h.config, passed) \/ Bump(c, h.config, {"filter_suppressed"})
    BY Zenon DEF FinishInsert
  <2>2. /\ passed \cap {"observed", "key_reused", "filter_passed"} = {}
        /\ {"filter_suppressed"} \cap {"observed", "key_reused", "filter_passed"} = {}
    <3> HIDE DEF room, events
    <3> QED BY Zenon DEF Dropped
  <2> HIDE DEF passed
  <2> QED BY Zenon, <2>1, <2>2
<1>3. \A n \in {"observed", "key_reused", "filter_passed"} : total[n] \in Nat /\ total'[n] = total[n]
  BY Zenon, <1>1, <1>2, BumpCounts
<1>4. starts' = starts \/ starts' = [starts EXCEPT ![p] = v]
  BY Zenon DEF FinishInsert
<1>5. Cardinality(Issued') <= Cardinality(Issued) /\ Cardinality(Issued') \in Nat
  <2>1. CASE starts' = starts
    BY <2>1, IssuedFinite DEF Issued
  <2>2. CASE starts' = [starts EXCEPT ![p] = v]
    <3>1. v.issue_ts = 0
      BY Zenon
    <3> HIDE DEF h, p, v
    <3> QED BY Zenon, <1>1, <2>2, <3>1, IssuedChange
  <2> QED BY Zenon, <1>4, <2>1, <2>2
<1> QED BY <1>3, <1>5, IssuedFinite DEF Balance, CountersBalance

(* The issue branch of process_block keeps the balance of the counters. *)
LEMMA IssueBalance ==
  ASSUME TypeInv, Balance, NEW c \in Contexts, FinishIssue(c)
  PROVE  Balance'
<1> SUFFICES ASSUME Followed PROVE CountersBalance'
  BY Zenon DEF Balance, Followed
<1> DEFINE h == handler[c]
           p == PtrOf[h.request]
           reused == starts[p] # None /\ starts[p].issue_ts # 0
           C == {"observed", "key_reused", "filter_passed"}
<1>1. h # None /\ p \in Ptrs /\ Types
  BY Zenon, RunType DEF FinishIssue, Finish, TypeInv, TypeOK
<1>2. reused <=> p \in Issued
  BY Zenon, <1>1 DEF Issued
<1>3. \/ /\ starts' = starts \/ starts' = [starts EXCEPT ![p] = None]
         /\ \E names : Bump(c, h.config, names) /\ names \cap C = {}
      \/ /\ \E v : starts' = [starts EXCEPT ![p] = v]
         /\ \E names : /\ Bump(c, h.config, names)
                        /\ names \cap C = {"filter_passed"} \cup (IF reused THEN {"key_reused"} ELSE {})
  <2> DEFINE events == IF RecordsAll(ConfigAt(h.config).mode)
                       THEN <<[kind |-> "issue", request |-> h.request, ts |-> h.ts]>> ELSE <<>>
             passed == {"filter_passed"} \cup Dropped(events) \cup
                       (IF reused THEN {"key_reused"} ELSE {})
  <2>1. \/ /\ starts' = [starts EXCEPT ![p] = None]
           /\ Bump(c, h.config, {"filter_suppressed"})
        \/ /\ starts' = starts
           /\ Bump(c, h.config, {"map_insert_failures"})
        \/ /\ \E v : starts' = [starts EXCEPT ![p] = v]
           /\ Bump(c, h.config, passed)
    BY Zenon DEF FinishIssue, RemoveStart, StoreIssue
  <2>2. /\ {"filter_suppressed"} \cap C = {} /\ {"map_insert_failures"} \cap C = {}
        /\ passed \cap C = {"filter_passed"} \cup (IF reused THEN {"key_reused"} ELSE {})
    <3> HIDE DEF reused, events
    <3> QED BY Zenon DEF Dropped
  <2> HIDE DEF passed, reused, C
  <2> QED BY Zenon, <2>1, <2>2
<1>4. CASE /\ starts' = starts \/ starts' = [starts EXCEPT ![p] = None]
           /\ \E names : Bump(c, h.config, names) /\ names \cap C = {}
  <2>1. \A n \in C : total[n] \in Nat /\ total'[n] = total[n]
    BY Zenon, <1>1, <1>4, BumpCounts
  <2>2. Cardinality(Issued') <= Cardinality(Issued) /\ Cardinality(Issued') \in Nat
    <3>1. CASE starts' = starts
      BY <3>1, IssuedFinite DEF Issued
    <3>2. CASE starts' = [starts EXCEPT ![p] = None]
      BY Zenon, <1>1, <3>2, IssuedChange
    <3> QED BY Zenon, <1>4, <3>1, <3>2
  <2> QED BY <2>1, <2>2, IssuedFinite DEF Balance, CountersBalance
<1>5. CASE /\ \E v : starts' = [starts EXCEPT ![p] = v]
           /\ \E names : /\ Bump(c, h.config, names)
                          /\ names \cap C = {"filter_passed"} \cup (IF reused THEN {"key_reused"} ELSE {})
  <2>1. /\ total["observed"] \in Nat /\ total["key_reused"] \in Nat /\ total["filter_passed"] \in Nat
        /\ total'["observed"] = total["observed"]
        /\ total'["filter_passed"] = total["filter_passed"] + 1
        /\ total'["key_reused"] = IF reused THEN total["key_reused"] + 1 ELSE total["key_reused"]
    <3> HIDE DEF reused
    <3> QED BY <1>1, <1>5, BumpCounts
  <2>2. /\ Cardinality(Issued') \in Nat /\ Cardinality(Issued') <= Cardinality(Issued) + 1
        /\ reused => Cardinality(Issued') <= Cardinality(Issued)
    BY Zenon, <1>1, <1>2, <1>5, IssuedChange
  <2> HIDE DEF reused
  <2> QED BY <2>1, <2>2, IssuedFinite DEF Balance, CountersBalance
<1> QED BY Zenon, <1>3, <1>4, <1>5

(* The completion branch of process_block keeps the balance of the counters. *)
LEMMA CompleteBalance ==
  ASSUME TypeInv, Balance, NEW c \in Contexts, NEW slow \in BOOLEAN, FinishComplete(c, slow)
  PROVE  Balance'
<1> SUFFICES ASSUME Followed PROVE CountersBalance'
  BY Zenon DEF Balance, Followed
<1> DEFINE h == handler[c]
           p == PtrOf[h.request]
           C == {"observed", "key_reused", "filter_passed"}
<1>1. h # None /\ p \in Ptrs /\ Types
  BY Zenon, RunType DEF FinishComplete, Finish, TypeInv, TypeOK
<1>2. \/ /\ starts' = starts \/ starts' = [starts EXCEPT ![p] = None]
         /\ \E names : Bump(c, h.config, names) /\ names \cap C = {}
      \/ /\ starts' = [starts EXCEPT ![p] = None] /\ p \in Issued
         /\ \E names : Bump(c, h.config, names) /\ names \cap C = {"observed"}
  <2> DEFINE seen(detail, events) == {"observed"} \cup Dropped(events) \cup
                                     {IF detail THEN "detail_emitted" ELSE "suppressed_fast"}
  <2>1. \/ /\ starts' = starts \/ starts' = [starts EXCEPT ![p] = None]
           /\ Bump(c, h.config, {"expired"})
        \/ /\ starts' = [starts EXCEPT ![p] = None] /\ p \in Issued
           /\ \E detail, events : Bump(c, h.config, seen(detail, events))
    BY Zenon, <1>1 DEF FinishComplete, RemoveStart, Issued
  <2>2. /\ {"expired"} \cap C = {}
        /\ \A detail, events : seen(detail, events) \cap C = {"observed"}
    BY Zenon DEF Dropped
  <2> HIDE DEF seen, C
  <2> QED BY Zenon, <2>1, <2>2
<1>3. CASE /\ starts' = starts \/ starts' = [starts EXCEPT ![p] = None]
           /\ \E names : Bump(c, h.config, names) /\ names \cap C = {}
  <2>1. \A n \in C : total[n] \in Nat /\ total'[n] = total[n]
    BY Zenon, <1>1, <1>3, BumpCounts
  <2>2. Cardinality(Issued') <= Cardinality(Issued) /\ Cardinality(Issued') \in Nat
    <3>1. CASE starts' = starts
      BY <3>1, IssuedFinite DEF Issued
    <3>2. CASE starts' = [starts EXCEPT ![p] = None]
      BY Zenon, <1>1, <3>2, IssuedChange
    <3> QED BY Zenon, <1>3, <3>1, <3>2
  <2> QED BY <2>1, <2>2, IssuedFinite DEF Balance, CountersBalance
<1>4. CASE /\ starts' = [starts EXCEPT ![p] = None] /\ p \in Issued
           /\ \E names : Bump(c, h.config, names) /\ names \cap C = {"observed"}
  <2>1. /\ total["observed"] \in Nat /\ total["key_reused"] \in Nat /\ total["filter_passed"] \in Nat
        /\ total'["observed"] = total["observed"] + 1
        /\ total'["filter_passed"] = total["filter_passed"]
        /\ total'["key_reused"] = total["key_reused"]
    BY Zenon, <1>1, <1>4, BumpCounts
  <2>2. Cardinality(Issued') \in Nat /\ Cardinality(Issued') = Cardinality(Issued) - 1
    BY Zenon, <1>1, <1>4, IssuedChange
  <2> QED BY <2>1, <2>2, IssuedFinite DEF Balance, CountersBalance
<1> QED BY Zenon, <1>2, <1>3, <1>4

(* Every step of the probe keeps the balance of the counters. *)
LEMMA NextBalance == TypeInv /\ Balance /\ [Next]_vars => Balance'
<1> SUFFICES ASSUME TypeInv, Balance, [Next]_vars PROVE Balance'
  BY Zenon
<1>1. ASSUME NEW c \in Contexts, Process(c) PROVE Balance'
  BY Zenon, <1>1, InsertBalance, IssueBalance, CompleteBalance DEF Process
<1>2. ASSUME NEW c \in Contexts, NEW r \in Requests, Fire(c, r) PROVE Balance'
  <2>1. total' = total /\ starts' = starts
    BY Zenon, <1>2 DEF Fire, FireInsert, FireIssue, FireComplete
  <2> QED BY Zenon, <2>1, BalanceUnchanged
<1>3. CASE (\E r \in Requests : Merge(r)) \/ Activate \/ Drain \/ UNCHANGED vars
  <2>1. total' = total /\ starts' = starts
    BY Zenon, <1>3 DEF Merge, Activate, Drain, vars
  <2> QED BY Zenon, <2>1, BalanceUnchanged
<1> QED BY Zenon, <1>1, <1>2, <1>3 DEF Next

(* Whatever keys live requests share, whatever the filter and the losses, a
   passed issue is observed, reported as reused or still waiting at most once. *)
THEOREM BalanceCorrect == ASSUME Followed PROVE Spec => []CountersBalance
<1>1. Init => Balance
  <2> SUFFICES ASSUME Init, Followed PROVE CountersBalance
    BY Zenon DEF Balance
  <2>1. Issued = {} /\ Cardinality({}) = 0
    BY Zenon, FS_EmptySet DEF Init, Issued
  <2>2. \A n \in {"observed", "key_reused", "filter_passed"} : total[n] = 0
    BY Zenon DEF Init, Zero, Followed
  <2> QED BY <2>1, <2>2 DEF CountersBalance
<1>2. Balance => CountersBalance
  BY Zenon DEF Balance
<1> QED BY <1>1, <1>2, TypeInvariant, NextBalance, PTL DEF Spec

-----------------------------------------------------------------------------
(* Which request an entry of BLOCK_STARTS and RAW_COMPLETIONS belongs to.  *)
(*                                                                         *)
(* A step of request r changes the entries of PtrOf[r] only (Frame).  With *)
(* request pointers no other request with that pointer is in flight, so it *)
(* suffices to look at r and PtrOf[r]; the lemmas below have that shape.   *)

Running(kind, r) ==
  \E c \in Contexts : handler[c] # None /\ handler[c].kind = kind /\ handler[c].request = r

\* A request is in one program run at a time.
OneRun ==
  \A c, d \in Contexts :
    (handler[c] # None /\ handler[d] # None /\ handler[c].request = handler[d].request) => c = d

\* What the block layer and RAW_COMPLETIONS say while a program runs for r.
RunOK(r) ==
  /\ Running("insert", r) => life[r] = "queued"
  /\ Running("issue", r) => life[r] = "issued" /\ (Probe = "raw" => raw[PtrOf[r]] # None)
  /\ Running("complete", r) => /\ life[r] \in {"issued", "done"}
                               /\ Probe = "raw" => raw[PtrOf[r]] = None

\* Only one request with a pointer is in flight.
OneUser ==
  \A q, r \in Requests : (q # r /\ PtrOf[q] = PtrOf[r]) => ~(InFlight(q) /\ InFlight(r))

\* RAW_COMPLETIONS agrees with the device.
RawExact(r) ==
  (life[r] = "issued" /\ raw[PtrOf[r]] # None)
    => raw[PtrOf[r]].remaining = todo[r] /\ raw[PtrOf[r]].error = failed[r]

\* A completion of r that process_block will look up finds no other issue.
OwnStart(r) ==
  (/\ life[r] = "issued" \/ Running("complete", r)
   /\ ~Running("issue", r)
   /\ Probe = "raw" => raw[PtrOf[r]] # None \/ Running("complete", r)
   /\ starts[PtrOf[r]] # None)
    => starts[PtrOf[r]].issue \in {None, r}

\* An issued start belongs to a request in flight whose completion will run.
LiveStart(p) ==
  (starts[p] # None /\ starts[p].issue # None)
    => /\ PtrOf[starts[p].issue] = p /\ InFlight(starts[p].issue)
       /\ Probe = "raw" => raw[p] # None \/ Running("complete", starts[p].issue)

\* An issued request has its raw state.
RawThere(r) == (Probe = "raw" /\ life[r] = "issued") => raw[PtrOf[r]] # None

\* An entry has a request in flight.
Occupied(p) ==
  (starts[p] # None \/ raw[p] # None) => \E r \in Requests : PtrOf[r] = p /\ InFlight(r)

\* The entry of a request in flight is its own.
OwnEntry(r) ==
  (InFlight(r) /\ starts[PtrOf[r]] # None)
    => /\ starts[PtrOf[r]].insert \in {None, r} /\ starts[PtrOf[r]].issue \in {None, r}
       /\ starts[PtrOf[r]].owner \in {Worker, r}

\* A program run has the identity of a worker or of its request.
RunOwner(c) == handler[c] # None => handler[c].owner \in {Worker, handler[c].request}

\* A raw completion carries the errors since the latest issue.
RunError(c) ==
  (handler[c] # None /\ handler[c].kind = "complete") => handler[c].error = failed[handler[c].request]

PairInv ==
  /\ OneRun
  /\ \A r \in Requests : RunOK(r)
  /\ Exact => OneUser
  /\ Probe # "raw" => \A p \in Ptrs : raw[p] = None
  /\ missed = 0 => \A r \in Requests : RawExact(r)
  /\ (Probe = "raw" /\ missed = 0) => \A c \in Contexts : RunError(c)
  /\ (Exact /\ (missed = 0 \/ (missed = 1 /\ merged = 0))) => \A r \in Requests : OwnStart(r)
  /\ (Exact /\ missed = 0 /\ merged = 0) => \A p \in Ptrs : LiveStart(p)
  /\ Undisturbed => (\A r \in Requests : RawThere(r)) /\ (\A p \in Ptrs : Occupied(p))
  /\ (Exact /\ Undisturbed) => /\ \A r \in Requests : OwnEntry(r)
                               /\ \A c \in Contexts : RunOwner(c)

JoinedOK == OwnIssue /\ OwnInserter /\ FailureKept

-----------------------------------------------------------------------------
(* Frames *)

\* A step of r leaves the other requests and pointers alone.
Frame(r) ==
  /\ \A q \in Requests \ {r} :
       /\ life'[q] = life[q] /\ todo'[q] = todo[q] /\ failed'[q] = failed[q]
       /\ Idle(q)' <=> Idle(q)
       /\ \A k \in Kinds : Running(k, q)' <=> Running(k, q)
  /\ \A p \in Ptrs \ {PtrOf[r]} : raw'[p] = raw[p] /\ starts'[p] = starts[p]
  /\ Probe # "raw" => raw' = raw

\* The losses are never taken back.
Mono ==
  /\ missed' = missed \/ (missed' = missed + 1)
  /\ merged' = merged \/ (merged' = merged + 1)
  /\ refused' = refused \/ (refused' = refused + 1)

\* No other request with the pointer of r is in flight.
Alone(r) == Exact => \A q \in Requests \ {r} : PtrOf[q] = PtrOf[r] => ~InFlight(q)

(* Starting a program run for r affects what runs for r only. *)
LEMMA StartRuns ==
  ASSUME Types, NEW c \in Contexts, handler[c] = None, NEW kind \in Kinds, NEW r \in Requests,
         NEW owner \in Owners, NEW error \in BOOLEAN, Start(c, kind, r, owner, error),
         Idle(r), OneRun
  PROVE  /\ \A q \in Requests \ {r} : (Idle(q)' <=> Idle(q))
                                     /\ \A k \in Kinds : Running(k, q)' <=> Running(k, q)
         /\ ~Idle(r)' /\ (\A k \in Kinds : Running(k, r)' <=> k = kind) /\ OneRun'
         /\ handler'[c] # None /\ handler'[c].owner = owner /\ handler'[c].error = error
         /\ handler'[c].request = r /\ \A d \in Contexts \ {c} : handler'[d] = handler[d]
<1> DEFINE h == [kind |-> kind, request |-> r, owner |-> owner, ts |-> clock + 1,
                 error |-> error, config |-> active]
<1>1. /\ handler \in [Contexts -> Run \cup {None}] /\ handler' = [handler EXCEPT ![c] = h]
      /\ h.request = r /\ h.kind = kind /\ h.owner = owner /\ h.error = error
  BY Zenon DEF Types, Start
<1>2. h # None
  <2>1. h \in Run
    BY DEF Types, Run
  <2> QED BY Zenon, <2>1, NoneAssumption
<1> HIDE DEF h
<1>3. handler'[c] = h /\ \A d \in Contexts \ {c} : handler'[d] = handler[d]
  BY Zenon, <1>1
<1>4. \A q \in Requests \ {r} : Idle(q)' <=> Idle(q)
  BY Zenon, <1>1, <1>2, <1>3 DEF Idle
<1>5. \A q \in Requests \ {r}, k \in Kinds : Running(k, q)' <=> Running(k, q)
  BY Zenon, <1>1, <1>2, <1>3 DEF Running
<1>6. ~Idle(r)' /\ \A k \in Kinds : Running(k, r)' <=> k = kind
  BY Zenon, <1>1, <1>2, <1>3 DEF Idle, Running
<1>7. OneRun'
  BY Zenon, <1>1, <1>2, <1>3 DEF Idle, OneRun
<1> QED BY Zenon, <1>1, <1>2, <1>3, <1>4, <1>5, <1>6, <1>7

(* Without a new program run, every request is idle or in its run as before. *)
LEMMA SkipRuns ==
  ASSUME handler' = handler
  PROVE  /\ \A q \in Requests : (Idle(q)' <=> Idle(q)) /\ \A k \in Kinds : Running(k, q)' <=> Running(k, q)
         /\ OneRun => OneRun'
BY Zenon DEF Idle, Running, OneRun

(* The end of the program run of r. *)
LEMMA FinishRuns ==
  ASSUME Types, NEW c \in Contexts, NEW kind, Finish(c, kind), OneRun,
         NEW r \in Requests, r = handler[c].request
  PROVE  /\ \A q \in Requests \ {r} :
              (Idle(q)' <=> Idle(q)) /\ \A k \in Kinds : Running(k, q)' <=> Running(k, q)
         /\ Idle(r)' /\ (\A k \in Kinds : ~Running(k, r)') /\ OneRun'
         /\ ~Idle(r) /\ \A k \in Kinds : Running(k, r) <=> k = kind
         /\ \A d \in Contexts : handler'[d] # None => handler'[d] = handler[d]
<1>1. /\ handler \in [Contexts -> Run \cup {None}] /\ handler' = [handler EXCEPT ![c] = None]
      /\ handler[c] # None /\ handler[c].kind = kind
  BY Zenon DEF Types, Finish
<1>2. handler'[c] = None /\ \A d \in Contexts \ {c} : handler'[d] = handler[d]
  BY Zenon, <1>1
<1>3. \A d \in Contexts \ {c} : handler[d] # None => handler[d].request # r
  BY Zenon, <1>1 DEF OneRun
<1>4. \A q \in Requests \ {r} : Idle(q)' <=> Idle(q)
  BY Zenon, <1>1, <1>2 DEF Idle
<1>5. \A q \in Requests \ {r}, k \in Kinds : Running(k, q)' <=> Running(k, q)
  BY Zenon, <1>1, <1>2 DEF Running
<1>6. Idle(r)' /\ \A k \in Kinds : ~Running(k, r)'
  BY Zenon, <1>2, <1>3 DEF Idle, Running
<1>7. OneRun'
  BY Zenon, <1>1, <1>2 DEF OneRun
<1>8. ~Idle(r) /\ \A k \in Kinds : Running(k, r) <=> k = kind
  BY Zenon, <1>1, <1>3 DEF Idle, Running
<1> QED BY Zenon, <1>2, <1>4, <1>5, <1>6, <1>7, <1>8

(* No program runs for an idle request. *)
LEMMA IdleNotRunning ==
  ASSUME NEW r, Idle(r), NEW k
  PROVE  ~Running(k, r)
BY Zenon DEF Idle, Running

(* What a step of r leaves true of the other requests and pointers. *)
LEMMA FrameRequest ==
  ASSUME Types, PairInv, NEW r \in Requests, Frame(r), NEW q \in Requests \ {r}
  PROVE  /\ InFlight(q)' <=> InFlight(q)
         /\ life'[q] = life[q] /\ todo'[q] = todo[q] /\ failed'[q] = failed[q]
         /\ \A k \in Kinds : (Running(k, q)' <=> Running(k, q)) /\ (Running(k, q) => InFlight(q))
         /\ life[q] = "issued" => InFlight(q)
         /\ PtrOf[q] \in Ptrs
         /\ PtrOf[q] # PtrOf[r] => raw'[PtrOf[q]] = raw[PtrOf[q]] /\ starts'[PtrOf[q]] = starts[PtrOf[q]]
         /\ Probe # "raw" => raw[PtrOf[q]] = None /\ raw'[PtrOf[q]] = None
<1>1. \A k \in Kinds : Running(k, q) => InFlight(q)
  BY Zenon, IdleNotRunning DEF InFlight
<1>2. PtrOf[q] \in Ptrs
  BY Zenon, ConstantsAssumption
<1>3. Probe # "raw" => raw[PtrOf[q]] = None /\ raw'[PtrOf[q]] = None
  BY Zenon, <1>2 DEF PairInv, Frame
<1> QED BY Zenon, <1>1, <1>2, <1>3 DEF Frame, InFlight

(* A count that has gone up by one is not 0, and is 1 only if it was 0. *)
LEMMA OneMore == \A n \in Nat : n + 1 # 0 /\ (n + 1 = 1 => n = 0)
OBVIOUS

(* Losses are only added, so what holds while few were seen held before the step. *)
LEMMA MonoLosses ==
  ASSUME Types, Mono
  PROVE  /\ missed' = 0 => missed = 0
         /\ merged' = 0 => merged = 0
         /\ Undisturbed' => Undisturbed
         /\ missed' = 0 \/ (missed' = 1 /\ merged' = 0) => missed = 0 \/ (missed = 1 /\ merged = 0)
BY DEF Mono, Undisturbed, Types

\* What FrameKeeps shows of another request.
Kept(q) ==
  /\ RunOK(q)'
  /\ missed' = 0 => RawExact(q)'
  /\ (Exact /\ (missed' = 0 \/ (missed' = 1 /\ merged' = 0))) => OwnStart(q)'
  /\ Undisturbed' => RawThere(q)'
  /\ (Exact /\ Undisturbed') => OwnEntry(q)'

(* A step of r keeps the invariant of every other request. *)
LEMMA FrameKeeps ==
  ASSUME Types, PairInv, NEW r \in Requests, Frame(r), Mono, Alone(r), NEW q \in Requests \ {r}
  PROVE  Kept(q)
<1>1. "insert" \in Kinds /\ "issue" \in Kinds /\ "complete" \in Kinds
  BY Zenon DEF Kinds
<1>2. CASE PtrOf[q] = PtrOf[r] /\ Exact
  <2>1. life'[q] # "issued" /\ ~InFlight(q)' /\ \A k \in Kinds : ~Running(k, q)'
    BY Zenon, <1>2, FrameRequest DEF Alone
  <2> QED BY Zenon, <1>1, <2>1 DEF Kept, RunOK, RawExact, OwnStart, RawThere, OwnEntry
<1>3. CASE ~Exact
  <2>1. Probe = "hash"
    BY Zenon, <1>3 DEF Exact
  <2>2. RunOK(q)'
    BY Zenon, <1>1, <2>1, FrameRequest DEF RunOK, PairInv
  <2> QED BY Zenon, <1>3, <2>1, <2>2, FrameRequest DEF Kept, RawExact, RawThere
<1>4. CASE PtrOf[q] # PtrOf[r] /\ Exact
  <2>0. /\ life'[q] = life[q] /\ todo'[q] = todo[q] /\ failed'[q] = failed[q]
        /\ raw'[PtrOf[q]] = raw[PtrOf[q]]
        /\ \A k \in Kinds : Running(k, q)' <=> Running(k, q)
    BY Zenon, <1>4, FrameRequest
  <2>1. RunOK(q)'
    <3>1. RunOK(q)
      BY Zenon DEF PairInv
    <3>2. /\ Running("insert", q)' <=> Running("insert", q)
          /\ Running("issue", q)' <=> Running("issue", q)
          /\ Running("complete", q)' <=> Running("complete", q)
      BY Zenon, <1>1, <2>0
    <3> QED BY Zenon, <2>0, <3>1, <3>2 DEF RunOK
  <2>2. missed' = 0 => RawExact(q)'
    <3>1. missed' = 0 => RawExact(q)
      BY Zenon, MonoLosses DEF PairInv
    <3> QED BY Zenon, <2>0, <3>1 DEF RawExact
  <2>3. missed' = 0 \/ (missed' = 1 /\ merged' = 0) => OwnStart(q)'
    BY Zenon, <1>1, <1>4, FrameRequest, MonoLosses DEF OwnStart, PairInv
  <2>4. Undisturbed' => RawThere(q)'
    BY <1>1, <1>4, FrameRequest, MonoLosses DEF RawThere, PairInv
  <2>5. Undisturbed' => OwnEntry(q)'
    BY <1>4, FrameRequest, MonoLosses DEF OwnEntry, PairInv
  <2> QED BY Zenon, <2>1, <2>2, <2>3, <2>4, <2>5 DEF Kept
<1> QED BY Zenon, <1>2, <1>3, <1>4

(* A step of r keeps the invariant of every pointer but its own. *)
LEMMA FramePointer ==
  ASSUME Types, PairInv, NEW r \in Requests, Frame(r), Mono, NEW p \in Ptrs \ {PtrOf[r]}
  PROVE  /\ (Exact /\ missed' = 0 /\ merged' = 0) => LiveStart(p)'
         /\ Undisturbed' => Occupied(p)'
<1>1. raw'[p] = raw[p] /\ starts'[p] = starts[p] /\ "complete" \in Kinds
  BY Zenon DEF Frame, Kinds
<1>2. ASSUME Undisturbed' PROVE Occupied(p)'
  <2>1. Occupied(p)
    BY Zenon, <1>2, MonoLosses DEF PairInv
  <2> QED BY Zenon, <1>1, <2>1, FrameRequest DEF Occupied
<1>3. ASSUME Exact, missed' = 0, merged' = 0 PROVE LiveStart(p)'
  <2> SUFFICES ASSUME starts[p] # None, starts[p].issue # None PROVE LiveStart(p)'
    BY Zenon, <1>1 DEF LiveStart
  <2>1. LiveStart(p)
    BY Zenon, <1>3, MonoLosses DEF PairInv
  <2>2. PICK q \in Requests : q = starts[p].issue
    BY Zenon, StartType
  <2>3. q # r /\ q = starts'[p].issue
    BY Zenon, <1>1, <2>1, <2>2 DEF LiveStart
  <2>4. PtrOf[q] = p /\ InFlight(q)' /\ (Probe = "raw" => raw'[p] # None \/ Running("complete", q)')
    BY <1>1, <2>1, <2>2, <2>3, FrameRequest DEF LiveStart
  <2> QED BY Zenon, <1>1, <2>3, <2>4 DEF LiveStart, InFlight, Idle, Running
<1> QED BY Zenon, <1>2, <1>3

-----------------------------------------------------------------------------
(* One step of r *)

\* What remains to be shown of r and its pointer.
KeptOwn(r) ==
  /\ OneRun' /\ Kept(r)
  /\ (Exact /\ missed' = 0 /\ merged' = 0) => LiveStart(PtrOf[r])'
  /\ Undisturbed' => Occupied(PtrOf[r])'
  /\ (Probe = "raw" /\ missed' = 0) => \A c \in Contexts : RunError(c)'
  /\ (Exact /\ Undisturbed') => \A c \in Contexts : RunOwner(c)'

(* A step of r preserves PairInv if it preserves what PairInv says of r and its pointer. *)
LEMMA StepKeeps ==
  ASSUME Types, PairInv, NEW r \in Requests, Frame(r), Mono, Alone(r), KeptOwn(r)
  PROVE  PairInv'
<1>1. \A q \in Requests : Kept(q)
  BY Zenon, FrameKeeps DEF KeptOwn
<1>2. PtrOf[r] \in Ptrs
  BY Zenon, ConstantsAssumption
<1>3. \A p \in Ptrs : /\ (Exact /\ missed' = 0 /\ merged' = 0) => LiveStart(p)'
                      /\ Undisturbed' => Occupied(p)'
  BY Zenon, FramePointer DEF KeptOwn
<1>4. Exact => OneUser'
  <2> SUFFICES ASSUME Exact, NEW q \in Requests, NEW s \in Requests, q # s, PtrOf[q] = PtrOf[s]
               PROVE  ~(InFlight(q)' /\ InFlight(s)')
    BY Zenon DEF OneUser
  <2>1. CASE q # r /\ s # r
    BY Zenon, <2>1, FrameRequest DEF PairInv, OneUser
  <2>2. CASE q = r
    BY Zenon, <2>2, FrameRequest DEF Alone
  <2>3. CASE s = r
    BY Zenon, <2>3, FrameRequest DEF Alone
  <2> QED BY Zenon, <2>1, <2>2, <2>3
<1>5. Probe # "raw" => \A p \in Ptrs : raw'[p] = None
  BY Zenon DEF Frame, PairInv
<1>6. OneRun' /\ (\A q \in Requests : RunOK(q)')
  BY Zenon, <1>1 DEF Kept, KeptOwn
<1>7. /\ missed' = 0 => \A q \in Requests : RawExact(q)'
      /\ (Exact /\ (missed' = 0 \/ (missed' = 1 /\ merged' = 0))) => \A q \in Requests : OwnStart(q)'
  BY Zenon, <1>1 DEF Kept
<1>8. /\ Undisturbed' => \A q \in Requests : RawThere(q)'
      /\ (Exact /\ Undisturbed') => \A q \in Requests : OwnEntry(q)'
  BY Zenon, <1>1 DEF Kept
<1>9. /\ (Probe = "raw" /\ missed' = 0) => \A c \in Contexts : RunError(c)'
      /\ (Exact /\ Undisturbed') => \A c \in Contexts : RunOwner(c)'
  BY Zenon DEF KeptOwn
<1>10. Exact' <=> Exact
  BY Zenon DEF Exact
<1> QED BY <1>3, <1>4, <1>5, <1>6, <1>7, <1>8, <1>9, <1>10, Zenon DEF PairInv

(* The start of the pointer of r is the one of r, if any, when r is alone. *)
LEMMA OwnLive ==
  ASSUME Types, PairInv, NEW r \in Requests, Alone(r), Exact
  PROVE  /\ (missed = 0 /\ merged = 0 /\ starts[PtrOf[r]] # None /\ starts[PtrOf[r]].issue # None)
              => /\ starts[PtrOf[r]].issue = r /\ InFlight(r)
                 /\ Probe = "raw" => raw[PtrOf[r]] # None \/ Running("complete", r)
         /\ (Undisturbed /\ starts[PtrOf[r]] # None)
              => /\ starts[PtrOf[r]].insert \in {None, r} /\ starts[PtrOf[r]].issue \in {None, r}
                 /\ starts[PtrOf[r]].owner \in {Worker, r}
<1>1. PtrOf[r] \in Ptrs
  BY Zenon, ConstantsAssumption
<1>2. ASSUME missed = 0, merged = 0, starts[PtrOf[r]] # None, starts[PtrOf[r]].issue # None
      PROVE  /\ starts[PtrOf[r]].issue = r /\ InFlight(r)
             /\ Probe = "raw" => raw[PtrOf[r]] # None \/ Running("complete", r)
  <2>1. LiveStart(PtrOf[r]) /\ starts[PtrOf[r]].issue \in Requests
    BY Zenon, <1>1, <1>2, StartType DEF PairInv
  <2>2. starts[PtrOf[r]].issue = r
    BY Zenon, <1>2, <2>1 DEF LiveStart, Alone
  <2> QED BY Zenon, <1>2, <2>1, <2>2 DEF LiveStart
<1>3. ASSUME Undisturbed, starts[PtrOf[r]] # None
      PROVE  /\ starts[PtrOf[r]].insert \in {None, r} /\ starts[PtrOf[r]].issue \in {None, r}
             /\ starts[PtrOf[r]].owner \in {Worker, r}
  <2>1. Occupied(PtrOf[r]) /\ OwnEntry(r)
    BY Zenon, <1>1, <1>3 DEF PairInv
  <2>2. InFlight(r)
    BY Zenon, <1>3, <2>1 DEF Occupied, Alone
  <2> QED BY Zenon, <1>3, <2>1, <2>2 DEF OwnEntry
<1> QED BY Zenon, <1>2, <1>3

(* Handlers of other requests keep their identity and their errors. *)
LEMMA OtherRuns ==
  ASSUME Types, PairInv, NEW r \in Requests, NEW d \in Contexts, handler'[d] = handler[d],
         Mono, handler[d] # None => handler[d].request # r,
         \A q \in Requests \ {r} : failed'[q] = failed[q]
  PROVE  /\ (Probe = "raw" /\ missed' = 0) => RunError(d)'
         /\ (Exact /\ Undisturbed') => RunOwner(d)'
<1>1. handler[d] # None => handler[d].request \in Requests
  BY Zenon, RunType
<1>2. (Probe = "raw" /\ missed' = 0) => RunError(d)'
  BY <1>1, MonoLosses DEF PairInv, RunError
<1>3. (Exact /\ Undisturbed') => RunOwner(d)'
  BY Zenon, MonoLosses DEF PairInv, RunOwner
<1> QED BY Zenon, <1>2, <1>3

(* Where keys are request pointers, an inserted or issued request shares its own with none in flight. *)
LEMMA AdmissibleAlone ==
  ASSUME NEW r \in Requests, Admissible(r)
  PROVE  Alone(r)
BY Zenon DEF Admissible, Alone, Exact

(* The insert tracepoint preserves PairInv. *)
LEMMA FireInsertPairs ==
  ASSUME Types, PairInv, NEW c \in Contexts, NEW r \in Requests, NEW who \in {r, Worker},
         FireInsert(c, r, who)
  PROVE  PairInv'
<1> DEFINE p == PtrOf[r]
<1>1. /\ Idle(r) /\ handler[c] = None /\ OneRun /\ p \in Ptrs /\ who \in Owners
      /\ "insert" \in Kinds /\ "issue" \in Kinds /\ "complete" \in Kinds
  BY Zenon, ConstantsAssumption DEF FireInsert, Enabled, PairInv, Owners, Kinds
<1>2. /\ life' = [life EXCEPT ![r] = "queued"] /\ UNCHANGED <<todo, failed, raw, starts>>
      /\ Mono /\ Alone(r)
  BY Zenon, AdmissibleAlone DEF FireInsert, Mono
<1>3. life'[r] = "queued" /\ \A q \in Requests \ {r} : life'[q] = life[q]
  BY Zenon, <1>2 DEF Types
<1>4. /\ \A q \in Requests \ {r} : (Idle(q)' <=> Idle(q))
                                   /\ \A k \in Kinds : Running(k, q)' <=> Running(k, q)
      /\ \A k \in Kinds : Running(k, r)' => k = "insert"
      /\ OneRun'
      /\ \A d \in Contexts \ {c} : handler'[d] = handler[d]
      /\ handler'[c] # None => handler'[c].owner = who /\ handler'[c].request = r
                               /\ handler'[c].kind = "insert"
  <2>1. CASE Start(c, "insert", r, who, FALSE)
    <3>1. handler'[c].kind = "insert"
      BY Zenon, <1>1, <2>1 DEF Start, Types
    <3> QED BY Zenon, <1>1, <2>1, <3>1, StartRuns
  <2>2. CASE Skip
    <3>1. handler' = handler
      BY Zenon, <2>2 DEF Skip
    <3> QED BY Zenon, <1>1, <3>1, SkipRuns, IdleNotRunning
  <2> QED BY Zenon, <2>1, <2>2 DEF FireInsert
<1>5. Frame(r)
  BY Zenon, <1>2, <1>3, <1>4 DEF Frame
<1>6. InFlight(r)' /\ ~Running("complete", r)
  BY Zenon, <1>1, <1>3, IdleNotRunning DEF InFlight
<1>7. Kept(r)
  <2>1. RunOK(r)'
    BY Zenon, <1>1, <1>3, <1>4 DEF RunOK
  <2>2. RawExact(r)' /\ RawThere(r)' /\ OwnStart(r)'
    BY Zenon, <1>1, <1>3, <1>4 DEF RawExact, RawThere, OwnStart
  <2>3. (Exact /\ Undisturbed') => OwnEntry(r)'
    BY Zenon, <1>2, OwnLive, MonoLosses DEF OwnEntry
  <2> QED BY Zenon, <2>1, <2>2, <2>3 DEF Kept
<1>8. (Exact /\ missed' = 0 /\ merged' = 0) => LiveStart(p)'
  <2>1. (Exact /\ missed' = 0 /\ merged' = 0 /\ starts'[p] # None /\ starts'[p].issue # None)
          => starts'[p].issue = r /\ (Probe = "raw" => raw'[p] # None)
    BY Zenon, <1>2, <1>6, OwnLive, MonoLosses
  <2> QED BY Zenon, <1>6, <2>1 DEF LiveStart, InFlight, Idle
<1>9. Occupied(p)'
  BY Zenon, <1>6 DEF Occupied
<1>10. ASSUME NEW d \in Contexts
       PROVE  /\ (Probe = "raw" /\ missed' = 0) => RunError(d)'
              /\ (Exact /\ Undisturbed') => RunOwner(d)'
  <2>1. CASE d = c
    BY Zenon, <1>4, <2>1 DEF RunError, RunOwner
  <2>2. CASE d # c
    BY Zenon, <1>1, <1>2, <1>4, <2>2, OtherRuns DEF Idle
  <2> QED BY Zenon, <2>1, <2>2
<1>11. KeptOwn(r)
  BY Zenon, <1>4, <1>7, <1>8, <1>9, <1>10 DEF KeptOwn
<1> QED BY Zenon, <1>2, <1>5, <1>11, StepKeeps

(* The issue tracepoint, with the RAW_COMPLETIONS entry it makes, preserves PairInv. *)
LEMMA FireIssuePairs ==
  ASSUME Types, PairInv, NEW c \in Contexts, NEW r \in Requests, NEW who \in {r, Worker},
         FireIssue(c, r, who)
  PROVE  PairInv'
<1> DEFINE p == PtrOf[r]
           started == Start(c, "issue", r, IssueOwner(r, who), FALSE)
<1>1. /\ Idle(r) /\ handler[c] = None /\ OneRun /\ p \in Ptrs /\ who \in Owners
      /\ IssueOwner(r, who) \in Owners
      /\ "insert" \in Kinds /\ "issue" \in Kinds /\ "complete" \in Kinds
  BY Zenon, ConstantsAssumption, IssueOwnerType DEF FireIssue, Enabled, PairInv, Owners, Kinds
<1>2. /\ life' = [life EXCEPT ![r] = "issued"] /\ failed' = [failed EXCEPT ![r] = FALSE]
      /\ UNCHANGED <<todo, starts>> /\ Mono /\ Alone(r)
  BY Zenon, AdmissibleAlone DEF FireIssue, Mono
<1>3. /\ life'[r] = "issued" /\ failed'[r] = FALSE /\ merged' = merged
      /\ \A q \in Requests \ {r} : life'[q] = life[q] /\ failed'[q] = failed[q]
  BY Zenon, <1>2 DEF Types, FireIssue
<1>4. \/ started /\ raw' = (IF Probe = "raw" THEN [raw EXCEPT ![p] = NewState(todo[r])] ELSE raw)
      \/ Skip /\ raw' = raw /\ raw[p] = None /\ Probe = "raw" /\ refused' = refused + 1
      \/ Skip /\ raw' = raw /\ missed' = missed + 1
  BY Zenon DEF FireIssue, HasRoom
<1>5. /\ \A q \in Requests \ {r} : (Idle(q)' <=> Idle(q))
                                   /\ \A k \in Kinds : Running(k, q)' <=> Running(k, q)
      /\ \A k \in Kinds : Running(k, r)' <=> k = "issue" /\ started
      /\ OneRun'
      /\ \A d \in Contexts \ {c} : handler'[d] = handler[d]
      /\ handler'[c] # None => handler'[c].owner = IssueOwner(r, who) /\ handler'[c].request = r
                               /\ handler'[c].kind = "issue"
  <2>1. CASE started
    <3>1. handler'[c].kind = "issue"
      BY Zenon, <1>1, <2>1 DEF Start, Types
    <3>2. /\ \A q \in Requests \ {r} : (Idle(q)' <=> Idle(q))
                                       /\ \A k \in Kinds : Running(k, q)' <=> Running(k, q)
          /\ \A k \in Kinds : Running(k, r)' <=> k = "issue"
          /\ OneRun' /\ handler'[c].owner = IssueOwner(r, who) /\ handler'[c].request = r
          /\ \A d \in Contexts \ {c} : handler'[d] = handler[d]
      <4>1. FALSE \in BOOLEAN
        OBVIOUS
      <4> QED BY ZenonT(30), <1>1, <2>1, <4>1, StartRuns
    <3> HIDE DEF started
    <3> QED BY Zenon, <2>1, <3>1, <3>2
  <2>2. CASE Skip
    <3>1. handler' = handler /\ ~started
      BY <1>1, <2>2 DEF Skip, Start, Types
    <3> QED BY Zenon, <1>1, <3>1, SkipRuns, IdleNotRunning
  <2> QED BY Zenon, <1>4, <2>1, <2>2
<1>6. /\ \A s \in Ptrs \ {p} : raw'[s] = raw[s]
      /\ Probe # "raw" => raw' = raw
      /\ started /\ Probe = "raw" => raw'[p] = NewState(todo[r])
  <2>1. raw \in [Ptrs -> CompletionState \cup {None}] /\ (Skip => ~started)
    BY <1>1 DEF Types, Skip, Start
  <2> QED BY Zenon, <1>1, <1>4, <2>1
<1>7. Frame(r)
  BY Zenon, <1>2, <1>3, <1>5, <1>6 DEF Frame
<1>8. InFlight(r)' /\ ~Running("complete", r) /\ ~Running("complete", r)'
  BY Zenon, <1>1, <1>3, <1>5, IdleNotRunning DEF InFlight
<1>9. NewState(todo[r]) # None
  <2>1. NewState(todo[r]) \in CompletionState
    BY Zenon DEF NewState, CompletionState, Types
  <2> QED BY Zenon, <2>1, NoneAssumption
<1> HIDE DEF started
<1>10. Kept(r)
  <2>1. RunOK(r)'
    BY Zenon, <1>1, <1>3, <1>5, <1>6, <1>9 DEF RunOK
  <2>2. missed' = 0 => RawExact(r)'
    <3> SUFFICES ASSUME missed' = 0, raw'[p] # None
                 PROVE  raw'[p].remaining = todo'[r] /\ raw'[p].error = failed'[r]
      BY Zenon DEF RawExact
    <3>1. started /\ Probe = "raw"
      <4>1. missed \in Nat /\ (Probe # "raw" => raw[p] = None)
        BY Zenon, <1>1 DEF Types, PairInv
      <4> QED BY <1>4, <4>1
    <3>2. raw'[p] = NewState(todo[r])
      BY Zenon, <1>6, <3>1
    <3>3. NewState(todo[r]).remaining = todo[r] /\ NewState(todo[r]).error = FALSE
      BY Zenon DEF NewState
    <3> QED BY Zenon, <1>2, <1>3, <3>2, <3>3
  <2>3. Undisturbed' => RawThere(r)'
    <3> SUFFICES ASSUME Undisturbed', Probe = "raw" PROVE raw'[p] # None
      BY Zenon DEF RawThere
    <3>1. started
      BY <1>4, MonoLosses DEF Undisturbed, Types
    <3> QED BY Zenon, <1>6, <1>9, <3>1
  <2>4. (Exact /\ (missed' = 0 \/ (missed' = 1 /\ merged' = 0))) => OwnStart(r)'
    <3> SUFFICES ASSUME Exact, missed' = 0 \/ (missed' = 1 /\ merged' = 0), ~Running("issue", r)',
                        Probe = "raw" => raw'[p] # None, starts'[p] # None
                 PROVE  starts'[p].issue \in {None, r}
      BY Zenon, <1>8 DEF OwnStart
    <3>1. missed = 0 /\ merged = 0
      <4>1. missed' = missed + 1
        BY Zenon, <1>1, <1>4, <1>5
      <4>2. missed \in Nat /\ merged' = merged
        BY Zenon, <1>3 DEF Types
      <4> QED BY Zenon, <4>1, <4>2, OneMore
    <3> QED BY Zenon, <1>2, <3>1, OwnLive
  <2>5. (Exact /\ Undisturbed') => OwnEntry(r)'
    BY <1>2, OwnLive, MonoLosses DEF OwnEntry
  <2> QED BY Zenon, <2>1, <2>2, <2>3, <2>4, <2>5 DEF Kept
<1>11. (Exact /\ missed' = 0 /\ merged' = 0) => LiveStart(p)'
  <2> SUFFICES ASSUME Exact, missed' = 0, merged' = 0, starts'[p] # None, starts'[p].issue # None
               PROVE  starts'[p].issue = r /\ (Probe = "raw" => raw'[p] # None)
    BY Zenon, <1>8 DEF LiveStart, InFlight, Idle
  <2>1. starts[p].issue = r /\ (Probe = "raw" => raw[p] # None)
    BY Zenon, <1>2, <1>8, OwnLive, MonoLosses
  <2> QED BY Zenon, <1>2, <1>4, <1>6, <1>9, <2>1
<1>12. Occupied(p)'
  BY Zenon, <1>8 DEF Occupied
<1>13. (Exact /\ Undisturbed') => IssueOwner(r, who) \in {Worker, r}
  BY Zenon, <1>2, OwnLive, MonoLosses DEF IssueOwner
<1>14. ASSUME NEW d \in Contexts
       PROVE  /\ (Probe = "raw" /\ missed' = 0) => RunError(d)'
              /\ (Exact /\ Undisturbed') => RunOwner(d)'
  <2>1. CASE d = c
    BY Zenon, <1>5, <1>13, <2>1 DEF RunError, RunOwner
  <2>2. CASE d # c
    <3>1. handler'[d] = handler[d] /\ (handler[d] # None => handler[d].request # r)
      BY Zenon, <1>1, <1>5, <2>2 DEF Idle
    <3> QED BY Zenon, <1>2, <1>3, <3>1, OtherRuns
  <2> QED BY Zenon, <2>1, <2>2
<1>15. KeptOwn(r)
  BY Zenon, <1>5, <1>10, <1>11, <1>12, <1>14 DEF KeptOwn
<1> QED BY Zenon, <1>2, <1>7, <1>15, StepKeeps

(* A completion that leaves a request done, or goes on, and what it does to
   the raw state.                                                           *)
LEMMA FireCompletePairs ==
  ASSUME Types, PairInv, NEW c \in Contexts, NEW r \in Requests, NEW bytes \in 0 .. Size[r],
         NEW error \in BOOLEAN, FireComplete(c, r, bytes, error)
  PROVE  PairInv'
<1> DEFINE p == PtrOf[r]
           t == Advance(raw[p], bytes, error)
           started == \E e \in BOOLEAN : Start(c, "complete", r, Worker, e)
<1>1. /\ Idle(r) /\ handler[c] = None /\ OneRun /\ p \in Ptrs /\ Worker \in Owners
      /\ life[r] = "issued" /\ bytes \in Nat /\ todo[r] \in Nat /\ bytes <= todo[r]
      /\ "insert" \in Kinds /\ "issue" \in Kinds /\ "complete" \in Kinds
  <2>1. Size[r] \in Nat /\ p \in Ptrs /\ todo[r] \in Nat
    BY Zenon, ConstantsAssumption DEF Types
  <2>2. bytes \in Nat
    BY <2>1
  <2>3. Idle(r) /\ handler[c] = None /\ life[r] = "issued" /\ bytes <= todo[r]
    BY Zenon DEF FireComplete, Enabled
  <2> QED BY Zenon, <2>1, <2>2, <2>3 DEF PairInv, Owners, Kinds
<1>2. /\ life' = [life EXCEPT ![r] = IF bytes = todo[r] THEN "done" ELSE @]
      /\ todo' = [todo EXCEPT ![r] = @ - bytes]
      /\ failed' = [failed EXCEPT ![r] = @ \/ error]
      /\ UNCHANGED <<starts, merged, refused>> /\ Mono
  BY Zenon DEF FireComplete, Mono
<1>3. /\ life'[r] = IF bytes = todo[r] THEN "done" ELSE "issued"
      /\ todo'[r] = todo[r] - bytes /\ failed'[r] = (failed[r] \/ error)
      /\ \A q \in Requests \ {r} : life'[q] = life[q] /\ failed'[q] = failed[q] /\ todo'[q] = todo[q]
  BY Zenon, <1>1, <1>2 DEF Types
<1>4. Alone(r)
  BY Zenon, <1>1 DEF Alone, PairInv, OneUser, InFlight
<1>5. raw[p] # None => /\ raw[p].remaining \in Nat /\ raw[p].error \in BOOLEAN
                       /\ t.remaining = raw[p].remaining - bytes /\ t.error = (raw[p].error \/ error)
                       /\ bytes <= raw[p].remaining => t \in CompletionState /\ t # None
  BY <1>1, RawType, NoneAssumption DEF Advance, CompletionState
<1>6. \/ /\ Start(c, "complete", r, Worker, error) /\ raw' = raw /\ Probe # "raw" /\ missed' = missed
      \/ /\ Start(c, "complete", r, Worker, t.error) /\ raw' = [raw EXCEPT ![p] = None]
         /\ Probe = "raw" /\ raw[p] # None /\ bytes <= raw[p].remaining
         /\ t.remaining = 0 /\ missed' = missed
      \/ /\ Skip /\ raw' = [raw EXCEPT ![p] = t] /\ Probe = "raw" /\ raw[p] # None
         /\ bytes <= raw[p].remaining /\ t.remaining # 0 /\ missed' = missed
      \/ /\ Skip /\ raw' = raw /\ Probe = "raw" /\ (raw[p] = None \/ bytes > raw[p].remaining)
         /\ missed' = missed
      \/ /\ Skip /\ raw' = raw /\ missed' = missed + 1
  <2>1. \/ /\ Probe = "raw" /\ RawComplete(c, r, bytes, error) /\ missed' = missed
        \/ /\ Probe # "raw" /\ Start(c, "complete", r, Worker, error) /\ raw' = raw /\ missed' = missed
        \/ missed' = missed + 1 /\ Skip /\ raw' = raw
    BY Zenon DEF FireComplete
  <2>2. ASSUME RawComplete(c, r, bytes, error)
        PROVE  \/ (raw[p] = None \/ bytes > raw[p].remaining) /\ Skip /\ raw' = raw
               \/ /\ raw[p] # None /\ ~(bytes > raw[p].remaining) /\ t.remaining = 0
                  /\ raw' = [raw EXCEPT ![p] = None] /\ Start(c, "complete", r, Worker, t.error)
               \/ /\ raw[p] # None /\ ~(bytes > raw[p].remaining) /\ t.remaining # 0
                  /\ raw' = [raw EXCEPT ![p] = t] /\ Skip
    BY Zenon, <2>2 DEF RawComplete, StorePart
  <2>3. raw[p] # None /\ ~(bytes > raw[p].remaining) => bytes <= raw[p].remaining
    <3>1. bytes \in Nat /\ (raw[p] # None => raw[p].remaining \in Nat)
      BY Zenon, <1>1, <1>5
    <3> QED BY <3>1
  <2> HIDE DEF t, p
  <2> QED BY Zenon, <2>1, <2>2, <2>3
<1>7. /\ \A q \in Requests \ {r} : (Idle(q)' <=> Idle(q))
                                   /\ \A k \in Kinds : Running(k, q)' <=> Running(k, q)
      /\ \A k \in Kinds : Running(k, r)' <=> k = "complete" /\ started
      /\ started => ~Idle(r)'
      /\ Skip => ~started
      /\ OneRun'
      /\ \A d \in Contexts \ {c} : handler'[d] = handler[d]
      /\ handler'[c] # None => handler'[c].owner = Worker /\ handler'[c].request = r
  <2>1. CASE started
    <3>1. PICK e \in BOOLEAN : Start(c, "complete", r, Worker, e)
      BY Zenon, <2>1
    <3>2. "complete" \in Kinds
      BY Zenon DEF Kinds
    <3>3. /\ \A q \in Requests \ {r} : (Idle(q)' <=> Idle(q))
                                      /\ \A k \in Kinds : Running(k, q)' <=> Running(k, q)
          /\ ~Idle(r)' /\ OneRun' /\ handler'[c] # None
          /\ handler'[c].owner = Worker /\ handler'[c].request = r
      BY SMTT(40), <1>1, <3>1, <3>2, StartRuns
    <3>4. \A k \in Kinds : Running(k, r)' <=> k = "complete"
      BY SMTT(40), <1>1, <3>1, <3>2, StartRuns
    <3>5. \A d \in Contexts \ {c} : handler'[d] = handler[d]
      BY SMTT(40), <1>1, <3>1, <3>2, StartRuns
    <3>6. ~Skip
      BY Zenon, <1>1, <3>3 DEF Skip
    <3> HIDE DEF started
    <3> QED BY Zenon, <2>1, <3>3, <3>4, <3>5, <3>6
  <2>2. CASE Skip
    <3>1. handler' = handler
      BY Zenon, <2>2 DEF Skip
    <3>2. ~started
      <4> SUFFICES ASSUME NEW e \in BOOLEAN, Start(c, "complete", r, Worker, e) PROVE FALSE
        BY Zenon
      <4>1. handler'[c] # None
        BY <1>1, StartRuns
      <4> QED BY Zenon, <1>1, <3>1, <4>1
    <3> QED BY Zenon, <1>1, <3>1, <3>2, SkipRuns, IdleNotRunning
  <2> QED BY Zenon, <1>5, <1>6, <2>1, <2>2
<1>8. Frame(r)
  <2>1. raw \in [Ptrs -> CompletionState \cup {None}]
    BY Zenon DEF Types
  <2>2. /\ \A s \in Ptrs \ {p} : raw'[s] = raw[s]
        /\ Probe # "raw" => raw' = raw
    <3> HIDE DEF t
    <3> QED BY Zenon, <1>6, <2>1
  <2> HIDE DEF started
  <2> QED BY Zenon, <1>2, <1>3, <1>7, <2>2 DEF Frame
<1>9. missed' = 0 /\ raw[p] # None => raw[p].remaining = todo[r] /\ raw[p].error = failed[r]
  BY Zenon, <1>1, <1>2, MonoLosses DEF PairInv, RawExact
<1>10. /\ InFlight(r) /\ (started => InFlight(r)')
       /\ life'[r] = "issued" => InFlight(r)'
       /\ ~Running("issue", r) /\ ~Running("complete", r)
  BY Zenon, <1>1, <1>7, IdleNotRunning DEF InFlight
<1>11. raw \in [Ptrs -> CompletionState \cup {None}] /\ missed \in Nat /\ (Probe # "raw" => raw[p] = None)
  BY Zenon, <1>1 DEF Types, PairInv
<1>12. ASSUME missed' = 0
       PROVE  \/ started /\ (Probe = "raw" => raw'[p] = None /\ bytes = todo[r])
              \/ /\ ~started /\ Probe = "raw" /\ raw[p] # None /\ raw'[p] = t
                 /\ bytes <= raw[p].remaining /\ t.remaining # 0
              \/ ~started /\ Probe = "raw" /\ raw[p] = None /\ raw'[p] = None
  <2>1. raw[p] # None => raw[p].remaining = todo[r]
    BY Zenon, <1>9, <1>12
  <2>2. raw[p] # None => t.error \in BOOLEAN /\ t.remaining = raw[p].remaining - bytes
    BY Zenon, <1>5
  <2>3. Skip => ~started
    BY Zenon, <1>7
  <2>4. /\ missed' # missed + 1 /\ bytes \in Nat /\ todo[r] \in Nat /\ bytes <= todo[r]
        /\ raw[p] # None => t.remaining = todo[r] - bytes
    <3>1. bytes \in Nat /\ todo[r] \in Nat /\ bytes <= todo[r]
      BY <1>1 DEF Types
    <3>2. missed' # missed + 1
      BY Zenon, <1>11, <1>12, OneMore
    <3>3. raw[p] # None => t.remaining = todo[r] - bytes
      BY Zenon, <2>1, <2>2
    <3> QED BY Zenon, <3>1, <3>2, <3>3
  <2>5. /\ raw[p] # None /\ t.remaining = 0 => bytes = todo[r]
        /\ raw[p] # None => ~(bytes > raw[p].remaining)
    BY <2>1, <2>4
  <2>6. p \in Ptrs /\ \A x : [raw EXCEPT ![p] = x][p] = x
    BY Zenon, <1>1, <1>11
  <2>7. Start(c, "complete", r, Worker, error) => started
    BY Zenon, <1>1
  <2>8. raw[p] # None => (Start(c, "complete", r, Worker, t.error) => started)
    BY Zenon, <2>2
  <2> HIDE DEF t, p, started
  <2> QED BY Zenon, <1>6, <2>3, <2>4, <2>5, <2>6, <2>7, <2>8
<1>13. (raw'[p] # None \/ started) /\ Probe = "raw" => raw[p] # None
  BY Zenon, <1>1, <1>5, <1>6, <1>7, <1>11
<1> HIDE DEF started
<1>14. Kept(r)
  <2>1. RunOK(r)'
    <3>1. started /\ Probe = "raw" => raw'[p] = None
      <4> HIDE DEF t
      <4> QED BY Zenon, <1>1, <1>6, <1>7, <1>11
    <3> QED BY Zenon, <1>1, <1>3, <1>7, <3>1 DEF RunOK
  <2>2. missed' = 0 => RawExact(r)'
    <3> SUFFICES ASSUME missed' = 0, raw'[p] # None
                 PROVE  raw'[p].remaining = todo'[r] /\ raw'[p].error = failed'[r]
      BY Zenon DEF RawExact
    <3>1. raw[p] # None /\ raw'[p] = t
      <4> HIDE DEF t
      <4> QED BY Zenon, <1>11, <1>12, <1>1, <1>6, <1>7
    <3>2. t.remaining = todo[r] - bytes /\ t.error = (failed[r] \/ error)
      BY Zenon, <1>5, <1>9, <3>1
    <3> HIDE DEF t
    <3> QED BY Zenon, <1>3, <3>1, <3>2
  <2>3. (Exact /\ (missed' = 0 \/ (missed' = 1 /\ merged' = 0))) => OwnStart(r)'
    <3> SUFFICES ASSUME Exact, missed' = 0 \/ (missed' = 1 /\ merged' = 0), starts'[p] # None,
                        Probe = "raw" => raw'[p] # None \/ started
                 PROVE  starts'[p].issue \in {None, r}
      BY Zenon, <1>1, <1>7 DEF OwnStart
    <3>1. OwnStart(r)
      BY Zenon, <1>2, MonoLosses DEF PairInv
    <3> QED BY Zenon, <1>1, <1>2, <1>10, <1>13, <3>1 DEF OwnStart
  <2>4. Undisturbed' => RawThere(r)'
    <3> SUFFICES ASSUME Undisturbed', Probe = "raw", life'[r] = "issued" PROVE raw'[p] # None
      BY Zenon DEF RawThere
    <3>1. raw[p] # None /\ missed' = 0
      BY Zenon, <1>1, <1>2, <1>10, MonoLosses DEF PairInv, RawThere, Undisturbed
    <3>2. raw'[p] = t /\ bytes <= raw[p].remaining
      <4> HIDE DEF t
      <4> QED BY Zenon, <1>3, <1>12, <3>1
    <3> QED BY Zenon, <1>5, <3>1, <3>2
  <2>5. (Exact /\ Undisturbed') => OwnEntry(r)'
    BY Zenon, <1>2, <1>4, OwnLive, MonoLosses DEF OwnEntry
  <2> QED BY Zenon, <2>1, <2>2, <2>3, <2>4, <2>5 DEF Kept
<1>15. ASSUME missed' = 0, raw[p] # None \/ Probe # "raw"
       PROVE  InFlight(r)' /\ (Probe = "raw" => raw'[p] # None \/ started)
  <2>1. CASE started
    BY Zenon, <1>10, <2>1
  <2>2. CASE ~started
    <3>1. raw[p] # None /\ raw'[p] = t /\ bytes <= raw[p].remaining /\ t.remaining # 0
      <4> HIDE DEF t
      <4> QED BY Zenon, <1>12, <1>15, <2>2
    <3>2. t.remaining = todo[r] - bytes /\ t # None
      BY Zenon, <1>5, <1>9, <1>15, <3>1
    <3>3. life'[r] = "issued"
      <4> HIDE DEF t
      <4>1. bytes # todo[r]
        BY <1>1, <3>1, <3>2
      <4> QED BY Zenon, <1>3, <4>1
    <3> HIDE DEF t
    <3> QED BY Zenon, <1>10, <3>1, <3>2, <3>3
  <2> QED BY Zenon, <2>1, <2>2
<1>16. (Exact /\ missed' = 0 /\ merged' = 0) => LiveStart(p)'
  <2> SUFFICES ASSUME Exact, missed' = 0, merged' = 0, starts'[p] # None, starts'[p].issue # None
               PROVE  LiveStart(p)'
    BY Zenon DEF LiveStart
  <2>1. starts'[p].issue = r /\ (Probe = "raw" => raw[p] # None)
    BY Zenon, <1>2, <1>4, <1>10, OwnLive, MonoLosses
  <2>2. InFlight(r)' /\ (Probe = "raw" => raw'[p] # None \/ Running("complete", r)')
    BY Zenon, <1>1, <1>7, <1>15, <2>1
  <2> QED BY Zenon, <2>1, <2>2 DEF LiveStart, InFlight, Idle, Running
<1>17. Undisturbed' => Occupied(p)'
  <2> SUFFICES ASSUME Undisturbed' PROVE InFlight(r)'
    BY Zenon DEF Occupied
  <2>1. missed' = 0 /\ (raw[p] # None \/ Probe # "raw")
    BY Zenon, <1>1, <1>2, <1>10, MonoLosses DEF PairInv, RawThere, Undisturbed
  <2> QED BY Zenon, <1>15, <2>1
<1>18. ASSUME NEW d \in Contexts
       PROVE  /\ (Probe = "raw" /\ missed' = 0) => RunError(d)'
              /\ (Exact /\ Undisturbed') => RunOwner(d)'
  <2>1. CASE d = c
    <3>1. (Probe = "raw" /\ missed' = 0 /\ handler'[c] # None)
             => handler'[c].error = failed'[r]
      <4> SUFFICES ASSUME Probe = "raw", missed' = 0, handler'[c] # None
                   PROVE  handler'[c].error = failed'[r]
        BY Zenon
      <4>1. Start(c, "complete", r, Worker, t.error) /\ raw[p] # None
        BY Zenon, <1>1, <1>6 DEF Skip
      <4>2. t.error = (failed[r] \/ error) /\ t.error \in BOOLEAN
        BY Zenon, <1>5, <1>9, <4>1
      <4>3. handler'[c].error = t.error
        <5>1. handler \in [Contexts -> Run \cup {None}]
          BY Zenon DEF Types
        <5> HIDE DEF t
        <5> QED BY Zenon, <4>1, <5>1 DEF Start
      <4> HIDE DEF t
      <4> QED BY Zenon, <1>3, <4>2, <4>3
    <3> QED BY Zenon, <1>7, <2>1, <3>1 DEF RunError, RunOwner
  <2>2. CASE d # c
    <3>1. handler'[d] = handler[d] /\ (handler[d] # None => handler[d].request # r)
      BY Zenon, <1>1, <1>7, <2>2 DEF Idle
    <3> QED BY Zenon, <1>2, <1>3, <3>1, OtherRuns
  <2> QED BY Zenon, <2>1, <2>2
<1>19. KeptOwn(r)
  BY Zenon, <1>7, <1>14, <1>16, <1>17, <1>18 DEF KeptOwn
<1> QED BY Zenon, <1>2, <1>4, <1>8, <1>19, StepKeeps

-----------------------------------------------------------------------------
(* The end of a program run, and what a completion is joined with: the     *)
(* second half of the argument, and the theorems it gives.                 *)

\* What process_block may do to the start of the pointer of r.
StartKept(r) ==
  /\ (Exact /\ (missed = 0 \/ (missed = 1 /\ merged = 0))) => OwnStart(r)'
  /\ (Exact /\ missed = 0 /\ merged = 0) => LiveStart(PtrOf[r])'
  /\ Undisturbed => Occupied(PtrOf[r])'
  /\ (Exact /\ Undisturbed) => OwnEntry(r)'

(* The run of r that ends, and its request. *)
LEMMA Finishing ==
  ASSUME Types, PairInv, NEW c \in Contexts, NEW kind \in Kinds, Finish(c, kind),
         NEW r \in Requests, r = handler[c].request
  PROVE  /\ PtrOf[r] \in Ptrs /\ InFlight(r) /\ Alone(r) /\ Mono
         /\ \A k \in Kinds : (Running(k, r) <=> k = kind) /\ ~Running(k, r)'
         /\ life' = life /\ todo' = todo /\ failed' = failed /\ raw' = raw
         /\ missed' = missed /\ merged' = merged /\ refused' = refused
         /\ Undisturbed' <=> Undisturbed
<1>1. /\ life' = life /\ todo' = todo /\ failed' = failed /\ raw' = raw
      /\ missed' = missed /\ merged' = merged /\ refused' = refused
  BY Zenon DEF Finish, layer
<1>2. OneRun
  BY Zenon DEF PairInv
<1>3. ~Idle(r) /\ \A k \in Kinds : (Running(k, r) <=> k = kind) /\ ~Running(k, r)'
  <2>1. ~Idle(r) /\ \A k \in Kinds : Running(k, r) <=> k = kind
    BY SMTT(40), <1>2, FinishRuns
  <2>2. \A k \in Kinds : ~Running(k, r)'
    BY SMTT(40), <1>2, FinishRuns
  <2> QED BY Zenon, <2>1, <2>2
<1>4. InFlight(r)
  BY Zenon, <1>3 DEF InFlight
<1>5. Alone(r)
  BY Zenon, <1>4 DEF Alone, PairInv, OneUser
<1> QED BY Zenon, <1>1, <1>3, <1>4, <1>5, ConstantsAssumption DEF Mono, Undisturbed

(* The end of a program run preserves PairInv if its entry of BLOCK_STARTS is right. *)
LEMMA FinishPairs ==
  ASSUME Types, PairInv, NEW c \in Contexts, NEW kind \in Kinds, Finish(c, kind),
         NEW r \in Requests, r = handler[c].request,
         \A s \in Ptrs \ {PtrOf[r]} : starts'[s] = starts[s], StartKept(r)
  PROVE  PairInv'
<1>1. /\ \A q \in Requests \ {r} :
           (Idle(q)' <=> Idle(q)) /\ \A k \in Kinds : Running(k, q)' <=> Running(k, q)
      /\ OneRun' /\ \A d \in Contexts : handler'[d] # None => handler'[d] = handler[d]
  <2>1. OneRun
    BY Zenon DEF PairInv
  <2> QED BY Zenon, <2>1, FinishRuns
<1>2. Frame(r)
  BY Zenon, <1>1, Finishing DEF Frame
<1>3. "insert" \in Kinds /\ "issue" \in Kinds /\ "complete" \in Kinds
  BY Zenon DEF Kinds
<1>4. Kept(r)
  <2>1. RunOK(r)'
    <3>1. ~Running("insert", r)' /\ ~Running("issue", r)' /\ ~Running("complete", r)'
      BY Zenon, <1>3, Finishing
    <3> QED BY Zenon, <3>1 DEF RunOK
  <2>2. missed' = 0 => RawExact(r)'
    <3>1. /\ missed' = missed /\ raw' = raw /\ life' = life /\ todo' = todo /\ failed' = failed
          /\ missed = 0 => RawExact(r)
      BY Zenon, Finishing DEF PairInv
    <3> QED BY Zenon, <3>1 DEF RawExact
  <2>3. Undisturbed' => RawThere(r)'
    BY Zenon, Finishing DEF PairInv, RawThere
  <2> QED BY Zenon, <2>1, <2>2, <2>3, Finishing DEF Kept, StartKept
<1>5. ASSUME NEW d \in Contexts
      PROVE  /\ (Probe = "raw" /\ missed' = 0) => RunError(d)'
             /\ (Exact /\ Undisturbed') => RunOwner(d)'
  BY Zenon, <1>1, Finishing DEF PairInv, RunError, RunOwner
<1>6. KeptOwn(r)
  BY Zenon, <1>1, <1>4, <1>5, Finishing DEF KeptOwn, StartKept
<1> QED BY Zenon, <1>2, <1>6, Finishing, StepKeeps

(* An insert leaves the start of r alone, or replaces it by one that is not
   issued and has the identity of this run.                                 *)
LEMMA FinishInsertPairs ==
  ASSUME Types, PairInv, NEW c \in Contexts, FinishInsert(c)
  PROVE  PairInv'
<1>1. "insert" \in Kinds /\ Finish(c, "insert") /\ handler[c] # None
  BY Zenon DEF Kinds, FinishInsert, Finish
<1>2. PICK r \in Requests : r = handler[c].request
  BY Zenon, <1>1, RunType
<1> DEFINE p == PtrOf[r]
           s == [insert |-> r, insert_ts |-> handler[c].ts, issue |-> None, issue_ts |-> 0,
                 owner |-> handler[c].owner]
<1>3. /\ p \in Ptrs /\ life' = life /\ life[r] = "queued" /\ InFlight(r)' /\ InFlight(r) /\ Alone(r)
      /\ ~Running("issue", r) /\ ~Running("complete", r)'
  BY Zenon, <1>1, <1>2, Finishing DEF PairInv, RunOK, InFlight, Kinds
<1>4. starts' = starts \/ starts' = [starts EXCEPT ![p] = s]
  BY Zenon, <1>2 DEF FinishInsert
<1>5. s.insert = r /\ s.issue = None /\ s.owner = handler[c].owner
  BY Zenon
<1>6. starts \in [Ptrs -> BlockStart \cup {None}]
  BY Zenon DEF Types
<1> HIDE DEF s
<1>7. (\A x \in Ptrs \ {p} : starts'[x] = starts[x]) /\ (starts'[p] = starts[p] \/ starts'[p] = s)
  BY Zenon, <1>3, <1>4, <1>6
<1>8. OwnStart(r)'
  BY Zenon, <1>3 DEF OwnStart
<1>9. Occupied(p)'
  BY Zenon, <1>3 DEF Occupied
<1>10. (Exact /\ missed = 0 /\ merged = 0) => LiveStart(p)'
  <2> SUFFICES ASSUME Exact, missed = 0, merged = 0, starts'[p] # None, starts'[p].issue # None
               PROVE  LiveStart(p)'
    BY Zenon DEF LiveStart
  <2>1. starts'[p] = starts[p]
    BY Zenon, <1>5, <1>7
  <2>2. starts[p].issue = r /\ (Probe = "raw" => raw[p] # None \/ Running("complete", r))
    BY Zenon, <1>3, <2>1, OwnLive
  <2>3. ~Running("complete", r) /\ raw' = raw
    BY Zenon, <1>1, <1>2, Finishing DEF Kinds
  <2> QED BY Zenon, <1>3, <2>1, <2>2, <2>3 DEF LiveStart, InFlight, Idle, Running
<1>11. (Exact /\ Undisturbed) => OwnEntry(r)'
  <2> SUFFICES ASSUME Exact, Undisturbed PROVE OwnEntry(r)'
    BY Zenon
  <2>1. handler[c].owner \in {Worker, r}
    BY Zenon, <1>1, <1>2 DEF PairInv, RunOwner
  <2>2. starts[p] # None => /\ starts[p].insert \in {None, r} /\ starts[p].issue \in {None, r}
                            /\ starts[p].owner \in {Worker, r}
    BY Zenon, <1>3, OwnLive
  <2> QED BY Zenon, <1>5, <1>7, <2>1, <2>2 DEF OwnEntry
<1>12. StartKept(r)
  BY Zenon, <1>8, <1>9, <1>10, <1>11 DEF StartKept
<1> QED BY Zenon, <1>1, <1>2, <1>7, <1>12, FinishPairs

(* An issue removes the start of r, or makes it the start of r; when the map is
   full there was none.                                                     *)
LEMMA FinishIssuePairs ==
  ASSUME Types, PairInv, NEW c \in Contexts, FinishIssue(c)
  PROVE  PairInv'
<1>1. "issue" \in Kinds /\ Finish(c, "issue") /\ handler[c] # None
  BY Zenon DEF Kinds, FinishIssue, Finish
<1>2. PICK r \in Requests : r = handler[c].request
  BY Zenon, <1>1, RunType
<1> DEFINE p == PtrOf[r]
           s == [insert |-> IF starts[p] = None THEN None ELSE starts[p].insert,
                 insert_ts |-> IF starts[p] = None THEN 0 ELSE starts[p].insert_ts,
                 issue |-> r, issue_ts |-> handler[c].ts, owner |-> handler[c].owner]
<1>3. /\ p \in Ptrs /\ life' = life /\ life[r] = "issued" /\ InFlight(r)' /\ InFlight(r) /\ Alone(r)
      /\ raw' = raw /\ (Probe = "raw" => raw[p] # None)
  <2>1. /\ p \in Ptrs /\ life' = life /\ raw' = raw /\ InFlight(r) /\ Alone(r) /\ Running("issue", r)
    BY Zenon, <1>1, <1>2, Finishing
  <2>2. life[r] = "issued" /\ (Probe = "raw" => raw[p] # None)
    BY Zenon, <2>1 DEF PairInv, RunOK
  <2>3. InFlight(r)'
    BY Zenon, <2>1, <2>2 DEF InFlight
  <2> QED BY Zenon, <2>1, <2>2, <2>3
<1>4. \/ starts' = [starts EXCEPT ![p] = None]
      \/ starts' = starts /\ starts[p] = None
      \/ starts' = [starts EXCEPT ![p] = s]
  BY Zenon, <1>2 DEF FinishIssue, RemoveStart, StoreIssue, HasRoom
<1>5. /\ s.insert = IF starts[p] = None THEN None ELSE starts[p].insert
      /\ s.issue = r /\ s.owner = handler[c].owner
  BY Zenon
<1>6. starts \in [Ptrs -> BlockStart \cup {None}]
  BY Zenon DEF Types
<1> HIDE DEF s
<1>7. (\A x \in Ptrs \ {p} : starts'[x] = starts[x]) /\ (starts'[p] = None \/ starts'[p] = s)
  BY Zenon, <1>3, <1>4, <1>6
<1>8. OwnStart(r)'
  BY Zenon, <1>5, <1>7 DEF OwnStart
<1>9. Occupied(p)'
  BY Zenon, <1>3 DEF Occupied
<1>10. LiveStart(p)'
  BY Zenon, <1>3, <1>5, <1>7 DEF LiveStart, InFlight, Idle, Running
<1>11. (Exact /\ Undisturbed) => OwnEntry(r)'
  <2> SUFFICES ASSUME Exact, Undisturbed PROVE OwnEntry(r)'
    BY Zenon
  <2>1. handler[c].owner \in {Worker, r}
    BY Zenon, <1>1, <1>2 DEF PairInv, RunOwner
  <2>2. starts[p] # None => starts[p].insert \in {None, r}
    BY Zenon, <1>3, OwnLive
  <2> QED BY Zenon, <1>5, <1>7, <2>1, <2>2 DEF OwnEntry
<1>12. StartKept(r)
  BY Zenon, <1>8, <1>9, <1>10, <1>11 DEF StartKept
<1> QED BY Zenon, <1>1, <1>2, <1>7, <1>12, FinishPairs

(* A completion leaves no start and has its own. *)
LEMMA FinishCompletePairs ==
  ASSUME TypeInv, PairInv, NEW c \in Contexts, NEW slow \in BOOLEAN, FinishComplete(c, slow)
  PROVE  PairInv' /\ JoinedOK'
<1> USE DEF TypeInv, TypeOK
<1>1. "complete" \in Kinds /\ Finish(c, "complete") /\ handler[c] # None /\ handler[c].kind = "complete"
  BY Zenon DEF Kinds, FinishComplete, Finish
<1>2. PICK r \in Requests : r = handler[c].request
  BY Zenon, <1>1, RunType
<1> DEFINE p == PtrOf[r]
<1>3. /\ p \in Ptrs /\ life' = life /\ failed' = failed /\ InFlight(r)
      /\ raw' = raw /\ raw[p] = None /\ Running("complete", r) /\ ~Running("issue", r)
      /\ missed' = missed /\ merged' = merged /\ (Undisturbed' <=> Undisturbed)
  BY Zenon, <1>1, <1>2, Finishing DEF PairInv, RunOK, Kinds
<1>4. starts \in [Ptrs -> BlockStart \cup {None}]
  BY Zenon DEF Types
<1>5. (\A x \in Ptrs \ {p} : starts'[x] = starts[x]) /\ starts'[p] = None
  BY Zenon, <1>2, <1>3, <1>4 DEF FinishComplete, RemoveStart
<1>6. StartKept(r)
  BY Zenon, <1>3, <1>5 DEF StartKept, OwnStart, LiveStart, Occupied, OwnEntry
<1>7. PairInv'
  BY Zenon, <1>1, <1>2, <1>5, <1>6, FinishPairs
<1>8. ASSUME joined' # None
      PROVE  /\ starts[p] # None /\ starts[p].issue_ts # 0
             /\ joined' = [request |-> r, insert |-> starts[p].insert, issue |-> starts[p].issue,
                           owner |-> starts[p].owner, error |-> handler[c].error]
  BY Zenon, <1>2, <1>8 DEF FinishComplete
<1>9. ASSUME joined' # None
      PROVE  /\ joined'.request = r /\ joined'.insert = starts[p].insert
             /\ joined'.issue = starts[p].issue /\ joined'.owner = starts[p].owner
             /\ joined'.error = handler[c].error
             /\ starts[p] # None /\ starts[p].issue # None
  <2>1. starts[p] # None /\ starts[p].issue # None
    BY Zenon, <1>3, <1>8, <1>9 DEF StartsOK
  <2> QED BY <1>8, <1>9, <2>1
<1>10. OwnIssue'
  <2> SUFFICES ASSUME Exact, missed = 0 \/ (missed = 1 /\ merged = 0), joined' # None
               PROVE  joined'.issue = joined'.request
    BY Zenon, <1>3 DEF OwnIssue, Exact
  <2> QED BY Zenon, <1>3, <1>9 DEF PairInv, OwnStart
<1>11. OwnInserter'
  <2> SUFFICES ASSUME Exact, Undisturbed, joined' # None
               PROVE  /\ joined'.insert \in {None, joined'.request}
                      /\ joined'.owner \in {Worker, joined'.request}
    BY Zenon, <1>3 DEF OwnInserter, Exact
  <2> QED BY Zenon, <1>3, <1>9 DEF PairInv, OwnEntry
<1>12. FailureKept'
  <2> SUFFICES ASSUME Probe = "raw", missed = 0, joined' # None
               PROVE  joined'.error = failed'[joined'.request]
    BY Zenon, <1>3 DEF FailureKept
  <2> QED BY Zenon, <1>1, <1>2, <1>3, <1>9 DEF PairInv, RunError
<1> QED BY Zenon, <1>7, <1>10, <1>11, <1>12 DEF JoinedOK

(* A merged request leaves its entry behind, to which no claim extends. *)
LEMMA MergePairs ==
  ASSUME Types, PairInv, NEW r \in Requests, Merge(r)
  PROVE  PairInv'
<1>1. /\ life[r] = "queued" /\ Idle(r) /\ life' = [life EXCEPT ![r] = "done"] /\ merged' = merged + 1
      /\ UNCHANGED <<todo, failed, missed, refused, raw, starts, handler>>
  BY Zenon DEF Merge
<1>2. life'[r] = "done" /\ (\A q \in Requests \ {r} : life'[q] = life[q]) /\ merged' # 0
  BY <1>1 DEF Types
<1>3. Alone(r)
  BY Zenon, <1>1 DEF Alone, PairInv, OneUser, InFlight
<1>4. Frame(r) /\ Mono /\ ~Undisturbed'
  BY Zenon, <1>1, <1>2, SkipRuns DEF Frame, Mono, Undisturbed
<1>5. OneRun' /\ \A k \in Kinds : ~Running(k, r)'
  BY Zenon, <1>1, SkipRuns, IdleNotRunning DEF PairInv
<1>6. Kept(r)
  BY Zenon, <1>2, <1>4, <1>5 DEF Kept, RunOK, RawExact, OwnStart, Kinds
<1>7. ASSUME Probe = "raw", missed' = 0, NEW d \in Contexts PROVE RunError(d)'
  BY Zenon, <1>1, <1>7 DEF PairInv, RunError
<1>8. KeptOwn(r)
  BY Zenon, <1>2, <1>4, <1>5, <1>6, <1>7 DEF KeptOwn
<1> QED BY Zenon, <1>3, <1>4, <1>8, StepKeeps

-----------------------------------------------------------------------------
(* Every behaviour *)

(* PairInv holds of the empty maps. *)
LEMMA InitPairs ==
  ASSUME Init
  PROVE  PairInv /\ JoinedOK
<1>1. /\ \A c \in Contexts : handler[c] = None
      /\ \A p \in Ptrs : raw[p] = None /\ starts[p] = None
      /\ \A r \in Requests : life[r] = "idle" /\ PtrOf[r] \in Ptrs
      /\ joined = None
  BY Zenon, ConstantsAssumption DEF Init
<1>2. \A r \in Requests : ~InFlight(r) /\ \A k \in Kinds : ~Running(k, r)
  BY Zenon, <1>1 DEF InFlight, Idle, Running
<1>3. OneRun /\ OneUser
  BY Zenon, <1>1, <1>2 DEF OneRun, OneUser
<1>4. \A r \in Requests : RunOK(r) /\ RawExact(r) /\ OwnStart(r) /\ RawThere(r) /\ OwnEntry(r)
  BY Zenon, <1>1, <1>2 DEF RunOK, RawExact, OwnStart, RawThere, OwnEntry, Kinds
<1>5. \A p \in Ptrs : LiveStart(p) /\ Occupied(p)
  BY Zenon, <1>1 DEF LiveStart, Occupied
<1>6. \A c \in Contexts : RunError(c) /\ RunOwner(c)
  BY Zenon, <1>1 DEF RunError, RunOwner
<1> QED BY Zenon, <1>1, <1>3, <1>4, <1>5, <1>6 DEF PairInv, JoinedOK, OwnIssue, OwnInserter, FailureKept

(* Every step of the probe preserves PairInv. *)
LEMMA NextPairs ==
  ASSUME TypeInv, PairInv, JoinedOK, [Next]_vars
  PROVE  PairInv' /\ JoinedOK'
<1>1. Types
  BY DEF TypeInv, TypeOK
<1>2. joined' = None => JoinedOK'
  BY Zenon DEF JoinedOK, OwnIssue, OwnInserter, FailureKept
<1>3. ASSUME UNCHANGED <<life, todo, failed, merged, missed, refused, raw, starts, handler>>
      PROVE  PairInv'
  <2>1. \A r \in Requests : /\ InFlight(r)' <=> InFlight(r)
                            /\ \A k \in Kinds : Running(k, r)' <=> Running(k, r)
    BY Zenon, <1>3 DEF InFlight, Idle, Running
  <2>2. OneRun' /\ (Exact' <=> Exact) /\ (Exact => OneUser')
    BY Zenon, <1>3, <2>1 DEF OneRun, Exact, OneUser, PairInv
  <2>3. \A r \in Requests : /\ RunOK(r) => RunOK(r)'
                            /\ RawExact(r) => RawExact(r)'
                            /\ OwnStart(r) => OwnStart(r)'
                            /\ RawThere(r) => RawThere(r)'
                            /\ OwnEntry(r) => OwnEntry(r)'
    BY Zenon, <1>3, <2>1 DEF RunOK, RawExact, OwnStart, RawThere, OwnEntry, Kinds
  <2>4. \A p \in Ptrs : (LiveStart(p) => LiveStart(p)') /\ (Occupied(p) => Occupied(p)')
    BY Zenon, <1>3, <2>1 DEF LiveStart, Occupied, InFlight, Idle, Running
  <2>5. \A c \in Contexts : (RunError(c) => RunError(c)') /\ (RunOwner(c) => RunOwner(c)')
    BY Zenon, <1>3 DEF RunError, RunOwner
  <2> QED BY Zenon, <1>3, <2>2, <2>3, <2>4, <2>5 DEF PairInv, Undisturbed
<1>4. ASSUME NEW c \in Contexts, Process(c) PROVE PairInv' /\ JoinedOK'
  <2>1. CASE FinishInsert(c)
    BY Zenon, <1>1, <1>2, <2>1, FinishInsertPairs DEF FinishInsert
  <2>2. CASE FinishIssue(c)
    BY Zenon, <1>1, <1>2, <2>2, FinishIssuePairs DEF FinishIssue
  <2>3. ASSUME NEW slow \in BOOLEAN, FinishComplete(c, slow) PROVE PairInv' /\ JoinedOK'
    BY Zenon, <2>3, FinishCompletePairs
  <2> QED BY Zenon, <1>4, <2>1, <2>2, <2>3 DEF Process
<1>5. ASSUME NEW c \in Contexts, NEW r \in Requests, Fire(c, r) PROVE PairInv' /\ JoinedOK'
  <2>1. ASSUME NEW who \in {r, Worker}, FireInsert(c, r, who) PROVE PairInv' /\ JoinedOK'
    BY Zenon, <1>1, <1>2, <2>1, FireInsertPairs DEF FireInsert
  <2>2. ASSUME NEW who \in {r, Worker}, FireIssue(c, r, who) PROVE PairInv' /\ JoinedOK'
    BY Zenon, <1>1, <1>2, <2>2, FireIssuePairs DEF FireIssue
  <2>3. ASSUME NEW bytes \in 0 .. Size[r], NEW error \in BOOLEAN, FireComplete(c, r, bytes, error)
        PROVE  PairInv' /\ JoinedOK'
    BY Zenon, <1>1, <1>2, <2>3, FireCompletePairs DEF FireComplete
  <2> QED BY Zenon, <1>5, <2>1, <2>2, <2>3 DEF Fire
<1>6. ASSUME NEW r \in Requests, Merge(r) PROVE PairInv' /\ JoinedOK'
  BY Zenon, <1>1, <1>2, <1>6, MergePairs DEF Merge
<1>7. CASE Activate
  BY Zenon, <1>2, <1>3, <1>7 DEF Activate, layer
<1>8. CASE Drain
  BY Zenon, <1>2, <1>3, <1>8 DEF Drain, layer
<1>9. CASE UNCHANGED vars
  <2>1. JoinedOK'
    BY Zenon, <1>9 DEF JoinedOK, OwnIssue, OwnInserter, FailureKept, Exact, Undisturbed, vars
  <2> QED BY Zenon, <1>3, <1>9, <2>1 DEF vars
<1> QED BY Zenon, <1>4, <1>5, <1>6, <1>7, <1>8, <1>9 DEF Next

(* The strengthening of OwnIssue, OwnInserter, NoLeak, RemainingExact and
   FailureKept that every step preserves: which request each entry of
   BLOCK_STARTS and RAW_COMPLETIONS, and each program run, belongs to.      *)
THEOREM PairingInvariant == Spec => [](PairInv /\ JoinedOK)
<1>1. TypeInv /\ PairInv /\ JoinedOK /\ [Next]_vars => (PairInv /\ JoinedOK)'
  BY Zenon, NextPairs
<1>2. Init => PairInv /\ JoinedOK
  BY Zenon, InitPairs
<1> QED BY <1>1, <1>2, TypeInvariant, PTL DEF Spec

(* process_block counts and reports a completion with the issue of its own
   request, for every number of requests, pointers, CPUs and map sizes.     *)
THEOREM OwnIssueCorrect == Spec => []OwnIssue
<1>1. JoinedOK => OwnIssue
  BY Zenon DEF JoinedOK
<1> QED BY <1>1, PairingInvariant, PTL

(* The insert and the issuer process_block keeps for a request are its own. *)
THEOREM OwnInserterCorrect == Spec => []OwnInserter
<1>1. JoinedOK => OwnInserter
  BY Zenon DEF JoinedOK
<1> QED BY <1>1, PairingInvariant, PTL

(* A raw completion is reported failed exactly when a part of it failed.    *)
THEOREM FailureCorrect == Spec => []FailureKept
<1>1. JoinedOK => FailureKept
  BY Zenon DEF JoinedOK
<1> QED BY <1>1, PairingInvariant, PTL

(* BLOCK_STARTS and RAW_COMPLETIONS keep nothing for finished requests.     *)
THEOREM NoLeakCorrect == Spec => []NoLeak
<1>1. PairInv => NoLeak
  BY Zenon DEF PairInv, NoLeak, Occupied
<1> QED BY <1>1, PairingInvariant, PTL

(* CompletionState::advance is never given more bytes than it expects.      *)
THEOREM RemainingCorrect == Spec => []RemainingExact
<1>1. PairInv => RemainingExact
  BY Zenon DEF PairInv, RemainingExact, RawExact
<1> QED BY <1>1, PairingInvariant, PTL

(* process_block joins a completion with the issue, the insert and the issuer
   of its own request. *)
THEOREM JoinsCorrect == Spec => []JoinsAreOwn
<1>1. OwnIssue /\ OwnInserter => JoinsAreOwn
  BY Zenon DEF JoinsAreOwn
<1> QED BY <1>1, OwnIssueCorrect, OwnInserterCorrect, PTL

(* RAW_COMPLETIONS and the counters account for every request, where the three
   counters of the balance are followed. *)
THEOREM AccountsCorrect == ASSUME Followed PROVE Spec => []AccountsAreExact
<1>1. RemainingExact /\ FailureKept /\ CountersBalance => AccountsAreExact
  BY Zenon DEF AccountsAreExact
<1> QED BY <1>1, RemainingCorrect, FailureCorrect, BalanceCorrect, PTL
=============================================================================
