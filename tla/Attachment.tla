------------------------------ MODULE Attachment ------------------------------
(***************************************************************************)
(* What the collector attaches, and what it says of it                     *)
(* (crates/android-agent/src/main.rs: capabilities, capture up to the      *)
(* Capabilities record; raw_block.rs; probe_order.rs).                     *)
(*                                                                         *)
(* capabilities() finds which layouts the kernel offers, lists the layers  *)
(* and plans a probe for each.  capture() then attaches program by         *)
(* program, and any attachment may fail: a mandatory one ends the capture, *)
(* an optional one changes the plan.  Requests, calls and bios pass        *)
(* through whatever is attached while this goes on.                        *)
(***************************************************************************)
EXTENDS Naturals, Sequences, FiniteSets, SequencesExt

CONSTANTS
  Optional   (* the optional adapters a kernel may offer, of Adapters        *)

Adapters ==
  {"insert", "syscall", "identity", "host", "extent", "folio", "remap", "iowait", "ufs",
   "scsi_start", "scsi_done", "fs_start", "fs_done", "uic", "fs_context", "sched_switch"}

\* The layer of each entry of attach_plan.
LayerOf ==
  [issue |-> "BlockDevice", complete |-> "BlockDevice", insert |-> "BlockQueue",
   syscall |-> "Syscall", vfs |-> "Vfs", bio |-> "Bio", writeback |-> "Writeback",
   extent |-> "Filesystem", folio |-> "Filesystem", remap |-> "Bio",
   iowait |-> "SchedulerContext", ufs |-> "Ufs", scsi_start |-> "Scsi", scsi_done |-> "Scsi",
   fs_start |-> "Filesystem", fs_done |-> "Filesystem", uic |-> "UicContext",
   fs_context |-> "Filesystem", sched_switch |-> "SchedulerContext"]

Plans == DOMAIN LayerOf
Layers == {LayerOf[p] : p \in Plans}
PipelineProbes == <<"ufs", "scsi_start", "scsi_done", "fs_start", "fs_done">>
ContextProbes == <<"uic", "fs_context", "sched_switch">>

RawOrder == <<"raw_complete", "raw_insert", "raw_issue">>
BlockOrder == <<"complete", "issue">>
ExactOrder ==
  <<"vfs_read_exit", "vfs_read", "vfs_write_exit", "vfs_write", "submit_bio",
    "bio_to_request", "backmerge", "frontmerge">>
SyscallOrder == <<"sys_enter", "sys_exit">>

VARIABLES
  found,       (* adapters whose layout capabilities() resolved              *)
  pc,          (* the step of capture()                                      *)
  attached,    (* programs attached                                          *)
  loaded,      (* raw programs loaded                                        *)
  enabled,     (* EXACT_ATTRIBUTION_ENABLED                                  *)
  plan,        (* plan[p]: the state of entry p of attach_plan               *)
  layers,      (* pipeline_layers                                            *)
  exactFiles,  (* exact_file_attribution                                     *)
  failedOptional  (* pipeline and context probes that failed                 *)

vars == <<found, pc, attached, loaded, enabled, plan, layers, exactFiles, failedOptional>>

-----------------------------------------------------------------------------
(* capabilities().                                                         *)

\* The layout of address_space.host is part of the identity layout.
Offers == {f \in SUBSET Optional : "host" \in f => "identity" \in f}

InitialState(p, f) ==
  CASE p \in {"issue", "complete"} -> "measured"
    [] p \in {"insert", "syscall", "ufs", "scsi_start", "scsi_done", "fs_start", "fs_done"} ->
         IF p \in f THEN "measured" ELSE "unavailable"
    [] p \in {"vfs", "bio"} -> IF "identity" \in f THEN "derived" ELSE "unavailable"
    [] p = "writeback" -> IF "host" \in f THEN "derived" ELSE "unavailable"
    [] p \in {"extent", "folio", "remap", "iowait"} -> IF p \in f THEN "derived" ELSE "unavailable"
    [] p \in {"uic", "fs_context", "sched_switch"} -> IF p \in f THEN "context" ELSE "unavailable"

InitialLayers(f) ==
  {"BlockDevice"}
  \cup {LayerOf[p] : p \in f \cap {"insert", "syscall"}}
  \cup (IF "identity" \in f THEN {"Vfs", "Bio"} ELSE {})
  \cup (IF "host" \in f THEN {"Writeback"} ELSE {})
  \cup (IF f \cap {"extent", "folio"} # {} THEN {"Filesystem", "Bio"} ELSE {})
  \cup {LayerOf[p] : p \in f \cap (Range(PipelineProbes) \cup Range(ContextProbes))}

Init ==
  /\ found \in Offers
  /\ pc = "raw"
  /\ attached = {} /\ loaded = {}
  /\ enabled = FALSE
  /\ plan = [p \in Plans |-> InitialState(p, found)]
  /\ layers = InitialLayers(found)
  /\ exactFiles = FALSE
  /\ failedOptional = {}

-----------------------------------------------------------------------------
(* mark_attach_failed, mark_exact_adapter_state, mark_exact_writeback_state. *)

Available(state, layer) == \E p \in Plans : LayerOf[p] = layer /\ state[p] # "unavailable"

\* A failure that prunes the layer and leaves the entry as it was.
MarkNothing(failed, touched) ==
  /\ UNCHANGED plan
  /\ layers' = {l \in layers : l \in touched => Available(plan, l)}

Mark(failed, touched) ==
  LET state == [p \in Plans |-> IF p \in failed THEN "unavailable" ELSE plan[p]] IN
  /\ plan' = state
  /\ layers' = {l \in layers : l \in touched => Available(state, l)}

WholeLayer(p) == {q \in Plans : LayerOf[q] = LayerOf[p]}

MarkAttachFailed(p, whole) == Mark(IF whole THEN WholeLayer(p) ELSE {p}, {LayerOf[p]})

Measured(ps) ==
  /\ plan' = [p \in Plans |-> IF p \in ps THEN "measured" ELSE plan[p]]
  /\ UNCHANGED layers

-----------------------------------------------------------------------------
(* raw_block::attach: load all, attach completion first, and on any error  *)
(* unload what was loaded, last first.                                     *)

Left(order, done) == SelectSeq(order, LAMBDA p : p \notin done)

RawLoad ==
  /\ pc = "raw" /\ Left(RawOrder, loaded) # <<>>
  /\ loaded' = loaded \cup {Head(Left(RawOrder, loaded))}
  /\ UNCHANGED <<found, pc, attached, enabled, plan, layers, exactFiles, failedOptional>>

\* Issue is attached first.
NextRawIssueFirst == Last(Left(RawOrder, attached))
NextRaw == Head(Left(RawOrder, attached))

RawAttach ==
  /\ pc = "raw" /\ Left(RawOrder, loaded) = <<>> /\ Left(RawOrder, attached) # <<>>
  /\ attached' = attached \cup {NextRaw}
  /\ UNCHANGED <<found, pc, loaded, enabled, plan, layers, exactFiles, failedOptional>>

RawAttached ==
  /\ pc = "raw" /\ Range(RawOrder) \subseteq attached
  /\ pc' = "syscall"
  /\ Measured({"insert", "issue", "complete"})
  /\ UNCHANGED <<found, attached, loaded, enabled, exactFiles, failedOptional>>

\* The layout, a map, a load or an attachment failed.
RawFails ==
  /\ pc = "raw" /\ ~(Range(RawOrder) \subseteq attached)
  /\ pc' = "rollback"
  /\ UNCHANGED <<found, attached, loaded, enabled, plan, layers, exactFiles, failedOptional>>

\* Rolling back only what was attached last.
RolledBackOne == Cardinality(loaded) <= 2
RolledBack == loaded = {}

RawUnload ==
  /\ pc = "rollback" /\ ~RolledBack
  /\ LET p == Last(SelectSeq(RawOrder, LAMBDA q : q \in loaded)) IN
     /\ loaded' = loaded \ {p}
     /\ attached' = attached \ {p}
  /\ UNCHANGED <<found, pc, enabled, plan, layers, exactFiles, failedOptional>>

\* Rollback errors, and errors of mandatory probes, end the capture.
Abort ==
  /\ \/ pc = "rollback" /\ ~RolledBack
     \/ pc = "block"
  /\ pc' = "failed"
  /\ attached' = {} /\ loaded' = {}
  /\ UNCHANGED <<found, enabled, plan, layers, exactFiles, failedOptional>>

Fallback ==
  /\ pc = "rollback" /\ RolledBack
  /\ pc' = "block"
  /\ UNCHANGED <<found, attached, loaded, enabled, plan, layers, exactFiles, failedOptional>>

-----------------------------------------------------------------------------
(* attach_block_pair and the optional insert probe.                        *)

BlockAttach ==
  /\ pc = "block" /\ Left(BlockOrder, attached) # <<>>
  /\ attached' = attached \cup {Head(Left(BlockOrder, attached))}
  /\ UNCHANGED <<found, pc, loaded, enabled, plan, layers, exactFiles, failedOptional>>

InsertAttach(ok) ==
  /\ pc = "block" /\ Left(BlockOrder, attached) = <<>>
  /\ pc' = "syscall"
  /\ attached' = IF "insert" \in found /\ ok THEN attached \cup {"insert"} ELSE attached
  /\ IF "insert" \in found /\ ~ok THEN MarkAttachFailed("insert", TRUE)
     ELSE UNCHANGED <<plan, layers>>
  /\ UNCHANGED <<found, loaded, enabled, exactFiles, failedOptional>>

SyscallAttach(n) ==
  /\ pc = "syscall"
  /\ pc' = "exact"
  /\ attached' = IF "syscall" \in found THEN attached \cup Range(SubSeq(SyscallOrder, 1, n)) ELSE attached
  /\ IF "syscall" \in found /\ n < Len(SyscallOrder) THEN MarkAttachFailed("syscall", TRUE)
     ELSE UNCHANGED <<plan, layers>>
  /\ UNCHANGED <<found, loaded, enabled, exactFiles, failedOptional>>

-----------------------------------------------------------------------------
(* The exact adapter: eight hooks in order, the optional ones, then the    *)
(* switch.  A failure leaves the switch off.                               *)

Exacts == "identity" \in found

ExactAttach ==
  /\ pc = "exact" /\ Exacts /\ Left(ExactOrder, attached) # <<>>
  /\ attached' = attached \cup {Head(Left(ExactOrder, attached))}
  /\ UNCHANGED <<found, pc, loaded, enabled, plan, layers, exactFiles, failedOptional>>

\* noacct: submit_bio_noacct attached; writeback: programs of the generic
\* pair, or after them of the F2FS pair, attached.
ExactOptional(noacct, writeback) ==
  /\ pc = "exact" /\ Exacts /\ Left(ExactOrder, attached) = <<>>
  /\ "host" \notin found => writeback = {}
  /\ attached' = attached \cup writeback \cup (IF noacct THEN {"submit_bio_noacct"} ELSE {})
  /\ pc' = "enable"
  /\ UNCHANGED <<found, loaded, enabled, plan, layers, exactFiles, failedOptional>>

WritebackPairs ==
  {{"write_cache_pages_exit", "write_cache_pages"}, {"f2fs_pages_exit", "f2fs_pages"}}

ExactEnable ==
  /\ pc = "enable"
  /\ enabled' = TRUE
  /\ exactFiles' = TRUE
  /\ pc' = "extent"
  /\ LET whole == \E pair \in WritebackPairs : pair \subseteq attached
         state == [p \in Plans |->
                     CASE p \in {"vfs", "bio"} -> "measured"
                       [] p = "writeback" /\ "host" \in found ->
                            IF whole THEN "measured" ELSE "unavailable"
                       [] OTHER -> plan[p]]
     IN /\ plan' = state
        /\ layers' = {l \in layers : l = "Writeback" => Available(state, l)}
  /\ UNCHANGED <<found, attached, loaded, failedOptional>>

WritebackOutcomes ==
  {{}, {"write_cache_pages_exit", "write_cache_pages"},
   {"write_cache_pages_exit"}, {"f2fs_pages_exit"},
   {"f2fs_pages_exit", "f2fs_pages"},
   {"write_cache_pages_exit", "f2fs_pages_exit", "f2fs_pages"},
   {"write_cache_pages_exit", "f2fs_pages_exit"}}

\* A failed adapter that was switched on before its last hook.
ExactFailsEnabled ==
  /\ enabled' = TRUE
  /\ exactFiles' = FALSE
  /\ Mark({"vfs", "bio"}, {"Vfs", "Bio"})

\* A failed adapter that still promises exact files.
ExactStays ==
  /\ enabled' = FALSE
  /\ exactFiles' = TRUE
  /\ Mark({"vfs", "bio"}, {"Vfs", "Bio"})

ExactFails ==
  /\ enabled' = FALSE
  /\ exactFiles' = FALSE
  /\ Mark({"vfs", "bio"}, {"Vfs", "Bio"})

ExactFailure ==
  /\ pc \in {"exact", "enable"} /\ Exacts
  /\ ExactFails
  /\ pc' = "extent"
  /\ UNCHANGED <<found, attached, loaded, failedOptional>>

ExactSkip ==
  /\ pc = "exact" /\ ~Exacts
  /\ pc' = "extent"
  /\ UNCHANGED <<found, attached, loaded, enabled, plan, layers, exactFiles, failedOptional>>

-----------------------------------------------------------------------------
(* Extent, remap and scheduler probes: one plan entry each.                *)

After == [extent |-> "folio", folio |-> "remap", remap |-> "iowait", iowait |-> "pipeline"]

OptionalAttach(p, ok) ==
  /\ pc = p /\ p \in DOMAIN After
  /\ pc' = After[p]
  /\ attached' = IF p \in found /\ ok THEN attached \cup {p} ELSE attached
  /\ exactFiles' = (exactFiles \/ (p \in {"extent", "folio"} \cap found /\ ok))
  /\ IF p \notin found THEN UNCHANGED <<plan, layers>>
     ELSE IF ok THEN Measured({p})
     ELSE IF p = "iowait"
     THEN plan' = [plan EXCEPT ![p] = "unavailable"] /\ UNCHANGED layers
     ELSE MarkAttachFailed(p, FALSE)
  /\ UNCHANGED <<found, loaded, enabled, failedOptional>>

(* Pipeline and context probes; their failures are marked together after   *)
(* the last one.                                                           *)
Probes == PipelineProbes \o ContextProbes

PipelineAttach(oks) ==
  /\ pc = "pipeline"
  /\ pc' = "mark"
  /\ oks \subseteq found \cap Range(Probes)
  /\ attached' = attached \cup oks
  /\ failedOptional' = (found \cap Range(Probes)) \ oks
  /\ UNCHANGED <<found, loaded, enabled, plan, layers, exactFiles>>

MarkFailedOptional ==
  /\ pc = "mark"
  /\ pc' = "running"
  /\ LET whole == failedOptional \cap Range(PipelineProbes)
         hit   == UNION {WholeLayer(p) : p \in whole} \cup failedOptional
     IN Mark(hit, {LayerOf[p] : p \in failedOptional})
  /\ UNCHANGED <<found, attached, loaded, enabled, exactFiles, failedOptional>>

-----------------------------------------------------------------------------
Next ==
  \/ RawLoad \/ RawAttach \/ RawAttached \/ RawFails \/ RawUnload \/ Fallback \/ Abort
  \/ BlockAttach
  \/ \E ok \in BOOLEAN : InsertAttach(ok)
  \/ \E n \in 0 .. 2 : SyscallAttach(n)
  \/ ExactAttach
  \/ \E noacct \in BOOLEAN, writeback \in WritebackOutcomes : ExactOptional(noacct, writeback)
  \/ ExactEnable
  \/ ExactFailure
  \/ ExactSkip
  \/ \E p \in DOMAIN After, ok \in BOOLEAN : OptionalAttach(p, ok)
  \/ \E oks \in SUBSET (found \cap Range(Probes)) : PipelineAttach(oks)
  \/ MarkFailedOptional

Spec == Init /\ [][Next]_vars

-----------------------------------------------------------------------------
Raw == Range(RawOrder)
Generic == Range(BlockOrder) \cup {"insert"}

(* No request is seen twice: raw and generic block programs are never      *)
(* attached together, whatever failed and however far the rollback came    *)
(* (raw_block::attach refuses duplicate generic capture).                  *)
NoDuplicateCapture == attached \cap Raw = {} \/ attached \cap Generic = {}

(* An accepted issue already has a completion observer, at every moment of *)
(* attaching and of rolling back (probe_order.rs, raw_block.rs).           *)
CompletionBeforeIssue ==
  /\ "raw_issue" \in attached => "raw_complete" \in attached
  /\ "issue" \in attached => "complete" \in attached

(* Attribution is switched on only with every hook of the chain attached,  *)
(* and a function's entry is never observed without its exit, so that no   *)
(* file outlives its call (capture, exact adapter).                        *)
ExactChainIsWhole ==
  /\ enabled => Range(ExactOrder) \subseteq attached
  /\ "vfs_read" \in attached => "vfs_read_exit" \in attached
  /\ "vfs_write" \in attached => "vfs_write_exit" \in attached
  /\ "write_cache_pages" \in attached => "write_cache_pages_exit" \in attached

\* The programs behind an entry of the plan.
Behind(p) ==
  CASE p \in {"issue", "complete", "insert"} -> {{p}, {"raw_" \o p}}
    [] p = "syscall" -> {Range(SyscallOrder)}
    [] p \in {"vfs", "bio"} -> {Range(ExactOrder)}
    [] p = "writeback" -> {{"write_cache_pages"}, {"f2fs_pages"}}
    [] OTHER -> {{p}}

(* Once the capture runs, an entry that says Measured is attached: no      *)
(* failed attachment is reported as a measurement                          *)
(* (mark_attach_failed, mark_exact_adapter_state).                         *)
MeasuredIsAttached ==
  pc = "running" =>
    \A p \in Plans : plan[p] = "measured" => \E s \in Behind(p) : s \subseteq attached

(* What exact_file_attribution promises is there: the chain is on, or an   *)
(* extent probe is attached.                                               *)
ExactFilesIsTrue ==
  pc = "running" /\ exactFiles => enabled \/ attached \cap {"extent", "folio"} # {}

(* What capture attaches, at every moment of attaching and rolling back:   *)
(* one observer of each request, its completion before its issue,          *)
(* attribution only by a whole chain, and a plan that calls nothing        *)
(* measured that is not attached.                                          *)
AttachmentIsSound ==
  /\ NoDuplicateCapture
  /\ CompletionBeforeIssue
  /\ ExactChainIsWhole
  /\ MeasuredIsAttached
  /\ ExactFilesIsTrue
=============================================================================
