---------------------------- MODULE ProbeToAnalysis ----------------------------
(***************************************************************************)
(* The block probes and the analysis engine's request correlator, joined   *)
(* by the ring buffer.  The collector turns each ring record into an Event *)
(* record, and collector, ADB and desktop keep their order, so a record    *)
(* leaves the ring when AnalysisEngine::ingest hands it to the correlator. *)
(***************************************************************************)
EXTENDS BlockProbe

CONSTANT Ttl  (* ttl_ns of the correlator *)

VARIABLES
  inserted, pending, ambiguous, device_pending, expired, replaced,  (* RequestCorrelator *)
  returned,  (* what the latest call of on_complete returned           *)
  carried,   (* requests that were in flight when a generation changed *)
  requeued   (* requests inserted or issued again after an issue       *)

Correlator == INSTANCE RequestCorrelator WITH
  Keys <- Ptrs, KeyOf <- PtrOf, Devices <- {"device"}, DeviceOf <- [p \in Ptrs |-> "device"],
  Exclusive <- Probe # "hash", MaxTime <- 0, MaxSkew <- 0, MaxAttempts <- 0, MaxLost <- 0,
  now <- clock, stamp <- [r \in Requests |-> 0], lost <- 0

correlator == <<inserted, pending, ambiguous, device_pending, expired, replaced>>
allvars == <<vars, correlator, returned, carried, requeued>>

AnalysisInit ==
  /\ Init
  /\ inserted = [p \in Ptrs |-> None] /\ pending = [p \in Ptrs |-> None]
  /\ ambiguous = [p \in Ptrs |-> None] /\ device_pending = [d \in {"device"} |-> 0]
  /\ expired = 0 /\ replaced = 0
  /\ returned = None
  /\ carried = {} /\ requeued = {}

\* AnalysisEngine::ingest of the record at the head of the ring.
Ingest(e) ==
  CASE e.kind = "insert" -> Correlator!OnInsert(e.request, e.ts)
    [] e.kind = "issue" -> Correlator!OnIssue(e.request, e.ts)
    [] e.kind = "complete" -> Correlator!OnComplete(e.request, e.ts)

Deliver == Drain /\ Ingest(Head(ring)) /\ UNCHANGED <<carried, requeued>>

ProbeStep ==
  /\ \/ \E c \in Contexts : Process(c) \/ \E r \in Requests : Fire(c, r)
     \/ \E r \in Requests : Merge(r)
  /\ requeued' = requeued \cup
       {r \in Requests : life[r] = "issued" /\ attempts'[r] # attempts[r]}
  /\ returned' = None
  /\ UNCHANGED <<correlator, carried>>

Switch ==
  /\ Activate
  /\ carried' = carried \cup {r \in Requests : InFlight(r)}
  /\ returned' = None
  /\ UNCHANGED <<correlator, requeued>>

AnalysisNext == Deliver \/ ProbeStep \/ Switch
AnalysisSpec == AnalysisInit /\ [][AnalysisNext]_allvars

-----------------------------------------------------------------------------
(* Properties *)

Delivered(kind) == ring # <<>> /\ ring' = Tail(ring) /\ Head(ring).kind = kind
Lossless == Undisturbed /\ total["ring_reserve_failures"] = 0
Correlated(r) == returned' # None /\ returned'.issue.request = r

(* With request pointers and no loss, a completion that process_block reports
   is correlated by the analysis engine with the issue the kernel joined it
   with, unless a request with its pointer was requeued or was in flight when
   a generation changed.                                                    *)
DetailCorrelated ==
  [][Delivered("complete") /\ Exact /\ Lossless
         /\ (\A q \in carried \cup requeued : PtrOf[q] # PtrOf[Head(ring).request])
       => Correlated(Head(ring).request)]_allvars

=============================================================================
