---------------------------- MODULE MCCaptureControl ----------------------------
(***************************************************************************)
(* The collector's loop (AgentLoop) and its configuration (CaptureControl), *)
(* one of them in a behaviour.                                              *)
(***************************************************************************)
EXTENDS AgentLoop, CaptureControl

VARIABLE part

all == <<part, loopVars, vars>>

MCMaps == 1 .. 2
MCTight == [m \in MCMaps |-> 6 - 2 * m]
MCOne(v) == [m \in MCMaps |-> IF m = 1 THEN {v} ELSE {}]
MCRequests ==
  {[mode |-> "balanced", keys |-> [m \in MCMaps |-> {"v"}], trigger |-> TRUE],
   [mode |-> "deep", keys |-> MCOne("w"), trigger |-> TRUE]}

InitBoth == part \in {"loop", "filters"} /\ LoopInit /\ Init

InLoop == part = "loop" /\ UNCHANGED <<part, vars>>
InFilters == part = "filters" /\ UNCHANGED <<part, loopVars>>

NextBoth ==
  \/ InLoop /\ LoopNext
  \/ InFilters /\ Next

(* Weak fairness of what the code schedules: see FairLoopSpec in AgentLoop and
   BusySpec in CaptureControl.                                              *)
SpecBoth ==
  /\ InitBoth /\ [][NextBoth]_all
  /\ WF_all(InLoop /\ Loop) /\ WF_all(InLoop /\ ControlThreadEnds)
  /\ WF_all(InFilters /\ Command) /\ WF_all(InFilters /\ Window)
  /\ WF_all(InFilters /\ IngestAck)
  /\ WF_all(InFilters /\ \E p99 \in {"low", "high"} : Complete(p99, TRUE))

=============================================================================
