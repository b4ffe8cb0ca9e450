----------------------------- MODULE MCBlockProbe -----------------------------
(* Small instances of BlockProbe. *)
EXTENDS BlockProbe, TLC

MCPtrs == {"p", "q"}
\* Two requests reuse p, a third holds the other pointer.
MCPtrOf == (1 :> "p") @@ (2 :> "p") @@ (3 :> "q")
MCSize == (1 :> 2) @@ (2 :> 1) @@ (3 :> 0)

\* The third request, which is there to fill the maps, is issued once.
MCAttempts == (1 :> 2) @@ (2 :> 2) @@ (3 :> 1)

\* One CPU without interrupts.
MCTask == {"c1"}
MCOneCpu == "c1" :> "c1"
MCOneAbove == "c1" :> {}

\* Generation 1 records slow and failed requests of request 2 and of workers;
\* generation 2 only counts, but counts everyone's.
MCConfigOf ==
  (1 :> [mode |-> "balanced", accepts |-> {2, Worker}, include_errors |-> TRUE])
  @@ (2 :> [mode |-> "basic", accepts |-> Owners, include_errors |-> FALSE])
=============================================================================
