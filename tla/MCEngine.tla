------------------------------- MODULE MCEngine -------------------------------
(***************************************************************************)
(* Small instances of the analysis engine: a graph built from nodes and    *)
(* edges in any order, a request explained from the index, measures that   *)
(* depend on the order of the stream, the lines of a session, and the      *)
(* attribution of requests that reuse an identity.  A behaviour runs one   *)
(* part; the others stay in a fixed initial state.                         *)
(***************************************************************************)
EXTENDS Naturals, TLC

CONSTANTS None

VARIABLES
  part,
  graph,
  io, files, observations, nodes,
  latest, window, streams, reported, history,
  file,
  now, lives, open, ended, lost, pending, completed, last, windows, origins, edges, from, cache,
  slow, shown, uncorrelated

evidenceVars == <<io, files, observations, nodes>>
streamVars == <<latest, window, streams, reported, history>>
lifeVars == <<now, lives, open, ended, lost, pending, completed, last, windows, origins, edges, from,
              cache, slow, shown, uncorrelated>>

G == INSTANCE GraphConstruction WITH
  Nodes <- [id \in 1 .. 3 |->
              CASE id = 1 -> {[additive |-> a, file |-> "f"] : a \in BOOLEAN}
                [] id = 2 -> {[additive |-> TRUE, file |-> "f"]}
                [] id = 3 -> {[additive |-> TRUE, file |-> None]}],
  Request <- 3, Spans <- {<<0, 2>>, <<1, 2>>, <<1, 1>>, <<2, 1>>},
  EdgeKinds <- {[confidence |-> 3, marks |-> {}], [confidence |-> 3, marks |-> {"inferred_path"}],
                [confidence |-> 0, marks |-> {"incomplete"}]},
  MaxEdges <- 3

Request == [id |-> "r", insert |-> None, issue |-> 3, end |-> 5, measured |-> TRUE,
            operation |-> "read", bytes |-> 1, pid |-> 1, tid |-> 1, sector |-> 9,
            foreign |-> FALSE]
Times == {<<0, 2>>, <<2, 4>>, <<6, 6>>, <<1, 8>>}

V == INSTANCE EvidenceIndex WITH
  Near <- 1, PathWindow <- 2, SpanTags <- 2, Second <- 3, LongBuckets <- 2, MaxEvidence <- 3,
  Completed <- {Request, [Request EXCEPT !.insert = 2], [Request EXCEPT !.foreign = TRUE]},
  FileIos <- {[start |-> t[1], end |-> t[2], operation |-> "read", bytes |-> 1,
               pid |-> w[1], tid |-> w[2], buffered |-> TRUE, identity |-> w[3], path |-> w[4]] :
                t \in Times,
                w \in {<<1, 0, None, None>>, <<2, 1, None, None>>,
                       <<1, 0, [inode |-> "i", generation |-> None], "p">>,
                       <<2, 2, [inode |-> "i", generation |-> None], "p">>,
                       <<2, 2, [inode |-> "i", generation |-> 1], "q">>}},
  Observations <- {[start |-> t[1], end |-> t[2], layer |-> l, request |-> w[1],
                    confidence |-> w[2], operation |-> None, sector |-> w[3], bytes |-> 1,
                    pid |-> w[4], tid |-> 0] :
                     t \in Times \ {<<0, 2>>}, l \in {5, 8},
                     w \in {<<"r", 3, None, 2>>, <<None, 3, 9, 2>>, <<None, 0, None, 2>>,
                            <<"s", 3, 9, 1>>}},
  Origins <- {[n |-> 1, id |-> <<"origin">>, start |-> 3, end |-> 3,
               file |-> [inode |-> "i", generation |-> g], path |-> p, pid |-> 2, tid |-> 0,
               operation |-> None] : g \in {None, 1}, p \in {None, "o"}}

M == INSTANCE StreamMetrics WITH
  last <- latest, shown <- reported,
  Devices <- {"d"}, Operations <- {"r", "w"}, Sectors <- {0, 1}, Payloads <- {1, None},
  Times <- {0, 1, 2}, Length <- 1, Observations <- 2, MaxEvents <- 4

L == INSTANCE SessionLines WITH MaxLine <- 2, Persisted <- 1, MaxBytes <- 7

A == INSTANCE RequestLifetimes WITH
  nodes <- origins, Near <- 1, PathWindow <- 2, SpanTags <- 2, Bios <- {1},
  Files <- {[inode |-> "f", generation |-> None], [inode |-> "g", generation |-> None]},
  Ttl <- 1, Incomplete <- {FALSE}, Kept <- 2, Drained <- 1, MaxCached <- 1,
  MaxTime <- 3, MaxLives <- 3, MaxOrigins <- 3, MaxLost <- 1

Init ==
  /\ G!Init /\ V!Init /\ M!Init /\ L!Init /\ A!Init
  /\ part \in {"graph", "evidence", "streams", "lines", "lives"}
  /\ part # "evidence" => io = Request

Graph == part = "graph" /\ G!Next
         /\ UNCHANGED <<part, evidenceVars, streamVars, file, lifeVars>>
Evidence == part = "evidence" /\ V!Next
         /\ UNCHANGED <<part, graph, streamVars, file, lifeVars>>
Stream == part = "streams" /\ M!Next
         /\ UNCHANGED <<part, graph, evidenceVars, file, lifeVars>>
Line == part = "lines" /\ L!Next
         /\ UNCHANGED <<part, graph, evidenceVars, streamVars, lifeVars>>
Life == part = "lives" /\ A!Next
         /\ UNCHANGED <<part, graph, evidenceVars, streamVars, file>>

Next == Graph \/ Evidence \/ Stream \/ Line \/ Life

vars == <<part, graph, evidenceVars, streamVars, file, lifeVars>>
Spec == Init /\ [][Next]_vars

-----------------------------------------------------------------------------
(* IoTransactionGraph answers what was asked of it. *)
GraphIsSound == part = "graph" => G!GraphIsSound
(* transaction_for looks at all evidence and claims no more than it says. *)
ExplanationIsHonest == part = "evidence" => V!ExplanationIsHonest
(* Rates are of their device, patterns of their device and operation. *)
StreamsAreApart == part = "streams" => M!StreamsAreApart
(* SessionReader: a bad line costs only itself. *)
LinesAreIndependent == part = "lines" => L!LinesAreIndependent
(* A request is attributed to the files of this use of its identity. *)
AttributionIsOwn == part = "lives" => A!AttributionIsOwn
=============================================================================
