--------------------------- MODULE GraphConstruction ---------------------------
(***************************************************************************)
(* An IoTransactionGraph as its callers build it: add_node and add_edge in *)
(* any order, with whatever the evidence says, refusals ignored.  The      *)
(* properties compare what metrics and file_origins_for answer with        *)
(* definitions that say what was asked.                                    *)
(***************************************************************************)
EXTENDS TransactionGraph

CONSTANTS
  Nodes,       (* identities: a function to the possible [additive, file]    *)
  Request,     (* the node file_origins_for is asked about                   *)
  Spans,       (* the intervals <<start, end>> offered, of either order      *)
  EdgeKinds,   (* [confidence, marks] of the edges offered                   *)
  MaxEdges     (* bound on the edges offered                                 *)

VARIABLE graph

Init == graph = NewGraph

(* add_node with an interval of any order: one that ends before it starts  *)
(* is refused, as is a known identity.                                     *)
OfferNode ==
  \E id \in DOMAIN Nodes, span \in Spans : \E is \in Nodes[id] :
    graph' = AddNode(graph, [id |-> id, start |-> span[1], end |-> span[2],
                             additive |-> is.additive, file |-> is.file])

(* add_edge between any two identities.                                    *)
OfferEdge ==
  \E from, to \in DOMAIN Nodes, kind \in EdgeKinds :
    /\ Cardinality(graph.edges) < MaxEdges
    /\ graph' = AddEdge(graph, [id |-> <<from, to>>, from |-> from, to |-> to,
                                confidence |-> kind.confidence, marks |-> kind.marks])

Next == OfferNode \/ OfferEdge
Spec == Init /\ [][Next]_graph

-----------------------------------------------------------------------------
(* What is asked of the graph. *)

Ids == NodeIds(graph)
Joined(Keep(_), a, b) == {e \in graph.edges : e.from = a /\ e.to = b /\ Keep(e)}
Paths(Keep(_)) ==
  {p \in UNION {[1 .. k -> Ids] : k \in 1 .. Cardinality(Ids)} :
     /\ \A i, j \in DOMAIN p : p[i] = p[j] => i = j
     /\ \A i \in 1 .. Len(p) - 1 : Joined(Keep, p[i], p[i + 1]) # {}}
Weight(weights, p) == FoldLeft(LAMBDA sum, id : sum + weights[id], 0, p)
WeakestOn(p) == Min({Exact} \cup
  UNION {{e.confidence : e \in Joined(Every, p[i], p[i + 1])} : i \in 1 .. Len(p) - 1})

(* add_edge: whatever is offered, the edges that were accepted order the   *)
(* nodes, so that nothing causes itself.                                   *)
CausesAreOrdered ==
  \E rank \in [Ids -> 1 .. Cardinality(Ids)] : \A e \in graph.edges : rank[e.from] < rank[e.to]

(* metrics: accounted time is the time some additive node covers, and the  *)
(* intervals reported as unaccounted are exactly the rest of the total.    *)
TimeIsAccountedOnce ==
  graph.nodes # {} =>
    LET gaps == ToSet(Uncovered(graph))
        covered == Instants(AdditiveIntervals(graph))
    IN  /\ Accounted(graph) = Cardinality(covered)
        /\ Instants(gaps) = (Start(graph) .. End(graph) - 1) \ covered
        /\ Unaccounted(graph) = Cardinality(Instants(gaps))

(* longest_path: the critical path is a chain of causal edges, it weighs   *)
(* what is claimed, and no chain weighs more, in whatever order the hash   *)
(* map yields the roots.                                                   *)
CriticalPathIsLongest ==
  graph.nodes # {} =>
    LET weights == ExclusiveTimes(graph)
        chains == Paths(Causal)
        longest == Max({Weight(weights, p) : p \in chains})
    IN  \A order \in SetToSeqs(Ids) :
          LET critical == LongestPath(graph, weights, order)
          IN  /\ critical.value = longest
              /\ critical.path \in chains
              /\ Weight(weights, critical.path) = longest

(* metrics: exclusive times on one causal chain never overlap, so the      *)
(* critical path never claims more than the accounted time.                *)
CriticalPathFits ==
  graph.nodes # {} =>
    LongestPath(graph, ExclusiveTimes(graph), SetToSeq(Ids)).value <= Accounted(graph)

(* file_origins_for: a file is an origin exactly if a node of it leads to  *)
(* the request; its confidence is that of the best way, a way being as     *)
(* good as its weakest edge; and a mark of incompleteness anywhere above   *)
(* the request is never lost.                                              *)
OriginsFollowTheBestWay ==
  Request \in Ids =>
    LET origins == FileOriginsFor(graph, Request)
        above == {p \in Paths(Every) : p[Len(p)] = Request}
        From(f) == {p \in above : Node(graph, p[1]).file = f}
        files == {Node(graph, p[1]).file : p \in above} \ {None}
    IN  /\ {o.file : o \in origins} = files
        /\ Cardinality(origins) = Cardinality(files)
        /\ \A o \in origins :
             /\ o.confidence = Max({Worth(graph, p[1], WeakestOn(p)) : p \in From(o.file)})
             /\ o.incomplete <=> \E e \in graph.edges :
                  "incomplete" \in e.marks /\ \E p \in above : p[1] = e.to

(* IoTransactionGraph answers what was asked of it, in whatever order it   *)
(* was built: its causes are ordered, every instant is accounted once, the *)
(* critical path is a longest one and fits the accounted time, and origins *)
(* are given by the best way that leads to the request.                    *)
GraphIsSound ==
  /\ CausesAreOrdered
  /\ TimeIsAccountedOnce
  /\ CriticalPathIsLongest
  /\ CriticalPathFits
  /\ OriginsFollowTheBestWay
=============================================================================
