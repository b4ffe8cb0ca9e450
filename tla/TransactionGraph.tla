---------------------------- MODULE TransactionGraph ----------------------------
(***************************************************************************)
(* IoTransactionGraph (crates/protocol/src/lib.rs): the causal graph of    *)
(* one block request.  A graph is a record of nodes and edges, built by    *)
(* add_node and add_edge, which refuse what would make it inconsistent;    *)
(* metrics and file_origins_for read it.                                   *)
(*                                                                         *)
(* A node is [id, start, end, additive, file]: `end` is end_or_start, and  *)
(* only a UIC context node is not additive.  An edge is [id, from, to,     *)
(* confidence, marks], confidences are their ranks, and `marks` holds the  *)
(* two evidence types that change what an origin is worth.                 *)
(***************************************************************************)
EXTENDS Integers, Sequences, FiniteSets, FiniteSetsExt, SequencesExt, Intervals

CONSTANTS None

Exact == 3
Probable == 2
ProbableAsync == 1
ContextOnly == 0
Confidences == ContextOnly .. Exact

(* IoTransactionGraph::new *)
NewGraph == [nodes |-> {}, edges |-> {}]
NodeIds(g) == {n.id : n \in g.nodes}
Node(g, id) == CHOOSE n \in g.nodes : n.id = id
Duration(n) == n.end - n.start
Interval(n) == <<n.start, n.end>>

(* add_node *)
AddNode(g, node) ==
  IF node.end < node.start \/ node.id \in NodeIds(g) THEN g
  ELSE [g EXCEPT !.nodes = @ \cup {node}]

(* Everything reached from a node along edges that pass Keep: the search   *)
(* of reachable, and of metrics for the causal descendants.                *)
Reached(g, start, Keep(_)) ==
  LET steps[k \in 0 .. Cardinality(g.nodes)] ==
        IF k = 0 THEN {start}
        ELSE LET before == steps[k - 1]
             IN  before \cup {e.to : e \in {e \in g.edges : e.from \in before /\ Keep(e)}}
  IN  steps[Cardinality(g.nodes)]

Every(edge) == TRUE
Causal(edge) == edge.confidence # ContextOnly

\* Looks at the direct successors only.
NextTo(g, start, target) == target = start \/ \E e \in g.edges : e.from = start /\ e.to = target

(* reachable *)
Reachable(g, start, target) == target \in Reached(g, start, Every)

(* add_edge *)
RefusesEdge(g, edge) ==
  \/ edge.id \in {e.id : e \in g.edges}
  \/ {edge.from, edge.to} \ NodeIds(g) # {}
  \/ Node(g, edge.from).start > Node(g, edge.to).end
  \/ edge.from = edge.to
  \/ Reachable(g, edge.to, edge.from)

AddEdge(g, edge) == IF RefusesEdge(g, edge) THEN g ELSE [g EXCEPT !.edges = @ \cup {edge}]

-----------------------------------------------------------------------------
(* file_origins_for: every (node, confidence) pair reached backwards, the  *)
(* confidence being the weakest edge on the way.                           *)

Ways(Join(_, _), g, id) ==
  LET Back(ways) == ways \cup
        {<<p[1].from, Join(p[2][2], p[1].confidence)>> :
           p \in {p \in g.edges \X ways : p[1].to = p[2][1]}}
      steps[k \in 0 .. Cardinality(g.nodes)] ==
        IF k = 0 THEN {<<id, Exact>>} ELSE Back(steps[k - 1])
  IN  steps[Cardinality(g.nodes)]

\* The last edge walked decides, whatever came before it.
LatestWays(g, id) == Ways(Latest, g, id)

WeakestWays(g, id) == Ways(Smaller, g, id)

\* A path that was looked up rather than recorded is at most probable.
Worth(g, node, confidence) ==
  IF \E e \in g.edges : e.from = node /\ "inferred_path" \in e.marks
  THEN Smaller(confidence, Probable) ELSE confidence

Best(g, ways) == Max({Worth(g, w[1], w[2]) : w \in ways})

\* The origin that these ways lead to, all of one file.
Origin(g, f, ways, best, incomplete) ==
  [file |-> f, confidence |-> best, incomplete |-> incomplete,
   nodes |-> {w[1] : w \in {w \in ways : Worth(g, w[1], w[2]) = best}}]

OriginsAlong(g, ways) ==
  LET incomplete == \E e \in g.edges : e.to \in {w[1] : w \in ways} /\ "incomplete" \in e.marks
      Of(f) == {w \in ways : w[1] \in NodeIds(g) /\ Node(g, w[1]).file = f}
      Found(f) == Origin(g, f, Of(f), Best(g, Of(f)), incomplete)
  IN  {Found(n.file) : n \in {n \in g.nodes : n.file # None /\ \E w \in ways : w[1] = n.id}}

FileOriginsFor(g, id) == OriginsAlong(g, WeakestWays(g, id))

-----------------------------------------------------------------------------
(* metrics *)

Additive(g) == {n \in g.nodes : n.additive}
AdditiveIntervals(g) == {Interval(n) : n \in Additive(g)}
Start(g) == Min({n.start : n \in g.nodes})
End(g) == Max({n.end : n \in g.nodes})
Total(g) == End(g) - Start(g)
Accounted(g) == Smaller(UnionDuration(AdditiveIntervals(g)), Total(g))
Unaccounted(g) == Total(g) - Accounted(g)
Uncovered(g) == UncoveredIntervals(Start(g), End(g), AdditiveIntervals(g))

\* The part of a node's interval that none of its causal descendants covers.
Children(g, node, ids) ==
  {i \in {<<Larger(c.start, node.start), Smaller(c.end, node.end)>> :
            c \in {c \in Additive(g) : c.id \in ids \ {node.id}}} : i[2] >= i[1]}

\* Discounts only the immediate children.
ExclusiveOfChildren(g, node) ==
  IF ~node.additive THEN 0
  ELSE Duration(node) - UnionDuration(Children(g, node,
         {e.to : e \in {e \in g.edges : e.from = node.id /\ Causal(e)}}))

Exclusive(g, node) ==
  IF ~node.additive THEN 0
  ELSE Larger(0, Duration(node)
                   - UnionDuration(Children(g, node, Reached(g, node.id, Causal))))

ExclusiveTimes(g) == [id \in NodeIds(g) |-> Exclusive(g, Node(g, id))]

(* longest_path, for the order `queue` in which the roots are met: Kahn's  *)
(* order, with the best score and the predecessor that gave it.            *)
RelaxBy(Better(_, _), g, weights, s, id) ==
  LET base == IF id \in DOMAIN s.score THEN s.score[id] ELSE weights[id]
      scored == [s EXCEPT !.score = [n \in DOMAIN @ \cup {id} |-> IF n = id THEN base ELSE @[n]]]
      Visit(t, e) ==
        LET candidate == base + weights[e.to]
            better == Better(candidate, IF e.to \in DOMAIN t.score THEN t.score[e.to] ELSE 0)
            degree == t.indegree[e.to] - 1
        IN  [queue    |-> IF degree = 0 THEN Append(t.queue, e.to) ELSE t.queue,
             indegree |-> [t.indegree EXCEPT ![e.to] = degree],
             score    |-> IF ~better THEN t.score
                          ELSE [n \in DOMAIN t.score \cup {e.to} |->
                                  IF n = e.to THEN candidate ELSE t.score[n]],
             previous |-> IF ~better THEN t.previous
                          ELSE [n \in DOMAIN t.previous \cup {e.to} |->
                                  IF n = e.to THEN id ELSE t.previous[n]]]
  IN  FoldLeft(Visit, [scored EXCEPT !.queue = Tail(@)],
               SetToSeq({e \in g.edges : e.from = id /\ Causal(e)}))

Unset(candidate, known) == known = 0
Greater(candidate, known) == candidate > known

\* The first predecessor to reach a node decides its score.
RelaxOnce(g, weights, s, id) == RelaxBy(Unset, g, weights, s, id)

Relax(g, weights, s, id) == RelaxBy(Greater, g, weights, s, id)

LongestPath(g, weights, queue) ==
  LET start == [queue    |-> SelectSeq(queue, LAMBDA id : \A e \in g.edges : e.to = id => ~Causal(e)),
                indegree |-> [id \in NodeIds(g) |->
                                Cardinality({e \in g.edges : e.to = id /\ Causal(e)})],
                score    |-> <<>>, previous |-> <<>>]
      rounds[k \in 0 .. Cardinality(g.nodes)] ==
        IF k = 0 THEN start
        ELSE LET before == rounds[k - 1]
             IN  IF before.queue = <<>> THEN before ELSE Relax(g, weights, before, Head(before.queue))
      done == rounds[Cardinality(g.nodes)]
      value == Max({done.score[id] : id \in DOMAIN done.score})
      last == CHOOSE id \in DOMAIN done.score : done.score[id] = value
      back[k \in 1 .. Cardinality(g.nodes)] ==
        IF k = 1 THEN <<last>>
        ELSE LET path == back[k - 1]
             IN  IF Head(path) \in DOMAIN done.previous
                 THEN <<done.previous[Head(path)]>> \o path ELSE path
  IN  [path |-> back[Cardinality(g.nodes)], value |-> value]
=============================================================================
