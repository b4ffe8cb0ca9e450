------------------------------ MODULE RequestGraph ------------------------------
(***************************************************************************)
(* How the analysis explains one completed request from the evidence of a  *)
(* session (crates/protocol/src/lib.rs): build_io_pipeline and             *)
(* build_transaction_graph_refs.                                           *)
(*                                                                         *)
(* A request is [id, insert, issue, end, measured, operation, bytes, pid,  *)
(* tid, sector, foreign], a file operation [start, end, operation, bytes,  *)
(* pid, tid, buffered, identity, path], an observation [start, end, layer, *)
(* request, confidence, operation, sector, bytes, pid, tid]; what is not   *)
(* known is None.  Identities are [inode, generation].                     *)
(***************************************************************************)
EXTENDS TransactionGraph

CONSTANTS
  Near,       (* the window around a request: 10 ms                          *)
  PathWindow, (* how far a path may be looked up: 30 s                       *)
  SpanTags    (* edge tags kept for spans: those from 64 up to 90            *)

(* PipelineLayer, in its order. *)
Bio == 5
BlockQueue == 6
BlockDevice == 7
UicContext == 11

Since(io) == IF io.insert # None THEN io.insert ELSE io.issue
Monus(a, b) == IF a >= b THEN a - b ELSE 0
EndOf(o) == IF o.end # None THEN o.end ELSE o.start
Meets(start, end, from, to) == start <= to /\ end >= from

-----------------------------------------------------------------------------
(* build_io_pipeline: which observations belong to the request. *)

Named(io, o) == o.request = io.id

Relevant(io, o) ==
  /\ ~io.foreign
  /\ EndOf(o) >= o.start
  /\ o.operation \in {None, io.operation}
  /\ o.request \in {None, io.id}
  /\ \/ Named(io, o)
     \/ /\ o.confidence = ContextOnly
        /\ Meets(o.start, EndOf(o), Monus(Since(io), Near), io.end + Near)
     \/ /\ o.confidence # ContextOnly
        /\ Meets(o.start, EndOf(o), Since(io), io.end)
        /\ \/ o.sector = io.sector /\ o.bytes = io.bytes
           \/ o.pid = io.pid /\ o.tid \in {0, io.tid}

\* Observations named by the request exclude the others of their layer.
Chosen(io, observations) ==
  LET candidates == {o \in observations : Relevant(io, o)}
      exactLayers == {o.layer : o \in {o \in candidates : Named(io, o)}}
  IN  {o \in candidates : Named(io, o) \/ o.layer \notin exactLayers}

\* A join by sector or thread keeps the confidence of the observation.
JoinIsExact(io, o) == o.confidence

SpanConfidence(io, o) ==
  IF Named(io, o) /\ o.confidence # ContextOnly THEN Exact
  ELSE Smaller(o.confidence, Probable)

Spans(io, observations) ==
  {[layer |-> o.layer, start |-> o.start, end |-> EndOf(o), observed |-> o.end # None,
    confidence |-> SpanConfidence(io, o)] : o \in Chosen(io, observations)}
  \cup (IF io.insert = None THEN {}
        ELSE {[layer |-> BlockQueue, start |-> io.insert, end |-> io.issue, observed |-> TRUE,
               confidence |-> IF io.foreign THEN Probable ELSE Exact]})
  \cup {[layer |-> BlockDevice, start |-> io.issue, end |-> io.end, observed |-> io.measured,
         confidence |-> IF io.foreign THEN Probable ELSE Exact]}

Pipeline(io, observations) ==
  LET spans == Spans(io, observations)
      exact == {s \in spans : s.confidence = Exact}
      start == Min({s.start : s \in exact} \cup {Since(io)})
      end == Max({s.end : s \in exact} \cup {io.end})
      additive == {i \in {<<Larger(s.start, start), Smaller(s.end, end)>> :
                            s \in {s \in spans : s.confidence # ContextOnly}} : i[2] >= i[1]}
      accounted == Smaller(UnionDuration(additive), Monus(end, start))
  IN  [spans |-> spans, start |-> start, end |-> end, accounted |-> accounted,
       unaccounted |-> Monus(end, start) - accounted]

-----------------------------------------------------------------------------
(* inferred_origin_path: the path of an origin that was recorded without   *)
(* one, from file operations on the same inode.                            *)

(* file_identities_compatible *)
Compatible(a, b) == a.inode = b.inode /\ (None \in {a.generation, b.generation}
                                            \/ a.generation = b.generation)

PathCandidates(io, node, files) ==
  {f \in files : /\ f.identity # None /\ Compatible(f.identity, node.file)
                 /\ f.path # None
                 /\ f.start <= io.end + PathWindow /\ f.end + PathWindow >= Since(io)}

Contemporary(node, f) ==
  /\ f.start <= node.start /\ f.end >= node.start
  /\ node.pid \in {0, f.pid} /\ node.tid \in {0, f.tid}
  /\ node.operation \in {None, f.operation}

\* Takes the latest record without asking whether the paths agree.
LatestPath(io, node, files) ==
  LET candidates == PathCandidates(io, node, files)
  IN  IF candidates = {} THEN None
      ELSE (CHOOSE f \in candidates : \A g \in candidates : f.end >= g.end).path

InferredOriginPath(io, node, files) ==
  LET candidates == PathCandidates(io, node, files)
      spanning == {f \in candidates : Contemporary(node, f)}
      eligible == IF spanning = {} THEN candidates ELSE spanning
      paths == {f.path : f \in eligible}
  IN  IF node.file # None /\ Cardinality(paths) = 1 THEN CHOOSE p \in paths : TRUE ELSE None

-----------------------------------------------------------------------------
(* build_transaction_graph_refs *)

RequestNode == <<"request">>
QueueNode == <<"queue">>

GraphNode(id, start, end, additive, file, path) ==
  [id |-> id, start |-> start, end |-> end, additive |-> additive, file |-> file, path |-> path]
GraphEdge(id, from, to, confidence, marks) ==
  [id |-> id, from |-> from, to |-> to, confidence |-> confidence, marks |-> marks]

Core(io) ==
  LET request == AddNode(NewGraph,
        GraphNode(RequestNode, io.issue, IF io.measured THEN io.end ELSE io.issue, TRUE, None, None))
      queued == AddNode(request, GraphNode(QueueNode, io.insert, io.issue, TRUE, None, None))
  IN  IF io.insert = None THEN request
      ELSE AddEdge(queued, GraphEdge(<<18>>, QueueNode, RequestNode,
                                     IF io.foreign THEN Probable ELSE Exact, {}))

(* The file operation that may have caused the request: only if there is   *)
(* just one, and no origin that was observed exactly.  An operation never  *)
(* completes more bytes than it requested.                                 *)
HasExactOrigin(nodes, edges) ==
  \E e \in edges : /\ e.to = RequestNode /\ e.confidence = Exact
                   /\ \E n \in nodes : n.id = e.from /\ n.file # None

FileCandidates(io, files) ==
  {f \in files : /\ f.operation = io.operation
                 /\ Meets(f.start, f.end, Monus(Since(io), Near), io.end + Near)
                 /\ f.bytes >= io.bytes
                 /\ f.pid = io.pid \/ (f.tid # 0 /\ f.tid = io.tid)}

\* Takes one of several operations that could have caused the request.
WithAnyFile(g, io, files, nodes, edges) ==
  LET candidates == FileCandidates(io, files)
      f == CHOOSE f \in candidates : TRUE
  IN  IF HasExactOrigin(nodes, edges) \/ candidates = {} THEN g
      ELSE AddEdge(AddNode(g, GraphNode(<<"file">>, f.start, f.end, TRUE, f.identity, f.path)),
                   GraphEdge(<<19>>, <<"file">>, RequestNode, Probable, {}))

WithFile(g, io, files, nodes, edges) ==
  LET candidates == FileCandidates(io, files)
      f == CHOOSE f \in candidates : TRUE
      async == f.buffered /\ Since(io) > f.end
      added == AddNode(g, GraphNode(<<"file">>, f.start, f.end, TRUE, f.identity, f.path))
  IN  IF HasExactOrigin(nodes, edges) \/ Cardinality(candidates) # 1 \/ added = g THEN g
      ELSE AddEdge(added, GraphEdge(<<19>>, <<"file">>, RequestNode,
                                    IF async THEN ProbableAsync ELSE Probable, {}))

(* The spans above the block layer form a chain that ends in the request,  *)
(* those below it a chain that starts there.                               *)
SpanOrder(a, b) ==
  \/ a.layer < b.layer
  \/ a.layer = b.layer /\ Before(<<a.start, a.end>>, <<b.start, b.end>>)

\* The upper chain always ends in the queue.
EntersQueue(io) == QueueNode

Entry(io) == IF io.insert # None THEN QueueNode ELSE RequestNode

\* A span becomes a node after the last one of its side.
Placed(c, s, id, edge, added) ==
  LET upper == s.layer <= Bio
      prior == IF upper THEN c.upper ELSE c.lower
      this == [id |-> id, confidence |-> s.confidence]
  IN  IF added = c.g THEN c
      ELSE [g |-> IF prior = None THEN added
                  ELSE AddEdge(added, GraphEdge(edge, prior.id, id, s.confidence, {})),
            upper |-> IF upper THEN this ELSE c.upper,
            lower |-> IF upper THEN c.lower ELSE this,
            first |-> IF ~upper /\ c.first = None THEN this ELSE c.first]

Chained(g, spans) ==
  LET Chain(c, k) ==
        Placed(c, spans[k], <<"span", k>>, <<64, k - 1>>,
               AddNode(c.g, GraphNode(<<"span", k>>, spans[k].start,
                                      IF spans[k].observed THEN spans[k].end ELSE spans[k].start,
                                      spans[k].layer # UicContext, None, None)))
  IN  FoldLeft(Chain, [g |-> g, upper |-> None, lower |-> None, first |-> None],
               [k \in DOMAIN spans |-> k])

Joined(g, last, edge, from, to) ==
  IF last = None THEN g ELSE AddEdge(g, GraphEdge(edge, from, to, last.confidence, {}))

Attached(c, io) ==
  Joined(Joined(c.g, c.upper, <<64, SpanTags>>, c.upper.id, Entry(io)),
         c.first, <<64, SpanTags + 1>>, RequestNode, c.first.id)

WithSpans(g, io, observations) ==
  Attached(Chained(g, SetToSortSeq({s \in Spans(io, observations) :
                                      s.layer \notin {BlockQueue, BlockDevice}}, SpanOrder)), io)

(* The nodes and edges that were recorded for this request. *)
WithRecorded(g, io, files, nodes, edges) ==
  LET Path(n) == IF n.path # None THEN n.path ELSE InferredOriginPath(io, n, files)
      inferred == {n.id : n \in {n \in nodes : n.path = None /\ Path(n) # None}}
      Put(h, n) == AddNode(h, GraphNode(n.id, n.start, n.end, TRUE, n.file, Path(n)))
      Link(h, e) == AddEdge(h, [e EXCEPT !.marks =
                      IF e.from \in inferred THEN @ \cup {"inferred_path"} ELSE @])
      Plain(e) == GraphEdge(e.id, e.from, e.to, e.confidence, e.marks)
      placed == FoldLeft(Put, g, SetToSortSeq(nodes, LAMBDA a, b : a.n < b.n))
      ordered == SetToSortSeq(edges, LAMBDA a, b : a.n < b.n)
  IN  FoldLeft(Link, placed, [k \in DOMAIN ordered |-> Plain(ordered[k])])

BuildTransactionGraph(io, files, observations, nodes, edges) ==
  IF io.foreign THEN Core(io)
  ELSE WithRecorded(WithSpans(WithFile(Core(io), io, files, nodes, edges), io, observations),
                    io, files, nodes, edges)
=============================================================================
