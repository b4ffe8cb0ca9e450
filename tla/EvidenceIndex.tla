------------------------------ MODULE EvidenceIndex ------------------------------
(***************************************************************************)
(* transaction_for and pipeline_for (crates/protocol/src/lib.rs): the      *)
(* engine builds the graph of a request from what AnalysisIndex returns    *)
(* for it, by request, process, thread, sector, inode and second, rather   *)
(* than from all the evidence.  The properties compare what is built with  *)
(* what all the evidence would say.                                        *)
(***************************************************************************)
EXTENDS RequestGraph

CONSTANTS
  Completed,     (* the completed requests that may be asked about           *)
  FileIos, Observations, Origins,    (* the evidence that may arrive         *)
  Second,        (* instants to a bucket of the index                        *)
  LongBuckets,   (* buckets an entry may fill: 120                           *)
  MaxEvidence

VARIABLES
  io, files, observations,
  nodes       (* origins of the request, with an exact edge to it            *)

vars == <<io, files, observations, nodes>>

Init ==
  /\ io \in Completed
  /\ files = {} /\ observations = {} /\ nodes = {}

(* ingest of FileIo: the operation is also a syscall span. *)
SyscallSpan(f) ==
  [start |-> f.start, end |-> f.end, layer |-> 0, request |-> None, confidence |-> Probable,
   operation |-> f.operation, sector |-> None, bytes |-> f.bytes, pid |-> f.pid, tid |-> f.tid]

Room ==
  Cardinality(files) + Cardinality(nodes)
    + Cardinality(observations \ {SyscallSpan(f) : f \in files}) < MaxEvidence

IngestFile ==
  \E f \in FileIos :
    /\ Room
    /\ files' = files \cup {f}
    /\ observations' = IF f.end >= f.start THEN observations \cup {SyscallSpan(f)}
                       ELSE observations
    /\ UNCHANGED <<io, nodes>>

IngestPipeline ==
  \E o \in Observations :
    Room /\ observations' = observations \cup {o} /\ UNCHANGED <<io, files, nodes>>

(* ingest of RequestOrigin: a bio is linked to the request once. *)
IngestOrigin ==
  \E n \in Origins :
    /\ Room
    /\ \A v \in nodes : v.id # n.id
    /\ nodes' = nodes \cup {n}
    /\ UNCHANGED <<io, files, observations>>

Next == IngestFile \/ IngestPipeline \/ IngestOrigin
Spec == Init /\ [][Next]_vars

-----------------------------------------------------------------------------
(* time_buckets: at most one more than an entry may fill. *)
TimeBuckets(start, end) ==
  IF end < start THEN {}
  ELSE start \div Second .. Smaller(end \div Second, start \div Second + LongBuckets)
Long(start, end) == Cardinality(TimeBuckets(start, end)) > LongBuckets

\* Looks only at the seconds the request itself was in.
OwnTimeBuckets(r) == Since(r) \div Second .. r.end \div Second

(* request_time_buckets *)
RequestTimeBuckets(r) ==
  IF r.foreign THEN {} ELSE Monus(Since(r), Near) \div Second .. (r.end + Near) \div Second

(* AnalysisIndex::build and the lookups of transaction_for. *)
InTime(r, start, end) ==
  ~Long(start, end) /\ TimeBuckets(start, end) \cap RequestTimeBuckets(r) # {}

IndexedFiles(r) ==
  {f \in files : \/ Long(f.start, f.end)
                 \/ InTime(r, f.start, f.end) /\ (f.pid = r.pid \/ (f.tid # 0 /\ f.tid = r.tid))
                 \/ f.identity # None /\ f.identity.inode \in {n.file.inode : n \in nodes}}

IndexedObservations(r) ==
  {o \in observations :
     \/ Long(o.start, EndOf(o))
     \/ o.request = r.id
     \/ InTime(r, o.start, EndOf(o)) /\ (o.pid = r.pid \/ o.sector = r.sector
                                           \/ o.confidence = ContextOnly)}

(* The exact edge that ingest of RequestOrigin adds with each origin. *)
OriginEdges ==
  {[n |-> n.n, id |-> <<20, n.id>>, from |-> n.id, to |-> RequestNode, confidence |-> Exact,
    marks |-> {}] : n \in nodes}

(* transaction_for *)
TransactionFor(r) ==
  BuildTransactionGraph(r, IndexedFiles(r), IndexedObservations(r), nodes, OriginEdges)

-----------------------------------------------------------------------------
(* The index is only a shortcut: a request is explained as if all the      *)
(* evidence of the session had been looked through.                        *)
IndexMissesNothing ==
  ~io.foreign =>
  /\ Chosen(io, IndexedObservations(io)) = Chosen(io, observations)
  /\ FileCandidates(io, IndexedFiles(io)) = FileCandidates(io, files)
  /\ \A n \in nodes : PathCandidates(io, n, IndexedFiles(io)) = PathCandidates(io, n, files)

(* build_transaction_graph: a request is laid at the door of a file        *)
(* operation only if no other operation of the session could have caused   *)
(* it, and no origin was observed directly.                                *)
ProbableFileIsUnique(g) ==
  <<"file">> \in NodeIds(g) =>
    /\ Cardinality(FileCandidates(io, files)) = 1
    /\ ~\E e \in g.edges : e.confidence = Exact /\ e.to = RequestNode
                             /\ Node(g, e.from).file # None

(* inferred_origin_path: a path that was looked up is one that every       *)
(* operation on the inode agrees on, or every one that spans the origin,   *)
(* and an origin with such a path is no longer exact.                      *)
PathIsNeverInvented(g) ==
  ~io.foreign =>
      \A n \in nodes :
        LET shown == Node(g, n.id).path
            all == {f \in files : /\ f.identity # None /\ Compatible(f.identity, n.file)
                                  /\ f.path # None
                                  /\ Meets(f.start, f.end, Monus(Since(io), PathWindow),
                                           io.end + PathWindow)}
            spanning == {f \in all : Contemporary(n, f)}
        IN  n.path = None /\ shown # None =>
              /\ {shown} \in {{f.path : f \in all}, {f.path : f \in spanning}}
              /\ \A o \in FileOriginsFor(g, RequestNode) : n.id \in o.nodes => o.confidence < Exact

(* build_io_pipeline: only an observation that names the request makes an  *)
(* exact span or stretches the request's time; the rest of the time is     *)
(* accounted or not, once.                                                 *)
ExactSpansNameTheRequest(p) ==
  LET named == {o \in observations : Named(io, o)}
  IN  /\ \A s \in p.spans : s.confidence = Exact /\ s.layer \notin {BlockQueue, BlockDevice} =>
           \E o \in named : o.layer = s.layer /\ o.start = s.start /\ EndOf(o) = s.end
      /\ p.start \in {Since(io)} \cup {o.start : o \in named}
      /\ p.end \in {io.end} \cup {EndOf(o) : o \in named}
      /\ p.accounted = Cardinality((p.start .. p.end - 1)
           \cap Instants({<<s.start, s.end>> : s \in {s \in p.spans : s.confidence # ContextOnly}}))

(* The chain of upper spans ends in the request, the chain of lower spans  *)
(* starts there, as long as the tags of their edges are distinct and no    *)
(* span starts after its successor has ended.                              *)
SpansAreLinked(g) ==
  ~io.foreign =>
  LET spans == {n \in g.nodes : n.id[1] = "span"}
      orderly == \A a, b \in g.nodes : a.start <= b.end
  IN  Cardinality(spans) <= SpanTags /\ orderly =>
        \A n \in spans : Reachable(g, n.id, RequestNode) \/ Reachable(g, RequestNode, n.id)

(* transaction_for: the explanation of a request is of all the evidence    *)
(* there is for it and claims no more than that does, in its file, its     *)
(* paths and its spans, and no span of it is left aside.                   *)
GraphIsHonest(g) == ProbableFileIsUnique(g) /\ PathIsNeverInvented(g) /\ SpansAreLinked(g)

ExplanationIsHonest ==
  /\ IndexMissesNothing
  /\ ExactSpansNameTheRequest(Pipeline(io, IndexedObservations(io)))
  /\ GraphIsHonest(TransactionFor(io))
=============================================================================
