----------------------- MODULE RequestCorrelatorProofs -----------------------
(***************************************************************************)
(* Proofs about RequestCorrelator, for every set of requests, keys and     *)
(* devices, every TTL and every amount of loss.                            *)
(***************************************************************************)
EXTENDS RequestCorrelator, FiniteSetTheorems, TLAPS

(* expire_before only removes entries: what it keeps is unchanged. *)
LEMMA RetainKeeps ==
  ASSUME NEW map, NEW t, NEW k \in Keys
  PROVE  /\ Retain(map, t)[k] \in {map[k], None}
         /\ Retain(map, t)[k] # None => map[k] # None /\ Retain(map, t)[k] = map[k]
                                        /\ Keep(map[k].ts, t)
BY Zenon DEF Retain

(* The same for the ambiguous marks. *)
LEMMA RetainAmbiguousKeeps ==
  ASSUME NEW t, NEW k \in Keys
  PROVE  /\ RetainAmbiguous(t)[k] \in {ambiguous[k], None}
         /\ RetainAmbiguous(t)[k] # None => RetainAmbiguous(t)[k] = ambiguous[k]
BY Zenon DEF RetainAmbiguous

(* expire_before preserves the types of the three maps. *)
LEMMA RetainTypes ==
  ASSUME TypeOK, NEW t \in Nat
  PROVE  /\ Retain(inserted, t) \in [Keys -> Event \cup {None}]
         /\ Retain(pending, t) \in [Keys -> PendingRequest \cup {None}]
         /\ RetainAmbiguous(t) \in [Keys -> Nat \cup {None}]
BY Zenon DEF TypeOK, Retain, RetainAmbiguous

(* An entry that expire_before keeps is an entry of the map, unchanged. *)
LEMMA RetainedInsert ==
  ASSUME TypeOK, NEW t \in Nat, NEW k \in Keys, Retain(inserted, t)[k] # None
  PROVE  /\ k \in KeysIn(inserted) /\ Retain(inserted, t)[k] = inserted[k]
         /\ inserted[k] \in Event /\ inserted[k].request \in Requests
<1>1. inserted[k] # None /\ Retain(inserted, t)[k] = inserted[k]
  BY RetainKeeps, Zenon
<1>2. inserted[k] \in Event
  BY Zenon, <1>1 DEF TypeOK
<1> QED BY Zenon, <1>1, <1>2 DEF KeysIn, Event

(* An entry that expire_before retains is the pending one, unchanged and typed. *)
LEMMA RetainedPending ==
  ASSUME TypeOK, NEW t \in Nat, NEW k \in Keys, Retain(pending, t)[k] # None
  PROVE  /\ k \in KeysIn(pending) /\ Retain(pending, t)[k] = pending[k]
         /\ pending[k] \in PendingRequest /\ pending[k].request \in Requests
<1>1. pending[k] # None /\ Retain(pending, t)[k] = pending[k]
  BY RetainKeeps, Zenon
<1>2. pending[k] \in PendingRequest
  BY Zenon, <1>1 DEF TypeOK
<1> QED BY Zenon, <1>1, <1>2 DEF KeysIn, PendingRequest

(* The key sets the code iterates over are finite. *)
LEMMA KeysFinite ==
  ASSUME NEW map, NEW d
  PROVE  /\ IsFiniteSet(KeysIn(map)) /\ Cardinality(KeysIn(map)) \in Nat
         /\ IsFiniteSet(KeysOn(map, d)) /\ Cardinality(KeysOn(map, d)) \in Nat
<1>1. KeysIn(map) \subseteq Keys /\ KeysOn(map, d) \subseteq Keys
  BY Zenon DEF KeysIn, KeysOn
<1> QED
  BY Zenon, <1>1, FS_Subset, FS_CardinalityType, ConstantsAssumption

(* The keys that one map has more than another can be counted. *)
LEMMA DifferenceFinite ==
  ASSUME NEW m1, NEW m2, NEW d
  PROVE  /\ Cardinality(KeysIn(m1) \ KeysIn(m2)) \in Nat
         /\ Cardinality(KeysOn(m1, d) \ KeysOn(m2, d)) \in Nat
BY KeysFinite, FS_Difference, FS_CardinalityType, Zenon

(* The counters that expire_before adjusts keep their types. *)
LEMMA ExpireTypes ==
  ASSUME TypeOK, NEW t \in Nat
  PROVE  /\ RetainDepth(t) \in [Devices -> Nat]
         /\ ExpiredCount(t) \in Nat
<1>1. ExpiredCount(t) \in Nat
  <2> DEFINE a == Cardinality(KeysIn(inserted) \ KeysIn(Retain(inserted, t)))
             b == Cardinality(KeysIn(pending) \ KeysIn(Retain(pending, t)))
             c == Cardinality(KeysIn(ambiguous) \ KeysIn(RetainAmbiguous(t)))
  <2>1. a \in Nat /\ b \in Nat /\ c \in Nat
    BY DifferenceFinite, Zenon
  <2>2. ExpiredCount(t) = a + b + c
    BY Zenon DEF ExpiredCount
  <2> QED BY <2>1, <2>2
<1>2. RetainDepth(t) \in [Devices -> Nat]
  <2>1. ASSUME NEW d \in Devices
        PROVE  SaturatingSub(device_pending[d],
                 Cardinality(KeysOn(pending, d) \ KeysOn(Retain(pending, t), d))) \in Nat
    <3>1. Cardinality(KeysOn(pending, d) \ KeysOn(Retain(pending, t), d)) \in Nat
      BY DifferenceFinite, Zenon
    <3>2. device_pending[d] \in Nat
      BY Zenon DEF TypeOK
    <3> QED BY <3>1, <3>2 DEF SaturatingSub
  <2> QED BY Zenon, <2>1 DEF RetainDepth
<1> QED BY Zenon, <1>1, <1>2

-----------------------------------------------------------------------------
(* Type correctness *)

\* The conjuncts of TypeOK about the correlator's own fields.
CorrelatorTypeOK ==
  /\ inserted \in [Keys -> Event \cup {None}]
  /\ pending \in [Keys -> PendingRequest \cup {None}]
  /\ ambiguous \in [Keys -> Nat \cup {None}]
  /\ device_pending \in [Devices -> Nat]
  /\ expired \in Nat
  /\ replaced \in Nat
  /\ returned \in CompletedIo \cup {None}

\* The conjuncts of TypeOK about the stream.
StreamTypeOK ==
  /\ now \in Nat
  /\ life \in [Requests -> Life]
  /\ stamp \in [Requests -> Nat]
  /\ attempts \in [Requests -> Nat]
  /\ lost \in Nat

(* on_insert keeps the correlator well typed. *)
LEMMA OnInsertType ==
  ASSUME TypeOK, NEW r \in Requests, NEW ts \in Nat, OnInsert(r, ts)
  PROVE  CorrelatorTypeOK'
<1>1. KeyOf[r] \in Keys
  BY Zenon, ConstantsAssumption
<1>2. [request |-> r, ts |-> ts] \in Event
  BY Zenon DEF Event
<1>3. inserted' \in [Keys -> Event \cup {None}]
  BY Zenon, <1>1, <1>2, RetainTypes DEF OnInsert
<1>4. ambiguous' \in [Keys -> Nat \cup {None}]
  BY Zenon, <1>1, RetainTypes DEF OnInsert
<1>5. pending' \in [Keys -> PendingRequest \cup {None}]
  BY Zenon, RetainTypes DEF OnInsert
<1>6. device_pending' \in [Devices -> Nat] /\ expired' \in Nat
  BY ExpireTypes DEF OnInsert, TypeOK
<1>7. replaced' \in Nat /\ returned' \in CompletedIo \cup {None}
  BY DEF OnInsert, TypeOK
<1> QED
  BY Zenon, <1>3, <1>4, <1>5, <1>6, <1>7 DEF CorrelatorTypeOK

(* on_issue_classified keeps the correlator well typed. *)
LEMMA OnIssueType ==
  ASSUME TypeOK, NEW r \in Requests, NEW ts \in Nat, OnIssue(r, ts)
  PROVE  CorrelatorTypeOK'
<1> DEFINE key == KeyOf[r]
           device == DeviceOf[key]
           ins == Retain(inserted, ts)
           pen == Retain(pending, ts)
           amb == RetainAmbiguous(ts)
           dep == RetainDepth(ts)
           removed == pen[key] # None
           left == RemovePending(pen, key)
           depth == IF removed THEN SaturatingSub(dep[device], 1) ELSE dep[device]
           fresh == [request |-> r, ts |-> ts, insert |-> ins[key], depth |-> depth + 1,
                     queue_depth_at_issue |-> Cardinality(KeysIn(left)) + 1]
<1>1. key \in Keys /\ device \in Devices
  BY Zenon, ConstantsAssumption
<1>2. /\ ins \in [Keys -> Event \cup {None}]
      /\ pen \in [Keys -> PendingRequest \cup {None}]
      /\ amb \in [Keys -> Nat \cup {None}]
      /\ dep \in [Devices -> Nat]
      /\ ExpiredCount(ts) \in Nat
  BY Zenon, RetainTypes, ExpireTypes
<1>3. left \in [Keys -> PendingRequest \cup {None}]
  BY <1>2, Zenon DEF RemovePending
<1>4. depth \in Nat
  BY <1>1, <1>2 DEF SaturatingSub
<1>5. Cardinality(KeysIn(left)) \in Nat
  BY Zenon, KeysFinite
<1>6. fresh \in PendingRequest
  BY <1>1, <1>2, <1>4, <1>5 DEF PendingRequest
<1>7. inserted' \in [Keys -> Event \cup {None}]
  BY Zenon, <1>1, <1>2 DEF OnIssue, RemoveInserted
<1>8. pending' \in [Keys -> PendingRequest \cup {None}]
  <2>1. pending' = left \/ pending' = InsertPending(left, key, fresh)
    BY Zenon DEF OnIssue
  <2> HIDE DEF left, fresh
  <2> QED BY Zenon, <2>1, <1>3, <1>6 DEF InsertPending
<1>9. ambiguous' \in [Keys -> Nat \cup {None}]
  BY Zenon, <1>1, <1>2 DEF OnIssue
<1>10. device_pending' \in [Devices -> Nat]
  <2>1. \/ device_pending' = [dep EXCEPT ![device] = depth]
        \/ device_pending' = [dep EXCEPT ![device] = depth + 1]
    BY Zenon DEF OnIssue
  <2> HIDE DEF dep, depth
  <2> QED BY <2>1, <1>2, <1>4
<1>11. expired' \in Nat /\ replaced' \in Nat /\ returned' \in CompletedIo \cup {None}
  BY <1>2 DEF OnIssue, TypeOK
<1> QED
  BY Zenon, <1>7, <1>8, <1>9, <1>10, <1>11 DEF CorrelatorTypeOK

(* on_complete's result, with its checked subtractions resolved. *)
LEMMA CompletedUnfolds ==
  ASSUME NEW p \in PendingRequest, NEW r \in Requests, NEW ts \in Nat, NEW left
  PROVE  Completed(p, r, ts, left) =
           IF ts < p.ts THEN None
           ELSE [insert |-> p.insert,
                 issue |-> [request |-> p.request, ts |-> p.ts],
                 completion |-> [request |-> r, ts |-> ts],
                 queue_latency |-> IF p.insert = None THEN None
                                   ELSE CheckedSub(p.ts, p.insert.ts),
                 device_latency |-> ts - p.ts,
                 total_latency |-> IF p.insert = None \/ ts < p.insert.ts THEN ts - p.ts
                                   ELSE ts - p.insert.ts,
                 queue_depth_after |-> Cardinality(KeysIn(left))]
<1>1. p.ts \in Nat /\ (p.insert # None => p.insert.ts \in Nat)
  BY Zenon DEF PendingRequest, Event
<1>2. CheckedSub(ts, p.ts) = IF ts < p.ts THEN None ELSE ts - p.ts
  BY <1>1 DEF CheckedSub
<1>3. ~(ts < p.ts) => ts - p.ts # None
  BY <1>1, NoneAssumption
<1>4. ~(ts < p.ts) =>
        (IF (IF p.insert = None THEN None ELSE CheckedSub(ts, p.insert.ts)) = None
         THEN ts - p.ts ELSE (IF p.insert = None THEN None ELSE CheckedSub(ts, p.insert.ts)))
        = (IF p.insert = None \/ ts < p.insert.ts THEN ts - p.ts ELSE ts - p.insert.ts)
  <2>1. p.insert # None /\ ~(ts < p.insert.ts) => ts - p.insert.ts \in Nat
    BY <1>1
  <2> QED BY <1>1, <2>1, NoneAssumption DEF CheckedSub
<1> QED BY Zenon, <1>2, <1>3, <1>4 DEF Completed

(* What on_complete returns is a CompletedIo or None. *)
LEMMA CompletedType ==
  ASSUME NEW p \in PendingRequest, NEW r \in Requests, NEW ts \in Nat, NEW left
  PROVE  Completed(p, r, ts, left) \in CompletedIo \cup {None}
<1>1. CASE ts < p.ts
  BY Zenon, <1>1, CompletedUnfolds
<1>2. CASE ~(ts < p.ts)
  <2>1. /\ p.ts \in Nat /\ p.request \in Requests /\ p.insert \in Event \cup {None}
        /\ p.insert # None => p.insert.ts \in Nat
    BY Zenon DEF PendingRequest, Event
  <2>2. Cardinality(KeysIn(left)) \in Nat
    BY Zenon, KeysFinite
  <2>3. [request |-> p.request, ts |-> p.ts] \in Event /\ [request |-> r, ts |-> ts] \in Event
    BY Zenon, <2>1 DEF Event
  <2>4. ts - p.ts \in Nat
    BY <1>2, <2>1
  <2>5. (IF p.insert = None THEN None ELSE CheckedSub(p.ts, p.insert.ts)) \in Nat \cup {None}
    BY <2>1 DEF CheckedSub
  <2>6. (IF p.insert = None \/ ts < p.insert.ts THEN ts - p.ts ELSE ts - p.insert.ts) \in Nat
    BY <2>1, <2>4
  <2> QED BY <1>2, <2>1, <2>2, <2>3, <2>4, <2>5, <2>6, CompletedUnfolds DEF CompletedIo
<1> QED BY Zenon, <1>1, <1>2

(* on_complete keeps the correlator well typed. *)
LEMMA OnCompleteType ==
  ASSUME TypeOK, NEW r \in Requests, NEW ts \in Nat, OnComplete(r, ts)
  PROVE  CorrelatorTypeOK'
<1> DEFINE key == KeyOf[r]
           pen == Retain(pending, ts)
           left == RemovePending(pen, key)
           dep == RetainDepth(ts)
<1>1. key \in Keys /\ DeviceOf[key] \in Devices
  BY Zenon, ConstantsAssumption
<1>2. /\ pen \in [Keys -> PendingRequest \cup {None}]
      /\ left \in [Keys -> PendingRequest \cup {None}]
      /\ dep \in [Devices -> Nat]
      /\ ExpiredCount(ts) \in Nat
  BY RetainTypes, ExpireTypes, Zenon DEF RemovePending
<1>3. inserted' \in [Keys -> Event \cup {None}] /\ ambiguous' \in [Keys -> Nat \cup {None}]
  BY Zenon, <1>1, RetainTypes DEF OnComplete
<1>4. pending' \in [Keys -> PendingRequest \cup {None}]
  BY Zenon, <1>2 DEF OnComplete
<1>5. device_pending' \in [Devices -> Nat]
  <2>1. \/ device_pending' = dep
        \/ device_pending' = [dep EXCEPT ![DeviceOf[key]] = SaturatingSub(@, 1)]
    BY Zenon DEF OnComplete
  <2> QED BY <2>1, <1>1, <1>2 DEF SaturatingSub
<1>6. returned' \in CompletedIo \cup {None}
  <2>1. \/ returned' = None
        \/ pen[key] # None /\ returned' = Completed(pen[key], r, ts, left)
    BY Zenon DEF OnComplete
  <2>2. pen[key] # None => pen[key] \in PendingRequest
    BY Zenon, <1>1, <1>2
  <2> HIDE DEF pen, left
  <2> QED BY Zenon, <2>1, <2>2, CompletedType
<1>7. expired' \in Nat /\ replaced' \in Nat
  BY <1>2 DEF OnComplete, TypeOK
<1> QED
  BY Zenon, <1>3, <1>4, <1>5, <1>6, <1>7 DEF CorrelatorTypeOK

(* The timestamps an event of a request may carry are not before its last one. *)
LEMMA StampsAreNat ==
  ASSUME TypeOK, NEW r \in Requests, NEW ts \in Stamps(r)
  PROVE  ts \in Nat /\ ts >= stamp[r]
BY ConstantsAssumption DEF Stamps, TypeOK

(* The correlator starts empty and well typed. *)
LEMMA InitType == Init => TypeOK
BY DEF Init, TypeOK, Life

(* Every event and loss preserves the types. *)
LEMMA NextType == TypeOK /\ [Next]_vars => TypeOK'
<1> SUFFICES ASSUME TypeOK, [Next]_vars PROVE TypeOK'
  BY Zenon
<1>0. TypeOK' <=> StreamTypeOK' /\ CorrelatorTypeOK'
  BY Zenon DEF TypeOK, StreamTypeOK, CorrelatorTypeOK
<1>l. Lose => CorrelatorTypeOK' /\ lost' \in Nat
  BY DEF Lose, correlator, CorrelatorTypeOK, TypeOK
<1>1. ASSUME NEW r \in Requests, Insert(r) PROVE TypeOK'
  <2>1. PICK ts \in Stamps(r) : /\ stamp' = [stamp EXCEPT ![r] = ts]
                                /\ (OnInsert(r, ts) /\ UNCHANGED lost) \/ Lose
    BY <1>1, Zenon DEF Insert
  <2>2. CorrelatorTypeOK' /\ lost' \in Nat
    BY Zenon, <2>1, <1>l, OnInsertType, StampsAreNat DEF TypeOK
  <2>3. StreamTypeOK'
    BY Zenon, <1>1, <2>1, <2>2, StampsAreNat DEF Insert, StreamTypeOK, TypeOK, Life
  <2> QED BY Zenon, <1>0, <2>2, <2>3
<1>2. ASSUME NEW r \in Requests, Issue(r) PROVE TypeOK'
  <2>1. PICK ts \in Stamps(r) : /\ stamp' = [stamp EXCEPT ![r] = ts]
                                /\ (OnIssue(r, ts) /\ UNCHANGED lost) \/ Lose
    BY <1>2, Zenon DEF Issue
  <2>2. CorrelatorTypeOK' /\ lost' \in Nat
    BY Zenon, <2>1, <1>l, OnIssueType, StampsAreNat DEF TypeOK
  <2>3. StreamTypeOK'
    BY <1>2, <2>1, <2>2, StampsAreNat DEF Issue, StreamTypeOK, TypeOK, Life
  <2> QED BY Zenon, <1>0, <2>2, <2>3
<1>3. ASSUME NEW r \in Requests, Complete(r) PROVE TypeOK'
  <2>1. PICK ts \in Stamps(r) : /\ stamp' = [stamp EXCEPT ![r] = ts]
                                /\ (OnComplete(r, ts) /\ UNCHANGED lost) \/ Lose
    BY <1>3, Zenon DEF Complete
  <2>2. CorrelatorTypeOK' /\ lost' \in Nat
    BY Zenon, <2>1, <1>l, OnCompleteType, StampsAreNat DEF TypeOK
  <2>3. StreamTypeOK'
    BY Zenon, <1>3, <2>1, <2>2, StampsAreNat DEF Complete, StreamTypeOK, TypeOK, Life
  <2> QED BY Zenon, <1>0, <2>2, <2>3
<1>4. CASE Tick
  BY <1>4 DEF Tick, TypeOK, correlator
<1>5. CASE UNCHANGED vars
  BY Zenon, <1>5 DEF vars, TypeOK
<1> QED BY Zenon, <1>1, <1>2, <1>3, <1>4, <1>5 DEF Next

(* Every variable of the correlator and of the stream keeps its type. *)
THEOREM TypeCorrect == Spec => []TypeOK
BY InitType, NextType, PTL DEF Spec

-----------------------------------------------------------------------------
(* No correlated request outlives the TTL *)

\* The insert a pending request carries was within the TTL when it was issued.
InsertIsRecent ==
  \A k \in Keys : (pending[k] # None /\ pending[k].insert # None)
                   => pending[k].ts <= pending[k].insert.ts + Ttl

(* A pairing made within the TTL reports latencies within it. *)
LEMMA CompletedWithinTtl ==
  ASSUME NEW p \in PendingRequest, NEW r \in Requests, NEW ts \in Nat, NEW left,
         Keep(p.ts, ts), p.insert # None => p.ts <= p.insert.ts + Ttl,
         Completed(p, r, ts, left) # None
  PROVE  /\ Completed(p, r, ts, left).device_latency <= Ttl
         /\ Completed(p, r, ts, left).total_latency <= 2 * Ttl
<1>1. ts >= p.ts /\ p.ts \in Nat /\ Ttl \in Nat
  BY ConstantsAssumption, CompletedUnfolds DEF PendingRequest
<1>2. p.insert # None => p.insert.ts \in Nat
  BY Zenon DEF PendingRequest, Event
<1>3. ts - p.ts <= Ttl
  BY Zenon, <1>1 DEF Keep, SaturatingSub
<1>4. /\ Completed(p, r, ts, left).device_latency = ts - p.ts
      /\ Completed(p, r, ts, left).total_latency =
           IF p.insert = None \/ ts < p.insert.ts THEN ts - p.ts ELSE ts - p.insert.ts
  BY <1>1, CompletedUnfolds
<1>5. (IF p.insert = None \/ ts < p.insert.ts THEN ts - p.ts ELSE ts - p.insert.ts) <= 2 * Ttl
  BY <1>1, <1>2, <1>3
<1> QED BY Zenon, <1>3, <1>4, <1>5

(* Every event keeps pending inserts recent and reported latencies within the TTL. *)
LEMMA NextLatency ==
  TypeOK /\ InsertIsRecent /\ LatencyWithinTtl /\ [Next]_vars
    => InsertIsRecent' /\ LatencyWithinTtl'
<1> SUFFICES ASSUME TypeOK, InsertIsRecent, LatencyWithinTtl, [Next]_vars
             PROVE  InsertIsRecent' /\ LatencyWithinTtl'
  BY Zenon
<1>l. Lose => InsertIsRecent' /\ LatencyWithinTtl'
  BY Zenon DEF Lose, correlator, InsertIsRecent, LatencyWithinTtl
<1>p. ASSUME NEW ts \in Nat, NEW k \in Keys,
             pending'[k] = Retain(pending, ts)[k] \/ pending'[k] = None
      PROVE  (pending[k] # None /\ pending[k].insert # None
                => pending[k].ts <= pending[k].insert.ts + Ttl)'
  BY Zenon, <1>p, RetainKeeps DEF InsertIsRecent
<1>1. ASSUME NEW r \in Requests, Insert(r) PROVE InsertIsRecent' /\ LatencyWithinTtl'
  <2>1. PICK ts \in Stamps(r) : OnInsert(r, ts) \/ Lose
    BY Zenon, <1>1 DEF Insert
  <2>2. ts \in Nat
    BY Zenon, <2>1, StampsAreNat
  <2>3. OnInsert(r, ts) => InsertIsRecent'
    BY Zenon, <2>2, <1>p DEF OnInsert, InsertIsRecent
  <2>4. OnInsert(r, ts) => LatencyWithinTtl'
    BY Zenon DEF OnInsert, LatencyWithinTtl
  <2> QED BY Zenon, <1>l, <2>1, <2>3, <2>4
<1>2. ASSUME NEW r \in Requests, Issue(r) PROVE InsertIsRecent' /\ LatencyWithinTtl'
  <2>1. PICK ts \in Stamps(r) : OnIssue(r, ts) \/ Lose
    BY Zenon, <1>2 DEF Issue
  <2>2. ts \in Nat /\ KeyOf[r] \in Keys
    BY Zenon, <2>1, StampsAreNat, ConstantsAssumption
  <2> DEFINE ins == Retain(inserted, ts)
             pen == Retain(pending, ts)
  <2>3. ASSUME OnIssue(r, ts), NEW k \in Keys, pending'[k] # None, pending'[k].insert # None
        PROVE  pending'[k].ts <= pending'[k].insert.ts + Ttl
    <3>1. CASE k # KeyOf[r]
      <4>1. pending'[k] = pen[k]
        BY Zenon, <2>2, <2>3, <3>1, RetainTypes DEF OnIssue, RemovePending, InsertPending
      <4> QED BY Zenon, <4>1, <1>p, <2>2, <2>3
    <3>2. CASE k = KeyOf[r]
      <4>1. pending'[k].ts = ts /\ pending'[k].insert = ins[k]
        BY <2>2, <2>3, <3>2, RetainTypes DEF OnIssue, RemovePending, InsertPending
      <4>2. Keep(ins[k].ts, ts) /\ ins[k].ts \in Nat
        BY <4>1, <2>2, <2>3, RetainKeeps, RetainTypes DEF Event
      <4>3. ts <= ins[k].ts + Ttl
        BY <4>2, <2>2, ConstantsAssumption DEF Keep, SaturatingSub
      <4> QED BY Zenon, <4>1, <4>3
    <3> QED BY Zenon, <3>1, <3>2
  <2>4. OnIssue(r, ts) => InsertIsRecent'
    BY Zenon, <2>3 DEF InsertIsRecent
  <2>5. OnIssue(r, ts) => LatencyWithinTtl'
    BY Zenon DEF OnIssue, LatencyWithinTtl
  <2> QED BY Zenon, <1>l, <2>1, <2>4, <2>5
<1>3. ASSUME NEW r \in Requests, Complete(r) PROVE InsertIsRecent' /\ LatencyWithinTtl'
  <2>1. PICK ts \in Stamps(r) : OnComplete(r, ts) \/ Lose
    BY Zenon, <1>3 DEF Complete
  <2>2. ts \in Nat /\ KeyOf[r] \in Keys
    BY Zenon, <2>1, StampsAreNat, ConstantsAssumption
  <2> DEFINE pen == Retain(pending, ts)
             left == RemovePending(pen, KeyOf[r])
             p == pen[KeyOf[r]]
  <2>3. OnComplete(r, ts) => \A k \in Keys : pending'[k] = pen[k] \/ pending'[k] = None
    BY <2>2, RetainTypes DEF OnComplete, RemovePending
  <2>4. OnComplete(r, ts) => InsertIsRecent'
    BY Zenon, <2>2, <2>3, <1>p DEF InsertIsRecent
  <2>5. ASSUME OnComplete(r, ts), returned' # None
        PROVE  returned'.device_latency <= Ttl /\ returned'.total_latency <= 2 * Ttl
    <3>1. p # None /\ returned' = Completed(p, r, ts, left)
      BY Zenon, <2>5 DEF OnComplete
    <3>2. p \in PendingRequest /\ p = pending[KeyOf[r]] /\ Keep(p.ts, ts)
      BY Zenon, <3>1, <2>2, RetainTypes, RetainKeeps
    <3>3. p.insert # None => p.ts <= p.insert.ts + Ttl
      BY Zenon, <3>1, <3>2, <2>2 DEF InsertIsRecent
    <3> HIDE DEF p, left
    <3> QED BY Zenon, <3>1, <3>2, <3>3, <2>2, <2>5, CompletedWithinTtl
  <2> QED BY Zenon, <1>l, <2>1, <2>4, <2>5 DEF LatencyWithinTtl
<1>4. CASE Tick
  BY Zenon, <1>4 DEF Tick, correlator, InsertIsRecent, LatencyWithinTtl
<1>5. CASE UNCHANGED vars
  BY Zenon, <1>5 DEF vars, InsertIsRecent, LatencyWithinTtl
<1> QED BY Zenon, <1>1, <1>2, <1>3, <1>4, <1>5 DEF Next

(* Whatever the stream, a CompletedIo returned by on_complete has a device
   latency of at most ttl_ns and a total latency of at most twice that. *)
THEOREM LatencyBound == Spec => []LatencyWithinTtl
<1>1. Init => InsertIsRecent /\ LatencyWithinTtl
  BY Zenon DEF Init, InsertIsRecent, LatencyWithinTtl
<1> QED BY <1>1, NextLatency, TypeCorrect, PTL DEF Spec

-----------------------------------------------------------------------------
(* The depth counters equal the number of pending requests *)

(* expire_before decrements each device's counter by what it removed. *)
LEMMA RetainDepthMatches ==
  ASSUME TypeOK, DepthMatchesPending, NEW ts \in Nat, NEW d \in Devices
  PROVE  RetainDepth(ts)[d] = Cardinality(KeysOn(Retain(pending, ts), d))
<1> DEFINE A == KeysOn(pending, d)
           B == KeysOn(Retain(pending, ts), d)
<1>1. B \subseteq A
  BY Zenon, RetainKeeps DEF KeysOn
<1>2. IsFiniteSet(A) /\ Cardinality(A) \in Nat /\ Cardinality(B) \in Nat
  BY Zenon, KeysFinite
<1>3. Cardinality(A \ B) = Cardinality(A) - Cardinality(A \cap B) /\ A \cap B = B
  BY Zenon, <1>1, <1>2, FS_Difference
<1>4. Cardinality(A \ B) = Cardinality(A) - Cardinality(B)
  BY Zenon, <1>3
<1>5. Cardinality(A \ B) \in Nat
  BY DifferenceFinite, Zenon
<1>6. RetainDepth(ts)[d] = SaturatingSub(Cardinality(A), Cardinality(A \ B))
  BY Zenon DEF RetainDepth, DepthMatchesPending
<1> HIDE DEF A, B
<1>7. RetainDepth(ts)[d] = Cardinality(B)
  BY <1>2, <1>4, <1>5, <1>6 DEF SaturatingSub
<1> QED BY Zenon, <1>7 DEF B

(* Removing one key from a map takes one from its device and nothing from the
   others; adding an absent key does the opposite. *)
LEMMA RemoveKeyDepth ==
  ASSUME NEW map \in [Keys -> PendingRequest \cup {None}], NEW key \in Keys, NEW d
  PROVE  Cardinality(KeysOn(RemovePending(map, key), d)) =
           IF map[key] # None /\ DeviceOf[key] = d
           THEN Cardinality(KeysOn(map, d)) - 1 ELSE Cardinality(KeysOn(map, d))
<1> DEFINE A == KeysOn(map, d)
           B == KeysOn(RemovePending(map, key), d)
<1>1. IsFiniteSet(A) /\ Cardinality(A) \in Nat
  BY Zenon, KeysFinite
<1>2. CASE map[key] # None /\ DeviceOf[key] = d
  <2>1. key \in A /\ B = A \ {key}
    BY Zenon, <1>2 DEF KeysOn, RemovePending
  <2>2. Cardinality(A \ {key}) = Cardinality(A) - 1
    BY Zenon, <1>1, <2>1, FS_RemoveElement
  <2> QED BY Zenon, <1>2, <2>1, <2>2
<1>3. CASE ~(map[key] # None /\ DeviceOf[key] = d)
  <2>1. A = B
    BY Zenon, <1>3 DEF KeysOn, RemovePending
  <2> QED BY Zenon, <1>3, <2>1
<1> QED BY Zenon, <1>2, <1>3

(* A new pending key raises the depth of its own device by one and no other. *)
LEMMA AddKeyDepth ==
  ASSUME NEW map \in [Keys -> PendingRequest \cup {None}], NEW key \in Keys, NEW d,
         NEW p \in PendingRequest, map[key] = None
  PROVE  Cardinality(KeysOn(InsertPending(map, key, p), d)) =
           IF DeviceOf[key] = d
           THEN Cardinality(KeysOn(map, d)) + 1 ELSE Cardinality(KeysOn(map, d))
<1> DEFINE A == KeysOn(map, d)
           B == KeysOn(InsertPending(map, key, p), d)
<1>1. IsFiniteSet(A) /\ Cardinality(A) \in Nat /\ p # None
  BY Zenon, KeysFinite, NoneAssumption
<1>2. CASE DeviceOf[key] = d
  <2>1. key \notin A /\ B = A \cup {key}
    BY Zenon, <1>1, <1>2 DEF KeysOn, InsertPending
  <2>2. Cardinality(A \cup {key}) = Cardinality(A) + 1
    BY Zenon, <1>1, <2>1, FS_AddElement
  <2> QED BY Zenon, <1>2, <2>1, <2>2
<1>3. CASE DeviceOf[key] # d
  <2>1. A = B
    BY <1>3 DEF KeysOn, InsertPending
  <2> QED BY Zenon, <1>3, <2>1
<1> QED BY Zenon, <1>2, <1>3

(* Every event keeps the depth counters equal to the pending entries of the device. *)
LEMMA NextDepth ==
  TypeOK /\ DepthMatchesPending /\ [Next]_vars => DepthMatchesPending'
<1> SUFFICES ASSUME TypeOK, DepthMatchesPending, [Next]_vars PROVE DepthMatchesPending'
  BY Zenon
<1>l. Lose => DepthMatchesPending'
  BY Zenon DEF Lose, correlator, DepthMatchesPending, KeysOn
<1>1. ASSUME NEW r \in Requests, Insert(r) PROVE DepthMatchesPending'
  <2>1. PICK ts \in Stamps(r) : OnInsert(r, ts) \/ Lose
    BY Zenon, <1>1 DEF Insert
  <2>2. ts \in Nat
    BY Zenon, <2>1, StampsAreNat
  <2>3. ASSUME OnInsert(r, ts) PROVE DepthMatchesPending'
    <3>1. pending' = Retain(pending, ts) /\ device_pending' = RetainDepth(ts)
      BY Zenon, <2>3 DEF OnInsert
    <3>2. ASSUME NEW d \in Devices
          PROVE  device_pending'[d] = Cardinality(KeysOn(pending', d))
      BY Zenon, <2>2, <3>1, RetainDepthMatches
    <3> QED BY Zenon, <3>2 DEF DepthMatchesPending, KeysOn
  <2> QED BY Zenon, <1>l, <2>1, <2>3
<1>2. ASSUME NEW r \in Requests, Issue(r) PROVE DepthMatchesPending'
  <2>1. PICK ts \in Stamps(r) : OnIssue(r, ts) \/ Lose
    BY Zenon, <1>2 DEF Issue
  <2> DEFINE key == KeyOf[r]
             device == DeviceOf[key]
             pen == Retain(pending, ts)
             left == RemovePending(pen, key)
             dep == RetainDepth(ts)
             depth == IF pen[key] # None THEN SaturatingSub(dep[device], 1) ELSE dep[device]
             fresh == [request |-> r, ts |-> ts, insert |-> Retain(inserted, ts)[key],
                       depth |-> depth + 1,
                       queue_depth_at_issue |-> Cardinality(KeysIn(left)) + 1]
  <2>2. ts \in Nat /\ key \in Keys /\ device \in Devices
    BY Zenon, <2>1, StampsAreNat, ConstantsAssumption
  <2>3. pen \in [Keys -> PendingRequest \cup {None}] /\ dep \in [Devices -> Nat]
    BY Zenon, <2>2, RetainTypes, ExpireTypes
  <2>4. left \in [Keys -> PendingRequest \cup {None}] /\ left[key] = None
    BY Zenon, <2>2, <2>3 DEF RemovePending
  <2>5. \A d \in Devices : dep[d] = Cardinality(KeysOn(pen, d))
    BY Zenon, <2>2, RetainDepthMatches
  <2>6. \A d \in Devices : Cardinality(KeysOn(left, d)) =
             IF pen[key] # None /\ device = d THEN dep[d] - 1 ELSE dep[d]
    <3> HIDE DEF key, pen, dep
    <3> QED BY <2>2, <2>3, <2>5, RemoveKeyDepth
  <2>7. \A d \in Devices : Cardinality(KeysOn(left, d)) \in Nat
    BY Zenon, KeysFinite
  <2>8. depth = Cardinality(KeysOn(left, device))
    <3>1. dep[device] \in Nat
      BY Zenon, <2>2, <2>3
    <3> HIDE DEF dep, pen, left, key, device
    <3> QED BY <3>1, <2>2, <2>6, <2>7 DEF SaturatingSub
  <2>9. ASSUME OnIssue(r, ts), NEW d \in Devices
        PROVE  device_pending'[d] = Cardinality(KeysOn(pending', d))
    <3>1. CASE pending' = left /\ device_pending' = [dep EXCEPT ![device] = depth]
      <4> HIDE DEF dep, pen, left, key, device, depth
      <4> QED BY Zenon, <3>1, <2>2, <2>3, <2>6, <2>8
    <3>2. CASE /\ pending' = InsertPending(left, key, fresh)
               /\ device_pending' = [dep EXCEPT ![device] = depth + 1]
      <4>1. fresh \in PendingRequest
        <5>1. Retain(inserted, ts)[key] \in Event \cup {None}
          BY Zenon, <2>2, RetainTypes
        <5>2. depth \in Nat
          BY Zenon, <2>8, <2>2, <2>7
        <5>3. Cardinality(KeysIn(left)) \in Nat
          BY Zenon, KeysFinite
        <5> HIDE DEF left, depth, key
        <5> QED BY <5>1, <5>2, <5>3, <2>2 DEF PendingRequest
      <4>2. Cardinality(KeysOn(InsertPending(left, key, fresh), d)) =
               IF device = d THEN Cardinality(KeysOn(left, d)) + 1
               ELSE Cardinality(KeysOn(left, d))
        <5> HIDE DEF left, fresh, key, pen, dep
        <5> QED BY <4>1, <2>2, <2>4, AddKeyDepth
      <4> HIDE DEF dep, pen, left, key, device, depth, fresh
      <4> QED BY Zenon, <3>2, <4>2, <2>2, <2>3, <2>6, <2>8
    <3> QED BY <2>9, <3>1, <3>2, Zenon DEF OnIssue
  <2> QED BY Zenon, <1>l, <2>1, <2>9 DEF DepthMatchesPending, KeysOn
<1>3. ASSUME NEW r \in Requests, Complete(r) PROVE DepthMatchesPending'
  <2>1. PICK ts \in Stamps(r) : OnComplete(r, ts) \/ Lose
    BY Zenon, <1>3 DEF Complete
  <2> DEFINE key == KeyOf[r]
             device == DeviceOf[key]
             pen == Retain(pending, ts)
             left == RemovePending(pen, key)
             dep == RetainDepth(ts)
  <2>2. ts \in Nat /\ key \in Keys /\ device \in Devices
    BY Zenon, <2>1, StampsAreNat, ConstantsAssumption
  <2>3. pen \in [Keys -> PendingRequest \cup {None}] /\ dep \in [Devices -> Nat]
    BY Zenon, <2>2, RetainTypes, ExpireTypes
  <2>4. \A d \in Devices : dep[d] = Cardinality(KeysOn(pen, d))
    BY Zenon, <2>2, RetainDepthMatches
  <2>5. \A d \in Devices : Cardinality(KeysOn(left, d)) =
             IF pen[key] # None /\ device = d THEN dep[d] - 1 ELSE dep[d]
    <3> HIDE DEF key, pen, dep
    <3> QED BY <2>2, <2>3, <2>4, RemoveKeyDepth
  <2>6. \A d \in Devices : Cardinality(KeysOn(left, d)) \in Nat
    BY Zenon, KeysFinite
  <2>7. ASSUME OnComplete(r, ts), NEW d \in Devices
        PROVE  device_pending'[d] = Cardinality(KeysOn(pending', d))
    <3>1. CASE pending' = pen /\ device_pending' = dep
      BY Zenon, <3>1, <2>4
    <3>2. CASE /\ pen[key] # None
               /\ pending' = left
               /\ device_pending' = [dep EXCEPT ![device] = SaturatingSub(@, 1)]
      <4> HIDE DEF dep, pen, left, key, device
      <4>1. dep[device] - 1 \in Nat
        BY Zenon, <3>2, <2>2, <2>5, <2>6
      <4>2. device_pending'[d] = IF d = device THEN dep[device] - 1 ELSE dep[d]
        BY <3>2, <4>1, <2>2, <2>3 DEF SaturatingSub
      <4> QED BY Zenon, <3>2, <4>2, <2>5
    <3> QED BY Zenon, <2>7, <3>1, <3>2 DEF OnComplete
  <2> QED BY Zenon, <1>l, <2>1, <2>7 DEF DepthMatchesPending, KeysOn
<1>4. CASE Tick
  BY Zenon, <1>4 DEF Tick, correlator, DepthMatchesPending, KeysOn
<1>5. CASE UNCHANGED vars
  BY Zenon, <1>5 DEF vars, DepthMatchesPending, KeysOn
<1> QED BY Zenon, <1>1, <1>2, <1>3, <1>4, <1>5 DEF Next

(* Whatever the stream, issue_depth counts exactly the pending requests of the
   device: device_pending never drifts from pending. *)
THEOREM DepthCorrect == Spec => []DepthMatchesPending
<1>1. Init => DepthMatchesPending
  <2>1. ASSUME Init, NEW d \in Devices PROVE Cardinality(KeysOn(pending, d)) = 0
    <3>1. KeysOn(pending, d) = {}
      BY Zenon, <2>1 DEF Init, KeysOn
    <3> QED BY Zenon, <3>1, FS_EmptySet
  <2> QED BY Zenon, <2>1 DEF Init, DepthMatchesPending
<1> QED BY <1>1, NextDepth, TypeCorrect, PTL DEF Spec

-----------------------------------------------------------------------------
(* Proofs about what RequestCorrelator joins when the key is a request     *)
(* pointer: one lost event never mispairs, and without loss a CompletedIo  *)
(* carries its own insert.                                                 *)

\* A key has one live user at a time.
OneUser ==
  \A q, r \in Requests : q # r /\ KeyOf[q] = KeyOf[r] => ~(InFlight(q) /\ InFlight(r))

\* An entry of `inserted` is filed under its own key; before anything is lost
\* its request is still queued.
InsertedOwned ==
  \A k \in KeysIn(inserted) :
    /\ KeyOf[inserted[k].request] = k
    /\ lost = 0 => /\ life[inserted[k].request] = "queued"
                   /\ inserted[k].ts <= stamp[inserted[k].request]

\* An entry of `pending` is filed under its own key.  Before anything is lost
\* its request is in flight, is not marked ambiguous, and its insert is its own.
\* After one loss its request may have completed, but then no request with that
\* key has been issued since.
PendingOwned ==
  \A k \in KeysIn(pending) :
    /\ KeyOf[pending[k].request] = k
    /\ lost = 0 => /\ InFlight(pending[k].request)
                   /\ ambiguous[k] = None
                   /\ pending[k].insert # None =>
                        /\ pending[k].insert.request = pending[k].request
                        /\ pending[k].insert.ts <= pending[k].ts
    /\ lost <= 1 => \/ InFlight(pending[k].request)
                    \/ \A r \in Requests : KeyOf[r] = k => life[r] # "issued"

\* The inductive invariant for streams keyed by request pointers.
PairingInv == OneUser /\ InsertedOwned /\ PendingOwned

(* A delivered insert is never a duplicate before anything is lost. *)
LEMMA NoDuplicateInsert ==
  ASSUME Exclusive, TypeOK, PairingInv, NEW r \in Requests, NEW ts \in Nat,
         life[r] # "queued", Admissible(r), lost = 0
  PROVE  Retain(inserted, ts)[KeyOf[r]] = None
<1> DEFINE k == KeyOf[r]
<1> SUFFICES ASSUME Retain(inserted, ts)[k] # None PROVE FALSE
  BY Zenon
<1>1. k \in Keys
  BY Zenon, ConstantsAssumption
<1>2. k \in KeysIn(inserted) /\ inserted[k] \in Event
  BY Zenon, <1>1, RetainedInsert
<1>3. life[inserted[k].request] = "queued" /\ KeyOf[inserted[k].request] = k
      /\ inserted[k].request \in Requests
  BY Zenon, <1>2 DEF PairingInv, InsertedOwned, Event
<1>4. inserted[k].request # r /\ InFlight(inserted[k].request)
  BY Zenon, <1>3 DEF InFlight
<1> QED BY Zenon, <1>3, <1>4 DEF Admissible

(* Admission preserves the exclusive use of a key. *)
LEMMA OneUserAdmits ==
  ASSUME Exclusive, TypeOK, OneUser, NEW r \in Requests, Admissible(r),
         NEW s \in Life, life' = [life EXCEPT ![r] = s]
  PROVE  OneUser'
BY Zenon DEF OneUser, Admissible, InFlight, TypeOK

(* A completion of r is paired with an entry of r. *)
LEMMA PairsOwn ==
  ASSUME Exclusive, TypeOK, PairingInv, lost <= 1, NEW r \in Requests, life[r] = "issued",
         KeyOf[r] \in KeysIn(pending)
  PROVE  pending[KeyOf[r]].request = r
<1> DEFINE k == KeyOf[r]
           p == pending[k].request
<1>1. pending[k] \in PendingRequest /\ p \in Requests
  BY Zenon DEF TypeOK, KeysIn, PendingRequest
<1>2. KeyOf[p] = k /\ (InFlight(p) \/ \A q \in Requests : KeyOf[q] = k => life[q] # "issued")
  BY Zenon DEF PairingInv, PendingOwned
<1>3. InFlight(p) /\ InFlight(r)
  BY Zenon, <1>2 DEF InFlight
<1> QED BY Zenon, <1>1, <1>2, <1>3 DEF PairingInv, OneUser

(* An insert event, seen or lost, preserves PairingInv. *)
LEMMA InsertPairing ==
  ASSUME Exclusive, TypeOK, PairingInv, NEW r \in Requests, Insert(r)
  PROVE  PairingInv'
<1> DEFINE key == KeyOf[r]
<1>0. PICK ts \in Stamps(r) : /\ stamp' = [stamp EXCEPT ![r] = ts]
                              /\ (OnInsert(r, ts) /\ UNCHANGED lost) \/ Lose
  BY Zenon DEF Insert
<1>1. /\ ts \in Nat /\ ts >= stamp[r] /\ key \in Keys /\ Admissible(r)
      /\ stamp' = [stamp EXCEPT ![r] = ts]
      /\ life' = [life EXCEPT ![r] = "queued"] /\ life[r] \in {"idle", "issued"}
  <2>1. stamp' = [stamp EXCEPT ![r] = ts]
    BY Zenon, <1>0
  <2> QED BY <2>1, StampsAreNat, ConstantsAssumption, Zenon DEF Insert
<1>2. OneUser'
  BY <1>1, OneUserAdmits, Zenon DEF PairingInv, Life
<1>3. \A p \in Requests : InFlight(p) => InFlight(p)'
  BY Zenon, <1>1 DEF InFlight, TypeOK
<1>4. \A p \in Requests : life'[p] = "issued" => life[p] = "issued"
  BY Zenon, <1>1 DEF TypeOK
<1>5. ASSUME OnInsert(r, ts), UNCHANGED lost PROVE InsertedOwned' /\ PendingOwned'
  <2>1. ASSUME NEW k \in Keys, inserted'[k] # None
        PROVE  /\ KeyOf[inserted'[k].request] = k
               /\ lost' = 0 => /\ life'[inserted'[k].request] = "queued"
                               /\ inserted'[k].ts <= stamp'[inserted'[k].request]
    <3>1. CASE k = key
      <4>1. inserted'[k] = [request |-> r, ts |-> ts]
        BY Zenon, <1>1, <1>5, <3>1, RetainTypes DEF OnInsert
      <4> QED BY <4>1, <3>1, <1>1 DEF TypeOK
    <3>2. CASE k # key
      <4>1. inserted'[k] = Retain(inserted, ts)[k]
        BY Zenon, <1>1, <1>5, <3>2, RetainTypes DEF OnInsert
      <4>2. k \in KeysIn(inserted) /\ inserted'[k] = inserted[k] /\ inserted[k] \in Event
        BY Zenon, <4>1, <2>1, RetainedInsert, <1>1
      <4>3. inserted[k].request \in Requests /\ KeyOf[inserted[k].request] = k
        BY <4>2, Zenon DEF Event, PairingInv, InsertedOwned
      <4>4. inserted[k].request # r
        BY Zenon, <4>3, <3>2
      <4> QED BY Zenon, <4>2, <4>3, <4>4, <1>1, <1>5 DEF PairingInv, InsertedOwned, TypeOK
    <3> QED BY Zenon, <3>1, <3>2
  <2>2. ASSUME NEW k \in Keys, pending'[k] # None
        PROVE  k \in KeysIn(pending) /\ pending'[k] = pending[k] /\ pending[k].request \in Requests
    <3>1. pending'[k] = Retain(pending, ts)[k]
      BY Zenon, <1>5 DEF OnInsert
    <3> QED BY Zenon, <3>1, <2>2, RetainedPending, <1>1
  <2>3. ASSUME NEW k \in Keys, lost = 0, ambiguous[k] = None PROVE ambiguous'[k] = None
    <3>1. Retain(inserted, ts)[key] = None
      BY Zenon, <1>1, <2>3, NoDuplicateInsert
    <3>2. RetainAmbiguous(ts)[k] = None
      BY Zenon, <2>3, RetainAmbiguousKeeps
    <3> QED BY Zenon, <1>1, <1>5, <3>1, <3>2, RetainTypes DEF OnInsert
  <2>4. PendingOwned'
    BY <1>3, <1>4, <1>5, <2>2, <2>3 DEF PairingInv, PendingOwned, KeysIn
  <2> QED BY Zenon, <2>1, <2>4 DEF InsertedOwned, KeysIn
<1>6. ASSUME Lose PROVE InsertedOwned' /\ PendingOwned'
  <2>1. /\ inserted' = inserted /\ pending' = pending /\ ambiguous' = ambiguous
        /\ lost' = lost + 1 /\ lost \in Nat
    BY Zenon, <1>6 DEF Lose, correlator, TypeOK
  <2>2. lost' # 0 /\ (lost' <= 1 => lost <= 1)
    BY <2>1
  <2>3. \A k \in KeysIn(pending) : pending[k].request \in Requests
    BY Zenon DEF KeysIn, TypeOK, PendingRequest
  <2> QED BY Zenon, <1>3, <1>4, <2>1, <2>2, <2>3 DEF PairingInv, InsertedOwned, PendingOwned, KeysIn
<1> QED BY Zenon, <1>0, <1>2, <1>5, <1>6 DEF PairingInv

(* An issue event, seen or lost, preserves PairingInv. *)
LEMMA IssuePairing ==
  ASSUME Exclusive, TypeOK, PairingInv, NEW r \in Requests, Issue(r)
  PROVE  PairingInv'
<1> DEFINE key == KeyOf[r]
<1>0. PICK ts \in Stamps(r) : /\ stamp' = [stamp EXCEPT ![r] = ts]
                              /\ (OnIssue(r, ts) /\ UNCHANGED lost) \/ Lose
  BY Zenon DEF Issue
<1>1. /\ ts \in Nat /\ ts >= stamp[r] /\ key \in Keys /\ Admissible(r)
      /\ stamp' = [stamp EXCEPT ![r] = ts]
      /\ life' = [life EXCEPT ![r] = "issued"]
  <2>1. stamp' = [stamp EXCEPT ![r] = ts]
    BY Zenon, <1>0
  <2> QED BY <2>1, StampsAreNat, ConstantsAssumption, Zenon DEF Issue
<1>2. OneUser'
  BY <1>1, OneUserAdmits, Zenon DEF PairingInv, Life
<1>3. \A p \in Requests : InFlight(p) => InFlight(p)'
  BY Zenon, <1>1 DEF InFlight, TypeOK
<1>4. \A p \in Requests : p # r => life'[p] = life[p] /\ stamp'[p] = stamp[p]
  BY Zenon, <1>1 DEF TypeOK
<1>5. ASSUME OnIssue(r, ts), UNCHANGED lost PROVE InsertedOwned' /\ PendingOwned'
  <2>1. ASSUME NEW k \in Keys, inserted'[k] # None
        PROVE  /\ KeyOf[inserted'[k].request] = k
               /\ lost' = 0 => /\ life'[inserted'[k].request] = "queued"
                               /\ inserted'[k].ts <= stamp'[inserted'[k].request]
    <3>1. k # key /\ inserted'[k] = Retain(inserted, ts)[k]
      BY Zenon, <1>1, <1>5, <2>1, RetainTypes DEF OnIssue, RemoveInserted
    <3>2. k \in KeysIn(inserted) /\ inserted'[k] = inserted[k] /\ inserted[k] \in Event
      BY Zenon, <3>1, <2>1, <1>1, RetainedInsert
    <3>3. inserted[k].request \in Requests /\ KeyOf[inserted[k].request] = k
      BY <3>2, RetainedInsert, Zenon DEF PairingInv, InsertedOwned, Event
    <3>4. inserted[k].request # r
      BY Zenon, <3>3, <3>1
    <3> QED BY <3>2, <3>3, <3>4, <1>4, <1>5 DEF PairingInv, InsertedOwned
  <2>2. ASSUME NEW k \in Keys, pending'[k] # None, k # key
        PROVE  /\ k \in KeysIn(pending) /\ pending'[k] = pending[k]
               /\ pending[k].request \in Requests
               /\ ambiguous[k] = None => ambiguous'[k] = None
    <3>1. pending'[k] = Retain(pending, ts)[k]
      BY Zenon, <1>1, <1>5, <2>2, RetainTypes DEF OnIssue, RemovePending, InsertPending
    <3>2. ambiguous'[k] = RetainAmbiguous(ts)[k]
      BY Zenon, <1>1, <1>5, <2>2, RetainTypes DEF OnIssue
    <3> QED BY Zenon, <3>1, <3>2, <2>2, <1>1, RetainedPending, RetainAmbiguousKeeps
  <2>3. ASSUME pending'[key] # None
        PROVE  /\ pending'[key].request = r /\ pending'[key].ts = ts /\ ambiguous'[key] = None
               /\ pending'[key].insert = Retain(inserted, ts)[key]
    BY <1>1, <1>5, <2>3, RetainTypes DEF OnIssue, RemovePending, InsertPending
  <2>4. ASSUME pending'[key] # None, lost = 0, pending'[key].insert # None
        PROVE  pending'[key].insert.request = r /\ pending'[key].insert.ts <= ts
    <3> DEFINE e == inserted[key]
    <3>1. key \in KeysIn(inserted) /\ e \in Event /\ pending'[key].insert = e
      BY Zenon, <1>1, <2>3, <2>4, RetainedInsert DEF KeysIn
    <3>2. /\ e.request \in Requests /\ KeyOf[e.request] = key /\ life[e.request] = "queued"
          /\ e.ts <= stamp[e.request] /\ e.ts \in Nat
      BY <3>1, <2>4, Zenon DEF Event, PairingInv, InsertedOwned
    <3>3. e.request = r
      BY Zenon, <3>2, <1>1 DEF Admissible, InFlight
    <3>4. stamp[r] \in Nat
      BY Zenon DEF TypeOK
    <3> QED BY <3>1, <3>2, <3>3, <3>4, <1>1
  <2>5. ASSUME NEW k \in Keys, pending'[k] # None
        PROVE  /\ KeyOf[pending'[k].request] = k
               /\ lost' = 0 => /\ life'[pending'[k].request] \in {"queued", "issued"}
                               /\ ambiguous'[k] = None
                               /\ pending'[k].insert # None =>
                                    /\ pending'[k].insert.request = pending'[k].request
                                    /\ pending'[k].insert.ts <= pending'[k].ts
               /\ lost' <= 1 => \/ life'[pending'[k].request] \in {"queued", "issued"}
                                \/ \A q \in Requests : KeyOf[q] = k => life'[q] # "issued"
    <3>1. CASE k = key
      <4>1. pending'[k].request = r /\ pending'[k].ts = ts /\ life'[r] = "issued"
        BY Zenon, <3>1, <2>3, <2>5, <1>1 DEF TypeOK
      <4>2. life'[pending'[k].request] \in {"queued", "issued"}
        BY Zenon, <4>1
      <4> QED BY Zenon, <3>1, <4>1, <4>2, <2>3, <2>4, <2>5, <1>5
    <3>2. CASE k # key
      <4>1. \A q \in Requests : KeyOf[q] = k => life'[q] = life[q]
        BY Zenon, <3>2, <1>4
      <4>2. /\ k \in KeysIn(pending) /\ pending'[k] = pending[k]
            /\ pending[k].request \in Requests /\ KeyOf[pending[k].request] = k
            /\ ambiguous[k] = None => ambiguous'[k] = None
        BY Zenon, <3>2, <2>2, <2>5 DEF PairingInv, PendingOwned
      <4>3. life'[pending[k].request] = life[pending[k].request]
        BY Zenon, <4>1, <4>2
      <4>4. /\ lost = 0 => /\ life[pending[k].request] \in {"queued", "issued"}
                           /\ ambiguous[k] = None
                           /\ pending[k].insert # None =>
                                /\ pending[k].insert.request = pending[k].request
                                /\ pending[k].insert.ts <= pending[k].ts
            /\ lost <= 1 => \/ life[pending[k].request] \in {"queued", "issued"}
                            \/ \A q \in Requests : KeyOf[q] = k => life[q] # "issued"
        BY Zenon, <4>2 DEF PairingInv, PendingOwned, InFlight
      <4> QED BY Zenon, <4>1, <4>2, <4>3, <4>4, <1>5
    <3> QED BY Zenon, <3>1, <3>2
  <2> QED BY Zenon, <2>1, <2>5 DEF InsertedOwned, PendingOwned, KeysIn, InFlight
<1>6. ASSUME Lose PROVE InsertedOwned' /\ PendingOwned'
  <2>1. /\ inserted' = inserted /\ pending' = pending /\ ambiguous' = ambiguous
        /\ lost' = lost + 1 /\ lost \in Nat
    BY Zenon, <1>6 DEF Lose, correlator, TypeOK
  <2>2. lost' # 0 /\ (lost' <= 1 => lost = 0)
    BY <2>1
  <2>3. \A k \in KeysIn(pending) : pending[k].request \in Requests
    BY Zenon DEF KeysIn, TypeOK, PendingRequest
  <2>4. InsertedOwned'
    BY Zenon, <2>1, <2>2 DEF PairingInv, InsertedOwned, KeysIn
  <2>5. PendingOwned'
    BY Zenon, <1>3, <2>1, <2>2, <2>3 DEF PairingInv, PendingOwned, KeysIn
  <2> QED BY Zenon, <2>4, <2>5
<1> QED BY Zenon, <1>0, <1>2, <1>5, <1>6 DEF PairingInv

(* A completion event, seen or lost, preserves PairingInv. *)
LEMMA CompletePairing ==
  ASSUME Exclusive, TypeOK, PairingInv, NEW r \in Requests, Complete(r)
  PROVE  PairingInv'
<1> DEFINE key == KeyOf[r]
<1>0. PICK ts \in Stamps(r) : /\ stamp' = [stamp EXCEPT ![r] = ts]
                              /\ (OnComplete(r, ts) /\ UNCHANGED lost) \/ Lose
  BY Zenon DEF Complete
<1>1. /\ ts \in Nat /\ key \in Keys
      /\ life' = [life EXCEPT ![r] = "done"] /\ life[r] = "issued"
  BY Zenon, StampsAreNat, ConstantsAssumption DEF Complete
<1>2. \A p \in Requests : p # r => life'[p] = life[p] /\ stamp'[p] = stamp[p]
  BY Zenon, <1>0, <1>1 DEF TypeOK
<1>3. life'[r] = "done"
  BY Zenon, <1>1 DEF TypeOK
<1>4. OneUser'
  BY Zenon, <1>2, <1>3 DEF PairingInv, OneUser, InFlight
<1>5. \A q \in Requests : KeyOf[q] = key => life'[q] # "issued"
  <2>1. \A q \in Requests : KeyOf[q] = key /\ q # r => ~InFlight(q)
    BY Zenon, <1>1 DEF PairingInv, OneUser, InFlight
  <2> QED BY Zenon, <2>1, <1>2, <1>3 DEF InFlight
\* An entry that survives keeps what the invariant says of it.
<1>6. ASSUME NEW k \in KeysIn(inserted)
      PROVE  /\ KeyOf[inserted[k].request] = k
             /\ lost = 0 => /\ life'[inserted[k].request] = "queued"
                            /\ inserted[k].ts <= stamp'[inserted[k].request]
  <2>1. inserted[k].request \in Requests
    BY Zenon DEF KeysIn, TypeOK, Event
  <2>2. lost = 0 => inserted[k].request # r
    BY Zenon, <1>1 DEF PairingInv, InsertedOwned
  <2> QED BY Zenon, <2>1, <2>2, <1>2 DEF PairingInv, InsertedOwned
<1>7. ASSUME NEW k \in KeysIn(pending), k # key
      PROVE  /\ KeyOf[pending[k].request] = k
             /\ life'[pending[k].request] = life[pending[k].request]
             /\ \A q \in Requests : KeyOf[q] = k => life'[q] = life[q]
  <2>1. pending[k].request \in Requests /\ KeyOf[pending[k].request] = k
    BY Zenon DEF KeysIn, TypeOK, PendingRequest, PairingInv, PendingOwned
  <2> QED BY Zenon, <2>1, <1>2, <1>7
<1>8. ASSUME OnComplete(r, ts), UNCHANGED lost PROVE InsertedOwned' /\ PendingOwned'
  <2>1. \A k \in Keys : inserted'[k] # None => k \in KeysIn(inserted) /\ inserted'[k] = inserted[k]
    <3>1. inserted' = Retain(inserted, ts)
      BY Zenon, <1>8 DEF OnComplete
    <3> QED BY Zenon, <3>1, RetainedInsert, <1>1
  <2>2. InsertedOwned'
    BY <2>1, <1>6, <1>8, Zenon DEF InsertedOwned, KeysIn
  <2>3. ASSUME NEW k \in Keys, pending'[k] # None
        PROVE  k \in KeysIn(pending) /\ pending'[k] = pending[k] /\ pending[k].request \in Requests
    <3>1. pending'[k] = Retain(pending, ts)[k]
      BY Zenon, <1>1, <1>8, <2>3, RetainTypes DEF OnComplete, RemovePending
    <3> QED BY Zenon, <3>1, <2>3, <1>1, RetainedPending
  <2>4. \A k \in Keys : ambiguous[k] = None => ambiguous'[k] = None
    BY Zenon, <1>1, <1>8, RetainTypes, RetainAmbiguousKeeps DEF OnComplete
  <2>5. lost = 0 => pending'[key] = None
    <3>1. ASSUME lost = 0, pending'[key] # None PROVE FALSE
      <4>1. RetainAmbiguous(ts)[key] # None
        BY Zenon, <1>1, <1>8, <3>1, RetainTypes DEF OnComplete, RemovePending
      <4>2. ambiguous[key] # None
        BY Zenon, <4>1, <1>1, RetainAmbiguousKeeps
      <4>3. ambiguous[key] = None
        BY Zenon, <2>3, <3>1, <1>1 DEF PairingInv, PendingOwned
      <4> QED BY Zenon, <4>2, <4>3
    <3> QED BY Zenon, <3>1
  <2>6. ASSUME NEW k \in Keys, pending'[k] # None
        PROVE  /\ KeyOf[pending'[k].request] = k
               /\ lost' = 0 => /\ life'[pending'[k].request] \in {"queued", "issued"}
                               /\ ambiguous'[k] = None
                               /\ pending'[k].insert # None =>
                                    /\ pending'[k].insert.request = pending'[k].request
                                    /\ pending'[k].insert.ts <= pending'[k].ts
               /\ lost' <= 1 => \/ life'[pending'[k].request] \in {"queued", "issued"}
                                \/ \A q \in Requests : KeyOf[q] = k => life'[q] # "issued"
    <3>1. CASE k = key
      BY <3>1, <2>3, <2>5, <2>6, <1>5, <1>8, Zenon DEF PairingInv, PendingOwned
    <3>2. CASE k # key
      BY <3>2, <2>3, <2>4, <2>6, <1>7, <1>8 DEF PairingInv, PendingOwned, InFlight
    <3> QED BY Zenon, <3>1, <3>2
  <2>7. PendingOwned'
    BY Zenon, <2>6 DEF PendingOwned, KeysIn, InFlight
  <2> QED BY Zenon, <2>2, <2>7
<1>9. ASSUME Lose PROVE InsertedOwned' /\ PendingOwned'
  <2>1. /\ inserted' = inserted /\ pending' = pending /\ ambiguous' = ambiguous
        /\ lost' = lost + 1 /\ lost \in Nat
    BY Zenon, <1>9 DEF Lose, correlator, TypeOK
  <2>2. lost' # 0 /\ (lost' <= 1 => lost = 0)
    BY <2>1
  <2>3. InsertedOwned'
    BY <2>1, <2>2, <1>6, Zenon DEF InsertedOwned, KeysIn
  <2>4. ASSUME NEW k \in KeysIn(pending)
        PROVE  /\ KeyOf[pending[k].request] = k
               /\ lost = 0 => \/ life'[pending[k].request] \in {"queued", "issued"}
                              \/ \A q \in Requests : KeyOf[q] = k => life'[q] # "issued"
    <3>1. CASE k = key
      BY Zenon, <3>1, <1>5 DEF PairingInv, PendingOwned
    <3>2. CASE k # key
      BY Zenon, <3>2, <1>7 DEF PairingInv, PendingOwned, InFlight
    <3> QED BY Zenon, <3>1, <3>2
  <2>5. PendingOwned'
    BY Zenon, <2>1, <2>2, <2>4 DEF PendingOwned, KeysIn, InFlight
  <2> QED BY Zenon, <2>3, <2>5
<1> QED BY Zenon, <1>0, <1>4, <1>8, <1>9 DEF PairingInv

(* Every step preserves PairingInv if keys are exclusive. *)
LEMMA NextPairing ==
  Exclusive /\ TypeOK /\ PairingInv /\ [Next]_vars => PairingInv'
<1> SUFFICES ASSUME Exclusive, TypeOK, PairingInv, [Next]_vars PROVE PairingInv'
  BY Zenon
<1>1. CASE Tick
  BY Zenon, <1>1 DEF Tick, correlator, PairingInv, OneUser, InsertedOwned, PendingOwned, KeysIn, InFlight
<1>2. CASE UNCHANGED vars
  BY Zenon, <1>2 DEF vars, PairingInv, OneUser, InsertedOwned, PendingOwned, KeysIn, InFlight
<1> QED BY Zenon, <1>1, <1>2, InsertPairing, IssuePairing, CompletePairing DEF Next

(* PairingInv holds of the empty correlator. *)
LEMMA InitPairing == Init => PairingInv
BY Zenon DEF Init, PairingInv, OneUser, InsertedOwned, PendingOwned, KeysIn, InFlight

(* What on_complete returns while the invariant holds. *)
LEMMA NextReturned ==
  ASSUME Exclusive, TypeOK, PairingInv, Next, returned' # None
  PROVE  OneLossNeverMispairs' /\ OwnInsert'
<1>a. \A r \in Requests : Insert(r) => returned' = None
  BY Zenon DEF Insert, OnInsert, Lose
<1>b. \A r \in Requests : Issue(r) => returned' = None
  BY Zenon DEF Issue, OnIssue, Lose
<1>c. Tick => returned' = None
  BY Zenon DEF Tick
<1>1. PICK r \in Requests : Complete(r)
  BY <1>a, <1>b, <1>c, Zenon DEF Next
<1>2. PICK ts \in Stamps(r) : OnComplete(r, ts) /\ UNCHANGED lost
  BY Zenon, <1>1 DEF Complete, Lose
<1> DEFINE key == KeyOf[r]
           p == pending[key]
           left == RemovePending(Retain(pending, ts), key)
<1>3. life[r] = "issued" /\ key \in Keys /\ ts \in Nat
  BY Zenon, <1>1, <1>2, StampsAreNat, ConstantsAssumption DEF Complete
<1>4. /\ returned' = Completed(Retain(pending, ts)[key], r, ts, left)
      /\ Retain(pending, ts)[key] # None
  BY <1>2, Zenon DEF OnComplete
<1>5. key \in KeysIn(pending) /\ p \in PendingRequest /\ returned' = Completed(p, r, ts, left)
  BY Zenon, <1>3, <1>4, RetainedPending
<1>6. ~(ts < p.ts)
  BY <1>3, <1>5, CompletedUnfolds
<1>7. returned' = [insert |-> p.insert,
        issue |-> [request |-> p.request, ts |-> p.ts],
        completion |-> [request |-> r, ts |-> ts],
        queue_latency |-> IF p.insert = None THEN None ELSE CheckedSub(p.ts, p.insert.ts),
        device_latency |-> ts - p.ts,
        total_latency |-> IF p.insert = None \/ ts < p.insert.ts THEN ts - p.ts
                          ELSE ts - p.insert.ts,
        queue_depth_after |-> Cardinality(KeysIn(left))]
  BY <1>3, <1>5, <1>6, CompletedUnfolds
<1>8. lost \in Nat /\ lost' = lost
  BY Zenon, <1>2 DEF TypeOK
<1>9. lost <= 1 => p.request = r
  BY Zenon, <1>3, <1>5, PairsOwn
<1>10. OneLossNeverMispairs'
  BY Zenon, <1>7, <1>8, <1>9 DEF OneLossNeverMispairs
<1>11. ASSUME lost = 0, p.insert # None
       PROVE  /\ p.insert.request = r /\ p.insert.ts <= p.ts
              /\ p.insert.ts \in Nat /\ p.ts \in Nat
  <2>1. p.insert \in Event /\ p.ts \in Nat
    BY Zenon, <1>5, <1>11 DEF PendingRequest
  <2>2. p.insert.ts \in Nat
    BY Zenon, <2>1 DEF Event
  <2>3. p.request = r
    BY <1>9, <1>11
  <2>4. p.insert.request = p.request /\ p.insert.ts <= p.ts
    BY Zenon, <1>5, <1>11 DEF PairingInv, PendingOwned
  <2> QED BY Zenon, <2>1, <2>2, <2>3, <2>4
<1>12. ASSUME lost = 0, p.insert # None
       PROVE  /\ CheckedSub(p.ts, p.insert.ts) = p.ts - p.insert.ts
              /\ p.ts - p.insert.ts # None
              /\ ~(ts < p.insert.ts)
              /\ ts - p.insert.ts = (p.ts - p.insert.ts) + (ts - p.ts)
  <2>1. p.ts - p.insert.ts \in Nat
    BY <1>11, <1>12
  <2>2. CheckedSub(p.ts, p.insert.ts) = p.ts - p.insert.ts
    BY Zenon, <1>11, <1>12 DEF CheckedSub
  <2>3. p.ts - p.insert.ts # None
    BY Zenon, <2>1, NoneAssumption
  <2>4. /\ ~(ts < p.insert.ts)
        /\ ts - p.insert.ts = (p.ts - p.insert.ts) + (ts - p.ts)
    <3>1. p.insert.ts \in Nat /\ p.ts \in Nat /\ p.insert.ts <= p.ts
      BY Zenon, <1>11, <1>12
    <3> HIDE DEF p
    <3> QED BY <3>1, <1>3, <1>6
  <2> QED BY Zenon, <2>2, <2>3, <2>4
<1>13. OwnInsert'
  BY <1>7, <1>8, <1>11, <1>12, Zenon DEF OwnInsert
<1> QED BY Zenon, <1>10, <1>13

\* The inductive invariant for every stream: nothing is claimed of fallback keys.
ExclusiveInv ==
  Exclusive => PairingInv /\ OneLossNeverMispairs /\ OwnInsert

(* With exclusive keys every step preserves the pairing and what it returns. *)
LEMMA NextExclusive == TypeOK /\ ExclusiveInv /\ [Next]_vars => ExclusiveInv'
<1> SUFFICES ASSUME TypeOK, ExclusiveInv, [Next]_vars, Exclusive
             PROVE  PairingInv' /\ OneLossNeverMispairs' /\ OwnInsert'
  BY Zenon DEF ExclusiveInv
<1>1. PairingInv'
  BY Zenon, NextPairing DEF ExclusiveInv
<1>2. CASE Next /\ returned' # None
  BY Zenon, <1>1, <1>2, NextReturned DEF ExclusiveInv
<1>3. CASE returned' = None
  BY Zenon, <1>1, <1>3 DEF OneLossNeverMispairs, OwnInsert
<1>4. CASE UNCHANGED vars
  BY <1>1, <1>4, Zenon DEF vars, ExclusiveInv, OneLossNeverMispairs, OwnInsert
<1> QED BY Zenon, <1>2, <1>3, <1>4

(* With exclusive keys pairings are own, up to one loss, in every behaviour. *)
LEMMA ExclusiveCorrect == Spec => []ExclusiveInv
<1>1. Init => ExclusiveInv
  BY Zenon, InitPairing DEF Init, ExclusiveInv, OneLossNeverMispairs, OwnInsert
<1> QED BY <1>1, NextExclusive, TypeCorrect, PTL DEF Spec

(* With request pointers, one lost event never makes on_complete join two
   requests. *)
THEOREM OneLossIsSafe == Spec => []OneLossNeverMispairs
<1>1. ExclusiveInv => OneLossNeverMispairs
  BY Zenon DEF ExclusiveInv, OneLossNeverMispairs
<1> QED BY <1>1, ExclusiveCorrect, PTL

(* With request pointers and no loss, a CompletedIo carries its own insert and
   its total latency is its queue latency plus its device latency. *)
THEOREM OwnInsertCorrect == Spec => []OwnInsert
<1>1. ExclusiveInv => OwnInsert
  BY Zenon DEF ExclusiveInv, OwnInsert
<1> QED BY <1>1, ExclusiveCorrect, PTL

(* With request pointers and no loss, the reported depth never counts a
   request that has completed. *)
THEOREM DepthNeverOvercounts == Spec => []PendingIsInFlight
<1>1. ExclusiveInv => PendingIsInFlight
  BY Zenon DEF ExclusiveInv, PairingInv, PendingOwned, PendingIsInFlight
<1> QED BY <1>1, ExclusiveCorrect, PTL

(* on_complete returns pairs of one request, with their own insert and within
   the TTL. *)
THEOREM PairsCorrect == Spec => []PairsAreOwn
<1>1. OneLossNeverMispairs /\ OwnInsert /\ LatencyWithinTtl => PairsAreOwn
  BY Zenon DEF PairsAreOwn
<1> QED BY <1>1, OneLossIsSafe, OwnInsertCorrect, LatencyBound, PTL

(* The depth counters count pending requests, all of which the device owns. *)
THEOREM DepthsCorrect == Spec => []DepthIsInFlight
<1>1. DepthMatchesPending /\ PendingIsInFlight => DepthIsInFlight
  BY Zenon DEF DepthIsInFlight
<1> QED BY <1>1, DepthCorrect, DepthNeverOvercounts, PTL
=============================================================================
