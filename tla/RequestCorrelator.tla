--------------------------- MODULE RequestCorrelator ---------------------------
(***************************************************************************)
(* The request correlator of the analysis engine                           *)
(* (crates/protocol/src/lib.rs, struct RequestCorrelator) together with    *)
(* the stream of block events it reads.                                    *)
(*                                                                         *)
(* The correlator keys requests by (request_id, device).  With the raw or  *)
(* rq-carrying tracepoints the id is the kernel's request pointer, which   *)
(* only one live request has at a time (Exclusive = TRUE) but which is     *)
(* reused; without it the id is a hash of device, sector, length and       *)
(* operation, which live requests may share (Exclusive = FALSE).  Every    *)
(* event carries, besides its key, the physical request it comes from: the *)
(* code never sees that field, the properties do.                          *)
(***************************************************************************)
EXTENDS Integers, FiniteSets

CONSTANTS
  Requests,     (* physical requests, each used once                        *)
  Keys,         (* values of RequestKey                                     *)
  Devices,      (* (device_major, device_minor) pairs                       *)
  KeyOf,        (* the key of each request                                  *)
  DeviceOf,     (* the device inside each key                               *)
  Ttl,          (* ttl_ns                                                   *)
  Exclusive,    (* TRUE: a key is never shared by two live requests         *)
  MaxTime,      (* bound on the clock                                       *)
  MaxSkew,      (* an event is delivered at most this long after its stamp  *)
  MaxAttempts,  (* bound on the issues of one request (requeues)            *)
  MaxLost,      (* bound on the events the ring buffer drops                *)
  None

ASSUME ConstantsAssumption ==
  /\ IsFiniteSet(Keys)
  /\ KeyOf \in [Requests -> Keys]
  /\ DeviceOf \in [Keys -> Devices]
  /\ Ttl \in Nat \ {0}
  /\ Exclusive \in BOOLEAN
  /\ MaxTime \in Nat /\ MaxSkew \in Nat /\ MaxAttempts \in Nat /\ MaxLost \in Nat

VARIABLES
  now,             (* the device's monotonic clock                          *)
  life,            (* life[r]: where request r is in the block layer        *)
  stamp,           (* stamp[r]: timestamp of the latest event of r          *)
  attempts,        (* attempts[r]: how often r was issued                   *)
  lost,            (* events dropped before the correlator saw them         *)
  inserted,        (* RequestCorrelator.inserted                            *)
  pending,         (* RequestCorrelator.pending                             *)
  ambiguous,       (* RequestCorrelator.ambiguous                           *)
  device_pending,  (* RequestCorrelator.device_pending                      *)
  expired,         (* RequestCorrelator.expired                             *)
  replaced,        (* RequestCorrelator.replaced                            *)
  returned         (* what the latest call of on_complete returned          *)

stream == <<now, life, stamp, attempts, lost>>
correlator == <<inserted, pending, ambiguous, device_pending, expired, replaced>>
vars == <<now, life, stamp, attempts, lost, inserted, pending, ambiguous,
          device_pending, expired, replaced, returned>>

Life == {"idle", "queued", "issued", "done"}
Event == [request : Requests, ts : Nat]
PendingRequest == [request : Requests, ts : Nat, insert : Event \cup {None},
                   depth : Nat, queue_depth_at_issue : Nat]
CompletedIo == [insert : Event \cup {None}, issue : Event, completion : Event,
                queue_latency : Nat \cup {None}, device_latency : Nat,
                total_latency : Nat, queue_depth_after : Nat]

ASSUME NoneAssumption ==
  None \notin Nat /\ None \notin Event /\ None \notin PendingRequest /\ None \notin CompletedIo

(* The type of every variable of the correlator and of the stream. *)
TypeOK ==
  /\ now \in Nat
  /\ life \in [Requests -> Life]
  /\ stamp \in [Requests -> Nat]
  /\ attempts \in [Requests -> Nat]
  /\ lost \in Nat
  /\ inserted \in [Keys -> Event \cup {None}]
  /\ pending \in [Keys -> PendingRequest \cup {None}]
  /\ ambiguous \in [Keys -> Nat \cup {None}]
  /\ device_pending \in [Devices -> Nat]
  /\ expired \in Nat
  /\ replaced \in Nat
  /\ returned \in CompletedIo \cup {None}

-----------------------------------------------------------------------------
(* The correlator *)

SaturatingSub(a, b) == IF a >= b THEN a - b ELSE 0

\* Mutant: an unchecked subtraction.
UncheckedSub(a, b) == a - b
CheckedSub(a, b) == IF a >= b THEN a - b ELSE None

\* Mutant: off by one at the TTL boundary.
KeepOneMore(ts_ns, now_ns) == SaturatingSub(now_ns, ts_ns) <= Ttl + 1

\* expire_before keeps what is at most ttl_ns old; a later timestamp is age 0.
Keep(ts_ns, now_ns) == SaturatingSub(now_ns, ts_ns) <= Ttl

Retain(map, now_ns) ==
  [k \in Keys |-> IF map[k] # None /\ ~Keep(map[k].ts, now_ns) THEN None ELSE map[k]]

RetainAmbiguous(now_ns) ==
  [k \in Keys |-> IF ambiguous[k] # None /\ ~Keep(ambiguous[k], now_ns)
                  THEN None ELSE ambiguous[k]]

KeysIn(map) == {k \in Keys : map[k] # None}
KeysOn(map, d) == {k \in Keys : map[k] # None /\ DeviceOf[k] = d}

\* Mutant: expiry forgets the per-device counter.
KeepDepth(now_ns) == device_pending

\* device_pending is decremented once for every pending entry that expires.
RetainDepth(now_ns) ==
  [d \in Devices |->
     SaturatingSub(device_pending[d],
                   Cardinality(KeysOn(pending, d) \ KeysOn(Retain(pending, now_ns), d)))]

ExpiredCount(now_ns) ==
  Cardinality(KeysIn(inserted) \ KeysIn(Retain(inserted, now_ns)))
    + Cardinality(KeysIn(pending) \ KeysIn(Retain(pending, now_ns)))
    + Cardinality(KeysIn(ambiguous) \ KeysIn(RetainAmbiguous(now_ns)))

OnInsert(r, ts) ==
  LET key == KeyOf[r]
      ins == Retain(inserted, ts)
      duplicate == ins[key] # None
  IN /\ inserted' = [ins EXCEPT ![key] = [request |-> r, ts |-> ts]]
     /\ ambiguous' = [RetainAmbiguous(ts) EXCEPT ![key] = IF duplicate THEN ts ELSE @]
     /\ replaced' = IF duplicate THEN replaced + 1 ELSE replaced
     /\ pending' = Retain(pending, ts)
     /\ device_pending' = RetainDepth(ts)
     /\ expired' = expired + ExpiredCount(ts)
     /\ returned' = None

\* Mutant: the entry is read but not removed.
KeepPending(pen, key) == pen

\* pending.remove(&key)
RemovePending(pen, key) == [pen EXCEPT ![key] = None]

\* pending.insert(key, p)
InsertPending(pen, key, p) == [pen EXCEPT ![key] = p]

\* Mutant: the insert is read but not removed.
KeepInserted(ins, key) == ins

\* inserted.remove(&key)
RemoveInserted(ins, key) == [ins EXCEPT ![key] = None]

OnIssue(r, ts) ==
  LET key == KeyOf[r]
      device == DeviceOf[key]
      ins == Retain(inserted, ts)
      pen == Retain(pending, ts)
      removed == pen[key] # None
      collision == removed \/ RetainAmbiguous(ts)[key] # None
      left == RemovePending(pen, key)
      depth == IF removed THEN SaturatingSub(RetainDepth(ts)[device], 1)
               ELSE RetainDepth(ts)[device]
  IN /\ inserted' = RemoveInserted(ins, key)
     /\ IF collision
        THEN /\ replaced' = replaced + 1
             /\ ambiguous' = [RetainAmbiguous(ts) EXCEPT ![key] = ts]
             /\ pending' = left
             /\ device_pending' = [RetainDepth(ts) EXCEPT ![device] = depth]
        ELSE /\ pending' = InsertPending(left, key,
                   [request |-> r, ts |-> ts, insert |-> ins[key], depth |-> depth + 1,
                    queue_depth_at_issue |-> Cardinality(KeysIn(left)) + 1])
             /\ device_pending' = [RetainDepth(ts) EXCEPT ![device] = depth + 1]
             /\ ambiguous' = RetainAmbiguous(ts)
             /\ UNCHANGED replaced
     /\ expired' = expired + ExpiredCount(ts)
     /\ returned' = None

\* The CompletedIo for a pending request, or None when the completion is stamped
\* before the issue (checked_sub).
Completed(p, r, ts, left) ==
  LET device == CheckedSub(ts, p.ts)
      since_insert == IF p.insert = None THEN None ELSE CheckedSub(ts, p.insert.ts)
  IN IF device = None THEN None
     ELSE [insert |-> p.insert,
           issue |-> [request |-> p.request, ts |-> p.ts],
           completion |-> [request |-> r, ts |-> ts],
           queue_latency |-> IF p.insert = None THEN None ELSE CheckedSub(p.ts, p.insert.ts),
           device_latency |-> device,
           total_latency |-> IF since_insert = None THEN device ELSE since_insert,
           queue_depth_after |-> Cardinality(KeysIn(left))]

OnComplete(r, ts) ==
  LET key == KeyOf[r]
      device == DeviceOf[key]
      pen == Retain(pending, ts)
      left == RemovePending(pen, key)
      dropped == RetainAmbiguous(ts)[key] # None
  IN /\ ambiguous' = [RetainAmbiguous(ts) EXCEPT ![key] = None]
     /\ IF dropped \/ pen[key] = None
        THEN /\ pending' = pen
             /\ device_pending' = RetainDepth(ts)
             /\ returned' = None
        ELSE /\ pending' = left
             /\ device_pending' = [RetainDepth(ts) EXCEPT ![device] = SaturatingSub(@, 1)]
             /\ returned' = Completed(pen[key], r, ts, left)
     /\ inserted' = Retain(inserted, ts)
     /\ expired' = expired + ExpiredCount(ts)
     /\ UNCHANGED replaced

-----------------------------------------------------------------------------
(* The stream: the block layer, the probes and the ring buffer (external) *)

InFlight(r) == life[r] \in {"queued", "issued"}

Admissible(r) ==
  Exclusive => \A q \in Requests \ {r} : KeyOf[q] = KeyOf[r] => ~InFlight(q)

Stamps(r) == {t \in now - MaxSkew .. now : t >= stamp[r]}

\* The event of r stamped ts is dropped by a full ring buffer.
Lose ==
  /\ lost < MaxLost
  /\ lost' = lost + 1
  /\ returned' = None
  /\ UNCHANGED correlator

\* block_rq_insert, also of a request that is requeued after an issue.
Insert(r) ==
  /\ life[r] \in {"idle", "issued"} /\ attempts[r] < MaxAttempts
  /\ Admissible(r)
  /\ life' = [life EXCEPT ![r] = "queued"]
  /\ \E ts \in Stamps(r) :
       /\ stamp' = [stamp EXCEPT ![r] = ts]
       /\ \/ OnInsert(r, ts) /\ UNCHANGED lost
          \/ Lose
  /\ UNCHANGED <<now, attempts>>

\* block_rq_issue, with or without a preceding insert.
Issue(r) ==
  /\ life[r] \in {"idle", "queued", "issued"} /\ attempts[r] < MaxAttempts
  /\ Admissible(r)
  /\ life' = [life EXCEPT ![r] = "issued"]
  /\ attempts' = [attempts EXCEPT ![r] = @ + 1]
  /\ \E ts \in Stamps(r) :
       /\ stamp' = [stamp EXCEPT ![r] = ts]
       /\ \/ OnIssue(r, ts) /\ UNCHANGED lost
          \/ Lose
  /\ UNCHANGED now

Complete(r) ==
  /\ life[r] = "issued"
  /\ life' = [life EXCEPT ![r] = "done"]
  /\ \E ts \in Stamps(r) :
       /\ stamp' = [stamp EXCEPT ![r] = ts]
       /\ \/ OnComplete(r, ts) /\ UNCHANGED lost
          \/ Lose
  /\ UNCHANGED <<now, attempts>>

Tick ==
  /\ now < MaxTime
  /\ now' = now + 1
  /\ returned' = None
  /\ UNCHANGED <<life, stamp, attempts, lost, correlator>>

Init ==
  /\ now = 0
  /\ life = [r \in Requests |-> "idle"]
  /\ stamp = [r \in Requests |-> 0]
  /\ attempts = [r \in Requests |-> 0]
  /\ lost = 0
  /\ inserted = [k \in Keys |-> None]
  /\ pending = [k \in Keys |-> None]
  /\ ambiguous = [k \in Keys |-> None]
  /\ device_pending = [d \in Devices |-> 0]
  /\ expired = 0
  /\ replaced = 0
  /\ returned = None

Next ==
  \/ \E r \in Requests : Insert(r) \/ Issue(r) \/ Complete(r)
  \/ Tick

Spec == Init /\ [][Next]_vars

-----------------------------------------------------------------------------
(* Properties *)

(* Whatever the stream, the per-device depth counter that on_issue_classified,
   on_complete and expire_before each adjust by hand equals the number of
   pending requests of that device: issue_depth is never off by a collision,
   an expiry or a completion that was taken twice.                          *)
DepthMatchesPending ==
  \A d \in Devices : device_pending[d] = Cardinality(KeysOn(pending, d))

(* While the id is a request pointer (one live request per key), losing one
   event never makes on_complete join the issue of one request with the
   completion of another: a reissue of a key whose completion was lost is
   marked ambiguous instead.                                                *)
OneLossNeverMispairs ==
  (Exclusive /\ lost <= 1 /\ returned # None)
    => returned.issue.request = returned.completion.request

(* With request pointers and no loss, the insert, issue and completion of a
   CompletedIo are those of one request, and its total latency is its queue
   latency plus its device latency: no insert outlives its request in
   `inserted` to be attached to the next user of the pointer.               *)
OwnInsert ==
  (Exclusive /\ lost = 0 /\ returned # None /\ returned.insert # None)
    => /\ returned.insert.request = returned.completion.request
       /\ returned.queue_latency # None
       /\ returned.total_latency = returned.queue_latency + returned.device_latency

(* With request pointers and no loss, every pending entry is a request the
   device still owns: the reported queue depth may undercount, it never
   counts a request that has completed.                                     *)
PendingIsInFlight ==
  (Exclusive /\ lost = 0) => \A k \in KeysIn(pending) : InFlight(pending[k].request)

(* Whatever the stream, no correlated request is older than the TTL allows:
   a request slower than ttl_ns is never reported with a latency.           *)
LatencyWithinTtl ==
  returned # None => returned.device_latency <= Ttl /\ returned.total_latency <= 2 * Ttl

(* What on_complete returns is of one request, with its own insert, and no *)
(* older than the TTL.                                                     *)
PairsAreOwn ==
  /\ OneLossNeverMispairs
  /\ OwnInsert
  /\ LatencyWithinTtl

(* The depth counter of a device counts its pending entries, and those are *)
(* requests the device still owns.                                         *)
DepthIsInFlight ==
  /\ DepthMatchesPending
  /\ PendingIsInFlight
=============================================================================
