------------------------------ MODULE FileProbes ------------------------------
(***************************************************************************)
(* Exact file attribution (crates/android-ebpf/src/main.rs): the programs  *)
(* on vfs_read, vfs_write and the writeback functions remember the file a  *)
(* thread works for, the programs on submit_bio and submit_bio_noacct hand *)
(* it to the bio, and the programs on blk_mq_bio_to_request and the merge  *)
(* tracepoints report it for the request, at most MaxRequestOrigins times  *)
(* and once more as incomplete.                                            *)
(*                                                                         *)
(* The kernel around the programs is external: a thread's nested calls,    *)
(* bios that are submitted, resubmitted by a worker, merged, completed and *)
(* reused, requests that are reused.  The variables from `bio` on are      *)
(* history.                                                                *)
(***************************************************************************)
EXTENDS Naturals, Sequences, FiniteSets, SequencesExt, TLC

CONSTANTS
  Threads, Files, Bios, Requests,
  Workers,            (* threads of the kernel, which make no calls          *)
  MaxRequestOrigins,  (* MAX_REQUEST_ORIGINS                                 *)
  ActiveCapacity,     (* max_entries of ACTIVE_FILE_ORIGINS                  *)
  BioCapacity,        (* max_entries of BIO_FILE_ORIGINS                     *)
  CountCapacity,      (* max_entries of REQUEST_ORIGIN_COUNTS                *)
  RingCapacity,       (* records the ring buffer holds                       *)
  MaxDepth,           (* bound on the nested calls of a thread               *)
  None

ASSUME Sizes ==
  {MaxRequestOrigins, ActiveCapacity, BioCapacity, CountCapacity, RingCapacity, MaxDepth} \subseteq Nat

VARIABLES
  enabled,   (* EXACT_ATTRIBUTION_ENABLED                                    *)
  noacct,    (* the optional program on submit_bio_noacct is attached        *)
  active,    (* ACTIVE_FILE_ORIGINS: the file of a thread                    *)
  bioFile,   (* BIO_FILE_ORIGINS: the file of a bio                          *)
  counts,    (* REQUEST_ORIGIN_COUNTS                                        *)
  ring,      (* records waiting in the ring                                  *)
  calls,     (* calls[t]: the files of the calls thread t is in, outermost first *)
  bio,       (* bio[b]: where bio b is, and the files its submitter worked for *)
  request,   (* request[r]: the life of r and what was reported of it        *)
  last       (* the RequestOrigin record the last step wrote                 *)

vars == <<enabled, noacct, active, bioFile, counts, ring, calls, bio, request, last>>

Bio == [at : {"free", "submitted", "linked"}, files : SUBSET Files, request : Requests \cup {None}]
Request == [live : BOOLEAN, bound : Nat, reported : Nat, incomplete : BOOLEAN, lost : BOOLEAN]
Record == [request : Requests, file : Files, files : SUBSET Files, incomplete : BOOLEAN]

FreeBio == [at |-> "free", files |-> {}, request |-> None]
FreeRequest == [live |-> FALSE, bound |-> 0, reported |-> 0, incomplete |-> FALSE, lost |-> FALSE]

\* A map without a capacity.
AcceptsAlways(map, key, capacity) == TRUE

\* A map of this capacity accepts a write to this key.
Accepts(map, key, capacity) == key \in DOMAIN map \/ Cardinality(DOMAIN map) < capacity
Store(map, key, value) == [k \in DOMAIN map \cup {key} |-> IF k = key THEN value ELSE map[k]]
Without(map, key) == Restrict(map, DOMAIN map \ {key})

Init ==
  /\ enabled = FALSE
  /\ noacct \in BOOLEAN
  /\ active = <<>> /\ bioFile = <<>> /\ counts = <<>>
  /\ ring = 0
  /\ calls = [t \in Threads |-> <<>>]
  /\ bio = [b \in Bios |-> FreeBio]
  /\ request = [r \in Requests |-> FreeRequest]
  /\ last = None

-----------------------------------------------------------------------------
(* The collector enables attribution once every program is attached, and   *)
(* its loop drains the ring.                                               *)

EnableAttribution ==
  /\ ~enabled
  /\ enabled' = TRUE
  /\ last' = None
  /\ UNCHANGED <<noacct, active, bioFile, counts, ring, calls, bio, request>>

Drain ==
  /\ ring > 0
  /\ ring' = ring - 1
  /\ last' = None
  /\ UNCHANGED <<enabled, noacct, active, bioFile, counts, calls, bio, request>>

-----------------------------------------------------------------------------
(* capture_active_file and capture_writeback_mapping.  `seen` is FALSE     *)
(* where the mode at this moment is neither Deep nor Raw all, the identity *)
(* cannot be read or, for vfs_read and vfs_write, the filter rejects the   *)
(* call; an outer call's entry then stays.                                 *)

RememberFile(t, f, seen) ==
  active' = IF enabled /\ seen /\ Accepts(active, t, ActiveCapacity)
            THEN Store(active, t, f) ELSE active

EnterCall(t, f, seen) ==
  /\ t \notin Workers /\ Len(calls[t]) < MaxDepth
  /\ calls' = [calls EXCEPT ![t] = Append(@, f)]
  /\ RememberFile(t, f, seen)
  /\ last' = None
  /\ UNCHANGED <<enabled, noacct, bioFile, counts, ring, bio, request>>

ClearNothing(t) == active' = active

\* clear_active_file, whichever call of the thread returns
ClearFile(t) == active' = Without(active, t)

ExitCall(t) ==
  /\ calls[t] # <<>>
  /\ calls' = [calls EXCEPT ![t] = Front(@)]
  /\ ClearFile(t)
  /\ last' = None
  /\ UNCHANGED <<enabled, noacct, bioFile, counts, ring, bio, request>>

-----------------------------------------------------------------------------
(* bind_active_file_to_bio.  submit_bio calls submit_bio_noacct, where     *)
(* binding again changes nothing.  A stacked driver submits its own bios,  *)
(* and a worker resubmits a deferred one, through submit_bio_noacct alone. *)

\* A binding that only ever overwrites.
BindOver(t, b) ==
  bioFile' = IF enabled /\ t \in DOMAIN active /\ Accepts(bioFile, b, BioCapacity)
             THEN Store(bioFile, b, active[t]) ELSE bioFile

Bind(t, b) ==
  LET fresh == IF enabled THEN Without(bioFile, b) ELSE bioFile IN
  bioFile' = IF enabled /\ t \in DOMAIN active /\ Accepts(fresh, b, BioCapacity)
             THEN Store(fresh, b, active[t]) ELSE fresh

Submit(t, b, direct) ==
  /\ bio[b].at = "free"
  /\ bio' = [bio EXCEPT ![b] = [at |-> "submitted", files |-> Range(calls[t]), request |-> None]]
  /\ IF direct /\ ~noacct THEN UNCHANGED bioFile ELSE Bind(t, b)
  /\ last' = None
  /\ UNCHANGED <<enabled, noacct, active, counts, ring, calls, request>>

\* A kernel worker, which is in no call, resubmits a deferred bio.
Resubmit(t, b) ==
  /\ bio[b].at = "submitted"
  /\ calls[t] = <<>>
  /\ IF noacct THEN Bind(t, b) ELSE UNCHANGED bioFile
  /\ last' = None
  /\ UNCHANGED <<enabled, noacct, active, counts, ring, calls, bio, request>>

\* A bio that a driver serves without a request.
EndBio(b) ==
  /\ bio[b].at = "submitted"
  /\ bio' = [bio EXCEPT ![b] = FreeBio]
  /\ last' = None
  /\ UNCHANGED <<enabled, noacct, active, bioFile, counts, ring, calls, request>>

-----------------------------------------------------------------------------
(* link_bio_ptrs.                                                          *)

\* A request that keeps the count of the pointer's previous user.
StaleCount(r, new) == counts

Count(r, new) == IF new THEN Without(counts, r) ELSE counts

\* An overflow that is never marked, and one marked an origin early.
NeverMarked(n) == FALSE
MarkedEarly(n) == n + 1 >= MaxRequestOrigins

Marked(n) == n = MaxRequestOrigins

\* What link_bio_ptrs does: nothing known of the bio; origins already
\* overflowed; no room for the count; no room in the ring; reported.  The
\* bio's entry survives the two failures.
Link(r, b, new) ==
  LET start == Count(r, new)
      n     == IF r \in DOMAIN start THEN start[r] ELSE 0
      known == enabled /\ b \in DOMAIN bioFile
      over  == n > MaxRequestOrigins
      room  == Accepts(start, r, CountCapacity)
      fits  == ring < RingCapacity
      report == known /\ ~over /\ room /\ fits
      life  == IF new THEN [FreeRequest EXCEPT !.live = TRUE] ELSE request[r]
  IN /\ counts' = IF ~enabled THEN counts
                  ELSE IF known /\ ~over /\ room THEN Store(start, r, n + 1) ELSE start
     /\ bioFile' = IF report \/ (known /\ over) THEN Without(bioFile, b) ELSE bioFile
     /\ ring' = IF report THEN ring + 1 ELSE ring
     /\ last' = IF report THEN [request |-> r, file |-> bioFile[b], files |-> bio[b].files,
                                incomplete |-> Marked(n)]
                ELSE None
     /\ request' = [request EXCEPT ![r] =
          [life EXCEPT !.bound = @ + (IF known THEN 1 ELSE 0),
                       !.reported = @ + (IF report THEN 1 ELSE 0),
                       !.incomplete = @ \/ (report /\ Marked(n)),
                       !.lost = @ \/ (known /\ ~over /\ ~(room /\ fits))]]
     /\ bio' = [bio EXCEPT ![b].at = "linked", ![b].request = r]

BioToRequest(r, b) ==
  /\ bio[b].at = "submitted" /\ ~request[r].live
  /\ Link(r, b, TRUE)
  /\ UNCHANGED <<enabled, noacct, active, calls>>

Merge(r, b) ==
  /\ bio[b].at = "submitted" /\ request[r].live
  /\ Link(r, b, FALSE)
  /\ UNCHANGED <<enabled, noacct, active, calls>>

\* process_block drops the count when it sees the completion; a completion
\* the probes miss leaves it.
Complete(r, seen) ==
  /\ request[r].live
  /\ request' = [request EXCEPT ![r] = FreeRequest]
  /\ bio' = [b \in Bios |-> IF bio[b].request = r THEN FreeBio ELSE bio[b]]
  /\ counts' = IF seen THEN Without(counts, r) ELSE counts
  /\ last' = None
  /\ UNCHANGED <<enabled, noacct, active, bioFile, ring, calls>>

-----------------------------------------------------------------------------
Next ==
  \/ EnableAttribution
  \/ Drain
  \/ \E t \in Threads, f \in Files, seen \in BOOLEAN : EnterCall(t, f, seen)
  \/ \E t \in Threads : ExitCall(t)
  \/ \E t \in Threads, b \in Bios, direct \in BOOLEAN : Submit(t, b, direct)
  \/ \E t \in Threads, b \in Bios : Resubmit(t, b)
  \/ \E b \in Bios : EndBio(b)
  \/ \E r \in Requests, b \in Bios : BioToRequest(r, b)
  \/ \E r \in Requests, b \in Bios : Merge(r, b)
  \/ \E r \in Requests, seen \in BOOLEAN : Complete(r, seen)

Spec == Init /\ [][Next]_vars

\* Nothing tells files, bios or requests apart.
Symmetry == Permutations(Files) \cup Permutations(Bios) \cup Permutations(Requests)

-----------------------------------------------------------------------------
PartialMaps(keys, values) == UNION {[D -> values] : D \in SUBSET keys}

(* Maps stay within their capacities and hold keys and values of their types. *)
TypeOK ==
  /\ {enabled, noacct} \subseteq BOOLEAN
  /\ active \in PartialMaps(Threads, Files) /\ Cardinality(DOMAIN active) <= ActiveCapacity
  /\ bioFile \in PartialMaps(Bios, Files) /\ Cardinality(DOMAIN bioFile) <= BioCapacity
  /\ counts \in PartialMaps(Requests, 1 .. MaxRequestOrigins + 1)
  /\ Cardinality(DOMAIN counts) <= CountCapacity
  /\ ring \in 0 .. RingCapacity
  /\ calls \in [Threads -> Seq(Files)] /\ \A t \in Threads : Len(calls[t]) <= MaxDepth
  /\ bio \in [Bios -> Bio]
  /\ request \in [Requests -> Request]
  /\ last \in Record \cup {None}

(* A RequestOrigin record names a file the bio's submitter was working on  *)
(* when it submitted the bio, however often bio and request pointers were  *)
(* reused, calls were nested and records were lost (link_bio_ptrs,         *)
(* bind_active_file_to_bio, clear_active_file).  It needs the optional     *)
(* program on submit_bio_noacct: without it an entry that a failed link    *)
(* left behind can meet a bio submitted there.                             *)
OriginIsSubmitters ==
  last # None /\ noacct => last.file \in last.files

(* What link_bio_ptrs reports of a live request is complete unless it says *)
(* so: each bio with a known file was reported, or a record is marked      *)
(* ORIGIN_INCOMPLETE, or a report failed for lack of room.                 *)
OriginsCompleteOrMarked ==
  \A r \in Requests : request[r].live =>
    \/ request[r].reported = request[r].bound
    \/ request[r].incomplete
    \/ request[r].lost

(* A request is reported with at most MAX_REQUEST_ORIGINS origins and one  *)
(* overflow record, and only an overflow is marked.                        *)
OriginsBounded ==
  \A r \in Requests :
    /\ request[r].reported <= MaxRequestOrigins + 1
    /\ request[r].incomplete => request[r].bound > MaxRequestOrigins

(* A thread outside of every traced call owns no entry of                  *)
(* ACTIVE_FILE_ORIGINS: what it submits later is never given to a file it  *)
(* has finished with (clear_active_file).                                  *)
IdleThreadHasNoFile ==
  \A t \in Threads : calls[t] = <<>> => t \notin DOMAIN active

(* The origins of a request are complete or marked, bounded by             *)
(* MAX_REQUEST_ORIGINS and one overflow record, and a thread outside of    *)
(* traced calls adds none.                                                 *)
OriginsAreWhole ==
  /\ OriginsCompleteOrMarked
  /\ OriginsBounded
  /\ IdleThreadHasNoFile
=============================================================================
