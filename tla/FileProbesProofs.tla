--------------------------- MODULE FileProbesProofs ---------------------------
(***************************************************************************)
(* Proofs about exact file attribution for every set of threads, files,    *)
(* bios and requests, every size of the maps and of the ring and every     *)
(* depth of nested calls: types and capacities, OriginIsSubmitters and     *)
(* OriginsAreWhole.                                                        *)
(***************************************************************************)
EXTENDS FileProbes, FiniteSetTheorems, SequenceTheorems, TLAPS

-----------------------------------------------------------------------------
(* BPF maps *)

\* A map with keys and values of these sets, within its capacity.
Map(map, keys, values, capacity) ==
  /\ map \in PartialMaps(keys, values)
  /\ IsFiniteSet(DOMAIN map) /\ Cardinality(DOMAIN map) <= capacity

(* A partial map is a function whose keys and values are of its sets. *)
LEMMA PartialMapElements ==
  ASSUME NEW keys, NEW values, NEW map
  PROVE  map \in PartialMaps(keys, values) <=>
           /\ map = [k \in DOMAIN map |-> map[k]]
           /\ DOMAIN map \subseteq keys
           /\ \A k \in DOMAIN map : map[k] \in values
<1>1. ASSUME map \in PartialMaps(keys, values)
      PROVE  /\ map = [k \in DOMAIN map |-> map[k]]
             /\ DOMAIN map \subseteq keys
             /\ \A k \in DOMAIN map : map[k] \in values
  <2>1. PICK D \in SUBSET keys : map \in [D -> values]
    BY <1>1 DEF PartialMaps
  <2> QED BY <2>1
<1>2. ASSUME map = [k \in DOMAIN map |-> map[k]], DOMAIN map \subseteq keys,
             \A k \in DOMAIN map : map[k] \in values
      PROVE  map \in PartialMaps(keys, values)
  <2>1. map \in [DOMAIN map -> values] /\ DOMAIN map \in SUBSET keys
    BY <1>2
  <2> QED BY <2>1 DEF PartialMaps
<1> QED BY <1>1, <1>2

(* Store writes one key and leaves the others. *)
LEMMA StoreFacts ==
  ASSUME NEW map, NEW key, NEW value
  PROVE  /\ DOMAIN Store(map, key, value) = DOMAIN map \cup {key}
         /\ Store(map, key, value)[key] = value
         /\ \A k \in DOMAIN map : k # key => Store(map, key, value)[k] = map[k]
BY DEF Store

(* Without removes one key and leaves the others. *)
LEMMA WithoutFacts ==
  ASSUME NEW map, NEW key
  PROVE  /\ DOMAIN Without(map, key) = DOMAIN map \ {key}
         /\ \A k \in DOMAIN map : k # key => Without(map, key)[k] = map[k]
BY DEF Without, Restrict

(* A write that the map accepts keeps its type and its capacity. *)
LEMMA StoreKeepsMap ==
  ASSUME NEW map, NEW keys, NEW values, NEW capacity \in Nat, NEW key \in keys, NEW value \in values,
         Map(map, keys, values, capacity), Accepts(map, key, capacity)
  PROVE  Map(Store(map, key, value), keys, values, capacity)
<1>1. /\ DOMAIN map \subseteq keys /\ \A k \in DOMAIN map : map[k] \in values
  BY PartialMapElements DEF Map
<1>2. Store(map, key, value) \in PartialMaps(keys, values)
  <2>1. /\ DOMAIN Store(map, key, value) \subseteq keys
        /\ \A k \in DOMAIN Store(map, key, value) : Store(map, key, value)[k] \in values
    BY <1>1 DEF Store
  <2>2. Store(map, key, value) =
          [k \in DOMAIN Store(map, key, value) |-> Store(map, key, value)[k]]
    BY DEF Store
  <2> QED BY <2>1, <2>2, PartialMapElements
<1>3. IsFiniteSet(DOMAIN map) /\ Cardinality(DOMAIN map) \in Nat /\ Cardinality(DOMAIN map) <= capacity
  BY FS_CardinalityType DEF Map
<1>4. /\ IsFiniteSet(DOMAIN map \cup {key})
      /\ Cardinality(DOMAIN map \cup {key}) =
           IF key \in DOMAIN map THEN Cardinality(DOMAIN map) ELSE Cardinality(DOMAIN map) + 1
  BY <1>3, FS_AddElement
<1>5. Cardinality(DOMAIN map \cup {key}) <= capacity
  BY <1>3, <1>4 DEF Accepts
<1> QED BY <1>2, <1>4, <1>5, StoreFacts DEF Map

(* Removing a key keeps the type and the capacity of a map. *)
LEMMA WithoutKeepsMap ==
  ASSUME NEW map, NEW keys, NEW values, NEW capacity \in Nat, NEW key,
         Map(map, keys, values, capacity)
  PROVE  Map(Without(map, key), keys, values, capacity)
<1>1. /\ DOMAIN map \subseteq keys /\ \A k \in DOMAIN map : map[k] \in values
  BY PartialMapElements DEF Map
<1>2. Without(map, key) \in PartialMaps(keys, values)
  <2>1. /\ DOMAIN Without(map, key) \subseteq keys
        /\ \A k \in DOMAIN Without(map, key) : Without(map, key)[k] \in values
    BY <1>1 DEF Without, Restrict
  <2>2. Without(map, key) = [k \in DOMAIN Without(map, key) |-> Without(map, key)[k]]
    BY DEF Without, Restrict
  <2> QED BY <2>1, <2>2, PartialMapElements
<1>3. IsFiniteSet(DOMAIN map) /\ Cardinality(DOMAIN map) \in Nat /\ Cardinality(DOMAIN map) <= capacity
  BY FS_CardinalityType DEF Map
<1>4. /\ IsFiniteSet(DOMAIN map \ {key}) /\ Cardinality(DOMAIN map \ {key}) \in Nat
      /\ Cardinality(DOMAIN map \ {key}) =
           IF key \in DOMAIN map THEN Cardinality(DOMAIN map) - 1 ELSE Cardinality(DOMAIN map)
  BY <1>3, FS_RemoveElement, FS_CardinalityType
<1>5. Cardinality(DOMAIN map \ {key}) <= capacity
  BY <1>3, <1>4
<1> QED BY <1>2, <1>4, <1>5, WithoutFacts DEF Map

-----------------------------------------------------------------------------
(* Types and capacities *)

TypeInv ==
  /\ enabled \in BOOLEAN /\ noacct \in BOOLEAN
  /\ Map(active, Threads, Files, ActiveCapacity)
  /\ Map(bioFile, Bios, Files, BioCapacity)
  /\ Map(counts, Requests, 1 .. MaxRequestOrigins + 1, CountCapacity)
  /\ ring \in 0 .. RingCapacity
  /\ calls \in [Threads -> Seq(Files)] /\ \A t \in Threads : Len(calls[t]) <= MaxDepth
  /\ bio \in [Bios -> Bio]
  /\ request \in [Requests -> Request]
  /\ last \in Record \cup {None}

(* The programs start with empty maps. *)
LEMMA InitTypes == Init => TypeInv
<1> SUFFICES ASSUME Init PROVE TypeInv
  OBVIOUS
<1>1. ASSUME NEW keys, NEW values, NEW capacity \in Nat
      PROVE  Map(<<>>, keys, values, capacity)
  <2>1. DOMAIN <<>> = {}
    OBVIOUS
  <2>2. IsFiniteSet({}) /\ Cardinality({}) = 0
    BY FS_EmptySet
  <2>3. <<>> \in PartialMaps(keys, values)
    <3>1. <<>> \in [{} -> values]
      OBVIOUS
    <3> QED BY <3>1 DEF PartialMaps
  <2> QED BY <2>1, <2>2, <2>3 DEF Map
<1>2. /\ Map(active, Threads, Files, ActiveCapacity)
      /\ Map(bioFile, Bios, Files, BioCapacity)
      /\ Map(counts, Requests, 1 .. MaxRequestOrigins + 1, CountCapacity)
  BY Zenon, <1>1, Sizes DEF Init
<1>3. /\ ring \in 0 .. RingCapacity /\ calls \in [Threads -> Seq(Files)]
      /\ \A t \in Threads : Len(calls[t]) <= MaxDepth
  BY Sizes DEF Init
<1>4. bio \in [Bios -> Bio] /\ request \in [Requests -> Request]
  BY DEF Init, Bio, Request, FreeBio, FreeRequest
<1> QED BY <1>2, <1>3, <1>4 DEF Init, TypeInv

(* bind_active_file_to_bio keeps the types. *)
LEMMA BindTypes ==
  ASSUME TypeInv, NEW t \in Threads, NEW b \in Bios, Bind(t, b)
  PROVE  Map(bioFile', Bios, Files, BioCapacity)
<1> DEFINE fresh == IF enabled THEN Without(bioFile, b) ELSE bioFile
<1>1. Map(fresh, Bios, Files, BioCapacity)
  BY Zenon, WithoutKeepsMap, Sizes DEF TypeInv
<1>2. CASE enabled /\ t \in DOMAIN active /\ Accepts(fresh, b, BioCapacity)
  <2>1. active[t] \in Files
    BY <1>2, PartialMapElements DEF TypeInv, Map
  <2>2. Map(Store(fresh, b, active[t]), Bios, Files, BioCapacity)
    BY Zenon, <1>1, <1>2, <2>1, StoreKeepsMap, Sizes
  <2> QED BY Zenon, <1>2, <2>2 DEF Bind
<1>3. CASE ~(enabled /\ t \in DOMAIN active /\ Accepts(fresh, b, BioCapacity))
  BY Zenon, <1>1, <1>3 DEF Bind
<1> QED BY <1>2, <1>3

(* What is noted of a request stays of its type. *)
LEMMA EntryType ==
  ASSUME NEW life \in Request, NEW more \in Nat, NEW told \in Nat, NEW mark, NEW lack
  PROVE  [life EXCEPT !.bound = @ + more, !.reported = @ + told,
                      !.incomplete = @ \/ mark, !.lost = @ \/ lack] \in Request
<1>1. life.incomplete \in BOOLEAN /\ life.lost \in BOOLEAN
  BY DEF Request
<1>2. (life.incomplete \/ mark) \in BOOLEAN /\ (life.lost \/ lack) \in BOOLEAN
  OBVIOUS
<1>3. ASSUME NEW i \in BOOLEAN, NEW l \in BOOLEAN
      PROVE  [life EXCEPT !.bound = @ + more, !.reported = @ + told, !.incomplete = i, !.lost = l]
               \in Request
  <2>1. [life EXCEPT !.bound = @ + more] \in Request
    BY DEF Request
  <2>2. \A x \in Request : [x EXCEPT !.reported = @ + told] \in Request
    BY DEF Request
  <2>3. \A x \in Request : [x EXCEPT !.incomplete = i] \in Request
    BY DEF Request
  <2>4. \A x \in Request : [x EXCEPT !.lost = l] \in Request
    BY DEF Request
  <2> QED BY <2>1, <2>2, <2>3, <2>4
<1> QED BY Zenon, <1>2, <1>3

(* A request begins with no origins. *)
LEMMA BegunRequest == [FreeRequest EXCEPT !.live = TRUE] \in Request
BY DEF Request, FreeRequest

(* link_bio_ptrs keeps the types. *)
LEMMA LinkTypes ==
  ASSUME TypeInv, NEW r \in Requests, NEW b \in Bios, NEW new \in BOOLEAN, Link(r, b, new),
         UNCHANGED <<enabled, noacct, active, calls>>
  PROVE  TypeInv'
<1> DEFINE start == Count(r, new)
           n == IF r \in DOMAIN start THEN start[r] ELSE 0
           known == enabled /\ b \in DOMAIN bioFile
           over == n > MaxRequestOrigins
           room == Accepts(start, r, CountCapacity)
           fits == ring < RingCapacity
           report == known /\ ~over /\ room /\ fits
           life == IF new THEN [FreeRequest EXCEPT !.live = TRUE] ELSE request[r]
<1>0. MaxRequestOrigins \in Nat /\ CountCapacity \in Nat /\ BioCapacity \in Nat /\ RingCapacity \in Nat
  BY Zenon, Sizes
<1>1. Map(start, Requests, 1 .. MaxRequestOrigins + 1, CountCapacity)
  BY Zenon, <1>0, WithoutKeepsMap DEF TypeInv, Count
<1>2. n \in 0 .. MaxRequestOrigins + 1
  BY <1>0, <1>1, PartialMapElements DEF Map
<1>3. Map(counts', Requests, 1 .. MaxRequestOrigins + 1, CountCapacity)
  <2>1. CASE enabled /\ known /\ ~over /\ room
    <3>1. n + 1 \in 1 .. MaxRequestOrigins + 1
      BY <1>0, <1>2, <2>1
    <3>2. Map(Store(start, r, n + 1), Requests, 1 .. MaxRequestOrigins + 1, CountCapacity)
      BY Zenon, <1>0, <1>1, <2>1, <3>1, StoreKeepsMap
    <3> QED BY Zenon, <2>1, <3>2 DEF Link
  <2>2. CASE ~enabled
    BY Zenon, <2>2 DEF Link, TypeInv
  <2>3. CASE enabled /\ ~(known /\ ~over /\ room)
    BY Zenon, <1>1, <2>3 DEF Link
  <2> QED BY Zenon, <2>1, <2>2, <2>3
<1>4. Map(bioFile', Bios, Files, BioCapacity)
  BY Zenon, <1>0, WithoutKeepsMap DEF Link, TypeInv
<1>5. ring' \in 0 .. RingCapacity
  <2>1. CASE report
    BY <1>0, <2>1 DEF Link, TypeInv
  <2>2. CASE ~report
    BY Zenon, <2>2 DEF Link, TypeInv
  <2> QED BY Zenon, <2>1, <2>2
<1>6. last' \in Record \cup {None}
  <2>1. CASE report
    <3>1. bioFile[b] \in Files
      BY <2>1, PartialMapElements DEF TypeInv, Map
    <3>2. bio[b].files \in SUBSET Files
      BY DEF TypeInv, Bio
    <3>3. Marked(n) \in BOOLEAN
      BY DEF Marked
    <3>4. last' = [request |-> r, file |-> bioFile[b], files |-> bio[b].files, incomplete |-> Marked(n)]
      BY Zenon, <2>1 DEF Link
    <3> QED BY <3>1, <3>2, <3>3, <3>4 DEF Record
  <2>2. CASE ~report
    BY Zenon, <2>2 DEF Link
  <2> QED BY Zenon, <2>1, <2>2
<1>7. request' \in [Requests -> Request]
  <2>1. life \in Request
    BY Zenon, BegunRequest DEF TypeInv
  <2> DEFINE entry == [life EXCEPT !.bound = @ + (IF known THEN 1 ELSE 0),
                                   !.reported = @ + (IF report THEN 1 ELSE 0),
                                   !.incomplete = @ \/ (report /\ Marked(n)),
                                   !.lost = @ \/ (known /\ ~over /\ ~(room /\ fits))]
  <2>3. entry \in Request
    <3> DEFINE more == IF known THEN 1 ELSE 0
               told == IF report THEN 1 ELSE 0
               mark == report /\ Marked(n)
               lack == known /\ ~over /\ ~(room /\ fits)
    <3>1. more \in Nat /\ told \in Nat
      OBVIOUS
    <3>2. [life EXCEPT !.bound = @ + more, !.reported = @ + told,
                       !.incomplete = @ \/ mark, !.lost = @ \/ lack] \in Request
      <4> HIDE DEF life, more, told, mark, lack
      <4> QED BY Zenon, <2>1, <3>1, EntryType
    <3> HIDE DEF life, known, report, over, room, fits
    <3> QED BY Zenon, <3>2
  <2>4. request' = [request EXCEPT ![r] = entry]
    BY Zenon DEF Link
  <2> HIDE DEF entry
  <2> QED BY <2>3, <2>4 DEF TypeInv
<1>8. bio' \in [Bios -> Bio]
  <2>1. bio' = [bio EXCEPT ![b].at = "linked", ![b].request = r]
    BY Zenon DEF Link
  <2>2. bio \in [Bios -> Bio] /\ bio[b] \in Bio
    BY Zenon DEF TypeInv
  <2> QED BY <2>1, <2>2 DEF Bio
<1> QED BY Zenon, <1>3, <1>4, <1>5, <1>6, <1>7, <1>8 DEF TypeInv

(* A step keeps the types. *)
LEMMA StepTypes == TypeInv /\ [Next]_vars => TypeInv'
<1> SUFFICES ASSUME TypeInv, [Next]_vars PROVE TypeInv'
  OBVIOUS
<1>0. ActiveCapacity \in Nat /\ RingCapacity \in Nat /\ MaxDepth \in Nat /\ CountCapacity \in Nat
  BY Zenon, Sizes
<1>1. CASE EnableAttribution
  BY Zenon, <1>1 DEF EnableAttribution, TypeInv
<1>2. CASE Drain
  <2>1. ring' \in 0 .. RingCapacity
    BY <1>0, <1>2 DEF Drain, TypeInv
  <2> QED BY Zenon, <1>2, <2>1 DEF Drain, TypeInv
<1>3. ASSUME NEW t \in Threads, NEW f \in Files, NEW seen \in BOOLEAN, EnterCall(t, f, seen)
      PROVE  TypeInv'
  <2>1. Map(active', Threads, Files, ActiveCapacity)
    BY Zenon, <1>0, <1>3, StoreKeepsMap DEF EnterCall, RememberFile, TypeInv
  <2>2. calls[t] \in Seq(Files) /\ Len(calls[t]) < MaxDepth
    BY <1>3 DEF EnterCall, TypeInv
  <2>3. Append(calls[t], f) \in Seq(Files) /\ Len(Append(calls[t], f)) <= MaxDepth
    BY <1>0, <2>2, AppendProperties
  <2>4. calls' \in [Threads -> Seq(Files)] /\ \A u \in Threads : Len(calls'[u]) <= MaxDepth
    BY <1>3, <2>3 DEF EnterCall, TypeInv
  <2> QED BY Zenon, <1>3, <2>1, <2>4 DEF EnterCall, TypeInv
<1>4. ASSUME NEW t \in Threads, ExitCall(t)
      PROVE  TypeInv'
  <2>1. Map(active', Threads, Files, ActiveCapacity)
    BY Zenon, <1>0, <1>4, WithoutKeepsMap DEF ExitCall, ClearFile, TypeInv
  <2>2. calls[t] \in Seq(Files) /\ Len(calls[t]) <= MaxDepth /\ calls[t] # <<>>
    BY <1>4 DEF ExitCall, TypeInv
  <2>3. Front(calls[t]) \in Seq(Files) /\ Len(Front(calls[t])) <= MaxDepth
    BY <1>0, <2>2 DEF Front
  <2>4. calls' \in [Threads -> Seq(Files)] /\ \A u \in Threads : Len(calls'[u]) <= MaxDepth
    BY <1>4, <2>3 DEF ExitCall, TypeInv
  <2> QED BY Zenon, <1>4, <2>1, <2>4 DEF ExitCall, TypeInv
<1>5. ASSUME NEW t \in Threads, NEW b \in Bios, NEW direct \in BOOLEAN, Submit(t, b, direct)
      PROVE  TypeInv'
  <2>1. Map(bioFile', Bios, Files, BioCapacity)
    BY Zenon, <1>5, BindTypes DEF Submit, TypeInv
  <2>2. Range(calls[t]) \in SUBSET Files
    BY DEF Range, TypeInv
  <2>3. bio' \in [Bios -> Bio]
    BY <1>5, <2>2 DEF Submit, TypeInv, Bio
  <2> QED BY Zenon, <1>5, <2>1, <2>3 DEF Submit, TypeInv
<1>6. ASSUME NEW t \in Threads, NEW b \in Bios, Resubmit(t, b)
      PROVE  TypeInv'
  <2>1. Map(bioFile', Bios, Files, BioCapacity)
    BY Zenon, <1>6, BindTypes DEF Resubmit, TypeInv
  <2> QED BY Zenon, <1>6, <2>1 DEF Resubmit, TypeInv
<1>7. ASSUME NEW b \in Bios, EndBio(b)
      PROVE  TypeInv'
  <2>1. bio' \in [Bios -> Bio]
    BY <1>7 DEF EndBio, TypeInv, Bio, FreeBio
  <2> QED BY Zenon, <1>7, <2>1 DEF EndBio, TypeInv
<1>8. ASSUME NEW r \in Requests, NEW b \in Bios, BioToRequest(r, b)
      PROVE  TypeInv'
  BY Zenon, <1>8, LinkTypes DEF BioToRequest
<1>9. ASSUME NEW r \in Requests, NEW b \in Bios, Merge(r, b)
      PROVE  TypeInv'
  BY Zenon, <1>9, LinkTypes DEF Merge
<1>10. ASSUME NEW r \in Requests, NEW seen \in BOOLEAN, Complete(r, seen)
      PROVE  TypeInv'
  <2>1. Map(counts', Requests, 1 .. MaxRequestOrigins + 1, CountCapacity)
    BY Zenon, <1>0, <1>10, WithoutKeepsMap DEF Complete, TypeInv
  <2>2. request' \in [Requests -> Request]
    BY <1>10 DEF Complete, TypeInv, Request, FreeRequest
  <2>3. bio' \in [Bios -> Bio]
    BY <1>10 DEF Complete, TypeInv, Bio, FreeBio
  <2> QED BY Zenon, <1>10, <2>1, <2>2, <2>3 DEF Complete, TypeInv
<1>11. CASE UNCHANGED vars
  BY Zenon, <1>11 DEF vars, TypeInv
<1> QED BY Zenon, <1>1, <1>2, <1>3, <1>4, <1>5, <1>6, <1>7, <1>8, <1>9, <1>10, <1>11 DEF Next

(* The maps of file attribution hold keys and values of their types and    *)
(* stay within max_entries, whatever the kernel does in between.           *)
THEOREM TypeCorrect == Spec => []TypeOK
<1>1. TypeInv => TypeOK
  BY Zenon DEF TypeInv, TypeOK, Map
<1> QED BY <1>1, InitTypes, StepTypes, PTL DEF Spec

-----------------------------------------------------------------------------
(* The reported file is the submitter's *)

(* OriginIsSubmitters speaks of the record that was written; the entries it *)
(* is written from are: the file of a thread is one of its calls', and with *)
(* the program on submit_bio_noacct the file of a submitted bio is one of   *)
(* its submitter's, because every submission replaces what an earlier use   *)
(* of the bio left.                                                         *)
SubmitterInv ==
  /\ ~enabled => DOMAIN bioFile = {}
  /\ \A t \in DOMAIN active : active[t] \in Range(calls[t])
  /\ noacct => \A b \in DOMAIN bioFile : bio[b].at = "submitted" => bioFile[b] \in bio[b].files
  /\ OriginIsSubmitters

(* After bind_active_file_to_bio a bio's entry is its thread's, and other  *)
(* bios keep theirs.                                                       *)
LEMMA BindFacts ==
  ASSUME TypeInv, SubmitterInv, NEW t \in Threads, NEW b \in Bios, Bind(t, b)
  PROVE  /\ ~enabled => DOMAIN bioFile' = {}
         /\ \A c \in DOMAIN bioFile' :
              \/ c # b /\ c \in DOMAIN bioFile /\ bioFile'[c] = bioFile[c]
              \/ c = b /\ t \in DOMAIN active /\ bioFile'[c] = active[t]
<1> DEFINE fresh == IF enabled THEN Without(bioFile, b) ELSE bioFile
<1>1. /\ ~enabled => DOMAIN fresh = {}
      /\ \A c \in DOMAIN fresh : c # b /\ c \in DOMAIN bioFile /\ fresh[c] = bioFile[c]
  BY DEF SubmitterInv, Without, Restrict
<1> HIDE DEF fresh
<1>2. CASE enabled /\ t \in DOMAIN active /\ Accepts(fresh, b, BioCapacity)
  <2>1. bioFile' = Store(fresh, b, active[t])
    BY Zenon, <1>2 DEF Bind, fresh
  <2> QED BY <1>1, <1>2, <2>1 DEF Store
<1>3. CASE ~(enabled /\ t \in DOMAIN active /\ Accepts(fresh, b, BioCapacity))
  <2>1. bioFile' = fresh
    BY Zenon, <1>3 DEF Bind, fresh
  <2> QED BY <1>1, <2>1
<1> QED BY Zenon, <1>2, <1>3

(* link_bio_ptrs reports the file of the bio's entry, and writes no entry. *)
LEMMA LinkFacts ==
  ASSUME TypeInv, NEW r \in Requests, NEW b \in Bios, NEW new \in BOOLEAN, Link(r, b, new)
  PROVE  /\ \A c \in DOMAIN bioFile' : c \in DOMAIN bioFile /\ bioFile'[c] = bioFile[c]
         /\ last' # None => b \in DOMAIN bioFile /\ last'.file = bioFile[b] /\ last'.files = bio[b].files
         /\ bio' = [bio EXCEPT ![b].at = "linked", ![b].request = r]
<1>1. bioFile' = Without(bioFile, b) \/ bioFile' = bioFile
  BY Zenon DEF Link
<1>2. last' = None \/ \E m : /\ b \in DOMAIN bioFile
                             /\ last' = [request |-> r, file |-> bioFile[b], files |-> bio[b].files,
                                          incomplete |-> m]
  BY Zenon DEF Link
<1>3. bio' = [bio EXCEPT ![b].at = "linked", ![b].request = r]
  BY Zenon DEF Link
<1>4. \A c \in DOMAIN bioFile' : c \in DOMAIN bioFile /\ bioFile'[c] = bioFile[c]
  BY <1>1 DEF Without, Restrict
<1>5. last' # None => b \in DOMAIN bioFile /\ last'.file = bioFile[b] /\ last'.files = bio[b].files
  BY <1>2
<1> QED BY Zenon, <1>3, <1>4, <1>5

(* A step keeps the entries true to their submitters. *)
LEMMA StepSubmitters ==
  TypeInv /\ SubmitterInv /\ [Next]_vars => SubmitterInv'
<1> SUFFICES ASSUME TypeInv, SubmitterInv, [Next]_vars PROVE SubmitterInv'
  OBVIOUS
<1> USE DEF SubmitterInv, OriginIsSubmitters
<1>1. CASE EnableAttribution
  BY Zenon, <1>1 DEF EnableAttribution
<1>2. CASE Drain
  BY Zenon, <1>2 DEF Drain
<1>3. ASSUME NEW t \in Threads, NEW f \in Files, NEW seen \in BOOLEAN, EnterCall(t, f, seen)
      PROVE  SubmitterInv'
  <2>1. calls[t] \in Seq(Files) /\ calls' = [calls EXCEPT ![t] = Append(@, f)] /\ t \in DOMAIN calls
    BY <1>3 DEF EnterCall, TypeInv
  <2>2. /\ f \in Range(Append(calls[t], f))
        /\ Range(calls[t]) \subseteq Range(Append(calls[t], f))
    <3>1. /\ Len(Append(calls[t], f)) = Len(calls[t]) + 1 /\ Len(calls[t]) \in Nat
          /\ DOMAIN Append(calls[t], f) = 1 .. Len(calls[t]) + 1 /\ DOMAIN calls[t] = 1 .. Len(calls[t])
          /\ Append(calls[t], f)[Len(calls[t]) + 1] = f
          /\ \A i \in 1 .. Len(calls[t]) : Append(calls[t], f)[i] = calls[t][i]
      BY <2>1
    <3> QED BY <3>1 DEF Range
  <2>3. ASSUME NEW u \in DOMAIN active'
        PROVE  active'[u] \in Range(calls'[u])
    <3>1. u \in Threads /\ DOMAIN active \subseteq Threads
      BY <1>3, <2>3, PartialMapElements DEF EnterCall, RememberFile, TypeInv, Map, Store
    <3>2. (u = t /\ active'[u] = f) \/ (u \in DOMAIN active /\ active'[u] = active[u])
      BY <1>3, <2>3 DEF EnterCall, RememberFile, Store
    <3>3. calls'[u] = IF u = t THEN Append(calls[t], f) ELSE calls[u]
      BY <2>1, <3>1 DEF TypeInv
    <3> QED BY <2>2, <3>2, <3>3
  <2> QED BY Zenon, <1>3, <2>3 DEF EnterCall
<1>4. ASSUME NEW t \in Threads, ExitCall(t)
      PROVE  SubmitterInv'
  <2>1. ASSUME NEW u \in DOMAIN active'
        PROVE  active'[u] \in Range(calls'[u])
    <3>1. u # t /\ u \in DOMAIN active /\ active'[u] = active[u]
      BY <1>4, <2>1 DEF ExitCall, ClearFile, Without, Restrict
    <3>2. calls'[u] = calls[u]
      BY <1>4, <3>1, PartialMapElements DEF ExitCall, TypeInv, Map
    <3> QED BY <3>1, <3>2
  <2> QED BY Zenon, <1>4, <2>1 DEF ExitCall
<1>5. ASSUME NEW t \in Threads, NEW b \in Bios, NEW direct \in BOOLEAN, Submit(t, b, direct)
      PROVE  SubmitterInv'
  <2>1. bio' = [bio EXCEPT ![b] = [at |-> "submitted", files |-> Range(calls[t]), request |-> None]]
    BY Zenon, <1>5 DEF Submit
  <2>2. ~enabled' => DOMAIN bioFile' = {}
    BY Zenon, <1>5, BindFacts DEF Submit
  <2>3. ASSUME noacct, NEW c \in DOMAIN bioFile', bio'[c].at = "submitted"
        PROVE  bioFile'[c] \in bio'[c].files
    <3>1. Bind(t, b)
      BY Zenon, <1>5, <2>3 DEF Submit
    <3>2. CASE c # b
      <4>1. c \in DOMAIN bioFile /\ bioFile'[c] = bioFile[c]
        BY Zenon, <2>3, <3>1, <3>2, BindFacts
      <4>2. c \in Bios /\ bio'[c] = bio[c]
        BY <2>1, <3>2, <4>1, PartialMapElements DEF TypeInv, Map
      <4> QED BY Zenon, <2>3, <4>1, <4>2
    <3>3. CASE c = b
      <4>1. t \in DOMAIN active /\ bioFile'[c] = active[t]
        BY Zenon, <2>3, <3>1, <3>3, BindFacts
      <4>2. bio'[c].files = Range(calls[t])
        BY <2>1, <3>3 DEF TypeInv
      <4> QED BY Zenon, <4>1, <4>2
    <3> QED BY <3>2, <3>3
  <2> QED BY Zenon, <1>5, <2>2, <2>3 DEF Submit
<1>6. ASSUME NEW t \in Threads, NEW b \in Bios, Resubmit(t, b)
      PROVE  SubmitterInv'
  <2>1. t \notin DOMAIN active
    <3>1. Range(calls[t]) = {}
      BY <1>6 DEF Resubmit, Range
    <3> QED BY Zenon, <3>1
  <2>2. ~enabled' => DOMAIN bioFile' = {}
    BY Zenon, <1>6, BindFacts DEF Resubmit
  <2>3. ASSUME noacct, NEW c \in DOMAIN bioFile'
        PROVE  c \in DOMAIN bioFile /\ bioFile'[c] = bioFile[c]
    BY Zenon, <1>6, <2>1, <2>3, BindFacts DEF Resubmit
  <2> QED BY Zenon, <1>6, <2>2, <2>3 DEF Resubmit
<1>7. ASSUME NEW b \in Bios, EndBio(b)
      PROVE  SubmitterInv'
  <2>1. ASSUME NEW c \in DOMAIN bioFile, bio'[c].at = "submitted"
        PROVE  bio'[c] = bio[c]
    BY <1>7, <2>1, PartialMapElements DEF EndBio, FreeBio, TypeInv, Map
  <2> QED BY Zenon, <1>7, <2>1 DEF EndBio
<1>8. ASSUME NEW r \in Requests, NEW b \in Bios, NEW new \in BOOLEAN, bio[b].at = "submitted",
             Link(r, b, new), UNCHANGED <<enabled, noacct, active, calls>>
      PROVE  SubmitterInv'
  <2>1. ASSUME NEW c \in DOMAIN bioFile, bio'[c].at = "submitted"
        PROVE  bio'[c] = bio[c]
    <3>1. bio' = [bio EXCEPT ![b].at = "linked", ![b].request = r]
      BY Zenon, <1>8 DEF Link
    <3>2. c \in Bios
      BY PartialMapElements DEF TypeInv, Map
    <3>3. bio \in [Bios -> Bio] /\ bio[b] \in Bio
      BY Zenon, <1>8 DEF TypeInv
    <3>4. c = b => bio'[c].at = "linked"
      BY <3>1, <3>2, <3>3 DEF Bio
    <3>5. c # b => bio'[c] = bio[c]
      BY <3>1, <3>2, <3>3
    <3> QED BY <2>1, <3>4, <3>5
  <2>2. \A c \in DOMAIN bioFile' : c \in DOMAIN bioFile /\ bioFile'[c] = bioFile[c]
    BY Zenon, <1>8, LinkFacts
  <2>3. last' # None => b \in DOMAIN bioFile /\ last'.file = bioFile[b] /\ last'.files = bio[b].files
    BY Zenon, <1>8, LinkFacts
  <2>4. ~enabled' => DOMAIN bioFile' = {}
    BY <1>8, <2>2
  <2>5. noacct' => \A c \in DOMAIN bioFile' : bio'[c].at = "submitted" => bioFile'[c] \in bio'[c].files
    BY Zenon, <1>8, <2>1, <2>2
  <2>6. OriginIsSubmitters'
    BY Zenon, <1>8, <2>3
  <2> QED BY Zenon, <1>8, <2>4, <2>5, <2>6
<1>9. ASSUME NEW r \in Requests, NEW seen \in BOOLEAN, Complete(r, seen)
      PROVE  SubmitterInv'
  <2>1. ASSUME NEW c \in DOMAIN bioFile, bio'[c].at = "submitted"
        PROVE  bio'[c] = bio[c]
    BY <1>9, <2>1, PartialMapElements DEF Complete, FreeBio, TypeInv, Map
  <2> QED BY Zenon, <1>9, <2>1 DEF Complete
<1>10. CASE UNCHANGED vars
  BY Zenon, <1>10 DEF vars
<1> QED BY Zenon, <1>1, <1>2, <1>3, <1>4, <1>5, <1>6, <1>7, <1>8, <1>9, <1>10
    DEF Next, BioToRequest, Merge

(* Every RequestOrigin record names a file its submitter was working on:   *)
(* bind_active_file_to_bio replaces, and clear_active_file removes, what   *)
(* an earlier call or an earlier use of the bio left in the maps.          *)
THEOREM SubmittersCorrect == Spec => []OriginIsSubmitters
<1>1. Init => SubmitterInv
  BY DEF Init, SubmitterInv, OriginIsSubmitters
<1>2. SubmitterInv => OriginIsSubmitters
  BY Zenon DEF SubmitterInv
<1> QED BY <1>1, <1>2, InitTypes, StepTypes, StepSubmitters, PTL DEF Spec

-----------------------------------------------------------------------------
(* A request's origins are complete or marked *)

\* What REQUEST_ORIGIN_COUNTS says of a request.
Origins(r) == IF r \in DOMAIN counts THEN counts[r] ELSE 0

(* OriginsAreWhole compares what was reported of a request with what was   *)
(* known of it; the count that decides lies between the two, equals what   *)
(* was reported unless a report failed, and passes MAX_REQUEST_ORIGINS     *)
(* only with the mark.                                                     *)
CountInv(r) ==
  /\ ~request[r].live => request[r] = FreeRequest
  /\ request[r].live => request[r].reported <= Origins(r) /\ Origins(r) <= request[r].bound
  /\ request[r].live /\ ~request[r].lost =>
       /\ Origins(r) = request[r].reported
       /\ Origins(r) > MaxRequestOrigins => request[r].incomplete
       /\ ~request[r].incomplete => request[r].reported = request[r].bound
  /\ request[r].incomplete => request[r].bound > MaxRequestOrigins

WholeInv ==
  /\ ~enabled => DOMAIN counts = {}
  /\ \A r \in Requests : CountInv(r)

(* A request's count is within MAX_REQUEST_ORIGINS and the overflow. *)
LEMMA OriginsType ==
  ASSUME TypeInv, NEW r \in Requests
  PROVE  Origins(r) \in 0 .. MaxRequestOrigins + 1
<1>1. MaxRequestOrigins \in Nat
  BY Zenon, Sizes
<1>2. \A k \in DOMAIN counts : counts[k] \in 1 .. MaxRequestOrigins + 1
  <2>1. PICK D \in SUBSET Requests : counts \in [D -> 1 .. MaxRequestOrigins + 1]
    BY Zenon DEF TypeInv, Map, PartialMaps
  <2> QED BY <2>1
<1> QED BY <1>1, <1>2 DEF Origins

(* link_bio_ptrs keeps the counts in step with the reports. *)
LEMMA LinkWhole ==
  ASSUME TypeInv, WholeInv, NEW r \in Requests, NEW b \in Bios, NEW new \in BOOLEAN, Link(r, b, new),
         new <=> ~request[r].live, UNCHANGED enabled
  PROVE  WholeInv'
<1> DEFINE start == Count(r, new)
           n == IF r \in DOMAIN start THEN start[r] ELSE 0
           known == enabled /\ b \in DOMAIN bioFile
           over == n > MaxRequestOrigins
           room == Accepts(start, r, CountCapacity)
           fits == ring < RingCapacity
           report == known /\ ~over /\ room /\ fits
           life == IF new THEN [FreeRequest EXCEPT !.live = TRUE] ELSE request[r]
           entry == [life EXCEPT !.bound = @ + (IF known THEN 1 ELSE 0),
                                 !.reported = @ + (IF report THEN 1 ELSE 0),
                                 !.incomplete = @ \/ (report /\ Marked(n)),
                                 !.lost = @ \/ (known /\ ~over /\ ~(room /\ fits))]
<1>0. MaxRequestOrigins \in Nat
  BY Zenon, Sizes
<1>1. counts' = IF ~enabled THEN counts ELSE IF known /\ ~over /\ room THEN Store(start, r, n + 1) ELSE start
  BY Zenon DEF Link
<1>2. request' = [request EXCEPT ![r] = entry]
  BY Zenon DEF Link
<1>3. life \in Request
  BY Zenon, BegunRequest DEF TypeInv
<1>4. n = (IF new /\ enabled THEN 0 ELSE n) /\ (~enabled => DOMAIN counts = {})
  BY DEF Count, Without, Restrict, WholeInv
<1>5. n = IF new THEN 0 ELSE Origins(r)
  BY DEF Count, Without, Restrict, WholeInv, Origins
<1>6. Origins(r)' = IF known /\ ~over /\ room THEN n + 1 ELSE n
  <2> HIDE DEF over, room
  <2>1. CASE ~enabled
    BY <1>1, <1>4, <1>5, <2>1 DEF Origins
  <2>2. CASE known /\ ~over /\ room
    <3> HIDE DEF n, start
    <3> QED BY <1>1, <2>2 DEF Origins, Store
  <2>3. CASE enabled /\ ~(known /\ ~over /\ room)
    <3>1. counts' = start
      BY Zenon, <1>1, <2>3
    <3> HIDE DEF start
    <3> QED BY <2>3, <3>1 DEF Origins
  <2> QED BY Zenon, <2>1, <2>2, <2>3
<1>7. \A q \in Requests : q # r => Origins(q)' = Origins(q)
  <2>1. \A q \in Requests : q # r =>
          /\ q \in DOMAIN start <=> q \in DOMAIN counts
          /\ q \in DOMAIN counts => start[q] = counts[q]
    BY DEF Count, Without, Restrict
  <2> HIDE DEF start, n, over, room
  <2>2. counts' = counts \/ counts' = start \/ counts' = Store(start, r, n + 1)
    BY Zenon, <1>1
  <2> QED BY <2>1, <2>2 DEF Origins, Store
<1>8. request'[r] = entry /\ \A q \in Requests : q # r => request'[q] = request[q]
  <2> HIDE DEF entry
  <2> QED BY <1>2 DEF TypeInv
<1>9. /\ entry.live = life.live
      /\ entry.bound = life.bound + (IF known THEN 1 ELSE 0)
      /\ entry.reported = life.reported + (IF report THEN 1 ELSE 0)
      /\ entry.incomplete <=> (life.incomplete \/ (report /\ Marked(n)))
      /\ entry.lost <=> (life.lost \/ (known /\ ~over /\ ~(room /\ fits)))
  <2> HIDE DEF life, known, report, over, room, fits, n
  <2> QED BY Zenon, <1>3 DEF Request
<1>10. /\ life.live /\ life.bound \in Nat /\ life.reported \in Nat
       /\ life.reported <= n /\ n <= life.bound
       /\ ~life.lost => /\ n = life.reported
                        /\ n > MaxRequestOrigins => life.incomplete
                        /\ ~life.incomplete => life.reported = life.bound
       /\ life.incomplete => life.bound > MaxRequestOrigins
  <2> HIDE DEF n
  <2>1. CASE new
    <3>1. n = 0
      BY <1>5, <2>1
    <3> QED BY <1>0, <2>1, <3>1 DEF FreeRequest
  <2>2. CASE ~new
    <3>1. n = Origins(r) /\ life = request[r] /\ CountInv(r)
      BY Zenon, <1>5, <2>2 DEF WholeInv
    <3> QED BY Zenon, <1>3, <2>2, <3>1 DEF CountInv, Request
  <2> QED BY Zenon, <2>1, <2>2
<1>11. n \in 0 .. MaxRequestOrigins + 1
  BY <1>0, <1>5, OriginsType
<1>12. CountInv(r)'
  <2> DEFINE e == request'[r]
             m == Origins(r)'
  <2>1. e.live /\ e.bound \in Nat /\ e.reported \in Nat
    <3> HIDE DEF life, entry, known, report
    <3>1. e.live /\ life.bound \in Nat /\ life.reported \in Nat
      BY Zenon, <1>8, <1>9, <1>10
    <3>2. /\ e.bound = life.bound + (IF known THEN 1 ELSE 0)
          /\ e.reported = life.reported + (IF report THEN 1 ELSE 0)
      BY Zenon, <1>8, <1>9
    <3> HIDE DEF e
    <3> QED BY <3>1, <3>2
  <2>2. e.reported <= m /\ m <= e.bound
    <3> HIDE DEF life, entry, known, over, room, fits, n
    <3> QED BY <1>6, <1>8, <1>9, <1>10, <1>11
  <2>3. ~e.lost => /\ m = e.reported
                   /\ m > MaxRequestOrigins => e.incomplete
                   /\ ~e.incomplete => e.reported = e.bound
    <3> HIDE DEF life, entry, n
    <3>1. CASE ~known
      <4> HIDE DEF known, over, room, fits
      <4> QED BY <1>6, <1>8, <1>9, <1>10, <1>11, <3>1
    <3>2. CASE known /\ over
      <4> HIDE DEF known, room, fits
      <4> QED BY <1>0, <1>6, <1>8, <1>9, <1>10, <1>11, <3>2
    <3>3. CASE known /\ ~over /\ ~(room /\ fits)
      <4> HIDE DEF known, over, room, fits
      <4> QED BY Zenon, <1>8, <1>9, <3>3
    <3>4. CASE report
      <4> HIDE DEF known, room, fits
      <4> QED BY <1>0, <1>6, <1>8, <1>9, <1>10, <1>11, <3>4 DEF Marked
    <3> QED BY Zenon, <3>1, <3>2, <3>3, <3>4
  <2>4. e.incomplete => e.bound > MaxRequestOrigins
    <3> HIDE DEF life, entry, known, over, room, fits, n
    <3> QED BY <1>0, <1>8, <1>9, <1>10, <1>11 DEF Marked
  <2> HIDE DEF entry
  <2> QED BY Zenon, <2>1, <2>2, <2>3, <2>4 DEF CountInv
<1>13. \A q \in Requests : q # r => CountInv(q)'
  <2> SUFFICES ASSUME NEW q \in Requests, q # r PROVE CountInv(q)'
    OBVIOUS
  <2>1. request'[q] = request[q] /\ Origins(q)' = Origins(q) /\ CountInv(q)
    BY Zenon, <1>7, <1>8 DEF WholeInv
  <2> QED BY Zenon, <2>1 DEF CountInv
<1>14. ~enabled' => DOMAIN counts' = {}
  BY Zenon, <1>1, <1>4
<1> QED BY Zenon, <1>12, <1>13, <1>14 DEF WholeInv

(* A step keeps the counts in step with the reports. *)
LEMMA StepWhole ==
  TypeInv /\ WholeInv /\ [Next]_vars => WholeInv'
<1> SUFFICES ASSUME TypeInv, WholeInv, [Next]_vars PROVE WholeInv'
  OBVIOUS
<1>1. CASE UNCHANGED <<counts, request>> /\ (enabled => enabled')
  BY Zenon, <1>1 DEF WholeInv, CountInv, Origins
<1>2. CASE EnableAttribution \/ Drain
  BY Zenon, <1>1, <1>2 DEF EnableAttribution, Drain
<1>3. ASSUME NEW t \in Threads, NEW f \in Files, NEW seen \in BOOLEAN, EnterCall(t, f, seen)
      PROVE  WholeInv'
  BY Zenon, <1>1, <1>3 DEF EnterCall
<1>4. ASSUME NEW t \in Threads, ExitCall(t) PROVE WholeInv'
  BY Zenon, <1>1, <1>4 DEF ExitCall
<1>5. ASSUME NEW t \in Threads, NEW b \in Bios, NEW direct \in BOOLEAN, Submit(t, b, direct)
      PROVE  WholeInv'
  BY Zenon, <1>1, <1>5 DEF Submit
<1>6. ASSUME NEW t \in Threads, NEW b \in Bios, Resubmit(t, b) PROVE WholeInv'
  BY Zenon, <1>1, <1>6 DEF Resubmit
<1>7. ASSUME NEW b \in Bios, EndBio(b) PROVE WholeInv'
  BY Zenon, <1>1, <1>7 DEF EndBio
<1>8. ASSUME NEW r \in Requests, NEW b \in Bios, BioToRequest(r, b) PROVE WholeInv'
  BY Zenon, <1>8, LinkWhole DEF BioToRequest
<1>9. ASSUME NEW r \in Requests, NEW b \in Bios, Merge(r, b) PROVE WholeInv'
  BY Zenon, <1>9, LinkWhole DEF Merge
<1>10. ASSUME NEW r \in Requests, NEW seen \in BOOLEAN, Complete(r, seen) PROVE WholeInv'
  <2>1. request'[r] = FreeRequest /\ \A q \in Requests : q # r => request'[q] = request[q]
    BY <1>10 DEF Complete, TypeInv
  <2>2. \A q \in Requests : q # r => Origins(q)' = Origins(q)
    BY <1>10 DEF Complete, Origins, Without, Restrict
  <2>3. CountInv(r)'
    BY <2>1 DEF CountInv, FreeRequest
  <2>4. \A q \in Requests : q # r => CountInv(q)'
    BY Zenon, <2>1, <2>2 DEF CountInv, WholeInv
  <2>5. ~enabled' => DOMAIN counts' = {}
    BY <1>10 DEF Complete, WholeInv, Without, Restrict
  <2> QED BY Zenon, <2>3, <2>4, <2>5 DEF WholeInv
<1>11. CASE UNCHANGED vars
  BY Zenon, <1>1, <1>11 DEF vars
<1> QED BY Zenon, <1>2, <1>3, <1>4, <1>5, <1>6, <1>7, <1>8, <1>9, <1>10, <1>11 DEF Next

(* What link_bio_ptrs reports of a request is complete, marked or known to *)
(* have failed, bounded by MAX_REQUEST_ORIGINS and one overflow record,    *)
(* and a thread outside of traced calls has no file to give.               *)
THEOREM WholeCorrect == Spec => []OriginsAreWhole
<1>1. Init => SubmitterInv
  BY DEF Init, SubmitterInv, OriginIsSubmitters
<1>2. Init => WholeInv
  <2> SUFFICES ASSUME Init PROVE WholeInv
    OBVIOUS
  <2>1. ~FreeRequest.live /\ ~FreeRequest.incomplete
    BY DEF FreeRequest
  <2>2. \A r \in Requests : request[r] = FreeRequest
    BY Zenon DEF Init
  <2>3. DOMAIN counts = {}
    BY DEF Init
  <2> QED BY Zenon, <2>1, <2>2, <2>3 DEF WholeInv, CountInv
<1>3. TypeInv /\ SubmitterInv /\ WholeInv => OriginsAreWhole
  <2> SUFFICES ASSUME TypeInv, SubmitterInv, WholeInv PROVE OriginsAreWhole
    OBVIOUS
  <2>1. OriginsCompleteOrMarked
    BY Zenon DEF OriginsCompleteOrMarked, WholeInv, CountInv
  <2>2. OriginsBounded
    <3> SUFFICES ASSUME NEW r \in Requests
                 PROVE  /\ request[r].reported <= MaxRequestOrigins + 1
                        /\ request[r].incomplete => request[r].bound > MaxRequestOrigins
      BY DEF OriginsBounded
    <3>1. MaxRequestOrigins \in Nat /\ request[r].reported \in Nat /\ CountInv(r)
      BY Sizes DEF WholeInv, TypeInv, Request
    <3>2. Origins(r) \in 0 .. MaxRequestOrigins + 1
      BY OriginsType
    <3> QED BY <3>1, <3>2 DEF CountInv, FreeRequest
  <2>3. IdleThreadHasNoFile
    <3> SUFFICES ASSUME NEW t \in Threads, calls[t] = <<>> PROVE t \notin DOMAIN active
      BY DEF IdleThreadHasNoFile
    <3>1. Range(calls[t]) = {}
      BY DEF Range
    <3> QED BY Zenon, <3>1 DEF SubmitterInv
  <2> QED BY Zenon, <2>1, <2>2, <2>3 DEF OriginsAreWhole
<1> QED BY <1>1, <1>2, <1>3, InitTypes, StepTypes, StepSubmitters, StepWhole, PTL DEF Spec
=============================================================================
