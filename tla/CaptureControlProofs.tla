------------------------- MODULE CaptureControlProofs -------------------------
(***************************************************************************)
(* Proofs about the collector: its loop (AgentLoop), for every ring size,  *)
(* batch and number of commands; and the live configuration of a capture   *)
(* (CaptureControl), for any filter maps, values, sizes and requests.      *)
(***************************************************************************)
EXTENDS AgentLoop, CaptureControl, FiniteSetTheorems, SequenceTheorems, TLAPS

MapIsFull == ~\A m \in Maps : Cardinality(keys[m]) < KeyCapacity[m]

\* What the latest acknowledgement says.
DeskInv ==
  ~bumped => IF acks = <<>> THEN control >= config.generation
             ELSE acks[Len(acks)].active = config.generation

\* The keys of the active generation, and of later ones: a refused configuration
\* leaves them only with a map or FILTER_CONFIGS full, and full they stay.
FilterInv ==
  /\ \A m \in Maps : IsFiniteSet(keys[m])
  /\ IsFiniteSet(DOMAIN configs) /\ \A g \in DOMAIN configs : g <= active
  /\ \A m \in Maps : \A v \in configs[active].keys[m] : <<active, v>> \in keys[m]
  /\ ~MapIsFull => \A m \in Maps : \A v \in Values :
                     <<active, v>> \in keys[m] => v \in configs[active].keys[m]
  /\ ~MapIsFull /\ Cardinality(DOMAIN configs) < ConfigCapacity =>
       \A m \in Maps : \A k \in keys[m] : k[1] <= active

-----------------------------------------------------------------------------
(* Staging a configuration *)

(* The keys that a configuration wants are finite, of the type of keys, and of its
   generation.                                                                *)
LEMMA WantedTypes ==
  ASSUME ControlSizes, NEW c \in Config, NEW m \in Maps
  PROVE  /\ IsFiniteSet(Wanted(c, m)) /\ Wanted(c, m) \subseteq Keys
         /\ \A k \in Wanted(c, m) : k[1] = c.generation
         /\ \A v : <<c.generation, v>> \in Wanted(c, m) <=> v \in c.keys[m]
<1>1. c.generation \in Generations /\ c.keys[m] \subseteq Values
  BY DEF Config
<1>2. IsFiniteSet(c.keys[m]) /\ IsFiniteSet({c.generation})
  BY Zenon, <1>1, FS_Subset, FS_Singleton DEF ControlSizes
<1>3. IsFiniteSet(Wanted(c, m))
  BY Zenon, <1>2, FS_Product DEF Wanted
<1>4. Wanted(c, m) \subseteq Keys
  BY <1>1 DEF Wanted, Keys
<1>5. \A k \in Wanted(c, m) : k[1] = c.generation
  BY DEF Wanted
<1>6. \A v : <<c.generation, v>> \in Wanted(c, m) <=> v \in c.keys[m]
  BY DEF Wanted
<1> QED BY Zenon, <1>3, <1>4, <1>5, <1>6

\* What staging or failing to stage c does to the keys.
Grows(c) ==
  /\ \A m \in Maps : keys[m] \subseteq keys'[m] /\ keys'[m] \subseteq keys[m] \cup Wanted(c, m)
  /\ keys' \in [Maps -> SUBSET Keys]
  /\ \A m \in Maps : IsFiniteSet(keys'[m]) /\ Cardinality(keys'[m]) <= KeyCapacity[m]
  /\ MapIsFull => MapIsFull'

(* However far the staging of a configuration comes, keys are only added, they are
   its own, no map exceeds its size, and a full map stays full.               *)
LEMMA StagingGrows ==
  ASSUME ControlSizes, TypeOK, FilterInv, NEW c \in Config, Stage(c) \/ FailToStage(c)
  PROVE  Grows(c)
<1>1. ASSUME NEW m \in Maps
      PROVE  /\ keys[m] \subseteq Keys /\ IsFiniteSet(keys[m]) /\ Cardinality(keys[m]) \in Nat
             /\ KeyCapacity[m] \in Nat /\ Cardinality(keys[m]) <= KeyCapacity[m]
  <2>1. keys[m] \subseteq Keys /\ KeyCapacity[m] \in Nat
    BY DEF TypeOK, ControlSizes
  <2> QED BY Zenon, <2>1, FS_CardinalityType DEF TypeOK, FilterInv
<1>2. /\ keys' \in [Maps -> SUBSET Keys]
      /\ \A m \in Maps : /\ keys[m] \subseteq keys'[m] /\ keys'[m] \subseteq keys[m] \cup Wanted(c, m)
                         /\ \/ keys'[m] = keys[m] \cup Wanted(c, m) /\ ~Refuses(c, m)
                            \/ Cardinality(keys'[m]) = KeyCapacity[m]
                            \/ keys'[m] = keys[m]
  <2>0. \A m \in Maps : Wanted(c, m) \subseteq Keys /\ keys[m] \subseteq Keys
    BY Zenon, <1>1, WantedTypes
  <2>1. CASE keys' = [m \in Maps |-> keys[m] \cup Wanted(c, m)] /\ \A m \in Maps : ~Refuses(c, m)
    BY <2>0, <2>1
  <2>2. ASSUME NEW first \in Maps, NEW part \in SUBSET Wanted(c, first), NEW whole \in SUBSET Maps,
               \A m \in whole : ~Refuses(c, m), first \notin whole,
               Cardinality(keys[first] \cup part) = KeyCapacity[first],
               keys' = [m \in Maps |-> keys[m] \cup IF m = first THEN part
                                                   ELSE IF m \in whole THEN Wanted(c, m) ELSE {}]
        PROVE  /\ keys' \in [Maps -> SUBSET Keys]
               /\ \A m \in Maps : /\ keys[m] \subseteq keys'[m] /\ keys'[m] \subseteq keys[m] \cup Wanted(c, m)
                                  /\ \/ keys'[m] = keys[m] \cup Wanted(c, m) /\ ~Refuses(c, m)
                                     \/ Cardinality(keys'[m]) = KeyCapacity[m]
                                     \/ keys'[m] = keys[m]
    BY <2>0, <2>2
  <2>3. CASE Stage(c)
    BY Zenon, <2>1, <2>3 DEF Stage, Stages
  <2>4. CASE FailToStage(c)
    <3> DEFINE Before(m) == \A f \in Maps : Refuses(c, f) => m < f
               whole == {m \in Maps : Before(m)}
    <3>1. CASE (\A m \in Maps : ~Refuses(c, m)) /\ keys' = [m \in Maps |-> keys[m] \cup Wanted(c, m)]
      BY Zenon, <2>1, <3>1
    <3>2. ASSUME NEW first \in Maps, NEW part \in SUBSET Wanted(c, first), Refuses(c, first),
                 Cardinality(keys[first] \cup part) = KeyCapacity[first],
                 keys' = [m \in Maps |-> keys[m] \cup IF m = first THEN part
                                                     ELSE IF Before(m) THEN Wanted(c, m) ELSE {}]
          PROVE  /\ first \notin whole /\ \A m \in whole : ~Refuses(c, m)
                 /\ keys' = [m \in Maps |-> keys[m] \cup IF m = first THEN part
                                                         ELSE IF m \in whole THEN Wanted(c, m) ELSE {}]
      <4>1. \A m \in Maps : ~(m < m)
        BY DEF Maps
      <4>2. first \notin whole /\ \A m \in whole : ~Refuses(c, m)
        BY Zenon, <3>2, <4>1
      <4>3. \A m \in Maps : Before(m) <=> m \in whole
        BY Zenon
      <4> HIDE DEF whole, Before
      <4> QED BY Zenon, <3>2, <4>2, <4>3
    <3>3. \/ (\A m \in Maps : ~Refuses(c, m)) /\ keys' = [m \in Maps |-> keys[m] \cup Wanted(c, m)]
          \/ \E first \in Maps : \E part \in SUBSET Wanted(c, first) :
                /\ Refuses(c, first) /\ Cardinality(keys[first] \cup part) = KeyCapacity[first]
                /\ keys' = [m \in Maps |-> keys[m] \cup IF m = first THEN part
                                                        ELSE IF Before(m) THEN Wanted(c, m) ELSE {}]
      BY Zenon, <2>4 DEF FailToStage
    <3>4. whole \in SUBSET Maps
      OBVIOUS
    <3> HIDE DEF whole, Before
    <3> QED BY Zenon, <2>2, <3>1, <3>2, <3>3, <3>4
  <2> QED BY Zenon, <2>3, <2>4
<1>3. ASSUME NEW m \in Maps
      PROVE  /\ IsFiniteSet(keys'[m]) /\ Cardinality(keys'[m]) \in Nat
             /\ Cardinality(keys[m]) <= Cardinality(keys'[m]) /\ Cardinality(keys'[m]) <= KeyCapacity[m]
  <2>1. IsFiniteSet(keys[m] \cup Wanted(c, m))
    BY Zenon, <1>1, WantedTypes, FS_Union
  <2>2. IsFiniteSet(keys'[m])
    BY Zenon, <1>2, <2>1, FS_Subset
  <2>3. Cardinality(keys'[m]) \in Nat /\ Cardinality(keys[m]) <= Cardinality(keys'[m])
    BY Zenon, <1>2, <2>2, FS_Subset, FS_CardinalityType
  <2>4. Cardinality(keys'[m]) <= KeyCapacity[m]
    <3>1. \/ ~(Cardinality(keys'[m]) > KeyCapacity[m])
          \/ Cardinality(keys'[m]) = KeyCapacity[m]
          \/ Cardinality(keys'[m]) = Cardinality(keys[m])
      BY Zenon, <1>2 DEF Refuses
    <3> QED BY <1>1, <2>3, <3>1
  <2> QED BY Zenon, <2>2, <2>3, <2>4
<1>4. MapIsFull => MapIsFull'
  <2> SUFFICES ASSUME NEW m \in Maps, ~(Cardinality(keys[m]) < KeyCapacity[m])
               PROVE  ~(Cardinality(keys'[m]) < KeyCapacity[m])
    BY Zenon DEF MapIsFull
  <2> QED BY <1>1, <1>3
<1> QED BY Zenon, <1>2, <1>3, <1>4 DEF Grows

\* The probes use active_config.
Follows == KernelFollowsCollector

(* A configuration of a later generation that is staged becomes the active one, and
   the maps hold its keys; unless a map is full, and no others of its generation. *)
LEMMA StageKeepsFilters ==
  ASSUME ControlSizes, TypeOK, FilterInv, Follows,
         NEW c \in Config, c.generation > config.generation, Stage(c)
  PROVE  /\ FilterInv' /\ active' = c.generation /\ configs'[active'] = c /\ active' > active
         /\ DOMAIN configs' \subseteq Generations /\ Cardinality(DOMAIN configs') <= ConfigCapacity
         /\ \A g \in DOMAIN configs' : configs'[g] \in Config
<1>0. Grows(c)
  BY Zenon, StagingGrows
<1>1. /\ active' = c.generation /\ \A m \in Maps : keys'[m] = keys[m] \cup Wanted(c, m)
      /\ DOMAIN configs' = DOMAIN configs \cup {c.generation} /\ configs'[c.generation] = c
      /\ \A g \in DOMAIN configs : g # c.generation => configs'[g] = configs[g]
      /\ Cardinality(DOMAIN configs \cup {c.generation}) <= ConfigCapacity
  BY DEF Stage, Stages
<1>2. /\ c.generation \in Nat /\ config.generation \in Nat /\ c.generation \in Generations
      /\ active = config.generation /\ ConfigCapacity \in Nat
      /\ \A m \in Maps : c.keys[m] \subseteq Values
  BY DEF Config, Generations, TypeOK, Follows, KernelFollowsCollector, ControlSizes
<1>3. /\ IsFiniteSet(DOMAIN configs) /\ \A g \in DOMAIN configs : g <= active /\ g \in Nat
      /\ DOMAIN configs \subseteq Generations
  BY DEF FilterInv, TypeOK, Generations
<1>4. c.generation \notin DOMAIN configs
  BY <1>2, <1>3
<1>5. Cardinality(DOMAIN configs) < ConfigCapacity /\ IsFiniteSet(DOMAIN configs')
  <2>1. /\ Cardinality(DOMAIN configs) \in Nat /\ IsFiniteSet(DOMAIN configs \cup {c.generation})
        /\ Cardinality(DOMAIN configs \cup {c.generation}) = Cardinality(DOMAIN configs) + 1
    BY <1>3, <1>4, FS_AddElement, FS_CardinalityType
  <2>2. IsFiniteSet(DOMAIN configs')
    BY Zenon, <1>1, <2>1
  <2> QED BY <1>1, <1>2, <2>1, <2>2
<1>6. ~MapIsFull => \A m \in Maps : \A k \in keys[m] : k[1] <= active
  BY Zenon, <1>5 DEF FilterInv
<1>7. \A g \in DOMAIN configs' : g <= active'
  BY <1>1, <1>2, <1>3
<1>8. \A m \in Maps : \A v \in c.keys[m] : <<c.generation, v>> \in keys'[m]
  BY Zenon, <1>1, WantedTypes
<1>9. ~MapIsFull' => \A m \in Maps : \A v \in Values : <<c.generation, v>> \in keys'[m] => v \in c.keys[m]
  <2> SUFFICES ASSUME ~MapIsFull', NEW m \in Maps, NEW v \in Values, <<c.generation, v>> \in keys'[m]
               PROVE  v \in c.keys[m]
    BY Zenon
  <2>1. ~MapIsFull
    BY Zenon, <1>0 DEF Grows
  <2>2. <<c.generation, v>> \notin keys[m]
    <3> SUFFICES ASSUME <<c.generation, v>> \in keys[m] PROVE FALSE
      OBVIOUS
    <3>1. <<c.generation, v>>[1] <= active
      BY Zenon, <1>6, <2>1
    <3> QED BY <1>2, <3>1
  <2> QED BY Zenon, <1>1, <2>2, WantedTypes
<1>10. ~MapIsFull' => \A m \in Maps : \A k \in keys'[m] : k[1] <= active'
  <2> SUFFICES ASSUME ~MapIsFull', NEW m \in Maps, NEW k \in keys'[m] PROVE k[1] <= active'
    BY Zenon
  <2>1. CASE k \in keys[m]
    <3>1. k[1] <= active /\ k \in Keys
      BY Zenon, <1>0, <1>6, <2>1 DEF Grows, TypeOK
    <3> QED BY <1>1, <1>2, <3>1 DEF Keys, Generations
  <2>2. CASE k \in Wanted(c, m)
    <3>1. k[1] = c.generation
      BY Zenon, <2>2, WantedTypes
    <3> QED BY <1>1, <1>2, <3>1
  <2> QED BY Zenon, <1>1, <2>1, <2>2
<1>11. FilterInv'
  BY Zenon, <1>0, <1>1, <1>5, <1>7, <1>8, <1>9, <1>10 DEF FilterInv, Grows
<1>12. \A g \in DOMAIN configs' : configs'[g] \in Config
  BY Zenon, <1>1 DEF TypeOK
<1>13. active' > active /\ DOMAIN configs' \subseteq Generations
  BY <1>1, <1>2, <1>3
<1> QED BY Zenon, <1>1, <1>11, <1>12, <1>13

(* A refused configuration of a later generation leaves the active one and its keys
   alone, and keys of its own only if a map or FILTER_CONFIGS is full.        *)
LEMMA FailKeepsFilters ==
  ASSUME ControlSizes, TypeOK, FilterInv, Follows,
         NEW c \in Config, c.generation > config.generation, FailToStage(c)
  PROVE  FilterInv'
<1>0. Grows(c) /\ UNCHANGED <<configs, active>>
  BY Zenon, StagingGrows DEF FailToStage
<1>1. c.generation \in Nat /\ active \in Nat /\ c.generation > active /\ ConfigCapacity \in Nat
  BY DEF Config, Generations, TypeOK, Follows, KernelFollowsCollector, ControlSizes
<1>2. \A m \in Maps : \A v : <<active, v>> \in keys'[m] <=> <<active, v>> \in keys[m]
  <2> SUFFICES ASSUME NEW m \in Maps, NEW v, <<active, v>> \in Wanted(c, m) PROVE FALSE
    BY Zenon, <1>0 DEF Grows
  <2>1. <<active, v>>[1] = c.generation
    BY Zenon, WantedTypes
  <2> QED BY <1>1, <2>1
<1>3. ~MapIsFull' /\ Cardinality(DOMAIN configs) < ConfigCapacity => FALSE
  <2> SUFFICES ASSUME ~MapIsFull', Cardinality(DOMAIN configs) < ConfigCapacity PROVE FALSE
    OBVIOUS
  <2>1. \/ \A m \in Maps : ~Refuses(c, m)
        \/ \E first \in Maps : Cardinality(keys'[first]) = KeyCapacity[first]
    <3>1. \/ \A m \in Maps : ~Refuses(c, m)
          \/ \E first \in Maps : \E part \in SUBSET Wanted(c, first) :
                /\ Cardinality(keys[first] \cup part) = KeyCapacity[first]
                /\ keys'[first] = keys[first] \cup part
      BY DEF FailToStage
    <3> QED BY Zenon, <3>1
  <2>2. CASE \A m \in Maps : ~Refuses(c, m)
    <3>1. ~(Cardinality(DOMAIN configs \cup {c.generation}) <= ConfigCapacity)
      BY Zenon, <2>2 DEF FailToStage, Stages
    <3>2. /\ Cardinality(DOMAIN configs) \in Nat
          /\ \/ Cardinality(DOMAIN configs \cup {c.generation}) = Cardinality(DOMAIN configs) + 1
             \/ Cardinality(DOMAIN configs \cup {c.generation}) = Cardinality(DOMAIN configs)
      BY FS_AddElement, FS_CardinalityType DEF FilterInv
    <3> QED BY <1>1, <3>1, <3>2
  <2>3. ASSUME NEW first \in Maps, Cardinality(keys'[first]) = KeyCapacity[first] PROVE FALSE
    <3>1. Cardinality(keys'[first]) < KeyCapacity[first] /\ KeyCapacity[first] \in Nat
      BY Zenon DEF MapIsFull, ControlSizes
    <3> QED BY <2>3, <3>1
  <2> QED BY Zenon, <2>1, <2>2, <2>3
<1>4. \A m \in Maps : IsFiniteSet(keys'[m])
  BY Zenon, <1>0 DEF Grows
<1>5. ~MapIsFull' => ~MapIsFull
  BY Zenon, <1>0 DEF Grows
<1> QED BY Zenon, <1>0, <1>2, <1>3, <1>4, <1>5 DEF FilterInv

-----------------------------------------------------------------------------
(* Types *)

KernelTypes ==
  /\ active \in Generations
  /\ DOMAIN configs \subseteq Generations /\ Cardinality(DOMAIN configs) <= ConfigCapacity
  /\ \A g \in DOMAIN configs : configs[g] \in Config
  /\ keys \in [Maps -> SUBSET Keys]
  /\ \A m \in Maps : Cardinality(keys[m]) <= KeyCapacity[m]

CollectorTypes ==
  /\ aggregate \in [generation : Generations, p99 : {"low", "high"}] \cup {None}
  /\ config \in Config /\ requestedMode \in Modes
  /\ controller \in Controller /\ elapsed \in 0 .. MaxElapsed
  /\ segment \in 0 .. 2 \cup {None} /\ nextSegment \in 0 .. 2
  /\ status \in {"running", "failed"}

DesktopTypes ==
  /\ pipe \in Seq(Config) /\ acks \in Seq(Ack) /\ control \in Generations
  /\ bumped \in BOOLEAN

(* The types of the three parties are the types of the whole.                 *)
LEMMA TypesOfParts ==
  /\ TypeOK <=> KernelTypes /\ CollectorTypes /\ DesktopTypes
  /\ TypeOK' <=> KernelTypes' /\ CollectorTypes' /\ DesktopTypes'
BY Zenon DEF TypeOK, KernelTypes, CollectorTypes, DesktopTypes

(* What FilterMaps::apply leaves in the maps has its type and fits, whether the
   configuration was staged or refused.                                       *)
LEMMA StagedTypes ==
  ASSUME ControlSizes, TypeOK, FilterInv, Follows,
         NEW c \in Config, c.generation > config.generation, Stage(c) \/ FailToStage(c)
  PROVE  KernelTypes'
<1>0. Grows(c) /\ KernelTypes
  BY Zenon, StagingGrows, TypesOfParts
<1>1. CASE Stage(c)
  <2>1. active' \in Generations
    BY <1>1 DEF Stage, Config
  <2> QED BY Zenon, <1>0, <1>1, <2>1, StageKeepsFilters DEF KernelTypes, Grows
<1>2. CASE FailToStage(c)
  <2>1. UNCHANGED <<configs, active>>
    BY <1>2 DEF FailToStage
  <2> QED BY Zenon, <1>0, <2>1 DEF KernelTypes, Grows
<1> QED BY Zenon, <1>1, <1>2

(* AdaptiveController::observe returns a controller.                          *)
LEMMA ObserveTypes ==
  ASSUME ControlSizes, TypeOK, NEW p99 \in {"low", "high"}
  PROVE  Observe(p99) \in Controller
<1>1. /\ controller \in Controller /\ ConsecutiveWindows \in Nat /\ ConsecutiveWindows >= 1
      /\ controller.state \in States /\ controller.consecutive \in 0 .. ConsecutiveWindows
  BY DEF TypeOK, ControlSizes, Controller
<1>2. /\ [state |-> "armed", consecutive |-> 1] \in Controller
      /\ [state |-> "basic", consecutive |-> 0] \in Controller
      /\ [controller EXCEPT !.state = "cooldown"] \in Controller
      /\ [controller EXCEPT !.state = "basic"] \in Controller
  BY <1>1 DEF Controller, States
<1>3. LET n == controller.consecutive + 1
      IN [state |-> IF n >= ConsecutiveWindows THEN "deep" ELSE "armed",
          consecutive |-> IF n > ConsecutiveWindows THEN ConsecutiveWindows ELSE n] \in Controller
  BY <1>1 DEF Controller, States
<1> QED BY Zenon, <1>1, <1>2, <1>3 DEF Observe

(* A configuration that an adaptive transition makes is one, of the generation
   after the active one.                                                      *)
LEMMA AutomaticTypes ==
  ASSUME ControlSizes, TypeOK, NEW mode \in Modes
  PROVE  LET automatic == [config EXCEPT !.generation = @ + 1, !.mode = mode]
         IN /\ automatic \in Config /\ automatic.generation > config.generation
            /\ automatic.mode = mode
<1> DEFINE automatic == [config EXCEPT !.generation = @ + 1, !.mode = mode]
<1>1. /\ config \in Config /\ config.generation \in Nat \ {0} /\ config.mode \in Modes
      /\ config.keys \in [Maps -> SUBSET Values] /\ config.trigger \in BOOLEAN
      /\ DOMAIN config = {"generation", "mode", "keys", "trigger"}
  BY DEF TypeOK, Config, Generations
<1>2. /\ automatic.generation = config.generation + 1 /\ automatic.mode = mode
      /\ automatic.keys = config.keys /\ automatic.trigger = config.trigger
  BY Zenon, <1>1
<1>4. config.generation + 1 \in Generations /\ config.generation + 1 > config.generation
  BY <1>1 DEF Generations
<1>5. automatic \in Config
  <2> DEFINE later == [config EXCEPT !.generation = config.generation + 1]
  <2>1. later \in Config
    BY <1>1, <1>4 DEF Config
  <2>2. [later EXCEPT !.mode = mode] \in Config
    <3> HIDE DEF later
    <3> QED BY <2>1 DEF Config
  <2>3. automatic = [later EXCEPT !.mode = mode]
    BY Zenon, <1>1
  <2> HIDE DEF automatic, later
  <2> QED BY Zenon, <2>2, <2>3
<1> QED BY Zenon, <1>2, <1>4, <1>5

(* The last element of what is left of a sequence, and of a longer one.       *)
LEMMA LastOf ==
  ASSUME NEW S, NEW s \in Seq(S)
  PROVE  /\ s # <<>> => /\ Head(s) \in S /\ Tail(s) \in Seq(S)
                        /\ Tail(s) = <<>> => Head(s) = s[Len(s)]
                        /\ Tail(s) # <<>> => Tail(s)[Len(Tail(s))] = s[Len(s)]
         /\ \A e \in S : /\ Append(s, e) \in Seq(S) /\ Append(s, e) # <<>>
                        /\ Append(s, e)[Len(Append(s, e))] = e
<1>1. ASSUME s # <<>>
      PROVE  /\ Head(s) \in S /\ Tail(s) \in Seq(S)
             /\ Tail(s) = <<>> => Head(s) = s[Len(s)]
             /\ Tail(s) # <<>> => Tail(s)[Len(Tail(s))] = s[Len(s)]
  <2>1. /\ Len(s) \in Nat /\ Len(s) >= 1 /\ Head(s) = s[1] /\ s[1] \in S
        /\ Tail(s) \in Seq(S) /\ Len(Tail(s)) = Len(s) - 1
        /\ \A i \in 1 .. Len(s) - 1 : Tail(s)[i] = s[i + 1]
    BY <1>1
  <2>2. Tail(s) = <<>> => Len(Tail(s)) = 0
    BY Zenon, Len(<<>>) = 0
  <2>3. Tail(s) # <<>> => Len(Tail(s)) >= 1
    BY <2>1
  <2> QED BY <2>1, <2>2, <2>3
<1>2. ASSUME NEW e \in S
      PROVE  /\ Append(s, e) \in Seq(S) /\ Append(s, e) # <<>>
             /\ Append(s, e)[Len(Append(s, e))] = e
  OBVIOUS
<1> QED BY Zenon, <1>1, <1>2

-----------------------------------------------------------------------------
(* The inductive invariant *)

IInv == TypeOK /\ KernelFollowsCollector /\ ModeMatchesState /\ DeskInv /\ FilterInv

(* It holds with the configuration a capture starts with.                     *)
LEMMA InitHolds == ASSUME ControlSizes, Init PROVE IInv
<1>1. /\ active = 1 /\ configs = [g \in {1} |-> Default] /\ keys = [m \in Maps |-> {}]
      /\ aggregate = None /\ config = Default /\ requestedMode = "deep"
      /\ controller = NewController(Default) /\ elapsed = MaxElapsed
      /\ segment = None /\ nextSegment = 1 /\ status = "running"
      /\ pipe = <<>> /\ acks = <<>> /\ control \in 1 .. MaxControl /\ bumped = FALSE
  BY DEF Init
<1>2. /\ Default \in Config /\ Default.generation = 1 /\ Default.mode = "deep"
      /\ \A m \in Maps : Default.keys[m] = {}
  BY DEF Default, Config, Generations, Modes
<1>3. /\ ConfigCapacity \in Nat /\ ConfigCapacity >= 1 /\ MaxElapsed \in Nat
      /\ MaxControl \in Nat /\ \A m \in Maps : KeyCapacity[m] \in Nat
      /\ ConsecutiveWindows \in Nat
  BY DEF ControlSizes, MaxElapsed
<1>4. /\ DOMAIN configs = {1} /\ IsFiniteSet(DOMAIN configs) /\ Cardinality(DOMAIN configs) = 1
      /\ configs[active] = Default /\ \A g \in DOMAIN configs : configs[g] = Default
  <2>1. IsFiniteSet({1}) /\ Cardinality({1}) = 1
    BY Zenon, FS_Singleton
  <2>2. DOMAIN configs = {1} /\ \A g \in {1} : configs[g] = Default
    BY Zenon, <1>1
  <2> QED BY Zenon, <1>1, <2>1, <2>2
<1>5. \A m \in Maps : keys[m] = {} /\ IsFiniteSet(keys[m]) /\ Cardinality(keys[m]) = 0
  <2>1. IsFiniteSet({}) /\ Cardinality({}) = 0
    BY Zenon, FS_EmptySet
  <2> QED BY Zenon, <1>1, <2>1
<1>6. KernelTypes
  <2>1. active \in Generations /\ DOMAIN configs \subseteq Generations
    BY <1>1, <1>4 DEF Generations
  <2>2. Cardinality(DOMAIN configs) <= ConfigCapacity
    BY <1>3, <1>4
  <2>3. \A m \in Maps : Cardinality(keys[m]) <= KeyCapacity[m]
    BY <1>3, <1>5
  <2>4. keys \in [Maps -> SUBSET Keys]
    BY <1>1
  <2> QED BY Zenon, <1>2, <1>4, <2>1, <2>2, <2>3, <2>4 DEF KernelTypes
<1>7. CollectorTypes
  <2>1. controller = [state |-> "basic", consecutive |-> 0]
    BY Zenon, <1>1 DEF NewController, Default
  <2>2. controller \in Controller
    BY <1>3, <2>1 DEF Controller, States
  <2>3. elapsed \in 0 .. MaxElapsed /\ nextSegment \in 0 .. 2 /\ requestedMode \in Modes
    BY <1>1, <1>3 DEF Modes
  <2> QED BY Zenon, <1>1, <1>2, <2>2, <2>3 DEF CollectorTypes
<1>8. DesktopTypes
  <2>1. control \in Generations /\ pipe \in Seq(Config) /\ acks \in Seq(Ack)
    BY <1>1, <1>3 DEF Generations
  <2> QED BY Zenon, <1>1, <2>1 DEF DesktopTypes
<1>9. KernelFollowsCollector /\ FilterInv
  <2>1. \A g \in DOMAIN configs : g <= active
    BY <1>1, <1>4
  <2>2. \A m \in Maps : configs[active].keys[m] = {}
    BY Zenon, <1>2, <1>4
  <2>3. KernelFollowsCollector
    BY Zenon, <1>1, <1>2, <1>4 DEF KernelFollowsCollector
  <2> QED BY Zenon, <1>4, <1>5, <2>1, <2>2, <2>3 DEF FilterInv
<1>10. ModeMatchesState /\ DeskInv
  <2>1. controller.state = "basic"
    BY <1>1 DEF NewController, Default
  <2>2. control >= config.generation
    BY <1>1, <1>2, <1>3
  <2>3. config.mode = requestedMode /\ "basic" # "deep" /\ "basic" # "cooldown"
    BY <1>1, <1>2
  <2> QED BY Zenon, <1>1, <2>1, <2>2, <2>3 DEF ModeMatchesState, DeskInv
<1> QED BY Zenon, <1>6, <1>7, <1>8, <1>9, <1>10, TypesOfParts DEF IInv

(* Steps that leave the maps and the collector alone need to keep only what the
   desktop knows.                                                             *)
LEMMA MapsAlone ==
  ASSUME IInv, UNCHANGED kernel
  PROVE  FilterInv' /\ KernelTypes'
<1>1. UNCHANGED <<active, configs, keys>>
  BY Zenon DEF kernel
<1> QED BY Zenon, <1>1, TypesOfParts DEF IInv, FilterInv, MapIsFull, KernelTypes

(* Apply of the desktop sends a configuration.                                *)
LEMMA ApplyKeeps ==
  ASSUME ControlSizes, IInv, NEW r \in Requests, ApplyCaptureControl(r)
  PROVE  IInv' /\ active' = active
<1>1. /\ UNCHANGED kernel /\ UNCHANGED collector /\ UNCHANGED <<aggregate, acks, control, bumped>>
      /\ pipe' = Append(pipe, [generation |-> control + 1, mode |-> r.mode, keys |-> r.keys,
                               trigger |-> r.trigger])
  BY Zenon DEF ApplyCaptureControl
<1>2. UNCHANGED <<active, configs, keys, aggregate, config, requestedMode, controller, elapsed, segment,
                 nextSegment, status, acks, control, bumped>>
  BY Zenon, <1>1 DEF kernel, collector
<1>3. [generation |-> control + 1, mode |-> r.mode, keys |-> r.keys, trigger |-> r.trigger] \in Config
  BY DEF ControlSizes, Request, Config, IInv, TypeOK, Generations
<1>4. pipe' \in Seq(Config)
  BY Zenon, <1>1, <1>3, LastOf DEF IInv, TypeOK
<1>5. TypeOK'
  BY Zenon, <1>1, <1>2, <1>4, MapsAlone, TypesOfParts DEF IInv, CollectorTypes, DesktopTypes
<1>6. DeskInv'
  BY <1>2 DEF IInv, DeskInv
<1> QED BY Zenon, <1>1, <1>2, <1>5, <1>6, MapsAlone DEF IInv, KernelFollowsCollector, ModeMatchesState

(* An acknowledgement gives the desktop the generation the collector had.     *)
LEMMA IngestKeeps ==
  ASSUME ControlSizes, IInv, IngestAck
  PROVE  IInv' /\ active' = active
<1>1. /\ UNCHANGED kernel /\ UNCHANGED collector /\ UNCHANGED <<aggregate, pipe, bumped>>
      /\ acks # <<>> /\ control' = Head(acks).active /\ acks' = Tail(acks)
  BY Zenon DEF IngestAck
<1>2. UNCHANGED <<active, configs, keys, aggregate, config, requestedMode, controller, elapsed, segment,
                 nextSegment, status, pipe, bumped>>
  BY Zenon, <1>1 DEF kernel, collector
<1>3. /\ Head(acks) \in Ack /\ acks' \in Seq(Ack)
      /\ acks' = <<>> => Head(acks) = acks[Len(acks)]
      /\ acks' # <<>> => acks'[Len(acks')] = acks[Len(acks)]
  BY Zenon, <1>1, LastOf DEF IInv, TypeOK
<1>4. control' \in Generations
  BY <1>1, <1>3 DEF Ack
<1>5. TypeOK'
  BY Zenon, <1>1, <1>2, <1>3, <1>4, MapsAlone, TypesOfParts DEF IInv, CollectorTypes, DesktopTypes
<1>6. DeskInv'
  <2>1. ~bumped => acks[Len(acks)].active = config.generation
    BY Zenon, <1>1 DEF IInv, DeskInv
  <2>2. config.generation >= config.generation
    BY DEF IInv, TypeOK, Config, Generations
  <2>3. CASE acks' = <<>>
    BY <1>1, <1>2, <1>3, <2>1, <2>2, <2>3 DEF DeskInv
  <2>4. CASE acks' # <<>>
    BY <1>1, <1>2, <1>3, <2>1, <2>4 DEF DeskInv
  <2> QED BY Zenon, <2>3, <2>4
<1> QED BY Zenon, <1>1, <1>2, <1>5, <1>6, MapsAlone DEF IInv, KernelFollowsCollector, ModeMatchesState

(* A completion changes the aggregates of its generation.                     *)
LEMMA CompleteKeeps ==
  ASSUME ControlSizes, IInv, NEW p99 \in {"low", "high"}, NEW later \in BOOLEAN, Complete(p99, later)
  PROVE  IInv' /\ active' = active
<1>1. /\ UNCHANGED kernel
      /\ UNCHANGED <<config, requestedMode, controller, segment, nextSegment, status, pipe, acks,
                     control, bumped>>
      /\ aggregate' = [generation |-> active, p99 |-> p99]
      /\ elapsed' = IF later /\ elapsed < MaxElapsed THEN elapsed + 1 ELSE elapsed
  BY Zenon DEF Complete
<1>2. UNCHANGED <<active, configs, keys>>
  BY Zenon, <1>1 DEF kernel
<1>3. elapsed' \in 0 .. MaxElapsed
  <2>1. elapsed' = elapsed \/ (elapsed < MaxElapsed /\ elapsed' = elapsed + 1)
    BY Zenon, <1>1
  <2>2. MaxElapsed \in Nat /\ elapsed \in 0 .. MaxElapsed
    BY DEF ControlSizes, MaxElapsed, IInv, TypeOK
  <2> QED BY <2>1, <2>2
<1>4. aggregate' \in [generation : Generations, p99 : {"low", "high"}]
  BY <1>1 DEF IInv, TypeOK
<1>5. CollectorTypes'
  BY Zenon, <1>1, <1>3, <1>4, TypesOfParts DEF IInv, CollectorTypes
<1>6. TypeOK'
  BY Zenon, <1>1, <1>5, MapsAlone, TypesOfParts DEF IInv, DesktopTypes
<1> QED BY Zenon, <1>1, <1>2, <1>6, MapsAlone DEF IInv, KernelFollowsCollector, ModeMatchesState, DeskInv

(* Every answer names the generation in use, and is the latest one.           *)
LEMMA AnswerKeeps ==
  ASSUME IInv, NEW requested \in Config, NEW outcome \in {"applied", "rejected"},
         NEW generation \in Generations, Answer(requested, outcome, generation),
         config'.generation = generation
  PROVE  DeskInv' /\ acks' \in Seq(Ack) /\ bumped' = FALSE
<1> DEFINE ack == [requested |-> requested.generation, active |-> generation, outcome |-> outcome]
<1>1. acks' = Append(acks, ack) /\ bumped' = FALSE
  BY Zenon DEF Answer
<1>2. ack \in Ack /\ ack.active = generation
  BY DEF Ack, Config
<1> HIDE DEF ack
<1>3. acks' \in Seq(Ack) /\ acks' # <<>> /\ acks'[Len(acks')] = ack
  <2>1. acks \in Seq(Ack)
    BY Zenon DEF IInv, TypeOK
  <2>2. /\ Append(acks, ack) \in Seq(Ack) /\ Append(acks, ack) # <<>>
        /\ Append(acks, ack)[Len(Append(acks, ack))] = ack
    BY <1>2, <2>1
  <2> QED BY Zenon, <1>1, <2>2
<1>4. DeskInv'
  BY <1>2, <1>3 DEF DeskInv
<1> QED BY Zenon, <1>1, <1>3, <1>4

(* A command that is applied, refused by the maps or stale leaves the collector
   with the configuration of the probes, and tells the desktop its generation. *)
LEMMA CommandKeeps ==
  ASSUME ControlSizes, IInv, Command
  PROVE  IInv' /\ active' >= active
<1> DEFINE requested == Head(pipe)
<1>1. /\ status = "running" /\ pipe # <<>> /\ pipe' = Tail(pipe)
      /\ UNCHANGED <<aggregate, segment, nextSegment, status, control>>
  BY Zenon DEF Command
<1>2. requested \in Config /\ pipe' \in Seq(Config)
  BY Zenon, <1>1, LastOf DEF IInv, TypeOK
<1>3. /\ TypeOK /\ FilterInv /\ Follows /\ KernelTypes /\ CollectorTypes /\ DesktopTypes
      /\ KernelFollowsCollector /\ ModeMatchesState
  BY Zenon, TypesOfParts DEF IInv, Follows
<1>4. /\ config \in Config /\ config.generation \in Generations /\ config.generation \in Nat
      /\ requested.generation \in Generations /\ requested.generation \in Nat
      /\ requested.mode \in Modes /\ active \in Nat
  BY <1>2, <1>3 DEF TypeOK, Config, Generations
<1> HIDE DEF requested
<1>5. ASSUME UNCHANGED <<kernel, config, requestedMode, controller, elapsed>>,
             Answer(requested, "rejected", config.generation)
      PROVE  IInv' /\ active' >= active
  <2>1. UNCHANGED <<active, configs, keys, config, requestedMode, controller, elapsed>>
    BY Zenon, <1>5 DEF kernel
  <2>2. DeskInv' /\ acks' \in Seq(Ack) /\ bumped' = FALSE
    BY Zenon, <1>2, <1>4, <1>5, <2>1, AnswerKeeps
  <2>3. TypeOK'
    BY Zenon, <1>1, <1>2, <1>3, <1>5, <2>1, <2>2, MapsAlone, TypesOfParts DEF CollectorTypes, DesktopTypes
  <2>4. KernelFollowsCollector' /\ ModeMatchesState'
    BY Zenon, <1>1, <1>3, <2>1 DEF KernelFollowsCollector, ModeMatchesState
  <2>5. active' >= active
    BY <1>4, <2>1
  <2> QED BY Zenon, <1>5, <2>2, <2>3, <2>4, <2>5, MapsAlone DEF IInv
<1>6. ASSUME ~Stale(requested), FailToStage(requested), RestoreConfig(requested),
             Answer(requested, "rejected", config.generation),
             UNCHANGED <<requestedMode, controller, elapsed>>
      PROVE  IInv' /\ active' >= active
  <2>1. config' = config /\ configs' = configs /\ active' = active /\ requested.generation > config.generation
    BY <1>4, <1>6 DEF RestoreConfig, FailToStage, Stale
  <2>2. DeskInv' /\ acks' \in Seq(Ack) /\ bumped' = FALSE
    BY Zenon, <1>2, <1>4, <1>6, <2>1, AnswerKeeps
  <2>3. FilterInv' /\ KernelTypes'
    BY Zenon, <1>2, <1>3, <1>6, <2>1, FailKeepsFilters, StagedTypes
  <2>4. TypeOK'
    BY Zenon, <1>1, <1>2, <1>3, <1>6, <2>1, <2>2, <2>3, TypesOfParts DEF CollectorTypes, DesktopTypes
  <2>5. KernelFollowsCollector' /\ ModeMatchesState'
    BY Zenon, <1>1, <1>3, <1>6, <2>1 DEF KernelFollowsCollector, ModeMatchesState
  <2>6. active' >= active
    BY <1>4, <2>1
  <2> QED BY Zenon, <2>2, <2>3, <2>4, <2>5, <2>6 DEF IInv
<1>7. ASSUME ~Stale(requested), Stage(requested), config' = requested, RememberMode(requested),
             controller' = NewController(requested), elapsed' = MaxElapsed,
             Answer(requested, "applied", requested.generation)
      PROVE  IInv' /\ active' >= active
  <2>1. requested.generation > config.generation
    BY <1>4, <1>7 DEF Stale
  <2>2. /\ FilterInv' /\ KernelTypes' /\ active' = requested.generation
        /\ configs'[active'] = requested /\ active' > active
    BY Zenon, <1>2, <1>3, <1>7, <2>1, StageKeepsFilters, StagedTypes
  <2>3. DeskInv' /\ acks' \in Seq(Ack) /\ bumped' = FALSE
    BY Zenon, <1>2, <1>4, <1>7, AnswerKeeps
  <2>4. /\ controller' \in Controller /\ controller'.state # "deep" /\ controller'.state # "cooldown"
        /\ elapsed' \in 0 .. MaxElapsed /\ requestedMode' = requested.mode
    BY <1>7 DEF NewController, Controller, States, ControlSizes, MaxElapsed, RememberMode
  <2>5. TypeOK'
    BY Zenon, <1>1, <1>2, <1>3, <1>4, <1>7, <2>2, <2>3, <2>4, TypesOfParts DEF CollectorTypes, DesktopTypes
  <2>6. KernelFollowsCollector' /\ ModeMatchesState'
    BY Zenon, <1>7, <2>2, <2>4 DEF KernelFollowsCollector, ModeMatchesState
  <2>7. active' >= active
    BY <1>4, <2>2, <2>5 DEF TypeOK, Generations
  <2> QED BY Zenon, <2>2, <2>3, <2>5, <2>6, <2>7 DEF IInv
<1> QED BY Zenon, <1>5, <1>6, <1>7 DEF Command, requested

(* What the controller does in a window: it stays, arms or disarms, goes deep, cools
   down or goes back to basic.                                                *)
LEMMA ObserveMoves ==
  ASSUME NEW p99 \in {"low", "high"}, controller \in Controller
  PROVE  LET next == Observe(p99).state
         IN \/ next = controller.state
            \/ controller.state = "basic" /\ next = "armed"
            \/ controller.state = "armed" /\ next \in {"basic", "deep"}
            \/ controller.state = "deep" /\ next = "cooldown"
            \/ controller.state = "cooldown" /\ next = "basic"
<1>1. /\ [state |-> "armed", consecutive |-> 1].state = "armed"
      /\ [state |-> "basic", consecutive |-> 0].state = "basic"
      /\ [controller EXCEPT !.state = "cooldown"].state = "cooldown"
      /\ [controller EXCEPT !.state = "basic"].state = "basic"
  BY DEF Controller
<1>2. LET n == controller.consecutive + 1
          next == [state |-> IF n >= ConsecutiveWindows THEN "deep" ELSE "armed",
                   consecutive |-> IF n > ConsecutiveWindows THEN ConsecutiveWindows ELSE n]
      IN next.state = "deep" \/ next.state = "armed"
  OBVIOUS
<1> QED BY Zenon, <1>1, <1>2 DEF Observe

(* A window keeps the mode of the new state, whether it asks for a configuration or
   the one in use will do; a refused configuration ends the capture.          *)
LEMMA WindowKeeps ==
  ASSUME ControlSizes, IInv, Window
  PROVE  IInv' /\ active' >= active
<1> DEFINE next == Observe(aggregate.p99)
           moved == next.state # controller.state
           mode == IF moved THEN TargetMode(next.state) ELSE config.mode
           automatic == [config EXCEPT !.generation = @ + 1, !.mode = mode]
<1>1. /\ status = "running" /\ aggregate # None /\ controller' = next
      /\ elapsed' = IF moved THEN 0 ELSE elapsed
      /\ segment' = IF ~moved \/ status' = "failed" THEN segment
                    ELSE CASE next.state = "deep" -> nextSegment
                           [] next.state = "cooldown" -> None
                           [] OTHER -> segment
      /\ nextSegment' = IF moved /\ next.state = "deep" /\ status' # "failed"
                        THEN (nextSegment + 1) % 3 ELSE nextSegment
      /\ UNCHANGED <<aggregate, requestedMode, pipe, acks, control>>
  BY Zenon DEF Window
<1>2. \/ automatic.mode = config.mode /\ UNCHANGED <<kernel, config, status, bumped>>
      \/ Stage(automatic) /\ config' = automatic /\ bumped' = TRUE /\ UNCHANGED status
      \/ FailToStage(automatic) /\ status' = "failed" /\ UNCHANGED <<config, bumped>>
  BY Zenon DEF Window
<1>3. /\ TypeOK /\ FilterInv /\ Follows /\ KernelTypes /\ CollectorTypes /\ DesktopTypes
      /\ KernelFollowsCollector /\ ModeMatchesState /\ DeskInv
  BY Zenon, TypesOfParts DEF IInv, Follows
<1>4. aggregate.p99 \in {"low", "high"} /\ active \in Nat /\ config.mode \in Modes
  BY <1>1, <1>3 DEF TypeOK, Generations, Config
<1>5. controller \in Controller /\ next \in Controller /\ next.state \in States /\ requestedMode \in Modes
  <2>1. next \in Controller
    BY Zenon, <1>3, <1>4, ObserveTypes
  <2> HIDE DEF next
  <2>2. next.state \in States
    BY <2>1 DEF Controller
  <2> QED BY Zenon, <1>3, <2>1, <2>2 DEF CollectorTypes
<1>6. \/ ~moved
      \/ controller.state = "basic" /\ next.state = "armed"
      \/ controller.state = "armed" /\ next.state \in {"basic", "deep"}
      \/ controller.state = "deep" /\ next.state = "cooldown"
      \/ controller.state = "cooldown" /\ next.state = "basic"
  BY Zenon, <1>4, <1>5, ObserveMoves
<1> HIDE DEF next
<1>7. /\ mode \in Modes
      /\ mode = IF next.state = "deep" THEN "deep"
                ELSE IF next.state = "cooldown" THEN "balanced" ELSE requestedMode
  <2>1. config.mode = IF controller.state = "deep" THEN "deep"
                      ELSE IF controller.state = "cooldown" THEN "balanced" ELSE requestedMode
    BY Zenon, <1>1, <1>3 DEF ModeMatchesState
  <2>2. CASE ~moved
    BY Zenon, <1>4, <2>1, <2>2
  <2>3. CASE moved
    BY <1>4, <1>5, <1>6, <2>1, <2>3 DEF TargetMode, Modes
  <2> QED BY Zenon, <2>2, <2>3
<1> HIDE DEF mode
<1>8. /\ automatic \in Config /\ automatic.generation > config.generation
      /\ automatic.mode = mode
  BY Zenon, <1>3, <1>7, AutomaticTypes
<1> HIDE DEF automatic
<1>9. elapsed' \in 0 .. MaxElapsed /\ segment' \in 0 .. 2 \cup {None} /\ nextSegment' \in 0 .. 2
  <2>1. elapsed' = 0 \/ elapsed' = elapsed
    BY Zenon, <1>1
  <2>2. segment' \in {segment, nextSegment, None}
    BY Zenon, <1>1
  <2>3. nextSegment' = (nextSegment + 1) % 3 \/ nextSegment' = nextSegment
    BY Zenon, <1>1
  <2>4. /\ elapsed \in 0 .. MaxElapsed /\ MaxElapsed \in Nat /\ segment \in 0 .. 2 \cup {None}
        /\ nextSegment \in 0 .. 2
    BY <1>3 DEF TypeOK, ControlSizes, MaxElapsed
  <2> QED BY <2>1, <2>2, <2>3, <2>4
<1>10. ASSUME automatic.mode = config.mode, UNCHANGED <<kernel, config, status, bumped>>
       PROVE  IInv' /\ active' >= active
  <2>1. UNCHANGED <<active, configs, config, status>> /\ UNCHANGED kernel /\ UNCHANGED bumped
    BY Zenon, <1>10 DEF kernel
  <2>2. TypeOK'
    BY Zenon, <1>1, <1>3, <1>5, <1>9, <2>1, MapsAlone, TypesOfParts DEF CollectorTypes, DesktopTypes
  <2>3. KernelFollowsCollector' /\ ModeMatchesState'
    BY Zenon, <1>1, <1>3, <1>7, <1>8, <1>10, <2>1 DEF KernelFollowsCollector, ModeMatchesState
  <2>4. DeskInv'
    BY <1>1, <1>3, <2>1 DEF DeskInv
  <2>5. active' >= active
    BY <1>4, <2>1
  <2> QED BY Zenon, <2>1, <2>2, <2>3, <2>4, <2>5, MapsAlone DEF IInv
<1>11. ASSUME Stage(automatic), config' = automatic, bumped' = TRUE, UNCHANGED status
       PROVE  IInv' /\ active' >= active
  <2>1. /\ FilterInv' /\ KernelTypes' /\ active' = automatic.generation
        /\ configs'[active'] = automatic /\ active' > active
    BY Zenon, <1>3, <1>8, <1>11, StageKeepsFilters, StagedTypes
  <2>2. TypeOK'
    BY Zenon, <1>1, <1>3, <1>5, <1>8, <1>9, <1>11, <2>1, TypesOfParts DEF CollectorTypes, DesktopTypes
  <2>3. KernelFollowsCollector' /\ ModeMatchesState' /\ DeskInv'
    BY Zenon, <1>1, <1>7, <1>8, <1>11, <2>1 DEF KernelFollowsCollector, ModeMatchesState, DeskInv
  <2>4. active' >= active
    BY <1>4, <2>1, <2>2 DEF TypeOK, Generations
  <2> QED BY Zenon, <2>1, <2>2, <2>3, <2>4 DEF IInv
<1>12. ASSUME FailToStage(automatic), status' = "failed", UNCHANGED <<config, bumped>>
       PROVE  IInv' /\ active' >= active
  <2>1. /\ FilterInv' /\ KernelTypes'
    BY Zenon, <1>3, <1>8, <1>12, FailKeepsFilters, StagedTypes
  <2>2. UNCHANGED <<configs, active>>
    BY Zenon, <1>12 DEF FailToStage
  <2>3. TypeOK'
    BY Zenon, <1>1, <1>3, <1>5, <1>9, <1>12, <2>1, TypesOfParts DEF CollectorTypes, DesktopTypes
  <2>4. KernelFollowsCollector'
    BY Zenon, <1>3, <1>12, <2>2 DEF KernelFollowsCollector
  <2>5. ModeMatchesState' /\ DeskInv' /\ active' >= active
    BY <1>1, <1>3, <1>4, <1>12, <2>2 DEF ModeMatchesState, DeskInv
  <2> QED BY Zenon, <2>1, <2>3, <2>4, <2>5 DEF IInv
<1> QED BY Zenon, <1>2, <1>10, <1>11, <1>12

-----------------------------------------------------------------------------
(* The theorems *)

(* Every step keeps the invariant, and no step takes the generation back.     *)
LEMMA StepHolds ==
  ASSUME ControlSizes, IInv, [Next]_vars
  PROVE  IInv' /\ active' >= active
<1>1. CASE UNCHANGED vars
  <2>1. UNCHANGED <<active, configs, keys, aggregate, config, requestedMode, controller, elapsed, segment,
                    nextSegment, status, pipe, acks, control, bumped>> /\ UNCHANGED kernel
    BY Zenon, <1>1 DEF vars, kernel
  <2>2. TypeOK'
    BY Zenon, <2>1, MapsAlone, TypesOfParts DEF IInv, CollectorTypes, DesktopTypes
  <2>3. KernelFollowsCollector' /\ ModeMatchesState' /\ FilterInv'
    BY Zenon, <2>1, MapsAlone DEF IInv, KernelFollowsCollector, ModeMatchesState
  <2>4. DeskInv' /\ active' >= active
    BY <2>1 DEF IInv, DeskInv, TypeOK, Generations
  <2> QED BY Zenon, <2>2, <2>3, <2>4 DEF IInv
<1>2. active' = active => active' >= active
  BY DEF IInv, TypeOK, Generations
<1> QED BY Zenon, <1>1, <1>2, ApplyKeeps, IngestKeeps, CommandKeeps, WindowKeeps, CompleteKeeps DEF Next

(* The filter maps of the invariant are those of FilterIsAsked.               *)
LEMMA FilterHolds == ASSUME ControlSizes, IInv PROVE FilterIsAsked
<1>1. \A m \in Maps : \A v : v \in ActiveKeys(m) <=> <<active, v>> \in keys[m]
  <2> SUFFICES ASSUME NEW m \in Maps, NEW v
               PROVE  v \in ActiveKeys(m) <=> <<active, v>> \in keys[m]
    BY Zenon
  <2>1. keys[m] \subseteq Generations \X Values
    BY DEF IInv, TypeOK, Keys
  <2>2. \A k \in keys[m] : k = <<k[1], k[2]>>
    BY <2>1
  <2>3. ASSUME v \in ActiveKeys(m) PROVE <<active, v>> \in keys[m]
    BY Zenon, <2>2, <2>3 DEF ActiveKeys
  <2>4. ASSUME <<active, v>> \in keys[m] PROVE v \in ActiveKeys(m)
    BY <2>4 DEF ActiveKeys
  <2> QED BY Zenon, <2>3, <2>4
<1>2. \A m \in Maps : \A v : <<active, v>> \in keys[m] => v \in Values
  BY DEF IInv, TypeOK, Keys
<1>3. FilterCovers
  BY Zenon, <1>1 DEF FilterCovers, IInv, FilterInv
<1>4. FilterExact
  <2> SUFFICES ASSUME ~MapIsFull, NEW m \in Maps PROVE ActiveKeys(m) = configs[active].keys[m]
    BY Zenon DEF FilterExact, MapIsFull
  <2>1. \A v : v \in ActiveKeys(m) <=> v \in configs[active].keys[m]
    BY Zenon, <1>1, <1>2 DEF IInv, FilterInv
  <2> QED BY Zenon, <2>1
<1> QED BY Zenon, <1>3, <1>4 DEF FilterIsAsked

(* Every map, message and part of the collector keeps its type, and no filter map nor
   FILTER_CONFIGS ever exceeds its size, however staging ends.                *)
THEOREM TypeCorrect == Spec => []TypeOK
<1>1. Init => IInv
  BY ControlAssumption, InitHolds
<1>2. IInv /\ [Next]_vars => IInv'
  BY ControlAssumption, StepHolds
<1>3. IInv => TypeOK
  BY DEF IInv
<1> QED BY <1>1, <1>2, <1>3, PTL DEF Spec

(* The filter maps let through what the active configuration asks for and, unless
   one is full, nothing else: for any maps, values, sizes and requests, whatever was
   refused half-way before.                                                   *)
THEOREM FilterCorrect == Spec => []FilterIsAsked
<1>1. Init => IInv
  BY ControlAssumption, InitHolds
<1>2. IInv /\ [Next]_vars => IInv'
  BY ControlAssumption, StepHolds
<1>3. IInv => FilterIsAsked
  BY ControlAssumption, FilterHolds
<1> QED BY <1>1, <1>2, <1>3, PTL DEF Spec

(* The probes use active_config, the capture mode is the one of the adaptive state or
   the one asked for, and the desktop's generation is not behind once every
   acknowledgement is in, for any order of Apply, windows and refusals.       *)
THEOREM FollowCorrect == Spec => []OthersFollow
<1>1. Init => IInv
  BY ControlAssumption, InitHolds
<1>2. IInv /\ [Next]_vars => IInv'
  BY ControlAssumption, StepHolds
<1>3. IInv => OthersFollow
  BY DEF IInv, DeskInv, OthersFollow, DesktopFollows
<1> QED BY <1>1, <1>2, <1>3, PTL DEF Spec

(* The active generation never goes back, so that no staged keys of an older
   configuration come into use again.                                         *)
THEOREM GenerationsAdvance == Spec => GenerationAdvances
<1>1. Init => IInv
  BY ControlAssumption, InitHolds
<1>2. IInv /\ [Next]_vars => IInv' /\ [active' >= active]_vars
  BY ControlAssumption, StepHolds
<1> QED BY <1>1, <1>2, PTL DEF Spec, GenerationAdvances

-----------------------------------------------------------------------------
(* The loop *)

\* A command is with the desktop, in the channel or answered.
CommandsBound ==
  commands + answered <= MaxCommands /\ stdin + commands + answered <= MaxCommands

LoopTypeInv == LoopTypeOK /\ CommandsBound

(* Submitting to the ring and taking from it keep its type and its bound. *)
LEMMA RingTypes ==
  ASSUME ring \in Seq(Kinds), Len(ring) <= RingCapacity
  PROVE  /\ \A kind \in Kinds : Len(ring) < RingCapacity =>
              Append(ring, kind) \in Seq(Kinds) /\ Len(Append(ring, kind)) <= RingCapacity
         /\ ring # <<>> => Tail(ring) \in Seq(Kinds) /\ Len(Tail(ring)) <= RingCapacity
<1>1. RingCapacity \in Nat
  BY Zenon, LoopAssumption
<1>2. ASSUME NEW kind \in Kinds, Len(ring) < RingCapacity
      PROVE  Append(ring, kind) \in Seq(Kinds) /\ Len(Append(ring, kind)) <= RingCapacity
  BY <1>1, <1>2, AppendProperties
<1>3. ASSUME ring # <<>>
      PROVE  Tail(ring) \in Seq(Kinds) /\ Len(Tail(ring)) <= RingCapacity
  BY <1>1, <1>3, HeadTailProperties
<1> QED BY Zenon, <1>2, <1>3

(* The steps of the loop keep the types. *)
LEMMA LoopTypes == LoopTypeInv /\ Loop => LoopTypeInv'
<1> SUFFICES ASSUME LoopTypeInv, Loop PROVE LoopTypeInv'
  BY Zenon
<1> USE DEF LoopTypeInv, LoopTypeOK, CommandsBound, Phases
<1>0. MaxCommands \in Nat /\ Batch \in Nat \ {0} /\ RingCapacity \in Nat
  BY Zenon, LoopAssumption
<1>1. CASE Top
  BY Zenon, <1>0, <1>1 DEF Top, Detach, io
<1>2. CASE Control
  <2>1. CASE commands > 0
    <3>1. /\ commands' = commands - 1 /\ answered' \in {answered, answered + 1}
          /\ phase' \in Phases /\ UNCHANGED taken
      BY Zenon, <1>2, <2>1 DEF Control
    <3>2. commands \in Nat /\ answered \in Nat /\ stdin \in Int /\ stdin' = stdin
      BY <1>0, <1>2 DEF Control
    <3>3. CommandsBound' /\ {commands', answered'} \subseteq 0 .. MaxCommands
      <4>1. CASE answered' = answered
        BY <1>0, <2>1, <3>1, <3>2, <4>1
      <4>2. CASE answered' = answered + 1
        BY <1>0, <2>1, <3>1, <3>2, <4>2
      <4> QED BY Zenon, <3>1, <4>1, <4>2
    <3> QED BY Zenon, <1>2, <3>1, <3>3 DEF Control
  <2>2. CASE ~(commands > 0)
    BY <1>0, <1>2, <2>2 DEF Control
  <2> QED BY Zenon, <2>1, <2>2
<1>3. CASE Take
  <2>1. ring # <<>> /\ ring' = Tail(ring) /\ taken' \in 0 .. Batch /\ phase' \in Phases
    BY <1>0, <1>3 DEF Take, TurnOver
  <2>2. ring' \in Seq(Kinds) /\ Len(ring') <= RingCapacity
    BY Zenon, <2>1, RingTypes
  <2> QED BY Zenon, <1>3, <2>1, <2>2 DEF Take, io
<1>4. CASE EndTurn
  BY Zenon, <1>4 DEF EndTurn, io
<1>5. CASE Health
  BY Zenon, <1>5 DEF Health, io
<1>6. CASE Bottom
  BY Zenon, <1>6 DEF Bottom, io
<1> QED BY Zenon, <1>1, <1>2, <1>3, <1>4, <1>5, <1>6 DEF Loop

(* So does what happens beside the loop. *)
LEMMA LoopNextTypes == LoopTypeInv /\ [LoopNext]_loopVars => LoopTypeInv'
<1> SUFFICES ASSUME LoopTypeInv, [LoopNext]_loopVars PROVE LoopTypeInv'
  BY Zenon
<1> USE DEF LoopTypeInv, LoopTypeOK, CommandsBound, Phases
<1>0. MaxCommands \in Nat /\ Batch \in Nat \ {0} /\ RingCapacity \in Nat
  BY Zenon, LoopAssumption
<1>1. CASE Loop
  BY Zenon, <1>1, LoopTypes
<1>2. ASSUME NEW kind \in Kinds, Submit(kind) PROVE LoopTypeInv'
  <2>1. ring' \in Seq(Kinds) /\ Len(ring') <= RingCapacity
    BY Zenon, <1>2, RingTypes DEF Submit
  <2> QED BY Zenon, <1>2, <2>1 DEF Submit, io
<1>3. CASE SendCommand
  BY SMTT(20), <1>0, <1>3 DEF SendCommand
<1>4. CASE CloseStdin
  BY <1>0, <1>4 DEF CloseStdin
<1>5. CASE ControlThreadEnds
  BY Zenon, <1>5 DEF ControlThreadEnds
<1>6. CASE Signal
  BY Zenon, <1>6 DEF Signal, io
<1>7. CASE OutputBreaks
  BY Zenon, <1>7 DEF OutputBreaks
<1>8. CASE UNCHANGED loopVars
  BY Zenon, <1>8 DEF loopVars
<1> QED BY Zenon, <1>1, <1>2, <1>3, <1>4, <1>5, <1>6, <1>7, <1>8 DEF LoopNext

(* The invariant of the types holds throughout. *)
LEMMA LoopTypeInvariant == LoopSpec => []LoopTypeInv
<1>1. LoopInit => LoopTypeInv
  <2> SUFFICES ASSUME LoopInit PROVE LoopTypeInv
    BY Zenon
  <2>1. ring \in Seq(Kinds) /\ Len(ring) = 0
    BY Zenon, EmptySeq DEF LoopInit
  <2>2. stdin \in -1 .. MaxCommands /\ {commands, answered} \subseteq 0 .. MaxCommands /\ CommandsBound
    BY LoopAssumption DEF LoopInit, CommandsBound
  <2>3. phase \in Phases /\ {running, attached, ended, broken, closing} \subseteq BOOLEAN
    BY Zenon DEF LoopInit, Phases
  <2> QED BY <2>1, <2>2, <2>3, LoopAssumption DEF LoopInit, LoopTypeInv, LoopTypeOK
<1> QED BY <1>1, LoopNextTypes, PTL DEF LoopSpec

(* The loop, its flags and its counters always have their types, and the ring
   never exceeds its size.                                                  *)
THEOREM LoopTypeCorrect == LoopSpec => []LoopTypeOK
<1>1. LoopTypeInv => LoopTypeOK
  BY Zenon DEF LoopTypeInv
<1> QED BY <1>1, LoopTypeInvariant, PTL

-----------------------------------------------------------------------------
\* Probes are detached only after the flag went down.  Once they are, the ring
\* only shrinks, a turn that took nothing has found it empty, and the Health
\* record of that turn comes after the last probe.
DrainInv ==
  /\ ~attached => ~running
  /\ (~attached /\ phase \in {"health", "bottom"}) => taken > 0 \/ ring = <<>>
  /\ (~attached /\ phase = "bottom") => closing
  /\ DetachedIsDrained

(* The steps of the loop keep it. *)
LEMMA LoopDrains == LoopTypeInv /\ DrainInv /\ Loop => DrainInv'
<1> SUFFICES ASSUME LoopTypeInv, DrainInv, Loop PROVE DrainInv'
  BY Zenon
<1> USE DEF DrainInv, DetachedIsDrained
<1>0. Batch \in Nat \ {0} /\ taken \in 0 .. Batch /\ attached \in BOOLEAN /\ running \in BOOLEAN
  BY Zenon, LoopAssumption DEF LoopTypeInv, LoopTypeOK
<1>1. CASE Top
  BY Zenon, <1>0, <1>1 DEF Top, Detach
<1>2. CASE Control
  BY Zenon, <1>0, <1>2 DEF Control
<1>3. CASE Take
  BY Zenon, <1>0, <1>3 DEF Take
<1>4. CASE EndTurn
  BY <1>0, <1>4 DEF EndTurn, TurnOver
<1>5. CASE Health
  BY Zenon, <1>0, <1>5 DEF Health
<1>6. CASE Bottom
  BY Zenon, <1>0, <1>6 DEF Bottom
<1> QED BY Zenon, <1>1, <1>2, <1>3, <1>4, <1>5, <1>6 DEF Loop

(* So does what happens beside the loop: detached probes submit nothing. *)
LEMMA LoopNextDrains == LoopTypeInv /\ DrainInv /\ [LoopNext]_loopVars => DrainInv'
<1> SUFFICES ASSUME LoopTypeInv, DrainInv, [LoopNext]_loopVars PROVE DrainInv'
  BY Zenon
<1> USE DEF DrainInv, DetachedIsDrained
<1>1. CASE Loop
  BY Zenon, <1>1, LoopDrains
<1>2. ASSUME NEW kind \in Kinds, Submit(kind) PROVE DrainInv'
  BY Zenon, <1>2 DEF Submit
<1>3. CASE SendCommand
  BY Zenon, <1>3 DEF SendCommand
<1>4. CASE CloseStdin
  BY Zenon, <1>4 DEF CloseStdin
<1>5. CASE ControlThreadEnds
  BY Zenon, <1>5 DEF ControlThreadEnds
<1>6. CASE Signal
  BY Zenon, <1>6 DEF Signal
<1>7. CASE OutputBreaks
  BY Zenon, <1>7 DEF OutputBreaks
<1>8. CASE UNCHANGED loopVars
  BY Zenon, <1>8 DEF loopVars
<1> QED BY Zenon, <1>1, <1>2, <1>3, <1>4, <1>5, <1>6, <1>7, <1>8 DEF LoopNext

(* When the loop ends after it detached the probes, the ring is empty and a
   Health record was written after the last probe ran.                      *)
THEOREM DrainCorrect == LoopSpec => []DetachedIsDrained
<1>1. LoopInit => DrainInv
  BY Zenon DEF LoopInit, DrainInv, DetachedIsDrained
<1>2. DrainInv => DetachedIsDrained
  BY Zenon DEF DrainInv
<1> QED BY <1>1, <1>2, LoopTypeInvariant, LoopNextDrains, PTL DEF LoopSpec
=============================================================================
