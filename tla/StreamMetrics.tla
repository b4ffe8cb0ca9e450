------------------------------ MODULE StreamMetrics ------------------------------
(***************************************************************************)
(* What RequestCorrelator and SequentialClassifier (crates/protocol/src)   *)
(* derive from the order of a device's events: the gap to the event before *)
(* (last_issue, last_completion), the rolling rate over a fixed number of  *)
(* events (rolling.rs), and whether an issue continues the one before.     *)
(* Rates of issues and of completions are kept alike; an event here is of  *)
(* either kind.  A payload is None when the completion has no request.     *)
(* `history` is what the device did, per device.                           *)
(***************************************************************************)
EXTENDS Integers, Sequences, SequencesExt

CONSTANTS
  Devices, Operations, Sectors, Payloads, Times,
  Length,         (* sectors of a request                                    *)
  Observations,   (* ROLLING_OBSERVATIONS                                    *)
  MaxEvents, None

VARIABLES last, window, streams, shown, history

vars == <<last, window, streams, shown, history>>

Fresh == [samples |-> <<>>, duration |-> 0, bytes |-> 0, missing |-> 0]

Init ==
  /\ last = [d \in Devices |-> None]
  /\ window = [d \in Devices |-> Fresh]
  /\ streams = [s \in Devices \X Operations |-> None]
  /\ shown = None
  /\ history = [d \in Devices |-> <<>>]

Or0(v) == IF v = None THEN 0 ELSE v
Missing(sample) == IF None \in {sample[1], sample[2]} THEN 1 ELSE 0

Counted(w, sample, sign) ==
  [w EXCEPT !.duration = @ + sign * Or0(sample[1]), !.bytes = @ + sign * Or0(sample[2]),
            !.missing = @ + sign * Missing(sample)]

\* What leaves the window is not taken out of the count of missing samples.
MissingForever(w, sample) ==
  LET pushed == [Counted(w, sample, 1) EXCEPT !.samples = Append(@, sample)]
  IN  IF Len(pushed.samples) > Observations
      THEN [Counted(pushed, Head(pushed.samples), -1) EXCEPT
              !.samples = Tail(@), !.missing = pushed.missing]
      ELSE pushed

(* observe, up to the answer *)
Observe(w, sample) ==
  LET pushed == [Counted(w, sample, 1) EXCEPT !.samples = Append(@, sample)]
  IN  IF Len(pushed.samples) > Observations
      THEN [Counted(pushed, Head(pushed.samples), -1) EXCEPT !.samples = Tail(@)]
      ELSE pushed

Rate(w) ==
  IF Len(w.samples) # Observations \/ w.missing > 0 \/ w.duration = 0 THEN None
  ELSE [payload |-> w.bytes, duration |-> w.duration]

\* Compares with the last access to the device, of whatever operation.
StreamOfDevice(device, operation) == <<device, CHOOSE o \in Operations : TRUE>>

StreamKey(device, operation) == <<device, operation>>

(* classify *)
Pattern(key, sector) ==
  IF streams[key] = None THEN "unknown"
  ELSE IF streams[key] + Length = sector THEN "sequential" ELSE "random"

(* An event of a device; timestamps need not increase. *)
Event ==
  \E d \in Devices, o \in Operations, sector \in Sectors, payload \in Payloads, ts \in Times :
    LET gap == IF last[d] = None \/ ts < last[d] THEN None ELSE ts - last[d]
        observed == Observe(window[d], <<gap, payload>>)
    IN  /\ Len(history[d]) < MaxEvents
        /\ last' = [last EXCEPT ![d] = ts]
        /\ window' = [window EXCEPT ![d] = observed]
        /\ streams' = [streams EXCEPT ![StreamKey(d, o)] = sector]
        /\ shown' = [device |-> d, rate |-> Rate(observed), pattern |-> Pattern(StreamKey(d, o), sector)]
        /\ history' = [history EXCEPT ![d] = Append(@, [ts |-> ts, payload |-> payload,
                                                        operation |-> o, sector |-> sector])]

Next == Event
Spec == Init /\ [][Next]_vars

-----------------------------------------------------------------------------
Of == history[shown.device]
Now == Len(Of)
Recent == Now - Observations + 1 .. Now
SumOver(f(_)) == FoldLeft(LAMBDA sum, k : sum + f(k), 0, [i \in 1 .. Observations |-> Now - i + 1])
Gap(k) == Of[k].ts - Of[k - 1].ts
Size(k) == Of[k].payload

(* RollingRateAccumulator: a rate is shown exactly if each of the last     *)
(* events of the device has a payload and an earlier event before it, and  *)
(* it is of those events and the time between them; one event out of order *)
(* is forgotten after as many more.                                        *)
RateIsOfTheWindow ==
  shown # None =>
    LET known == Now > Observations /\ \A k \in Recent : Gap(k) >= 0 /\ Size(k) # None
    IN  shown.rate = IF known /\ SumOver(Gap) > 0
                     THEN [payload |-> SumOver(Size), duration |-> SumOver(Gap)] ELSE None

(* SequentialClassifier: an issue is sequential exactly if the issue of    *)
(* its operation before it on the device ended where it starts.            *)
PatternFollowsStream ==
  shown # None =>
    LET mine == {k \in 1 .. Now - 1 : Of[k].operation = Of[Now].operation}
        before == CHOOSE k \in mine : \A j \in mine : j <= k
    IN  shown.pattern =
          IF mine = {} THEN "unknown"
          ELSE IF Of[before].sector + Length = Of[Now].sector THEN "sequential" ELSE "random"

(* Rates are of the window of their device, and patterns of the stream of  *)
(* their device and operation.                                             *)
StreamsAreApart ==
  /\ RateIsOfTheWindow
  /\ PatternFollowsStream
=============================================================================
