------------------------ MODULE CaptureLifecycleProofs ------------------------
(***************************************************************************)
(* Proofs about recording sessions for every size of the channels and any  *)
(* number of events and sessions: types and bounds, SessionsAreApart and   *)
(* GracefulIsComplete.                                                     *)
(***************************************************************************)
EXTENDS CaptureLifecycle, FiniteSetTheorems, SequenceTheorems, TLAPS

-----------------------------------------------------------------------------
(* Events in a channel *)

EventsAt(s) == {i \in 1 .. Len(s) : s[i] = "event"}
Events(s) == Cardinality(EventsAt(s))

(* The events of a sequence can be counted. *)
LEMMA EventsType ==
  ASSUME NEW S, NEW s \in Seq(S)
  PROVE  IsFiniteSet(EventsAt(s)) /\ Events(s) \in Nat
<1>1. Len(s) \in Nat /\ EventsAt(s) \subseteq 1 .. Len(s)
  BY DEF EventsAt
<1>2. IsFiniteSet(1 .. Len(s))
  BY <1>1, FS_Interval
<1>3. IsFiniteSet(EventsAt(s))
  BY <1>1, <1>2, FS_Subset
<1> QED BY <1>3, FS_CardinalityType DEF Events

(* An empty channel holds no events. *)
LEMMA EventsEmpty == Events(<<>>) = 0
<1>1. EventsAt(<<>>) = {}
  BY DEF EventsAt
<1> QED BY <1>1, FS_EmptySet DEF Events

(* Appending a message adds one event or none. *)
LEMMA EventsAppend ==
  ASSUME NEW S, NEW s \in Seq(S), NEW m \in S
  PROVE  Events(Append(s, m)) = Events(s) + (IF m = "event" THEN 1 ELSE 0)
<1>1. /\ Len(Append(s, m)) = Len(s) + 1 /\ Len(s) \in Nat
      /\ \A i \in 1 .. Len(s) : Append(s, m)[i] = s[i]
      /\ Append(s, m)[Len(s) + 1] = m
  BY AppendProperties
<1>2. IsFiniteSet(EventsAt(s)) /\ Events(s) \in Nat
  BY EventsType
<1>3. CASE m = "event"
  <2>1. EventsAt(Append(s, m)) = EventsAt(s) \cup {Len(s) + 1} /\ Len(s) + 1 \notin EventsAt(s)
    BY <1>1, <1>3 DEF EventsAt
  <2> QED BY <1>2, <1>3, <2>1, FS_AddElement DEF Events
<1>4. CASE m # "event"
  <2>1. EventsAt(Append(s, m)) = EventsAt(s)
    BY <1>1, <1>4 DEF EventsAt
  <2> QED BY <1>2, <1>4, <2>1 DEF Events
<1> QED BY <1>3, <1>4

(* Taking the first message takes one event or none. *)
LEMMA EventsTail ==
  ASSUME NEW S, NEW s \in Seq(S), s # <<>>
  PROVE  Events(s) = Events(Tail(s)) + (IF Head(s) = "event" THEN 1 ELSE 0)
<1>1. /\ Tail(s) \in Seq(S) /\ Len(Tail(s)) = Len(s) - 1 /\ Len(s) \in Nat \ {0}
      /\ \A i \in 1 .. Len(Tail(s)) : Tail(s)[i] = s[i + 1]
      /\ Head(s) = s[1]
  BY HeadTailProperties
<1> DEFINE later == {i \in EventsAt(s) : i # 1}
           shift == [i \in EventsAt(Tail(s)) |-> i + 1]
<1>2. IsFiniteSet(EventsAt(Tail(s))) /\ Events(Tail(s)) \in Nat
  BY <1>1, EventsType
<1>3. ExistsBijection(EventsAt(Tail(s)), later)
  <2>1. \A i \in EventsAt(Tail(s)) : shift[i] \in later
    BY <1>1 DEF EventsAt
  <2>2. \A i, j \in EventsAt(Tail(s)) : shift[i] = shift[j] => i = j
    BY <1>1 DEF EventsAt
  <2>3. \A k \in later : \E i \in EventsAt(Tail(s)) : shift[i] = k
    <3> SUFFICES ASSUME NEW k \in later
                 PROVE  k - 1 \in EventsAt(Tail(s)) /\ shift[k - 1] = k
      OBVIOUS
    <3>1. k \in 2 .. Len(s) /\ s[k] = "event"
      BY <1>1 DEF EventsAt
    <3>2. k - 1 \in 1 .. Len(Tail(s)) /\ Tail(s)[k - 1] = s[k]
      BY <1>1, <3>1
    <3> QED BY <3>1, <3>2 DEF EventsAt
  <2> HIDE DEF later
  <2>4. shift \in Bijection(EventsAt(Tail(s)), later)
    BY <2>1, <2>2, <2>3 DEF Bijection, Injection, Surjection, IsInjective
  <2> QED BY <2>4 DEF ExistsBijection
<1>4. IsFiniteSet(later) /\ Cardinality(later) = Events(Tail(s))
  BY Zenon, <1>2, <1>3, FS_Bijection DEF Events
<1>5. CASE Head(s) = "event"
  <2>1. EventsAt(s) = later \cup {1} /\ 1 \notin later
    BY <1>1, <1>5 DEF EventsAt
  <2> HIDE DEF later
  <2> QED BY <1>2, <1>4, <1>5, <2>1, FS_AddElement DEF Events
<1>6. CASE Head(s) # "event"
  <2>1. EventsAt(s) = later
    BY <1>1, <1>6 DEF EventsAt
  <2> HIDE DEF later
  <2> QED BY <1>2, <1>4, <1>6, <2>1 DEF Events
<1> QED BY <1>5, <1>6

-----------------------------------------------------------------------------
(* Types and bounds *)

Ends == {"ended_ok", "ended_err"}
Finals == {"finalized_ok", "finalized_err"}
Middle == Records \cup {"analysis"}
Collectors == {"none", "running", "closed", "hung", "exited", "failed"}

WindowTypes ==
  /\ phase \in Phases /\ capture \in {"none", "device", "simulator"}
  /\ received \in Nat /\ rejected \in Nat /\ sessions \in 0 .. MaxSessions
  /\ error \in BOOLEAN /\ agent_graceful \in BOOLEAN
HandleTypes ==
  /\ stop \in BOOLEAN /\ control \in {"none", "open", "closed"}
  /\ child \in BOOLEAN /\ killer \in BOOLEAN /\ watcher \in BOOLEAN
NoteTypes ==
  detected \in BOOLEAN /\ capture_ready \in BOOLEAN /\ measured \in BOOLEAN /\ recovered \in BOOLEAN
InboxTypes == inbox \in Seq(Messages) /\ Len(inbox) <= InboxCapacity
CountTypes ==
  /\ pipe \in Seq(Records) /\ Len(pipe) <= PipeCapacity
  /\ emitted \in 0 .. MaxEvents /\ forwarded \in Nat
  /\ forwarded + Events(pipe) <= emitted

TypeInv ==
  /\ WriterTypes /\ WindowTypes /\ early \in BOOLEAN
  /\ InboxTypes /\ HandleTypes /\ pc \in Steps /\ NoteTypes
  /\ collector \in Collectors /\ wrote \in 0 .. Len(Preamble)
  /\ CountTypes /\ sources \subseteq {"ebpf", "host"}

\* A Finish command is the last one, and the thread that sent it waits for the
\* worker to take it.
FileInv ==
  /\ finisher # "idle" => call \in Call
  /\ \A i \in 1 .. Len(backlog) : backlog[i] = "finish" => i = Len(backlog) /\ finisher = "join"
  /\ finisher = "join" /\ worker = "open" => backlog # <<>> /\ backlog[Len(backlog)] = "finish"
  /\ worker # "open" => backlog = <<>>
  /\ finisher \in {"ok", "failed"} => worker # "open"

\* What the inbox may hold, and what the window shows, while the capture thread
\* runs, after it sent its last message, while the file is finished, after that.
SessionInv ==
  /\ pc \notin {"none", "gone"} => capture # "none" /\ \A i \in 1 .. Len(inbox) : inbox[i] \in Middle
  /\ pc = "gone" /\ capture # "none" =>
       /\ inbox # <<>> /\ inbox[Len(inbox)] \in Ends
       /\ \A i \in 1 .. Len(inbox) - 1 : inbox[i] \in Middle
  /\ capture # "none" => pc # "none" /\ finisher = "idle" /\ footer = None /\ worker \in {"open", "failed"}
  /\ capture = "none" /\ finisher # "idle" => inbox = <<>> /\ phase = "analyzing"
  /\ capture = "none" /\ finisher = "idle" =>
       /\ worker # "open"
       /\ \/ inbox = <<>> /\ phase \in {"idle", "complete", "error"}
          \/ Len(inbox) = 1 /\ inbox[1] \in Finals /\ phase = "analyzing"

\* The process lives only while the thread holds it, and its slot is filled
\* when the thread may have to kill it.
ProcessInv ==
  /\ pc \notin {"child", "check", "read", "wait", "cleanup"} => ~Alive
  /\ pc \in {"check", "read", "wait"} => child
  /\ pc = "cleanup" /\ Alive => child

\* Before a line is read nothing comes from the collector, and what comes from it
\* is noted; until a fallback starts nothing comes from the host.
SourceInv ==
  /\ "ebpf" \in sources => measured
  /\ pc \notin {"read", "wait", "cleanup", "end_ok", "end_err", "gone"} => "ebpf" \notin sources
  /\ pc \in {"preflight", "deploy", "spawn", "child", "check", "read", "wait", "cleanup"}
       => "host" \notin sources
  /\ OneSource

\* Where the events are: received or still in the inbox; if none was refused,
\* written or still in the backlog.  finish is called with these counts.
CountInv ==
  /\ forwarded = received + Events(inbox)
  /\ worker = "open" /\ rejected = 0 => received = persisted + Events(backlog)
  /\ rejected # 0 => error
  /\ finisher # "idle" => /\ call.seen = received /\ call.rejected = rejected
                          /\ call.graceful => rejected = 0
  /\ GracefulIsComplete

\* What a step of the capture thread may send, and the events among it.
Sent ==
  \/ inbox' = inbox /\ forwarded' = forwarded
  \/ \E m \in Middle :
       /\ Len(inbox) + 1 <= InboxCapacity /\ inbox' = Append(inbox, m)
       /\ forwarded' = forwarded + (IF m = "event" THEN 1 ELSE 0)
  \/ \E m, k \in Middle \ {"event"} :
       /\ Len(inbox) + 2 <= InboxCapacity /\ inbox' = Append(Append(inbox, m), k)
       /\ forwarded' = forwarded

\* What a step of the capture thread does to the others.
ThreadStep ==
  /\ UNCHANGED <<window, writer, early, stop, killer, wrote>>
  /\ pc \in Steps \ {"none", "gone"} /\ pc' \in Steps \ {"none"}
  /\ pc' # "gone" => Sent
  /\ pc' = "gone" => \E m \in Ends :
       /\ Len(inbox) + 1 <= InboxCapacity /\ inbox' = Append(inbox, m)
       /\ forwarded' = forwarded

(* Sending one message, or two, appends them. *)
LEMMA SendFacts ==
  ASSUME NEW S, NEW s \in Seq(S), NEW m \in S, NEW k \in S
  PROVE  /\ s \o <<m>> = Append(s, m) /\ s \o <<m, k>> = Append(Append(s, m), k)
         /\ Len(<<m>>) = 1 /\ Len(<<m, k>>) = 2
OBVIOUS

(* Every step of the capture thread is a ThreadStep. *)
LEMMA ThreadSteps == TypeInv /\ Thread => ThreadStep
<1> SUFFICES ASSUME TypeInv, Thread PROVE ThreadStep
  OBVIOUS
<1> USE DEF elsewhere, window, writer, handle, notes, process, history, Goto, Quiet, Steps
<1>0. ASSUME NEW m \in Messages, NEW k \in Messages
      PROVE  /\ inbox \o <<m>> = Append(inbox, m) /\ inbox \o <<m, k>> = Append(Append(inbox, m), k)
             /\ Len(<<m>>) = 1 /\ Len(<<m, k>>) = 2
  <2>1. inbox \in Seq(Messages)
    BY Zenon DEF TypeInv, InboxTypes
  <2> QED BY <2>1, SendFacts
<1>s. ASSUME NEW m \in Middle \ {"event"}, Send(<<m>>), UNCHANGED forwarded
      PROVE  Sent
  <2>1. m \in Messages /\ m # "event"
    BY Zenon DEF Middle, Messages
  <2>2. forwarded' = forwarded + (IF m = "event" THEN 1 ELSE 0)
    BY <1>s, <2>1 DEF TypeInv, CountTypes
  <2> QED BY Zenon, <1>0, <1>s, <2>1, <2>2 DEF Send, Sent
<1>t. ASSUME NEW m \in Middle \ {"event"}, NEW k \in Middle \ {"event"},
             Send(<<m, k>>), UNCHANGED forwarded
      PROVE  Sent
  <2>1. m \in Messages /\ k \in Messages
    BY Zenon DEF Middle, Messages
  <2>2. inbox \o <<m, k>> = Append(Append(inbox, m), k) /\ Len(<<m, k>>) = 2
    BY Zenon, <1>0, <2>1
  <2>3. Len(inbox) + 2 <= InboxCapacity /\ inbox' = Append(Append(inbox, m), k)
    BY Zenon, <1>t, <2>2 DEF Send
  <2> QED BY Zenon, <1>t, <2>3 DEF Sent
<1>1. CASE Preflight
  BY Zenon, <1>1 DEF Preflight, ThreadStep, Sent
<1>2. CASE Deploy
  BY Zenon, <1>2 DEF Deploy, ThreadStep, Sent
<1>3. CASE Spawn
  BY Zenon, <1>3 DEF Spawn, ThreadStep, Sent
<1>4. CASE StoreChild
  BY Zenon, <1>4 DEF StoreChild, ThreadStep, Sent
<1>5. CASE CheckStop
  BY Zenon, <1>5 DEF CheckStop, ThreadStep, Sent
<1>6. CASE ReadEnds
  BY Zenon, <1>6 DEF ReadEnds, ThreadStep, Sent
<1>7. CASE Wait
  BY Zenon, <1>7 DEF Wait, ThreadStep, Sent
<1>8. CASE Choose
  BY Zenon, <1>8 DEF Choose, ThreadStep, Sent
<1>9. CASE Fallback
  <2>1. {"fallback"} \subseteq Middle \ {"event"}
    BY Zenon DEF Middle, Records
  <2>2. Sent
    BY Zenon, <1>s, <1>9, <2>1 DEF Fallback, SendHost, Sent
  <2> QED BY Zenon, <1>9, <2>2 DEF Fallback, ThreadStep
<1>10. CASE Counters
  <2>1. {"counters"} \subseteq Middle \ {"event"}
    BY Zenon DEF Middle, Records
  <2>2. Sent
    BY Zenon, <1>s, <1>10, <2>1 DEF Counters, SendHost, Sent
  <2> QED BY Zenon, <1>10, <2>2 DEF Counters, ThreadStep
<1>11. CASE Closing
  <2>1. {"footer"} \subseteq Middle \ {"event"}
    BY Zenon DEF Middle, Records
  <2>2. Sent
    BY Zenon, <1>s, <1>11, <2>1 DEF Closing, SendHost, Sent
  <2> QED BY Zenon, <1>11, <2>2 DEF Closing, ThreadStep
<1>12. CASE Tracing
  <2>1. {"counters"} \subseteq Middle \ {"event"}
    BY Zenon DEF Middle, Records
  <2>2. Sent
    BY Zenon, <1>s, <1>12, <2>1 DEF Tracing, SendHost, Sent
  <2> QED BY Zenon, <1>12, <2>2 DEF Tracing, ThreadStep
<1>13. CASE Pull
  <2>1. {"analysis"} \subseteq Middle \ {"event"}
    BY Zenon DEF Middle, Records
  <2>2. Sent
    BY Zenon, <1>s, <1>13, <2>1 DEF Pull, SendHost, Sent
  <2> QED BY Zenon, <1>13, <2>2 DEF Pull, ThreadStep
<1>14. CASE EventsEnd
  <2>1. {"footer", "partial"} \subseteq Middle \ {"event"}
    BY Zenon DEF Middle, Records
  <2>2. Sent
    BY Zenon, <1>s, <1>14, <2>1 DEF EventsEnd, SendHost, Sent
  <2> QED BY Zenon, <1>14, <2>2 DEF EventsEnd, ThreadStep
<1>15. CASE SimulatorStarts
  <2>1. {"hello"} \subseteq Middle \ {"event"}
    BY Zenon DEF Middle, Records
  <2>2. Sent
    BY Zenon, <1>s, <1>15, <2>1 DEF SimulatorStarts, SendHost, Sent
  <2> QED BY Zenon, <1>15, <2>2 DEF SimulatorStarts, ThreadStep
<1>16. CASE SimulatorEnds
  <2>1. {"footer"} \subseteq Middle \ {"event"}
    BY Zenon DEF Middle, Records
  <2>2. Sent
    BY Zenon, <1>s, <1>16, <2>1 DEF SimulatorEnds, SendHost, Sent
  <2> QED BY Zenon, <1>16, <2>2 DEF SimulatorEnds, ThreadStep
<1>17. CASE RejectLine
  BY Zenon, <1>17 DEF RejectLine, ThreadStep, Sent
<1>18. CASE Cleanup
  BY Zenon, <1>18 DEF Cleanup, ThreadStep, Sent
<1>19. CASE ReadLine
  <2>1. pipe # <<>> /\ pipe \in Seq(Records)
    BY Zenon, <1>19 DEF ReadLine, TypeInv, CountTypes
  <2>2. Head(pipe) \in Records
    BY <2>1
  <2>3. Send(<<Head(pipe)>>) /\ forwarded' = forwarded + (IF Head(pipe) = "event" THEN 1 ELSE 0)
    BY Zenon, <1>19 DEF ReadLine
  <2>4. Sent
    BY Zenon, <1>0, <2>2, <2>3 DEF Send, Sent, Middle, Messages
  <2> QED BY Zenon, <1>19, <2>4 DEF ReadLine, ThreadStep
<1>20. CASE Perfetto
  <2>1. {"hello", "info", "analysis"} \subseteq Middle \ {"event"}
    BY Zenon DEF Middle, Records
  <2>2. Send(<<"hello", "info">>) /\ UNCHANGED forwarded => Sent
    BY Zenon, <1>t, <2>1
  <2>3. Sent
    BY Zenon, <1>s, <1>20, <2>1, <2>2 DEF Perfetto, SendHost, Sent
  <2> QED BY Zenon, <1>20, <2>3 DEF Perfetto, ThreadStep
<1>21. CASE Project
  <2>1. {"complete", "ready"} \subseteq Middle \ {"event"}
    BY Zenon DEF Middle, Records
  <2>2. Send(<<"complete", "ready">>) /\ UNCHANGED forwarded => Sent
    BY Zenon, <1>t, <2>1
  <2>3. Sent
    BY Zenon, <1>21, <2>2 DEF Project, SendHost, Sent
  <2> QED BY Zenon, <1>21, <2>3 DEF Project, ThreadStep
<1>22. CASE SendEvent
  <2>1. "event" \in Middle /\ "event" \in Messages
    BY Zenon DEF Middle, Records, Messages
  <2>2. Sent
    BY Zenon, <1>0, <1>22, <2>1 DEF SendEvent, SendHost, Send, Sent
  <2> QED BY Zenon, <1>22, <2>2 DEF SendEvent, ThreadStep
<1>23. CASE End
  <2>1. PICK m \in Ends : Send(<<m>>)
    BY Zenon, <1>23 DEF End, Ends
  <2>2. m \in Messages
    BY Zenon DEF Ends, Messages
  <2>3. Len(inbox) + 1 <= InboxCapacity /\ inbox' = Append(inbox, m)
    BY Zenon, <1>0, <2>1, <2>2 DEF Send
  <2> QED BY Zenon, <1>23, <2>3 DEF End, ThreadStep
<1> QED BY Zenon, <1>1, <1>2, <1>3, <1>4, <1>5, <1>6, <1>7, <1>8, <1>9, <1>10, <1>11, <1>12, <1>13, <1>14,
   <1>15, <1>16, <1>17, <1>18, <1>19, <1>20, <1>21, <1>22, <1>23 DEF Thread

\* How an event moves on: it stays where it is; it is lost with the pipe or with
\* its line; it is read; it is sent by a fallback or the simulator.
EventMoves ==
  \/ UNCHANGED <<pipe, emitted, forwarded>>
  \/ pipe' = <<>> /\ UNCHANGED <<emitted, forwarded>>
  \/ pipe # <<>> /\ pipe' = Tail(pipe) /\ UNCHANGED <<emitted, forwarded>>
  \/ /\ pipe # <<>> /\ pipe' = Tail(pipe) /\ UNCHANGED emitted
     /\ forwarded' = forwarded + (IF Head(pipe) = "event" THEN 1 ELSE 0)
  \/ emitted < MaxEvents /\ emitted' = emitted + 1 /\ forwarded' = forwarded + 1 /\ UNCHANGED pipe

\* The types of what the capture thread writes.
ThreadTypes ==
  /\ control' \in {"none", "open", "closed"} /\ child' \in BOOLEAN /\ watcher' \in BOOLEAN
  /\ detected' \in BOOLEAN /\ capture_ready' \in BOOLEAN /\ measured' \in BOOLEAN /\ recovered' \in BOOLEAN
  /\ collector' \in Collectors
  /\ sources' \subseteq {"ebpf", "host"}
  /\ EventMoves

(* A step that writes none of it, or only a source, keeps these types. *)
LEMMA NothingWritten ==
  ASSUME TypeInv, UNCHANGED <<handle, notes, process, emitted, forwarded>>,
         sources' \subseteq {"ebpf", "host"}
  PROVE  ThreadTypes
<1>1. UNCHANGED <<control, child, watcher>> /\ UNCHANGED <<detected, capture_ready, measured, recovered>>
  BY Zenon DEF handle, notes
<1>2. UNCHANGED <<collector, pipe, emitted, forwarded>>
  BY Zenon DEF process
<1> QED BY Zenon, <1>1, <1>2 DEF TypeInv, HandleTypes, NoteTypes, ThreadTypes, EventMoves

(* Every step of the capture thread writes values of these types. *)
LEMMA ThreadWrites == TypeInv /\ Thread => ThreadTypes
<1> SUFFICES ASSUME TypeInv, Thread PROVE ThreadTypes
  OBVIOUS
<1> USE DEF history
<1>0. /\ sources \subseteq {"ebpf", "host"}
      /\ SendHost(<<"counters">>) \/ SendHost(<<"hello", "info">>) \/ SendHost(<<"complete", "ready">>)
           => sources' \subseteq {"ebpf", "host"}
  BY Zenon DEF TypeInv, SendHost
<1>1. CASE Preflight
  <2>1. UNCHANGED <<handle, capture_ready, measured, recovered, process, emitted, forwarded, sources>>
    BY Zenon, <1>1 DEF Preflight, Quiet
  <2>2. detected' \in BOOLEAN
    BY Zenon, <1>1 DEF Preflight, TypeInv, NoteTypes
  <2> QED BY Zenon, <2>1, <2>2 DEF handle, process, TypeInv, HandleTypes, NoteTypes, ThreadTypes, EventMoves
<1>2. CASE Deploy
  <2>1. UNCHANGED <<handle, notes, process, emitted, forwarded>> /\ UNCHANGED sources
    BY Zenon, <1>2 DEF Deploy, Quiet
  <2> QED BY Zenon, <1>0, <2>1, NothingWritten
<1>3. CASE Spawn
  BY Zenon, <1>3
     DEF Spawn, handle, notes, process, Quiet, TypeInv, HandleTypes, NoteTypes, ThreadTypes, EventMoves, Collectors
<1>4. CASE StoreChild
  BY Zenon, <1>4 DEF StoreChild, handle, notes, process, Quiet, TypeInv, HandleTypes, NoteTypes, ThreadTypes,
     EventMoves, Collectors
<1>5. CASE CheckStop
  <2>1. UNCHANGED <<child, watcher, notes, process, emitted, forwarded, sources>>
    BY Zenon, <1>5 DEF CheckStop, Quiet
  <2>2. control' \in {"none", "open", "closed"}
    BY Zenon, <1>5 DEF CheckStop, CloseIfStopped, Close, TypeInv, HandleTypes
  <2> QED BY Zenon, <2>1, <2>2 DEF notes, process, TypeInv, HandleTypes, NoteTypes, ThreadTypes, EventMoves
<1>6. CASE ReadLine
  BY Zenon, <1>6 DEF ReadLine, handle, notes, process, Quiet, TypeInv, HandleTypes, NoteTypes, ThreadTypes,
     EventMoves, Collectors
<1>7. CASE RejectLine
  BY Zenon, <1>7 DEF RejectLine, handle, notes, process, Quiet, TypeInv, HandleTypes, NoteTypes, ThreadTypes,
     EventMoves, Collectors
<1>8. CASE ReadEnds
  <2>1. UNCHANGED <<handle, notes, process, emitted, forwarded>> /\ UNCHANGED sources
    BY Zenon, <1>8 DEF ReadEnds, Quiet
  <2> QED BY Zenon, <1>0, <2>1, NothingWritten
<1>9. CASE Wait
  <2>1. UNCHANGED <<child, watcher, notes, process, emitted, forwarded, sources>>
    BY Zenon, <1>9 DEF Wait, Quiet
  <2>2. control' \in {"none", "open", "closed"}
    BY Zenon, <1>9 DEF Wait, Close, TypeInv, HandleTypes
  <2> QED BY Zenon, <2>1, <2>2 DEF notes, process, TypeInv, HandleTypes, NoteTypes, ThreadTypes, EventMoves
<1>10. CASE Cleanup
  <2>1. UNCHANGED <<child, watcher, notes, emitted, forwarded, sources>> /\ pipe' = <<>>
    BY Zenon, <1>10 DEF Cleanup, Quiet
  <2>2. control' \in {"none", "open", "closed"}
    BY Zenon, <1>10 DEF Cleanup, Close, TypeInv, HandleTypes
  <2>3. collector' \in Collectors
    BY Zenon, <1>10 DEF Cleanup, KillCollector, TypeInv, Collectors
  <2> QED BY Zenon, <2>1, <2>2, <2>3 DEF notes, TypeInv, HandleTypes, NoteTypes, ThreadTypes, EventMoves
<1>11. CASE Fallback
  <2>1. UNCHANGED <<handle, notes, process, emitted, forwarded>> /\ UNCHANGED sources
    BY Zenon, <1>11 DEF Fallback, Quiet
  <2> QED BY Zenon, <1>0, <2>1, NothingWritten
<1>12. CASE Choose
  <2>1. UNCHANGED <<handle, notes, process, emitted, forwarded>> /\ UNCHANGED sources
    BY Zenon, <1>12 DEF Choose, Quiet
  <2> QED BY Zenon, <1>0, <2>1, NothingWritten
<1>13. CASE Counters
  <2>1. UNCHANGED <<handle, notes, process, emitted, forwarded>> /\ sources' \subseteq {"ebpf", "host"}
    BY Zenon, <1>0, <1>13 DEF Counters, Quiet, SendHost
  <2> QED BY Zenon, <2>1, NothingWritten
<1>14. CASE Closing
  <2>1. UNCHANGED <<handle, notes, process, emitted, forwarded>> /\ UNCHANGED sources
    BY Zenon, <1>14 DEF Closing
  <2> QED BY Zenon, <1>0, <2>1, NothingWritten
<1>15. CASE Perfetto
  <2>1. UNCHANGED <<handle, detected, capture_ready, measured, process, emitted, forwarded>>
    BY Zenon, <1>15 DEF Perfetto, SendHost, Quiet
  <2>2. recovered' \in BOOLEAN
    BY Zenon, <1>15 DEF Perfetto, TypeInv, NoteTypes
  <2>3. sources' \subseteq {"ebpf", "host"}
    BY Zenon, <1>0, <1>15 DEF Perfetto, Quiet
  <2> QED BY Zenon, <2>1, <2>2, <2>3
      DEF handle, process, TypeInv, HandleTypes, NoteTypes, ThreadTypes, EventMoves
<1>16. CASE Tracing
  <2>1. UNCHANGED <<handle, notes, process, emitted, forwarded>> /\ sources' \subseteq {"ebpf", "host"}
    BY Zenon, <1>0, <1>16 DEF Tracing, Quiet, SendHost
  <2> QED BY Zenon, <2>1, NothingWritten
<1>17. CASE Pull
  <2>1. UNCHANGED <<handle, notes, process, emitted, forwarded>> /\ UNCHANGED sources
    BY Zenon, <1>17 DEF Pull, Quiet
  <2> QED BY Zenon, <1>0, <2>1, NothingWritten
<1>18. CASE Project
  <2>1. UNCHANGED <<handle, notes, process, emitted, forwarded>> /\ sources' \subseteq {"ebpf", "host"}
    BY Zenon, <1>0, <1>18 DEF Project, Quiet, SendHost
  <2> QED BY Zenon, <2>1, NothingWritten
<1>19. CASE SendEvent
  BY Zenon, <1>19 DEF SendEvent, SendHost, handle, notes, process, Quiet, TypeInv, HandleTypes, NoteTypes,
     ThreadTypes, EventMoves, Collectors
<1>20. CASE EventsEnd
  <2>1. UNCHANGED <<handle, notes, process, emitted, forwarded>> /\ UNCHANGED sources
    BY Zenon, <1>20 DEF EventsEnd, Quiet
  <2> QED BY Zenon, <1>0, <2>1, NothingWritten
<1>21. CASE SimulatorStarts
  <2>1. UNCHANGED <<handle, notes, process, emitted, forwarded>> /\ UNCHANGED sources
    BY Zenon, <1>21 DEF SimulatorStarts
  <2> QED BY Zenon, <1>0, <2>1, NothingWritten
<1>22. CASE SimulatorEnds
  <2>1. UNCHANGED <<handle, notes, process, emitted, forwarded>> /\ UNCHANGED sources
    BY Zenon, <1>22 DEF SimulatorEnds
  <2> QED BY Zenon, <1>0, <2>1, NothingWritten
<1>23. CASE End
  <2>1. UNCHANGED <<handle, notes, process, emitted, forwarded>> /\ UNCHANGED sources
    BY Zenon, <1>23 DEF End
  <2> QED BY Zenon, <1>0, <2>1, NothingWritten
<1> QED BY Zenon, <1>1, <1>2, <1>3, <1>4, <1>5, <1>6, <1>7, <1>8, <1>9, <1>10, <1>11, <1>12, <1>13, <1>14, <1>15,
           <1>16, <1>17, <1>18, <1>19, <1>20, <1>21, <1>22, <1>23 DEF Thread

(* Appending to a channel with room, and taking from it, keep its type and bound. *)
LEMMA ChannelTypes ==
  ASSUME NEW S, NEW s \in Seq(S), NEW bound \in Nat, Len(s) <= bound
  PROVE  /\ \A m \in S : Len(s) + 1 <= bound =>
              Append(s, m) \in Seq(S) /\ Len(Append(s, m)) <= bound
         /\ \A m, k \in S : Len(s) + 2 <= bound =>
              Append(Append(s, m), k) \in Seq(S) /\ Len(Append(Append(s, m), k)) <= bound
         /\ s # <<>> => Tail(s) \in Seq(S) /\ Len(Tail(s)) <= bound
         /\ <<>> \in Seq(S) /\ Len(<<>>) <= bound
OBVIOUS

(* However its events move on, the pipe keeps its type and the counts their order. *)
LEMMA MovesKeepCounts ==
  ASSUME TypeInv, EventMoves
  PROVE  /\ pipe' \in Seq(Records) /\ Len(pipe') <= PipeCapacity
         /\ emitted' \in 0 .. MaxEvents /\ forwarded' \in Nat
         /\ forwarded' + Events(pipe)' <= emitted'
<1>0. /\ pipe \in Seq(Records) /\ Len(pipe) <= PipeCapacity /\ PipeCapacity \in Nat
      /\ MaxEvents \in Nat /\ emitted \in 0 .. MaxEvents /\ forwarded \in Nat
      /\ forwarded + Events(pipe) <= emitted
  BY Zenon, ChannelSizes DEF TypeInv, CountTypes
<1>1. pipe' = pipe \/ pipe' = <<>> \/ (pipe # <<>> /\ pipe' = Tail(pipe))
  BY Zenon DEF EventMoves
<1>2. pipe' \in Seq(Records) /\ Len(pipe') <= PipeCapacity
  BY <1>0, <1>1, ChannelTypes
<1>3. Events(pipe) \in Nat /\ Events(pipe') \in Nat
  BY Zenon, <1>0, <1>2, EventsType
<1>4. Events(<<>>) = 0
  BY EventsEmpty
<1>5. pipe # <<>> => Events(pipe) = Events(Tail(pipe)) + (IF Head(pipe) = "event" THEN 1 ELSE 0)
  BY Zenon, <1>0, EventsTail
<1>6. /\ emitted' \in 0 .. MaxEvents /\ forwarded' \in Nat
      /\ forwarded' + Events(pipe') <= emitted'
  <2>1. CASE UNCHANGED <<pipe, emitted, forwarded>>
    BY <1>0, <2>1
  <2>2. CASE pipe' = <<>> /\ UNCHANGED <<emitted, forwarded>>
    BY <1>0, <1>3, <1>4, <2>2
  <2>3. CASE /\ pipe # <<>> /\ pipe' = Tail(pipe) /\ UNCHANGED emitted
             /\ forwarded' \in {forwarded, forwarded + (IF Head(pipe) = "event" THEN 1 ELSE 0)}
    <3>1. Events(pipe) = Events(pipe') + (IF Head(pipe) = "event" THEN 1 ELSE 0)
      BY Zenon, <1>5, <2>3
    <3> QED BY <1>0, <1>3, <2>3, <3>1
  <2>4. CASE emitted < MaxEvents /\ emitted' = emitted + 1 /\ forwarded' = forwarded + 1 /\ UNCHANGED pipe
    BY <1>0, <1>3, <2>4
  <2> QED BY Zenon, <2>1, <2>2, <2>3, <2>4 DEF EventMoves
<1> QED BY Zenon, <1>2, <1>6 DEF Events, EventsAt

(* The capture thread keeps the types. *)
LEMMA ThreadKeepsTypes == TypeInv /\ Thread => TypeInv'
<1> SUFFICES ASSUME TypeInv, Thread PROVE TypeInv'
  OBVIOUS
<1>1. ThreadStep /\ ThreadTypes
  BY Zenon, ThreadSteps, ThreadWrites
<1>2. inbox \in Seq(Messages) /\ Len(inbox) <= InboxCapacity /\ InboxCapacity \in Nat
  BY Zenon, ChannelSizes DEF TypeInv, InboxTypes
<1>3. Middle \subseteq Messages /\ Ends \subseteq Messages
  BY Zenon DEF Middle, Ends, Messages
<1>4. inbox' \in Seq(Messages) /\ Len(inbox') <= InboxCapacity
  <2>1. \/ inbox' = inbox
        \/ \E m \in Messages : Len(inbox) + 1 <= InboxCapacity /\ inbox' = Append(inbox, m)
        \/ \E m, k \in Messages : Len(inbox) + 2 <= InboxCapacity /\ inbox' = Append(Append(inbox, m), k)
    BY Zenon, <1>1, <1>3 DEF ThreadStep, Sent
  <2> QED BY Zenon, <1>2, <2>1, ChannelTypes
<1>5. /\ pipe' \in Seq(Records) /\ Len(pipe') <= PipeCapacity
      /\ emitted' \in 0 .. MaxEvents /\ forwarded' \in Nat
      /\ forwarded' + Events(pipe)' <= emitted'
  BY Zenon, <1>1, MovesKeepCounts DEF ThreadTypes
<1>6. WriterTypes' /\ WindowTypes'
  BY Zenon, <1>1 DEF ThreadStep, TypeInv, WriterTypes, WindowTypes, writer, window
<1>7. HandleTypes' /\ NoteTypes'
  BY Zenon, <1>1 DEF ThreadStep, ThreadTypes, TypeInv, HandleTypes, NoteTypes
<1>8. early' \in BOOLEAN /\ pc' \in Steps /\ wrote' \in 0 .. Len(Preamble)
  BY Zenon, <1>1 DEF ThreadStep, TypeInv
<1> QED BY Zenon, <1>1, <1>4, <1>5, <1>6, <1>7, <1>8 DEF ThreadTypes, TypeInv, InboxTypes, CountTypes

(* A group of variables that does not change keeps its types. *)
LEMMA SameTypes ==
  /\ WriterTypes /\ UNCHANGED writer => WriterTypes'
  /\ WindowTypes /\ UNCHANGED window => WindowTypes'
  /\ HandleTypes /\ UNCHANGED handle => HandleTypes'
  /\ NoteTypes /\ UNCHANGED notes => NoteTypes'
  /\ InboxTypes /\ UNCHANGED inbox => InboxTypes'
  /\ CountTypes /\ UNCHANGED <<pipe, emitted, forwarded>> => CountTypes'
<1>1. WriterTypes /\ UNCHANGED writer => WriterTypes'
  BY Zenon DEF WriterTypes, writer
<1>2. WindowTypes /\ UNCHANGED window => WindowTypes'
  BY Zenon DEF WindowTypes, window
<1>3. HandleTypes /\ UNCHANGED handle => HandleTypes'
  BY Zenon DEF HandleTypes, handle
<1>4. NoteTypes /\ UNCHANGED notes => NoteTypes'
  BY Zenon DEF NoteTypes, notes
<1>5. InboxTypes /\ UNCHANGED inbox => InboxTypes'
  BY Zenon DEF InboxTypes
<1>6. CountTypes /\ UNCHANGED <<pipe, emitted, forwarded>> => CountTypes'
  BY Zenon DEF CountTypes, Events, EventsAt
<1> QED BY Zenon, <1>1, <1>2, <1>3, <1>4, <1>5, <1>6

(* The collector keeps the types. *)
LEMMA CollectorKeepsTypes == TypeInv /\ Collector => TypeInv'
<1> SUFFICES ASSUME TypeInv, Collector PROVE TypeInv'
  OBVIOUS
<1>0. /\ pipe \in Seq(Records) /\ Len(pipe) <= PipeCapacity /\ PipeCapacity \in Nat
      /\ MaxEvents \in Nat /\ emitted \in 0 .. MaxEvents /\ forwarded \in Nat
      /\ forwarded + Events(pipe) <= emitted /\ Events(pipe) \in Nat
      /\ wrote \in 0 .. 3 /\ Len(Preamble) = 3
  <2>1. Len(Preamble) = 3
    BY DEF Preamble
  <2>2. pipe \in Seq(Records) /\ wrote \in 0 .. Len(Preamble)
    BY Zenon DEF TypeInv, CountTypes
  <2> QED BY Zenon, <2>1, <2>2, ChannelSizes, EventsType DEF TypeInv, CountTypes
<1>1. ASSUME NEW m \in Records, Write(m)
      PROVE  /\ pipe' \in Seq(Records) /\ Len(pipe') <= PipeCapacity
             /\ Events(pipe') = Events(pipe) + (IF m = "event" THEN 1 ELSE 0)
  <2>1. pipe' = Append(pipe, m) /\ Len(pipe) < PipeCapacity
    BY Zenon, <1>1 DEF Write
  <2>2. pipe' \in Seq(Records) /\ Len(pipe') <= PipeCapacity
    BY <1>0, <2>1
  <2>3. Events(pipe') = Events(pipe) + (IF m = "event" THEN 1 ELSE 0)
    BY Zenon, <1>0, <2>1, EventsAppend
  <2> QED BY Zenon, <2>2, <2>3
<1>2. /\ UNCHANGED <<window, writer, early, inbox, handle, pc, notes, forwarded, sources>>
      /\ collector' \in Collectors
  BY Zenon DEF Collector, WritePreamble, WriteEvent, Finish, Fail, Write, Quiet, elsewhere, history,
               Collectors, TypeInv
<1>3. wrote' \in 0 .. Len(Preamble)
  <2>1. wrote' = wrote \/ (wrote < Len(Preamble) /\ wrote' = wrote + 1)
    BY Zenon DEF Collector, WritePreamble, WriteEvent, Finish, Fail
  <2> QED BY <1>0, <2>1
<1>4. CountTypes'
  <2>1. CASE WritePreamble \/ Finish
    <3>1. \E m \in Records \ {"event"} : Write(m)
      <4>1. wrote < 3 => Preamble[wrote + 1] \in Records /\ Preamble[wrote + 1] # "event"
        BY <1>0 DEF Preamble, Records
      <4>2. "footer" \in Records /\ "footer" # "event"
        BY Zenon DEF Records
      <4> QED BY Zenon, <1>0, <2>1, <4>1, <4>2 DEF WritePreamble, Finish
    <3>2. /\ pipe' \in Seq(Records) /\ Len(pipe') <= PipeCapacity
          /\ Events(pipe') = Events(pipe) + 0
      BY Zenon, <1>1, <3>1
    <3>3. forwarded' = forwarded /\ emitted' = emitted
      BY Zenon, <1>2, <2>1 DEF WritePreamble, Finish
    <3>4. forwarded' + Events(pipe') <= emitted' /\ emitted' \in 0 .. MaxEvents /\ forwarded' \in Nat
      BY <1>0, <3>2, <3>3
    <3> QED BY Zenon, <3>2, <3>4 DEF CountTypes, Events, EventsAt
  <2>2. CASE WriteEvent
    <3>1. Write("event") /\ "event" \in Records
      BY Zenon, <2>2 DEF WriteEvent, Records
    <3>2. /\ pipe' \in Seq(Records) /\ Len(pipe') <= PipeCapacity
          /\ Events(pipe') = Events(pipe) + 1
      BY Zenon, <1>1, <3>1
    <3>3. forwarded' = forwarded /\ emitted < MaxEvents /\ emitted' = emitted + 1
      BY Zenon, <1>2, <2>2 DEF WriteEvent
    <3>4. forwarded' + Events(pipe') <= emitted' /\ emitted' \in 0 .. MaxEvents /\ forwarded' \in Nat
      BY <1>0, <3>2, <3>3
    <3> QED BY Zenon, <3>2, <3>4 DEF CountTypes, Events, EventsAt
  <2>3. CASE Fail
    BY Zenon, <2>3, SameTypes DEF Fail, Quiet, history, TypeInv
  <2> QED BY Zenon, <2>1, <2>2, <2>3 DEF Collector
<1> QED BY Zenon, <1>2, <1>3, <1>4, SameTypes DEF TypeInv

(* The threads that may kill the collector keep the types. *)
LEMMA KillersKeepTypes == TypeInv /\ (Killer \/ Watcher) => TypeInv'
<1> SUFFICES ASSUME TypeInv, Killer \/ Watcher PROVE TypeInv'
  OBVIOUS
<1>1. collector' \in Collectors
  BY Zenon DEF Killer, Watcher, WatcherKills, KillCollector, Collectors, TypeInv
<1>2. HandleTypes'
  BY Zenon DEF Killer, Watcher, TypeInv, HandleTypes
<1>3. UNCHANGED <<window, writer, early, inbox, pc, notes, wrote, pipe, emitted, forwarded, sources>>
  BY Zenon DEF Killer, Watcher, Quiet, elsewhere, history
<1> QED BY Zenon, <1>1, <1>2, <1>3, SameTypes DEF TypeInv

(* Starting and stopping keep the types. *)
LEMMA UserKeepsTypes ==
  TypeInv /\ (StartDevice \/ StartSimulator \/ StartFails \/ Stop) => TypeInv'
<1> SUFFICES ASSUME TypeInv, StartDevice \/ StartSimulator \/ StartFails \/ Stop PROVE TypeInv'
  OBVIOUS
<1>n. 0 \in Nat
  OBVIOUS
<1>0. Backlog \in Nat /\ PipeCapacity \in Nat /\ MaxEvents \in Nat /\ MaxSessions \in Nat
  BY Zenon, BacklogSize, ChannelSizes
<1>1. CASE StartDevice \/ StartSimulator
  <2>1. WriterTypes'
    <3>1. /\ worker' = "open" /\ backlog' = <<>> /\ persisted' = 0 /\ footer' = None
          /\ finisher' = "idle" /\ call' = None
      BY Zenon, <1>1 DEF StartDevice, StartSimulator, Create
    <3> QED BY <1>0, <3>1 DEF WriterTypes
  <2>2. sessions' \in 0 .. MaxSessions
    <3>1. sessions' = sessions + 1 /\ sessions < MaxSessions /\ sessions \in 0 .. MaxSessions
      BY Zenon, <1>1 DEF StartDevice, StartSimulator, TypeInv, WindowTypes
    <3> QED BY <1>0, <3>1
  <2>3. /\ pc' \in Steps /\ capture' \in {"none", "device", "simulator"} /\ phase' \in Phases
        /\ UNCHANGED inbox
    BY Zenon, <1>1 DEF StartDevice, StartSimulator, Reset, Steps, Phases
  <2>4. /\ received' = 0 /\ rejected' = 0 /\ error' = FALSE /\ agent_graceful' = FALSE
        /\ stop' = FALSE /\ control' = "none" /\ child' = FALSE /\ killer' = FALSE /\ watcher' = FALSE
        /\ detected' = FALSE /\ capture_ready' = FALSE /\ measured' = FALSE /\ recovered' = FALSE
        /\ collector' = "none" /\ wrote' = 0 /\ pipe' = <<>>
        /\ emitted' = 0 /\ forwarded' = 0 /\ sources' = {} /\ early' = FALSE
    BY Zenon, <1>1 DEF StartDevice, StartSimulator, Reset
  <2>5. WindowTypes'
    BY Zenon, <2>2, <2>3, <2>4, <1>n DEF WindowTypes
  <2>6. HandleTypes' /\ NoteTypes'
    BY Zenon, <2>4 DEF HandleTypes, NoteTypes
  <2>7. CountTypes'
    <3>1. Events(pipe') = 0
      BY Zenon, <2>4, EventsEmpty
    <3>2. /\ pipe' \in Seq(Records) /\ Len(pipe') <= PipeCapacity /\ emitted' \in 0 .. MaxEvents
          /\ forwarded' \in Nat /\ forwarded' + Events(pipe') <= emitted'
      BY <1>0, <2>4, <3>1
    <3> QED BY Zenon, <3>2 DEF CountTypes, Events, EventsAt
  <2>8. /\ early' \in BOOLEAN /\ collector' \in Collectors /\ sources' \subseteq {"ebpf", "host"}
        /\ wrote' \in 0 .. Len(Preamble)
    <3>1. 0 \in 0 .. Len(Preamble)
      BY DEF Preamble
    <3> QED BY Zenon, <2>4, <3>1 DEF Collectors
  <2> QED BY Zenon, <2>1, <2>3, <2>5, <2>6, <2>7, <2>8, SameTypes DEF TypeInv
<1>2. CASE StartFails \/ Stop
  <2>1. WindowTypes'
    BY Zenon, <1>2 DEF StartFails, Stop, Phases, WindowTypes, TypeInv
  <2>2. HandleTypes' /\ early' \in BOOLEAN
    BY Zenon, <1>2 DEF StartFails, Stop, StopCapture, Close, handle, HandleTypes, TypeInv
  <2>3. UNCHANGED <<writer, inbox, pc, notes, collector, wrote, pipe, emitted, forwarded, sources>>
    BY Zenon, <1>2 DEF StartFails, Stop, process, history
  <2> QED BY Zenon, <2>1, <2>2, <2>3, SameTypes DEF TypeInv
<1> QED BY Zenon, <1>1, <1>2

(* A message that the window handles is taken from a channel that keeps its types. *)
LEMMA TakenKeepsInbox == InboxTypes /\ inbox # <<>> /\ inbox' = Tail(inbox) => InboxTypes'
<1>1. InboxCapacity \in Nat
  BY Zenon, ChannelSizes
<1> QED BY <1>1 DEF InboxTypes

(* The window keeps the types. *)
LEMMA ReceiveKeepsTypes == TypeInv /\ Receive => TypeInv'
<1> SUFFICES ASSUME TypeInv, Receive PROVE TypeInv'
  OBVIOUS
<1>0. Backlog \in Nat
  BY Zenon, BacklogSize
<1>1. InboxTypes'
  BY Zenon, TakenKeepsInbox DEF Receive, Ingest, AnalysisStarted, Ended, Finalized, TypeInv
<1>2. UNCHANGED <<pc, notes, collector, wrote, pipe, emitted, forwarded, sources>>
  BY Zenon DEF Receive, Ingest, AnalysisStarted, Ended, Finalized, process, history
<1>3. HandleTypes' /\ early' \in BOOLEAN
  <2>1. UNCHANGED <<handle, early>> \/ StopCapture
    BY Zenon DEF Receive, Ingest, AnalysisStarted, Ended, Finalized
  <2>2. CASE UNCHANGED <<handle, early>>
    BY Zenon, <2>2, SameTypes DEF TypeInv
  <2>3. CASE StopCapture
    BY Zenon, <2>3 DEF StopCapture, Close, HandleTypes, TypeInv
  <2> QED BY Zenon, <2>1, <2>2, <2>3
<1>4. WindowTypes'
  <2>1. received' \in Nat /\ rejected' \in Nat
    <3>1. /\ received \in Nat /\ rejected \in Nat
          /\ received' = received \/ received' = received + (IF Head(inbox) = "event" THEN 1 ELSE 0)
          /\ rejected' = rejected \/ \E refused \in BOOLEAN : rejected' = rejected + (IF refused THEN 1 ELSE 0)
      BY Zenon DEF Receive, Ingest, AnalysisStarted, Ended, Finalized, TypeInv, WindowTypes
    <3> QED BY <3>1
  <2>2. phase' \in Phases
    BY Zenon DEF Receive, Ingest, AnalysisStarted, Ended, Finalized, Shown, Phases, TypeInv, WindowTypes
  <2>3. error' \in BOOLEAN /\ agent_graceful' \in BOOLEAN
    BY Zenon DEF Receive, Ingest, AnalysisStarted, Ended, Finalized, ErrorAfter, TypeInv, WindowTypes
  <2>4. capture' \in {"none", "device", "simulator"} /\ UNCHANGED sessions
    BY Zenon DEF Receive, Ingest, AnalysisStarted, Ended, Finalized, TypeInv, WindowTypes
  <2> QED BY Zenon, <2>1, <2>2, <2>3, <2>4 DEF WindowTypes, TypeInv
<1>5. WriterTypes'
  <2>1. CASE Ingest
    <3>1. UNCHANGED writer \/ AppendRecord(Head(inbox))
      BY Zenon, <2>1 DEF Ingest
    <3>2. CASE AppendRecord(Head(inbox))
      <4>1. /\ \/ backlog' = backlog
               \/ \E m \in {"event", "other"} : backlog' = Append(backlog, m) /\ Len(backlog) < Backlog
            /\ UNCHANGED <<worker, persisted, footer, finisher, call>>
        BY Zenon, <3>2 DEF AppendRecord, Appends
      <4>2. backlog \in Seq({"event", "other", "finish"}) /\ Len(backlog) <= Backlog
        BY Zenon DEF TypeInv, WriterTypes
      <4>3. backlog' \in Seq({"event", "other", "finish"}) /\ Len(backlog') <= Backlog
        BY <1>0, <4>1, <4>2
      <4> QED BY Zenon, <4>1, <4>3 DEF TypeInv, WriterTypes
    <3> QED BY Zenon, <3>1, <3>2, SameTypes DEF TypeInv
  <2>2. CASE Ended
    <3>1. /\ finisher' = "send" /\ UNCHANGED <<worker, backlog, persisted, footer>>
          /\ call' = [seen |-> received, rejected |-> rejected, graceful |-> agent_graceful /\ ~error']
      BY Zenon, <2>2 DEF Ended, CallFinish
    <3>2. call' \in Call
      <4>1. received \in Nat /\ rejected \in Nat /\ (agent_graceful /\ ~error') \in BOOLEAN
        BY Zenon DEF TypeInv, WindowTypes
      <4> HIDE DEF TypeInv
      <4> QED BY Zenon, <3>1, <4>1 DEF Call
    <3> QED BY Zenon, <3>1, <3>2 DEF TypeInv, WriterTypes
  <2> QED BY Zenon, <2>1, <2>2, SameTypes DEF Receive, AnalysisStarted, Finalized, TypeInv
<1> QED BY Zenon, <1>1, <1>2, <1>3, <1>4, <1>5, SameTypes DEF TypeInv

(* The session file keeps the types: a Footer is written after finish was called. *)
LEMMA FileKeepsTypes == TypeInv /\ FileInv /\ File => TypeInv'
<1> SUFFICES ASSUME TypeInv, FileInv, File PROVE TypeInv'
  OBVIOUS
<1>0. Backlog \in Nat /\ InboxCapacity \in Nat
  BY Zenon, BacklogSize, ChannelSizes
<1>1. UNCHANGED <<window, early, handle, pc, notes, collector, wrote, pipe, emitted, forwarded, sources>>
  BY Zenon DEF File, Persist, FinishFile, Report, outside, process, history
<1>2. InboxTypes'
  <2>1. UNCHANGED inbox \/ \E m \in Finals : Send(<<m>>)
    BY Zenon DEF File, Persist, FinishFile, Report, Finals
  <2>2. ASSUME NEW m \in Finals, Send(<<m>>) PROVE InboxTypes'
    BY <1>0, <2>2 DEF TypeInv, InboxTypes, Send, Finals, Messages
  <2> QED BY Zenon, <2>1, <2>2, SameTypes DEF TypeInv
<1>3. WriterTypes'
  <2>0. /\ backlog \in Seq({"event", "other", "finish"}) /\ Len(backlog) <= Backlog /\ persisted \in Nat
        /\ worker \in {"none", "open", "closed", "failed"} /\ footer \in Footer \cup {None}
        /\ finisher \in {"idle", "send", "join", "ok", "failed"} /\ call \in Call \cup {None}
    BY Zenon DEF TypeInv, WriterTypes
  <2>1. CASE PersistRecord
    <3>1. /\ backlog # <<>> /\ (backlog' = Tail(backlog) \/ backlog' = <<>>)
          /\ persisted' = persisted \/ persisted' = persisted + (IF Head(backlog) = "event" THEN 1 ELSE 0)
          /\ worker' = worker \/ worker' = "failed"
          /\ UNCHANGED <<footer, finisher, call>>
      BY Zenon, <2>1 DEF PersistRecord
    <3>2. backlog' \in Seq({"event", "other", "finish"}) /\ Len(backlog') <= Backlog
      BY Zenon, <1>0, <2>0, <3>1, ChannelTypes
    <3>3. persisted' \in Nat
      BY <2>0, <3>1
    <3> QED BY Zenon, <2>0, <3>1, <3>2, <3>3 DEF WriterTypes
  <2>2. CASE PersistFinish
    <3>1. /\ backlog' = <<>> /\ worker' \in {"closed", "failed"} /\ UNCHANGED <<persisted, finisher, call>>
          /\ footer' = FooterOf \/ footer' = footer
      BY Zenon, <2>2 DEF PersistFinish
    <3>2. call \in Call
      <4>1. 1 \in 1 .. Len(backlog) /\ backlog[1] = "finish"
        BY <2>0, <2>2 DEF PersistFinish
      <4> QED BY Zenon, <2>0, <4>1 DEF FileInv
    <3>3. FooterOf \in Footer
      <4>1. call.seen \in Nat /\ call.rejected \in Nat /\ call.graceful \in BOOLEAN
        BY Zenon, <3>2 DEF Call
      <4>2. SaturatingSub(call.seen, persisted + call.rejected) \in Nat
        BY <2>0, <4>1 DEF SaturatingSub
      <4> QED BY Zenon, <2>0, <4>1, <4>2 DEF FooterOf, Footer
    <3>4. backlog' \in Seq({"event", "other", "finish"}) /\ Len(backlog') <= Backlog
      BY <1>0, <3>1
    <3> QED BY Zenon, <2>0, <3>1, <3>3, <3>4 DEF WriterTypes
  <2>3. CASE FinishSend
    <3>1. /\ backlog' = backlog \/ (backlog' = Append(backlog, "finish") /\ Len(backlog) < Backlog)
          /\ finisher' \in {"failed", "join"} /\ UNCHANGED <<worker, persisted, footer, call>>
      BY Zenon, <2>3 DEF FinishSend
    <3>2. backlog' \in Seq({"event", "other", "finish"}) /\ Len(backlog') <= Backlog
      BY <1>0, <2>0, <3>1
    <3> QED BY Zenon, <2>0, <3>1, <3>2 DEF WriterTypes
  <2>4. CASE FinishJoin
    BY Zenon, <2>4 DEF FinishJoin, TypeInv, WriterTypes
  <2>5. CASE Report
    BY Zenon, <2>5 DEF Report, TypeInv, WriterTypes
  <2> QED BY Zenon, <2>1, <2>2, <2>3, <2>4, <2>5 DEF File, Persist, FinishFile
<1> QED BY Zenon, <1>1, <1>2, <1>3, SameTypes DEF TypeInv

-----------------------------------------------------------------------------
(* Where a session is *)

(* What the commands that reach the worker and the end of finish leave of FileInv. *)
LEMMA FileKeepsFileInv == TypeInv /\ FileInv /\ File => FileInv'
<1> SUFFICES ASSUME TypeInv, FileInv, File PROVE FileInv'
  OBVIOUS
<1>0. backlog \in Seq({"event", "other", "finish"}) /\ Len(backlog) \in Nat
  <2>1. backlog \in Seq({"event", "other", "finish"})
    BY Zenon DEF TypeInv, WriterTypes
  <2> QED BY <2>1
<1>1. CASE PersistRecord
  <2>1. /\ worker = "open" /\ backlog # <<>> /\ Head(backlog) # "finish"
        /\ \/ backlog' = Tail(backlog) /\ worker' = worker
           \/ worker' = "failed" /\ backlog' = <<>>
        /\ UNCHANGED <<footer, finisher, call>>
    BY Zenon, <1>1 DEF PersistRecord
  <2>2. CASE backlog' = Tail(backlog) /\ worker' = worker
    <3>1. /\ Len(backlog') = Len(backlog) - 1 /\ Len(backlog) >= 1 /\ backlog[1] # "finish"
          /\ \A i \in 1 .. Len(backlog') : backlog'[i] = backlog[i + 1]
          /\ Len(backlog) # 1 => backlog' # <<>>
      <4>1. /\ Len(Tail(backlog)) = Len(backlog) - 1 /\ Len(backlog) \in Nat \ {0}
            /\ \A i \in 1 .. Len(Tail(backlog)) : Tail(backlog)[i] = backlog[i + 1]
            /\ Head(backlog) = backlog[1]
        BY <1>0, <2>1, HeadTailProperties
      <4>2. Len(backlog) # 1 => Tail(backlog) # <<>>
        BY <4>1
      <4> QED BY <2>1, <2>2, <4>1, <4>2
    <3>2. \A i \in 1 .. Len(backlog') : backlog'[i] = "finish" => i = Len(backlog') /\ finisher' = "join"
      <4> SUFFICES ASSUME NEW i \in 1 .. Len(backlog'), backlog'[i] = "finish"
                   PROVE  i = Len(backlog') /\ finisher = "join"
        BY Zenon, <2>1
      <4>1. i + 1 \in 1 .. Len(backlog) /\ backlog[i + 1] = "finish"
        BY <1>0, <3>1
      <4>2. i + 1 = Len(backlog) /\ finisher = "join"
        BY Zenon, <4>1 DEF FileInv
      <4> QED BY <1>0, <3>1, <4>2
    <3>3. finisher' = "join" /\ worker' = "open" => backlog' # <<>> /\ backlog'[Len(backlog')] = "finish"
      <4> SUFFICES ASSUME finisher = "join" PROVE backlog' # <<>> /\ backlog'[Len(backlog')] = "finish"
        BY Zenon, <2>1
      <4>1. backlog[Len(backlog)] = "finish"
        BY Zenon, <2>1 DEF FileInv
      <4> QED BY <1>0, <3>1, <4>1
    <3> QED BY Zenon, <2>1, <2>2, <3>2, <3>3 DEF FileInv
  <2>3. CASE worker' = "failed" /\ backlog' = <<>>
    <3>1. \A i \in 1 .. Len(backlog') : FALSE
      BY <2>3
    <3> QED BY Zenon, <2>1, <2>3, <3>1 DEF FileInv
  <2> QED BY Zenon, <2>1, <2>2, <2>3
<1>2. CASE PersistFinish
  <2>1. /\ worker' \in {"closed", "failed"} /\ worker' # "open" /\ backlog' = <<>>
        /\ UNCHANGED <<finisher, call>>
    BY Zenon, <1>2 DEF PersistFinish
  <2>2. \A i \in 1 .. Len(backlog') : FALSE
    BY <2>1
  <2> QED BY Zenon, <2>1, <2>2 DEF FileInv
<1>3. CASE FinishSend
  <2>1. /\ finisher = "send" /\ UNCHANGED <<worker, call>>
        /\ \/ worker = "failed" /\ finisher' = "failed" /\ backlog' = backlog
           \/ worker = "open" /\ backlog' = Append(backlog, "finish") /\ finisher' = "join"
    BY Zenon, <1>3 DEF FinishSend
  <2>2. \A i \in 1 .. Len(backlog) : backlog[i] # "finish"
    BY Zenon, <2>1 DEF FileInv
  <2>3. CASE worker = "failed" /\ finisher' = "failed" /\ backlog' = backlog
    BY Zenon, <2>1, <2>2, <2>3 DEF FileInv
  <2>4. CASE worker = "open" /\ backlog' = Append(backlog, "finish") /\ finisher' = "join"
    <3>1. /\ Len(backlog') = Len(backlog) + 1 /\ backlog' # <<>> /\ backlog'[Len(backlog')] = "finish"
          /\ \A i \in 1 .. Len(backlog') : i = Len(backlog') \/ backlog'[i] # "finish"
      BY <1>0, <2>2, <2>4
    <3> QED BY Zenon, <2>1, <2>4, <3>1 DEF FileInv
  <2> QED BY Zenon, <2>1, <2>3, <2>4
<1>4. CASE FinishJoin
  <2>1. /\ worker # "open" /\ finisher' \in {"ok", "failed"} /\ finisher = "join"
        /\ UNCHANGED <<worker, backlog, call>>
    BY Zenon, <1>4 DEF FinishJoin
  <2>2. \A i \in 1 .. Len(backlog) : FALSE
    BY <2>1 DEF FileInv
  <2> QED BY Zenon, <2>1, <2>2 DEF FileInv
<1>5. CASE Report
  <2>1. finisher \in {"ok", "failed"} /\ finisher' = "idle" /\ UNCHANGED <<worker, backlog, call>>
    BY Zenon, <1>5 DEF Report
  <2> QED BY Zenon, <2>1 DEF FileInv
<1> QED BY Zenon, <1>1, <1>2, <1>3, <1>4, <1>5 DEF File, Persist, FinishFile

(* An empty file, or one that is just created, satisfies FileInv. *)
LEMMA NewFile ==
  ASSUME backlog = <<>>, finisher = "idle" PROVE FileInv
<1>1. \A i \in 1 .. Len(backlog) : FALSE
  OBVIOUS
<1> QED BY Zenon, <1>1 DEF FileInv

(* The window appends to the file only before finish is called. *)
LEMMA ReceiveKeepsFileInv == TypeInv /\ FileInv /\ SessionInv /\ Receive => FileInv'
<1> SUFFICES ASSUME TypeInv, FileInv, SessionInv, Receive PROVE FileInv'
  OBVIOUS
<1>0. backlog \in Seq({"event", "other", "finish"}) /\ Len(backlog) \in Nat
  <2>1. backlog \in Seq({"event", "other", "finish"})
    BY Zenon DEF TypeInv, WriterTypes
  <2> QED BY <2>1
<1>r. inbox \in Seq(Messages)
  BY Zenon DEF TypeInv, InboxTypes
<1>1. CASE UNCHANGED writer
  BY Zenon, <1>1 DEF FileInv, writer
<1>2. CASE Ingest /\ AppendRecord(Head(inbox))
  <2>1. finisher = "idle"
    <3>1. inbox # <<>> /\ Head(inbox) \in Records
      BY Zenon, <1>2 DEF Ingest
    <3>2. inbox[1] \notin Finals
      BY <1>r, <3>1 DEF Records, Finals
    <3> QED BY Zenon, <3>1, <3>2 DEF SessionInv
  <2>2. /\ \/ backlog' = backlog
           \/ worker = "open" /\ \E m \in {"event", "other"} : backlog' = Append(backlog, m)
        /\ UNCHANGED <<worker, finisher, call>>
    BY Zenon, <1>2 DEF AppendRecord, Appends
  <2>3. \A i \in 1 .. Len(backlog) : backlog[i] # "finish"
    BY Zenon, <2>1 DEF FileInv
  <2>4. \A i \in 1 .. Len(backlog') : backlog'[i] # "finish"
    BY <1>0, <2>2, <2>3
  <2> QED BY Zenon, <2>1, <2>2, <2>4 DEF FileInv
<1>3. CASE Ended
  <2>1. /\ inbox # <<>> /\ Head(inbox) \in Ends /\ error' \in BOOLEAN
        /\ finisher' = "send" /\ UNCHANGED <<worker, backlog>>
        /\ call' = [seen |-> received, rejected |-> rejected, graceful |-> agent_graceful /\ ~error']
    BY Zenon, <1>3 DEF Ended, CallFinish, Ends, TypeInv, WindowTypes
  <2>2. finisher = "idle"
    <3>1. inbox[1] \notin Finals
      BY <1>r, <2>1 DEF Ends, Finals
    <3> QED BY Zenon, <2>1, <3>1 DEF SessionInv
  <2>3. call' \in Call
    <3>1. received \in Nat /\ rejected \in Nat /\ (agent_graceful /\ ~error') \in BOOLEAN
      BY Zenon, <2>1 DEF TypeInv, WindowTypes
    <3> QED BY Zenon, <2>1, <3>1 DEF Call
  <2>4. \A i \in 1 .. Len(backlog) : backlog[i] # "finish"
    BY Zenon, <2>2 DEF FileInv
  <2> QED BY Zenon, <2>1, <2>3, <2>4 DEF FileInv
<1> QED BY Zenon, <1>1, <1>2, <1>3 DEF Receive, Ingest, AnalysisStarted, Finalized

(* The capture thread sends its last message when it returns. *)
LEMMA ThreadKeepsSession == TypeInv /\ SessionInv /\ Thread => SessionInv'
<1> SUFFICES ASSUME TypeInv, SessionInv, Thread PROVE SessionInv'
  OBVIOUS
<1>0. ThreadStep
  BY Zenon, ThreadSteps
<1>1. inbox \in Seq(Messages) /\ Len(inbox) \in Nat
  <2>1. inbox \in Seq(Messages)
    BY Zenon DEF TypeInv, InboxTypes
  <2> QED BY <2>1
<1>2. /\ pc \notin {"none", "gone"} /\ pc' # "none"
      /\ UNCHANGED <<capture, finisher, footer, worker>>
  BY Zenon, <1>0 DEF ThreadStep, window, writer
<1>3. capture # "none" /\ \A i \in 1 .. Len(inbox) : inbox[i] \in Middle
  BY Zenon, <1>2 DEF SessionInv
<1>4. Middle \subseteq Messages /\ Ends \subseteq Messages
  BY Zenon DEF Middle, Ends, Messages
<1>5. CASE pc' # "gone"
  <2>1. \/ inbox' = inbox
        \/ \E m \in Middle : inbox' = Append(inbox, m)
        \/ \E m, k \in Middle : inbox' = Append(Append(inbox, m), k)
    BY Zenon, <1>0, <1>5 DEF ThreadStep, Sent
  <2>2. ASSUME NEW s \in Seq(Messages), NEW m \in Middle, \A i \in 1 .. Len(s) : s[i] \in Middle
        PROVE  /\ Append(s, m) \in Seq(Messages)
               /\ \A i \in 1 .. Len(Append(s, m)) : Append(s, m)[i] \in Middle
    BY <1>4, <2>2
  <2>3. \A i \in 1 .. Len(inbox') : inbox'[i] \in Middle
    BY Zenon, <1>1, <1>3, <2>1, <2>2
  <2> QED BY Zenon, <1>2, <1>3, <1>5, <2>3 DEF SessionInv
<1>6. CASE pc' = "gone"
  <2>1. PICK m \in Ends : inbox' = Append(inbox, m)
    BY Zenon, <1>0, <1>6 DEF ThreadStep
  <2>2. /\ inbox' # <<>> /\ inbox'[Len(inbox')] = m
        /\ \A i \in 1 .. Len(inbox') - 1 : inbox'[i] \in Middle
    BY <1>1, <1>3, <1>4, <2>1
  <2> QED BY Zenon, <1>2, <1>3, <1>6, <2>2 DEF SessionInv
<1> QED BY Zenon, <1>5, <1>6

(* The end of the file is reported alone, and to a window that waits for it. *)
LEMMA FinalizedIsLast ==
  ASSUME TypeInv, SessionInv, Finalized
  PROVE  capture = "none" /\ finisher = "idle" /\ worker # "open" /\ Len(inbox) = 1 /\ phase = "analyzing"
<1>1. inbox # <<>> /\ Head(inbox) \in Finals /\ inbox \in Seq(Messages)
  BY Zenon DEF Finalized, Finals, TypeInv, InboxTypes
<1>2. inbox[1] \notin Ends /\ inbox[1] \notin Middle /\ 1 \in 1 .. Len(inbox) /\ Len(inbox) \in Nat
  BY <1>1 DEF Finals, Ends, Middle, Records
<1>3. capture = "none"
  <2>1. pc = "gone" /\ capture # "none" => Len(inbox) = 1 /\ inbox[Len(inbox)] \in Ends
    <3> SUFFICES ASSUME pc = "gone", capture # "none" PROVE Len(inbox) = 1 /\ inbox[Len(inbox)] \in Ends
      OBVIOUS
    <3>1. inbox[Len(inbox)] \in Ends /\ \A i \in 1 .. Len(inbox) - 1 : inbox[i] \in Middle
      BY Zenon DEF SessionInv
    <3> QED BY <1>2, <3>1
  <2> QED BY Zenon, <1>2, <2>1 DEF SessionInv
<1> QED BY Zenon, <1>1, <1>3 DEF SessionInv

(* The window handles the end of the thread last, and the end of the file alone. *)
LEMMA ReceiveKeepsSession == TypeInv /\ SessionInv /\ Receive => SessionInv'
<1> SUFFICES ASSUME TypeInv, SessionInv, Receive PROVE SessionInv'
  OBVIOUS
<1>0. inbox \in Seq(Messages)
  BY Zenon DEF TypeInv, InboxTypes
<1>1. inbox # <<>> /\ inbox' = Tail(inbox) /\ Head(inbox) \in Middle \cup Ends \cup Finals
  BY Zenon DEF Receive, Ingest, AnalysisStarted, Ended, Finalized, Middle, Ends, Finals
<1>2. /\ Len(inbox) \in Nat \ {0} /\ Len(inbox') = Len(inbox) - 1 /\ Head(inbox) = inbox[1]
      /\ \A i \in 1 .. Len(inbox') : inbox'[i] = inbox[i + 1]
  BY <1>0, <1>1, HeadTailProperties
<1>3. Len(inbox) = 1 => inbox' = <<>>
  <2>1. inbox' \in Seq(Messages)
    BY <1>0, <1>1
  <2> QED BY <1>2, <2>1
<1>4. UNCHANGED pc
  BY Zenon DEF Receive, Ingest, AnalysisStarted, Ended, Finalized
<1>5. CASE Ingest \/ AnalysisStarted
  <2>1. Head(inbox) \in Middle /\ UNCHANGED <<capture, finisher, footer, worker>>
    BY Zenon, <1>5 DEF Ingest, AnalysisStarted, AppendRecord, Middle, writer
  <2>2. inbox[1] \notin Finals /\ inbox[1] \notin Ends
    BY <1>2, <2>1 DEF Finals, Ends, Middle, Records
  <2>3. capture # "none" /\ pc # "none"
    BY Zenon, <1>1, <2>2 DEF SessionInv
  <2>4. CASE pc # "gone"
    <3>1. \A i \in 1 .. Len(inbox) : inbox[i] \in Middle
      BY Zenon, <2>3, <2>4 DEF SessionInv
    <3>2. \A i \in 1 .. Len(inbox') : inbox'[i] \in Middle
      BY <1>2, <3>1
    <3> QED BY Zenon, <1>4, <2>1, <2>3, <2>4, <3>2 DEF SessionInv
  <2>5. CASE pc = "gone"
    <3>1. inbox[Len(inbox)] \in Ends /\ \A i \in 1 .. Len(inbox) - 1 : inbox[i] \in Middle
      BY Zenon, <2>3, <2>5 DEF SessionInv
    <3>2. /\ inbox' # <<>> /\ inbox'[Len(inbox')] \in Ends
          /\ \A i \in 1 .. Len(inbox') - 1 : inbox'[i] \in Middle
      BY <1>2, <2>2, <3>1
    <3> QED BY Zenon, <1>4, <2>1, <2>3, <2>5, <3>2 DEF SessionInv
  <2> QED BY Zenon, <2>4, <2>5
<1>6. CASE Ended
  <2>1. Head(inbox) \in Ends /\ finisher' = "send" /\ phase' = "analyzing" /\ capture' = "none"
    BY Zenon, <1>6 DEF Ended, CallFinish, Ends
  <2>2. inbox[1] \notin Finals /\ inbox[1] \notin Middle
    BY <1>2, <2>1 DEF Finals, Ends, Middle, Records
  <2>3. 1 \in 1 .. Len(inbox)
    BY <1>2
  <2>4. capture # "none" /\ pc = "gone"
    BY Zenon, <1>1, <2>2, <2>3 DEF SessionInv
  <2>5. Len(inbox) = 1
    <3>1. \A i \in 1 .. Len(inbox) - 1 : inbox[i] \in Middle
      BY Zenon, <2>4 DEF SessionInv
    <3> QED BY <1>2, <2>2, <3>1
  <2> QED BY Zenon, <1>3, <1>4, <2>1, <2>4, <2>5 DEF SessionInv
<1>7. CASE Finalized
  <2>1. Head(inbox) \in Finals /\ UNCHANGED <<capture, finisher, footer, worker>>
        /\ phase' \in {"complete", "error"}
    BY Zenon, <1>7 DEF Finalized, Finals, writer
  <2>2. capture = "none" /\ finisher = "idle" /\ worker # "open" /\ Len(inbox) = 1
    BY Zenon, <1>7, FinalizedIsLast
  <2> QED BY Zenon, <1>3, <1>4, <2>1, <2>2 DEF SessionInv
<1> QED BY Zenon, <1>5, <1>6, <1>7 DEF Receive

(* The file is finished after the capture and before the window shows its end. *)
LEMMA FileKeepsSession == TypeInv /\ FileInv /\ SessionInv /\ File => SessionInv'
<1> SUFFICES ASSUME TypeInv, FileInv, SessionInv, File PROVE SessionInv'
  OBVIOUS
<1>0. UNCHANGED <<pc, capture, phase>>
  BY Zenon DEF File, Persist, FinishFile, Report, outside, window
<1>1. CASE Persist
  <2>1. worker = "open" /\ worker' \in {"open", "closed", "failed"} /\ UNCHANGED <<inbox, finisher>>
    BY Zenon, <1>1 DEF Persist, PersistRecord, PersistFinish
  <2>2. capture # "none" => worker' \in {"open", "failed"} /\ UNCHANGED footer
    <3>1. CASE PersistRecord
      BY Zenon, <2>1, <3>1 DEF PersistRecord
    <3>2. CASE PersistFinish
      <4>1. backlog \in Seq({"event", "other", "finish"}) /\ backlog # <<>> /\ Head(backlog) = "finish"
        BY Zenon, <3>2 DEF PersistFinish, TypeInv, WriterTypes
      <4>2. 1 \in 1 .. Len(backlog) /\ backlog[1] = "finish"
        BY <4>1
      <4> QED BY Zenon, <4>2 DEF FileInv, SessionInv
    <3> QED BY Zenon, <1>1, <3>1, <3>2 DEF Persist
  <2> QED BY Zenon, <1>0, <2>1, <2>2 DEF SessionInv
<1>2. CASE FinishFile
  <2>1. /\ finisher # "idle" /\ finisher' # "idle" /\ UNCHANGED <<inbox, worker, footer>>
    BY Zenon, <1>2 DEF FinishFile, FinishSend, FinishJoin
  <2> QED BY Zenon, <1>0, <2>1 DEF SessionInv
<1>3. CASE Report
  <2>1. /\ finisher \in {"ok", "failed"} /\ finisher # "idle" /\ finisher' = "idle"
        /\ UNCHANGED <<worker, footer>> /\ \E m \in Finals : Send(<<m>>)
    BY Zenon, <1>3 DEF Report, Finals
  <2>2. worker # "open" /\ capture = "none" /\ inbox = <<>> /\ phase = "analyzing"
    BY Zenon, <2>1 DEF FileInv, SessionInv
  <2>3. Len(inbox') = 1 /\ inbox'[1] \in Finals
    BY <2>1, <2>2 DEF Send
  <2> QED BY Zenon, <1>0, <2>1, <2>2, <2>3 DEF SessionInv
<1> QED BY Zenon, <1>1, <1>2, <1>3 DEF File

(* A capture starts when nothing of the previous one is left, and only a capture
   is stopped.                                                                *)
LEMMA UserKeepsSession ==
  SessionInv /\ (StartDevice \/ StartSimulator \/ StartFails \/ Stop) => SessionInv'
<1> SUFFICES ASSUME SessionInv, StartDevice \/ StartSimulator \/ StartFails \/ Stop PROVE SessionInv'
  OBVIOUS
<1>0. UNCHANGED inbox
  BY Zenon DEF StartDevice, StartSimulator, StartFails, Stop
<1>1. ~IsRunning => capture = "none" /\ finisher = "idle" /\ inbox = <<>>
  BY Zenon DEF SessionInv, IsRunning, Busy
<1>2. CASE StartDevice \/ StartSimulator
  <2>1. /\ capture' \in {"device", "simulator"} /\ pc' \in {"preflight", "simulator"}
        /\ worker' = "open" /\ finisher' = "idle" /\ footer' = None /\ inbox' = <<>>
    BY Zenon, <1>0, <1>1, <1>2 DEF StartDevice, StartSimulator, Reset, Create, CanStart
  <2>2. \A i \in 1 .. Len(inbox') : FALSE
    BY <2>1
  <2> QED BY Zenon, <2>1, <2>2 DEF SessionInv
<1>3. CASE StartFails
  <2>1. phase' = "error" /\ ~IsRunning /\ UNCHANGED <<pc, capture, finisher, footer, worker>>
    BY Zenon, <1>3 DEF StartFails, CanStart, writer
  <2> QED BY Zenon, <1>0, <1>1, <2>1 DEF SessionInv
<1>4. CASE Stop
  <2>1. phase \in {"preparing", "recording"} /\ UNCHANGED <<pc, capture, finisher, footer, worker>>
    BY Zenon, <1>4 DEF Stop, Stoppable, writer
  <2>2. capture # "none"
    BY Zenon, <2>1 DEF SessionInv
  <2> QED BY Zenon, <1>0, <2>1, <2>2 DEF SessionInv
<1> QED BY Zenon, <1>2, <1>3, <1>4

-----------------------------------------------------------------------------
(* The collector's process and the sources *)

(* A step of the thread leaves no process behind that it does not hold. *)
LEMMA ThreadKeepsProcess == ProcessInv /\ Thread => ProcessInv'
<1> SUFFICES ASSUME ProcessInv, Thread PROVE ProcessInv'
  OBVIOUS
<1> USE DEF handle, process, ProcessInv, Alive, Goto
<1>1. CASE Preflight
  BY Zenon, <1>1 DEF Preflight
<1>2. CASE Deploy
  BY Zenon, <1>2 DEF Deploy
<1>3. CASE Spawn
  BY Zenon, <1>3 DEF Spawn
<1>4. CASE StoreChild
  BY Zenon, <1>4 DEF StoreChild
<1>5. CASE CheckStop
  BY Zenon, <1>5 DEF CheckStop
<1>6. CASE ReadLine
  BY Zenon, <1>6 DEF ReadLine
<1>7. CASE RejectLine
  BY Zenon, <1>7 DEF RejectLine
<1>8. CASE ReadEnds
  BY Zenon, <1>8 DEF ReadEnds
<1>9. CASE Wait
  BY Zenon, <1>9 DEF Wait
<1>10. CASE Cleanup
  BY Zenon, <1>10 DEF Cleanup, KillCollector
<1>11. CASE Fallback
  BY Zenon, <1>11 DEF Fallback
<1>12. CASE Choose
  BY Zenon, <1>12 DEF Choose
<1>13. CASE Counters
  BY Zenon, <1>13 DEF Counters
<1>14. CASE Closing
  BY Zenon, <1>14 DEF Closing
<1>15. CASE Perfetto
  BY Zenon, <1>15 DEF Perfetto
<1>16. CASE Tracing
  BY Zenon, <1>16 DEF Tracing
<1>17. CASE Pull
  BY Zenon, <1>17 DEF Pull
<1>18. CASE Project
  BY Zenon, <1>18 DEF Project
<1>19. CASE SendEvent
  BY Zenon, <1>19 DEF SendEvent
<1>20. CASE EventsEnd
  BY Zenon, <1>20 DEF EventsEnd
<1>21. CASE SimulatorStarts
  BY Zenon, <1>21 DEF SimulatorStarts
<1>22. CASE SimulatorEnds
  BY Zenon, <1>22 DEF SimulatorEnds
<1>23. CASE End
  BY Zenon, <1>23 DEF End
<1> QED BY Zenon, <1>1, <1>2, <1>3, <1>4, <1>5, <1>6, <1>7, <1>8, <1>9, <1>10, <1>11, <1>12, <1>13, <1>14,
   <1>15, <1>16, <1>17, <1>18, <1>19, <1>20, <1>21, <1>22, <1>23 DEF Thread

(* Everything else leaves a dead process dead and a filled slot filled. *)
LEMMA OthersKeepProcess ==
  ProcessInv /\ (Killer \/ Watcher \/ Collector \/ Receive \/ File \/ StartFails \/ Stop) => ProcessInv'
<1> SUFFICES ASSUME ProcessInv, Killer \/ Watcher \/ Collector \/ Receive \/ File \/ StartFails \/ Stop
             PROVE  ProcessInv'
  OBVIOUS
<1>1. UNCHANGED <<pc, child>>
  BY Zenon DEF Killer, Watcher, Collector, WritePreamble, WriteEvent, Finish, Fail, Write, Receive,
               Ingest, AnalysisStarted, Ended, Finalized, File, Persist, FinishFile, Report, StartFails,
               Stop, StopCapture, handle, outside
<1>2. ~Alive => ~Alive'
  <2>1. CASE Killer \/ Watcher
    BY Zenon, <2>1 DEF Killer, Watcher, WatcherKills, KillCollector, Alive
  <2>2. CASE Collector
    BY Zenon, <2>2 DEF Collector, WritePreamble, WriteEvent, Finish, Fail, Write, Alive
  <2>3. CASE Receive \/ File \/ StartFails \/ Stop
    <3>1. UNCHANGED collector
      BY Zenon, <2>3 DEF Receive, Ingest, AnalysisStarted, Ended, Finalized, File, Persist, FinishFile,
                         Report, StartFails, Stop, process, outside
    <3> QED BY Zenon, <3>1 DEF Alive
  <2> QED BY Zenon, <2>1, <2>2, <2>3
<1> QED BY Zenon, <1>1, <1>2 DEF ProcessInv

(* A step of the thread keeps the sources apart. *)
LEMMA ThreadKeepsSources == TypeInv /\ SourceInv /\ Thread => SourceInv'
<1> SUFFICES ASSUME TypeInv, SourceInv, Thread PROVE SourceInv'
  OBVIOUS
<1>h. ASSUME pc \notin {"read", "wait", "cleanup", "end_ok", "end_err", "gone"},
             pc' \notin {"preflight", "deploy", "spawn", "child", "check", "read", "wait", "cleanup"},
             sources' = sources \/ sources' = sources \cup {"host"}, UNCHANGED measured
      PROVE  SourceInv'
  <2>1. "ebpf" \notin sources
    BY Zenon, <1>h DEF SourceInv
  <2>2. "ebpf" \notin sources'
    BY <1>h, <2>1
  <2> QED BY Zenon, <1>h, <2>2 DEF SourceInv, OneSource
<1> USE DEF notes, history, Goto, Quiet
<1>1. CASE Preflight
  BY Zenon, <1>1 DEF Preflight, SourceInv, OneSource
<1>2. CASE Deploy
  BY Zenon, <1>2 DEF Deploy, SourceInv, OneSource
<1>3. CASE Spawn
  BY Zenon, <1>3 DEF Spawn, SourceInv, OneSource
<1>4. CASE StoreChild
  BY Zenon, <1>4 DEF StoreChild, SourceInv, OneSource
<1>5. CASE CheckStop
  BY Zenon, <1>5 DEF CheckStop, SourceInv, OneSource
<1>6. CASE ReadLine
  <2>1. /\ pc = "read" /\ UNCHANGED pc /\ measured' = (measured \/ IsMeasurement(Head(pipe)))
        /\ sources' = IF Head(pipe) \in {"info", "ready", "event"} THEN sources \cup {"ebpf"} ELSE sources
    BY Zenon, <1>6 DEF ReadLine
  <2>2. "host" \notin sources'
    <3>1. "host" \notin sources
      BY Zenon, <2>1 DEF SourceInv
    <3> QED BY <2>1, <3>1
  <2>3. "ebpf" \in sources' => measured'
    BY Zenon, <2>1 DEF SourceInv, IsMeasurement
  <2> QED BY Zenon, <2>1, <2>2, <2>3 DEF SourceInv, OneSource
<1>7. CASE RejectLine
  BY Zenon, <1>7 DEF RejectLine, SourceInv, OneSource
<1>8. CASE ReadEnds
  BY Zenon, <1>8 DEF ReadEnds, SourceInv, OneSource
<1>9. CASE Wait
  BY Zenon, <1>9 DEF Wait, SourceInv, OneSource
<1>10. CASE Cleanup
  BY Zenon, <1>10 DEF Cleanup, SourceInv, OneSource
<1>11. CASE Fallback
  BY Zenon, <1>11 DEF Fallback, SourceInv, OneSource
<1>12. CASE Choose
  BY Zenon, <1>12 DEF Choose, SourceInv, OneSource
<1>13. CASE Counters
  BY Zenon, <1>h, <1>13 DEF Counters, SendHost
<1>14. CASE Closing
  BY Zenon, <1>14 DEF Closing, SourceInv, OneSource
<1>15. CASE Perfetto
  BY Zenon, <1>h, <1>15 DEF Perfetto, SendHost
<1>16. CASE Tracing
  BY Zenon, <1>h, <1>16 DEF Tracing, SendHost
<1>17. CASE Pull
  BY Zenon, <1>17 DEF Pull, SourceInv, OneSource
<1>18. CASE Project
  BY Zenon, <1>h, <1>18 DEF Project, SendHost
<1>19. CASE SendEvent
  BY Zenon, <1>h, <1>19 DEF SendEvent, SendHost
<1>20. CASE EventsEnd
  BY Zenon, <1>20 DEF EventsEnd, SourceInv, OneSource
<1>21. CASE SimulatorStarts
  BY Zenon, <1>21 DEF SimulatorStarts, SourceInv, OneSource
<1>22. CASE SimulatorEnds
  BY Zenon, <1>22 DEF SimulatorEnds, SourceInv, OneSource
<1>23. CASE End
  BY Zenon, <1>23 DEF End, SourceInv, OneSource
<1> QED BY Zenon, <1>1, <1>2, <1>3, <1>4, <1>5, <1>6, <1>7, <1>8, <1>9, <1>10, <1>11, <1>12, <1>13, <1>14,
   <1>15, <1>16, <1>17, <1>18, <1>19, <1>20, <1>21, <1>22, <1>23 DEF Thread

(* Nothing else touches the sources. *)
LEMMA OthersKeepSources ==
  SourceInv /\ (Killer \/ Watcher \/ Collector \/ Receive \/ File \/ StartFails \/ Stop) => SourceInv'
<1> SUFFICES ASSUME SourceInv, Killer \/ Watcher \/ Collector \/ Receive \/ File \/ StartFails \/ Stop
             PROVE  SourceInv'
  OBVIOUS
<1>1. UNCHANGED <<pc, measured, sources>>
  BY Zenon DEF Killer, Watcher, Collector, WritePreamble, WriteEvent, Finish, Fail, Write, Receive,
               Ingest, AnalysisStarted, Ended, Finalized, File, Persist, FinishFile, Report, StartFails,
               Stop, notes, history, outside, Quiet
<1> QED BY Zenon, <1>1 DEF SourceInv, OneSource

-----------------------------------------------------------------------------
(* Where the events are *)

(* A step that changes none of the counts keeps CountInv. *)
LEMMA SameCounts ==
  ASSUME CountInv, UNCHANGED <<forwarded, received, inbox, worker, rejected, persisted, backlog, error,
                               finisher, call, footer>>
  PROVE  CountInv'
<1>1. /\ forwarded' = received' + Events(inbox)'
      /\ worker' = "open" /\ rejected' = 0 => received' = persisted' + Events(backlog)'
  BY Zenon DEF CountInv, Events, EventsAt
<1>2. /\ rejected' # 0 => error'
      /\ finisher' # "idle" => /\ call'.seen = received' /\ call'.rejected = rejected'
                               /\ call'.graceful => rejected' = 0
      /\ GracefulIsComplete'
  BY DEF CountInv, GracefulIsComplete
<1> QED BY Zenon, <1>1, <1>2 DEF CountInv

(* What the thread forwards is in the inbox. *)
LEMMA ThreadKeepsCounts == TypeInv /\ SessionInv /\ CountInv /\ Thread => CountInv'
<1> SUFFICES ASSUME TypeInv, SessionInv, CountInv, Thread PROVE CountInv'
  OBVIOUS
<1>0. ThreadStep
  BY Zenon, ThreadSteps
<1>1. /\ inbox \in Seq(Messages) /\ received \in Nat /\ forwarded \in Nat
      /\ forwarded = received + Events(inbox)
  BY Zenon DEF TypeInv, InboxTypes, WindowTypes, CountTypes, CountInv
<1>2. Middle \subseteq Messages /\ Ends \subseteq Messages /\ "event" \notin Ends
  BY Zenon DEF Middle, Ends, Messages
<1>3. UNCHANGED <<received, worker, rejected, persisted, backlog, error, finisher, call, footer>>
  BY Zenon, <1>0 DEF ThreadStep, window, writer
<1>4. footer = None
  BY Zenon, <1>0 DEF ThreadStep, SessionInv
<1>5. Events(inbox) \in Nat
  BY Zenon, <1>1, EventsType
<1>6. forwarded' = received + Events(inbox')
  <2>1. ASSUME NEW m \in Messages
        PROVE  /\ Append(inbox, m) \in Seq(Messages)
               /\ Events(Append(inbox, m)) = Events(inbox) + (IF m = "event" THEN 1 ELSE 0)
    <3>1. Append(inbox, m) \in Seq(Messages)
      BY <1>1
    <3> QED BY Zenon, <1>1, <3>1, EventsAppend
  <2>2. CASE inbox' = inbox /\ forwarded' = forwarded
    BY Zenon, <1>1, <2>2
  <2>3. ASSUME NEW m \in Messages, inbox' = Append(inbox, m),
               forwarded' = forwarded + (IF m = "event" THEN 1 ELSE 0)
        PROVE  forwarded' = received + Events(inbox')
    <3>1. Events(inbox') = Events(inbox) + (IF m = "event" THEN 1 ELSE 0)
      BY Zenon, <2>1, <2>3
    <3> QED BY <1>1, <1>5, <2>3, <3>1
  <2>4. ASSUME NEW m \in Messages \ {"event"}, NEW k \in Messages \ {"event"},
               inbox' = Append(Append(inbox, m), k), forwarded' = forwarded
        PROVE  forwarded' = received + Events(inbox')
    <3>1. Append(inbox, m) \in Seq(Messages) /\ Events(Append(inbox, m)) = Events(inbox) + 0
      BY Zenon, <2>1
    <3>2. Events(inbox') = Events(Append(inbox, m)) + 0
      BY Zenon, <2>4, <3>1, EventsAppend
    <3> QED BY <1>1, <1>5, <2>4, <3>1, <3>2
  <2>5. CASE pc' # "gone"
    BY Zenon, <1>0, <1>2, <2>2, <2>3, <2>4, <2>5 DEF ThreadStep, Sent
  <2>6. CASE pc' = "gone"
    <3>1. PICK m \in Ends : inbox' = Append(inbox, m) /\ forwarded' = forwarded
      BY Zenon, <1>0, <2>6 DEF ThreadStep
    <3>2. forwarded' = forwarded + (IF m = "event" THEN 1 ELSE 0)
      BY <1>1, <1>2, <3>1
    <3> QED BY Zenon, <1>2, <2>3, <3>1, <3>2
  <2> QED BY Zenon, <2>5, <2>6
<1>7. forwarded' = received' + Events(inbox)'
  BY Zenon, <1>3, <1>6 DEF Events, EventsAt
<1> QED BY Zenon, <1>3, <1>4, <1>7 DEF CountInv, GracefulIsComplete, Events, EventsAt

(* A message that the window takes was counted once. *)
LEMMA TakenIsCounted ==
  ASSUME TypeInv, inbox # <<>>, inbox' = Tail(inbox), CountInv
  PROVE  forwarded = received + (IF Head(inbox) = "event" THEN 1 ELSE 0) + Events(inbox')
<1>1. /\ inbox \in Seq(Messages) /\ received \in Nat /\ forwarded = received + Events(inbox)
  BY Zenon DEF TypeInv, InboxTypes, WindowTypes, CountInv
<1>2. Events(inbox) = Events(inbox') + (IF Head(inbox) = "event" THEN 1 ELSE 0)
  BY Zenon, <1>1, EventsTail
<1>3. inbox' \in Seq(Messages)
  BY <1>1
<1>4. Events(inbox') \in Nat
  BY Zenon, <1>3, EventsType
<1> QED BY <1>1, <1>2, <1>4

(* The window stores or refuses what it counts. *)
LEMMA ReceiveKeepsCounts == TypeInv /\ SessionInv /\ CountInv /\ Receive => CountInv'
<1> SUFFICES ASSUME TypeInv, SessionInv, CountInv, Receive PROVE CountInv'
  OBVIOUS
<1>0. inbox # <<>> /\ inbox' = Tail(inbox) /\ UNCHANGED forwarded
  BY Zenon DEF Receive, Ingest, AnalysisStarted, Ended, Finalized, history
<1>1. forwarded = received + (IF Head(inbox) = "event" THEN 1 ELSE 0) + Events(inbox')
  BY Zenon, <1>0, TakenIsCounted
<1>2. received \in Nat /\ rejected \in Nat /\ persisted \in Nat /\ inbox \in Seq(Messages)
      /\ backlog \in Seq({"event", "other", "finish"})
  BY Zenon DEF TypeInv, InboxTypes, WindowTypes, WriterTypes
<1>3. CASE Ingest
  <2> DEFINE record == Head(inbox)
             stored == record \notin {"footer", "partial"}
             refused == stored /\ ~Appends
             one == IF record = "event" THEN 1 ELSE 0
  <2>1. /\ record \in Records
        /\ IF stored THEN AppendRecord(record) ELSE UNCHANGED writer
        /\ rejected' = rejected + (IF refused THEN 1 ELSE 0)
        /\ error' = (error \/ refused)
        /\ received' = received + one
    BY Zenon, <1>3 DEF Ingest, ErrorAfter
  <2>2. UNCHANGED <<worker, persisted, footer, finisher, call>>
    BY Zenon, <2>1 DEF AppendRecord, writer
  <2>3. footer = None /\ finisher = "idle"
    <3>1. inbox[1] \notin Finals
      BY <1>0, <1>2, <2>1 DEF Records, Finals
    <3> QED BY Zenon, <1>0, <3>1 DEF SessionInv
  <2>4. forwarded' = received' + Events(inbox)'
    <3>1. forwarded' = received' + Events(inbox')
      BY Zenon, <1>0, <1>1, <2>1
    <3> QED BY Zenon, <3>1 DEF Events, EventsAt
  <2>5. rejected' # 0 => error'
    <3>1. rejected' # 0 => rejected # 0 \/ refused
      BY <1>2, <2>1
    <3> QED BY Zenon, <2>1, <3>1 DEF CountInv
  <2>6. worker' = "open" /\ rejected' = 0 => received' = persisted' + Events(backlog)'
    <3> SUFFICES ASSUME worker = "open", rejected' = 0 PROVE received' = persisted + Events(backlog')
      BY Zenon, <2>2 DEF Events, EventsAt
    <3>1. rejected = 0 /\ ~refused
      BY <1>2, <2>1
    <3>2. received = persisted + Events(backlog)
      BY Zenon, <3>1 DEF CountInv
    <3>3. Events(backlog') = Events(backlog) + one
      <4>1. CASE stored
        <5>1. backlog' = Append(backlog, IF record = "event" THEN record ELSE "other")
          BY Zenon, <2>1, <3>1, <4>1 DEF AppendRecord
        <5>2. CASE record = "event"
          BY Zenon, <1>2, <5>1, <5>2, EventsAppend
        <5>3. CASE record # "event"
          <6>1. "other" # "event"
            OBVIOUS
          <6> QED BY Zenon, <1>2, <5>1, <5>3, <6>1, EventsAppend
        <5> QED BY Zenon, <5>2, <5>3
      <4>2. CASE ~stored
        <5>1. backlog' = backlog /\ record # "event"
          BY Zenon, <2>1, <4>2 DEF writer
        <5>2. Events(backlog) \in Nat
          BY Zenon, <1>2, EventsType
        <5> QED BY <5>1, <5>2
      <4> QED BY Zenon, <4>1, <4>2
    <3>4. Events(backlog) \in Nat
      BY Zenon, <1>2, EventsType
    <3> HIDE DEF one, record
    <3>5. one \in Nat
      BY DEF one
    <3> QED BY <1>2, <2>1, <3>2, <3>3, <3>4, <3>5
  <2> HIDE DEF record, stored, refused, one
  <2> QED BY Zenon, <2>2, <2>3, <2>4, <2>5, <2>6 DEF CountInv, GracefulIsComplete
<1>4. CASE ~Ingest
  <2>1. /\ Head(inbox) # "event"
        /\ UNCHANGED <<received, rejected, worker, persisted, backlog, footer>>
        /\ error => error'
    <3>1. CASE AnalysisStarted
      BY Zenon, <3>1 DEF AnalysisStarted, writer
    <3>2. CASE Ended
      BY Zenon, <3>2 DEF Ended, CallFinish
    <3>3. CASE Finalized
      BY Zenon, <3>3 DEF Finalized, writer
    <3> QED BY Zenon, <1>4, <3>1, <3>2, <3>3 DEF Receive
  <2>2. forwarded' = received' + Events(inbox)'
    <3>1. Tail(inbox) \in Seq(Messages)
      BY <1>0, <1>2
    <3>2. Events(inbox') \in Nat
      BY Zenon, <1>0, <3>1, EventsType
    <3>3. forwarded' = received' + Events(inbox')
      BY <1>0, <1>1, <1>2, <2>1, <3>2
    <3> QED BY Zenon, <3>3 DEF Events, EventsAt
  <2>3. finisher' # "idle" => /\ call'.seen = received' /\ call'.rejected = rejected'
                              /\ call'.graceful => rejected' = 0
    <3>1. CASE Ended
      <4>1. /\ call' = [seen |-> received, rejected |-> rejected, graceful |-> agent_graceful /\ ~error']
            /\ rejected # 0 => error'
        BY Zenon, <2>1, <3>1 DEF Ended, CallFinish, CountInv
      <4>2. call'.seen = received /\ call'.rejected = rejected /\ (call'.graceful => ~error')
        BY Zenon, <4>1
      <4> QED BY Zenon, <2>1, <4>1, <4>2
    <3>2. CASE ~Ended
      BY Zenon, <1>4, <2>1, <3>2 DEF Receive, AnalysisStarted, Finalized, writer, CountInv
    <3> QED BY Zenon, <3>1, <3>2
  <2> QED BY Zenon, <1>0, <2>1, <2>2, <2>3 DEF CountInv, GracefulIsComplete, Events, EventsAt
<1> QED BY Zenon, <1>3, <1>4

(* The worker writes what it takes from the backlog, and a graceful Footer says so. *)
LEMMA FileKeepsCounts == TypeInv /\ FileInv /\ SessionInv /\ CountInv /\ File => CountInv'
<1> SUFFICES ASSUME TypeInv, FileInv, SessionInv, CountInv, File PROVE CountInv'
  OBVIOUS
<1>0. UNCHANGED <<received, rejected, error, forwarded>>
  BY Zenon DEF File, Persist, FinishFile, Report, outside, window, history
<1>1. /\ received \in Nat /\ rejected \in Nat /\ persisted \in Nat /\ Events(backlog) \in Nat
      /\ backlog \in Seq({"event", "other", "finish"}) /\ inbox \in Seq(Messages)
  BY Zenon, EventsType DEF TypeInv, WindowTypes, WriterTypes, InboxTypes
<1>2. CASE PersistRecord /\ UNCHANGED inbox
  <2>1. /\ worker = "open" /\ backlog # <<>> /\ UNCHANGED <<footer, finisher, call>>
        /\ \/ /\ persisted' = persisted + (IF Head(backlog) = "event" THEN 1 ELSE 0)
              /\ backlog' = Tail(backlog)
           \/ worker' = "failed"
    BY Zenon, <1>2 DEF PersistRecord
  <2>2. worker' = "open" /\ rejected' = 0 => received' = persisted' + Events(backlog)'
    <3> SUFFICES ASSUME worker' = "open", rejected = 0 PROVE received = persisted' + Events(backlog')
      BY Zenon, <1>0 DEF Events, EventsAt
    <3>1. /\ persisted' = persisted + (IF Head(backlog) = "event" THEN 1 ELSE 0) /\ backlog' = Tail(backlog)
      BY Zenon, <2>1
    <3>2. Events(backlog) = Events(backlog') + (IF Head(backlog) = "event" THEN 1 ELSE 0)
      BY Zenon, <1>1, <2>1, <3>1, EventsTail
    <3>3. backlog' \in Seq({"event", "other", "finish"})
      BY Zenon, <1>1, <2>1, <3>1, HeadTailProperties
    <3>4. Events(backlog') \in Nat
      BY Zenon, <3>3, EventsType
    <3>5. received = persisted + Events(backlog)
      BY Zenon, <2>1 DEF CountInv
    <3> QED BY <1>1, <3>1, <3>2, <3>4, <3>5
  <2>3. /\ forwarded' = received' + Events(inbox)'
        /\ finisher' # "idle" => /\ call'.seen = received' /\ call'.rejected = rejected'
                                 /\ call'.graceful => rejected' = 0
    BY Zenon, <1>0, <1>2, <2>1 DEF CountInv, Events, EventsAt
  <2>4. GracefulIsComplete' /\ (rejected' # 0 => error')
    BY <1>0, <2>1 DEF CountInv, GracefulIsComplete
  <2> QED BY Zenon, <2>2, <2>3, <2>4 DEF CountInv
<1>3. CASE PersistFinish /\ UNCHANGED inbox
  <2>1. /\ worker = "open" /\ backlog # <<>> /\ Head(backlog) = "finish" /\ UNCHANGED <<persisted, finisher, call>>
        /\ worker' \in {"closed", "failed"} /\ (footer' = FooterOf \/ footer' = footer)
    BY Zenon, <1>3 DEF PersistFinish
  <2>2. 1 \in 1 .. Len(backlog) /\ backlog[1] = "finish"
    BY <1>1, <2>1
  <2>3. finisher = "join" /\ Len(backlog) = 1
    BY Zenon, <2>2 DEF FileInv
  <2>4. Events(backlog) = 0
    <3>1. EventsAt(backlog) = {}
      BY <2>2, <2>3 DEF EventsAt
    <3> QED BY <3>1, FS_EmptySet DEF Events
  <2>5. forwarded = received
    <3>1. inbox = <<>>
      BY Zenon, <2>3 DEF SessionInv
    <3>2. Events(inbox) = 0
      BY Zenon, <3>1, EventsEmpty
    <3>3. forwarded = received + Events(inbox)
      BY Zenon DEF CountInv
    <3> QED BY <1>1, <3>2, <3>3
  <2>6. rejected = 0 => received = persisted
    <3>1. rejected = 0 => received = persisted + Events(backlog)
      BY Zenon, <2>1 DEF CountInv
    <3> QED BY <1>1, <2>4, <3>1
  <2>7. GracefulIsComplete'
    <3>1. CASE footer' = FooterOf
      <4>1. call.seen = received /\ call.rejected = rejected /\ (call.graceful => rejected = 0)
        BY Zenon, <2>3 DEF CountInv
      <4>2. /\ footer'.graceful = call.graceful /\ footer'.seen = call.seen /\ footer'.persisted = persisted
            /\ footer'.rejected = call.rejected
            /\ footer'.dropped = SaturatingSub(call.seen, persisted + call.rejected)
        BY Zenon, <3>1 DEF FooterOf
      <4>3. rejected = 0 => SaturatingSub(call.seen, persisted + call.rejected) = 0
        BY <1>1, <2>6, <4>1 DEF SaturatingSub
      <4> QED BY <1>0, <2>5, <2>6, <4>1, <4>2, <4>3 DEF GracefulIsComplete
    <3>2. CASE footer' = footer
      BY <1>0, <3>2 DEF CountInv, GracefulIsComplete
    <3> QED BY Zenon, <2>1, <3>1, <3>2
  <2>8. /\ forwarded' = received' + Events(inbox)' /\ worker' # "open"
        /\ finisher' # "idle" => /\ call'.seen = received' /\ call'.rejected = rejected'
                                 /\ call'.graceful => rejected' = 0
    BY Zenon, <1>0, <1>3, <2>1 DEF CountInv, Events, EventsAt
  <2>9. rejected' # 0 => error'
    BY <1>0 DEF CountInv
  <2> QED BY Zenon, <2>7, <2>8, <2>9 DEF CountInv
<1>4. CASE FinishFile
  <2>1. /\ UNCHANGED <<worker, persisted, footer, call, inbox>> /\ finisher # "idle"
        /\ \/ backlog' = backlog
           \/ backlog' = Append(backlog, "finish")
    BY Zenon, <1>4 DEF FinishFile, FinishSend, FinishJoin
  <2>2. Events(backlog') = Events(backlog)
    <3>1. Events(Append(backlog, "finish")) = Events(backlog) + 0
      <4>1. "finish" # "event"
        OBVIOUS
      <4> QED BY Zenon, <1>1, <4>1, EventsAppend
    <3>2. Events(backlog) + 0 = Events(backlog)
      BY <1>1
    <3> QED BY Zenon, <2>1, <3>1, <3>2
  <2>3. /\ forwarded' = received' + Events(inbox)'
        /\ worker' = "open" /\ rejected' = 0 => received' = persisted' + Events(backlog)'
    BY Zenon, <1>0, <2>1, <2>2 DEF CountInv, Events, EventsAt
  <2>4. /\ GracefulIsComplete' /\ (rejected' # 0 => error')
        /\ finisher' # "idle" => /\ call'.seen = received' /\ call'.rejected = rejected'
                                 /\ call'.graceful => rejected' = 0
    BY <1>0, <2>1 DEF CountInv, GracefulIsComplete
  <2> QED BY Zenon, <2>3, <2>4 DEF CountInv
<1>5. CASE Report
  <2>1. /\ finisher' = "idle" /\ UNCHANGED <<worker, backlog, persisted, footer, call>>
        /\ finisher # "idle" /\ \E m \in Finals : Send(<<m>>)
    BY Zenon, <1>5 DEF Report, Finals
  <2>2. Events(inbox') = Events(inbox)
    <3>1. PICK m \in Finals : inbox' = inbox \o <<m>>
      BY Zenon, <2>1 DEF Send
    <3>2. m \in Messages /\ m # "event"
      BY DEF Finals, Messages
    <3>3. inbox' = Append(inbox, m)
      BY <1>1, <3>1, <3>2
    <3>4. Events(inbox') = Events(inbox) + 0
      BY Zenon, <1>1, <3>2, <3>3, EventsAppend
    <3>5. Events(inbox) \in Nat
      BY Zenon, <1>1, EventsType
    <3> QED BY <3>4, <3>5
  <2>3. /\ forwarded' = received' + Events(inbox)'
        /\ worker' = "open" /\ rejected' = 0 => received' = persisted' + Events(backlog)'
    BY Zenon, <1>0, <2>1, <2>2 DEF CountInv, Events, EventsAt
  <2>4. GracefulIsComplete' /\ (rejected' # 0 => error')
    BY <1>0, <2>1 DEF CountInv, GracefulIsComplete
  <2> QED BY Zenon, <2>1, <2>3, <2>4 DEF CountInv
<1> QED BY Zenon, <1>2, <1>3, <1>4, <1>5 DEF File, Persist

(* A new session has no events, and its file none. *)
LEMMA NewCounts ==
  ASSUME inbox = <<>>, forwarded = 0, received = 0, rejected = 0, persisted = 0, backlog = <<>>,
         finisher = "idle", footer = None
  PROVE  CountInv
<1>1. Events(inbox) = 0 /\ Events(backlog) = 0
  BY Zenon, EventsEmpty
<1> QED BY <1>1 DEF CountInv, GracefulIsComplete

-----------------------------------------------------------------------------
(* The theorems *)

IInv == TypeInv /\ FileInv /\ SessionInv /\ ProcessInv /\ SourceInv /\ CountInv

(* The invariants hold at the start. *)
LEMMA InitIInv == Init => IInv
<1> SUFFICES ASSUME Init PROVE IInv
  OBVIOUS
<1>0. {Backlog, InboxCapacity, PipeCapacity, MaxEvents, MaxSessions} \subseteq Nat
  BY Zenon, BacklogSize, ChannelSizes
<1>1. TypeInv
  <2>1. WriterTypes
    BY <1>0 DEF Init, WriterInit, WriterTypes
  <2>2. WindowTypes
    <3>1. 0 \in Nat /\ 0 \in 0 .. MaxSessions
      BY <1>0
    <3> QED BY Zenon, <3>1 DEF Init, WindowTypes, Phases
  <2>3. HandleTypes /\ NoteTypes /\ early \in BOOLEAN
    BY Zenon DEF Init, HandleTypes, NoteTypes
  <2>4. InboxTypes
    BY <1>0 DEF Init, InboxTypes
  <2>5. CountTypes
    <3>1. pipe = <<>> /\ emitted = 0 /\ forwarded = 0
      BY Zenon DEF Init
    <3>2. Events(pipe) = 0
      BY Zenon, <3>1, EventsEmpty
    <3> QED BY <1>0, <3>1, <3>2 DEF CountTypes
  <2>6. pc \in Steps /\ collector \in Collectors /\ sources \subseteq {"ebpf", "host"}
    BY Zenon DEF Init, Steps, Collectors
  <2>7. wrote \in 0 .. Len(Preamble)
    BY DEF Init, Preamble
  <2> QED BY Zenon, <2>1, <2>2, <2>3, <2>4, <2>5, <2>6, <2>7 DEF TypeInv
<1>2. FileInv
  BY Zenon, NewFile DEF Init, WriterInit
<1>3. SessionInv
  BY Zenon DEF Init, WriterInit, SessionInv
<1>4. ProcessInv
  BY Zenon DEF Init, ProcessInv, Alive
<1>5. SourceInv
  BY Zenon DEF Init, SourceInv, OneSource
<1>6. CountInv
  BY Zenon, NewCounts DEF Init, WriterInit
<1> QED BY Zenon, <1>1, <1>2, <1>3, <1>4, <1>5, <1>6 DEF IInv

(* Starting and stopping a capture keeps the invariants. *)
LEMMA UserKeepsIInv ==
  IInv /\ (StartDevice \/ StartSimulator \/ StartFails \/ Stop) => IInv'
<1> SUFFICES ASSUME IInv, StartDevice \/ StartSimulator \/ StartFails \/ Stop PROVE IInv'
  OBVIOUS
<1>1. TypeInv' /\ SessionInv'
  BY Zenon, UserKeepsTypes, UserKeepsSession DEF IInv
<1>2. CASE StartDevice \/ StartSimulator
  <2>1. /\ forwarded' = 0 /\ received' = 0 /\ rejected' = 0 /\ persisted' = 0 /\ backlog' = <<>>
        /\ finisher' = "idle" /\ footer' = None /\ sources' = {} /\ collector' = "none"
        /\ pc' \in {"preflight", "simulator"} /\ ~IsRunning /\ UNCHANGED inbox
    BY Zenon, <1>2 DEF StartDevice, StartSimulator, Reset, Create, CanStart
  <2>2. inbox' = <<>>
    BY Zenon, <2>1 DEF IInv, SessionInv, IsRunning, Busy
  <2>3. FileInv'
    <3>1. \A i \in 1 .. Len(backlog') : FALSE
      BY <2>1
    <3> QED BY Zenon, <2>1, <3>1 DEF FileInv
  <2>4. ProcessInv' /\ SourceInv'
    BY Zenon, <2>1 DEF ProcessInv, Alive, SourceInv, OneSource
  <2>5. CountInv'
    <3>1. Events(inbox') = 0 /\ Events(backlog') = 0
      BY Zenon, <2>1, <2>2, EventsEmpty
    <3>2. Events(inbox)' = 0 /\ Events(backlog)' = 0
      BY Zenon, <3>1 DEF Events, EventsAt
    <3> QED BY <2>1, <3>2 DEF CountInv, GracefulIsComplete
  <2> QED BY Zenon, <1>1, <2>3, <2>4, <2>5 DEF IInv
<1>3. CASE StartFails \/ Stop
  <2>1. UNCHANGED <<forwarded, received, inbox, worker, rejected, persisted, backlog, error, finisher, call,
                    footer>>
    BY Zenon, <1>3 DEF StartFails, Stop, writer, history
  <2>2. FileInv'
    BY Zenon, <2>1 DEF IInv, FileInv
  <2>3. CountInv'
    BY Zenon, <2>1, SameCounts DEF IInv
  <2> QED BY Zenon, <1>1, <1>3, <2>2, <2>3, OthersKeepProcess, OthersKeepSources DEF IInv
<1> QED BY Zenon, <1>2, <1>3

(* Every step keeps the invariants. *)
LEMMA NextIInv == IInv /\ [Next]_vars => IInv'
<1> SUFFICES ASSUME IInv, [Next]_vars PROVE IInv'
  OBVIOUS
<1>1. CASE Thread
  <2>1. FileInv'
    <3>1. UNCHANGED writer
      BY Zenon, <1>1, ThreadSteps DEF ThreadStep, IInv
    <3> QED BY Zenon, <3>1 DEF FileInv, writer, IInv
  <2> QED BY Zenon, <1>1, <2>1, ThreadKeepsTypes, ThreadKeepsSession, ThreadKeepsProcess, ThreadKeepsSources,
             ThreadKeepsCounts DEF IInv
<1>2. CASE Killer \/ Watcher \/ Collector
  <2>1. UNCHANGED <<window, writer, inbox, pc, forwarded>>
    BY Zenon, <1>2 DEF Killer, Watcher, Collector, WritePreamble, WriteEvent, Finish, Fail, Write, Quiet,
                       elsewhere, history
  <2>2. FileInv' /\ SessionInv'
    BY Zenon, <2>1 DEF FileInv, SessionInv, writer, window, IInv
  <2>3. CountInv'
    BY Zenon, <2>1, SameCounts DEF writer, window, IInv
  <2> QED BY Zenon, <1>2, <2>2, <2>3, KillersKeepTypes, CollectorKeepsTypes, OthersKeepProcess,
             OthersKeepSources DEF IInv
<1>3. CASE StartDevice \/ StartSimulator \/ StartFails \/ Stop
  BY Zenon, <1>3, UserKeepsIInv
<1>4. CASE Receive
  BY Zenon, <1>4, ReceiveKeepsTypes, ReceiveKeepsFileInv, ReceiveKeepsSession, ReceiveKeepsCounts,
     OthersKeepProcess, OthersKeepSources DEF IInv
<1>5. CASE File
  BY Zenon, <1>5, FileKeepsTypes, FileKeepsFileInv, FileKeepsSession, FileKeepsCounts, OthersKeepProcess,
     OthersKeepSources DEF IInv
<1>6. CASE UNCHANGED vars
  <2> USE DEF vars, elsewhere, IInv
  <2>1. UNCHANGED <<window, writer, early, inbox, handle, pc, notes, collector, wrote, pipe, emitted, forwarded,
                    sources>>
    BY Zenon, <1>6 DEF process, history
  <2>2. TypeInv'
    BY Zenon, <2>1, SameTypes DEF TypeInv
  <2>3. FileInv' /\ SessionInv'
    BY Zenon, <2>1 DEF FileInv, SessionInv, writer, window
  <2>4. ProcessInv' /\ SourceInv'
    BY Zenon, <2>1 DEF ProcessInv, SourceInv, Alive, OneSource, notes, handle
  <2>5. CountInv'
    BY Zenon, <2>1, SameCounts DEF writer, window
  <2> QED BY Zenon, <2>2, <2>3, <2>4, <2>5
<1> QED BY Zenon, <1>1, <1>2, <1>3, <1>4, <1>5, <1>6 DEF Next

(* The inductive invariant of a recording session. *)
LEMMA IInvCorrect == Spec => []IInv
<1>1. Init => IInv
  BY InitIInv
<1>2. IInv /\ [Next]_vars => IInv'
  BY NextIInv
<1> QED BY <1>1, <1>2, PTL DEF Spec

(* Whatever the sizes of the channels, every part of a session has its type, no
   channel holds more than its size, and no more events are forwarded than were
   emitted.                                                                   *)
THEOREM TypeCorrect == Spec => []TypeOK
<1>1. IInv => TypeOK
  <2> SUFFICES ASSUME IInv PROVE TypeOK
    OBVIOUS
  <2>1. TypeInv
    BY Zenon DEF IInv
  <2>2. forwarded \in 0 .. MaxEvents
    <3>1. /\ pipe \in Seq(Records) /\ emitted \in 0 .. MaxEvents /\ forwarded \in Nat
          /\ forwarded + Events(pipe) <= emitted /\ MaxEvents \in Nat
      BY Zenon, <2>1, ChannelSizes DEF TypeInv, CountTypes
    <3>2. Events(pipe) \in Nat
      BY Zenon, <3>1, EventsType
    <3> QED BY <3>1, <3>2
  <2>3. {error, agent_graceful, stop, child, killer, watcher, detected, capture_ready, measured, recovered,
         early} \subseteq BOOLEAN
    BY Zenon, <2>1 DEF TypeInv, WindowTypes, HandleTypes, NoteTypes
  <2> QED BY Zenon, <2>1, <2>2, <2>3
      DEF TypeInv, TypeOK, WindowTypes, HandleTypes, NoteTypes, InboxTypes, CountTypes, Collectors
<1> QED BY <1>1, IInvCorrect, PTL

(* When the window lets the user start again, nothing of the last capture is
   left: its thread has returned, its process is gone, its file is closed and no
   message of it is on its way; and no session mixes measurements of the collector
   with those of a fallback.                                                  *)
THEOREM SessionsApart == Spec => []SessionsAreApart
<1>1. IInv => SessionsAreApart
  <2> SUFFICES ASSUME IInv PROVE SessionsAreApart
    OBVIOUS
  <2>1. OneSource
    BY Zenon DEF IInv, SourceInv
  <2>2. ~IsRunning => /\ capture = "none" /\ worker # "open" /\ finisher = "idle" /\ inbox = <<>>
                      /\ pc \in {"none", "gone"}
    BY Zenon DEF IInv, SessionInv, IsRunning, Busy
  <2>3. pc \in {"none", "gone"} => ~Alive
    BY Zenon DEF IInv, ProcessInv
  <2> QED BY Zenon, <2>1, <2>2, <2>3 DEF SessionsAreApart, OneCapture
<1> QED BY <1>1, IInvCorrect, PTL

(* A session file with a graceful Footer holds every event that the capture thread
   forwarded, and reports no loss.                                            *)
THEOREM GracefulComplete == Spec => []GracefulIsComplete
<1>1. IInv => GracefulIsComplete
  BY Zenon DEF IInv, CountInv
<1> QED BY <1>1, IInvCorrect, PTL

(* A late message never takes the window back from stopping or analyzing. *)
THEOREM PhasesGoOn == Spec => PhaseForward
<1> DEFINE Forward == /\ phase = "stopping" => phase' \in {"stopping", "analyzing"}
                      /\ phase = "analyzing" => phase' \in {"analyzing", "complete", "error"}
<1>1. IInv /\ [Next]_vars => [Forward]_vars
  <2> SUFFICES ASSUME IInv, Next PROVE Forward
    BY Zenon
  <2>1. CASE Thread \/ Killer \/ Watcher \/ Collector \/ File
    <3>1. UNCHANGED window
      BY Zenon, <2>1, ThreadSteps DEF ThreadStep, IInv, Killer, Watcher, Collector, WritePreamble, WriteEvent,
         Finish, Fail, Write, Quiet, elsewhere, File, Persist, FinishFile, Report, outside
    <3> QED BY Zenon, <3>1 DEF window
  <2>2. CASE StartDevice \/ StartSimulator \/ StartFails \/ Stop
    BY Zenon, <2>2 DEF StartDevice, StartSimulator, StartFails, Stop, CanStart, IsRunning, Busy, Stoppable
  <2>3. CASE Ingest
    BY Zenon, <2>3 DEF Ingest, Shown, Stoppable
  <2>4. CASE AnalysisStarted \/ Ended
    BY Zenon, <2>4 DEF AnalysisStarted, Ended
  <2>5. CASE Finalized
    <3>1. SessionInv' /\ phase' \in {"complete", "error"} /\ phase' # "stopping"
      BY Zenon, <2>5, ReceiveKeepsSession DEF Finalized, Receive, IInv
    <3>2. phase # "stopping"
      BY Zenon, <2>5, FinalizedIsLast DEF IInv
    <3> QED BY Zenon, <3>1, <3>2
  <2> QED BY Zenon, <2>1, <2>2, <2>3, <2>4, <2>5 DEF Next, Receive
<1>2. Spec => [][Forward]_vars
  BY <1>1, IInvCorrect, PTL DEF Spec
<1> QED BY <1>2 DEF PhaseForward
=============================================================================
