------------------------------ MODULE SessionLines ------------------------------
(***************************************************************************)
(* SessionReader (crates/protocol/src/lib.rs): a session file is read line *)
(* by line through a buffer of bounded size.  A file is a sequence of      *)
(* bytes; the newline and a blank are told apart, an "e" alone on its line *)
(* is an event, an "f" a footer, and nothing else is a record.  The file   *)
(* may end anywhere, as it does after a crash.                             *)
(***************************************************************************)
EXTENDS Naturals, Sequences, FiniteSets, SequencesExt

CONSTANTS
  MaxLine,     (* max_line_bytes                                             *)
  Persisted,   (* events_persisted of a footer, whose sum may be wrong       *)
  MaxBytes,    (* bound on the file                                          *)
  None

VARIABLE file

NL == "newline"
Bytes == {NL, "blank", "e", "f"}

Init == file = <<>>
(* The writer: one more byte reaches the file. *)
WriteByte == \E b \in Bytes : Len(file) < MaxBytes /\ file' = Append(file, b)
Next == WriteByte
Spec == Init /\ [][Next]_file

-----------------------------------------------------------------------------
Blank(line) == \A k \in DOMAIN line : line[k] \in {NL, "blank"}
Record(line) ==
  LET text == SelectSeq(line, LAMBDA b : b \notin {NL, "blank"})
  IN  IF Len(text) = 1 THEN text[1] ELSE None

(* How many bytes read_until takes from `input`, at most `limit`. *)
Until(input, limit) ==
  LET ends == {k \in DOMAIN input : input[k] = NL} \cup {Len(input), limit}
  IN  CHOOSE k \in ends : \A j \in ends : k <= j

\* The rest of a line that is too long is read as the next line.
NoDrain(line, rest) == 0

(* What is left of a line that filled the buffer, unless its newline was   *)
(* the last byte to fit.                                                   *)
Drained(line, rest) == IF line[Len(line)] = NL THEN 0 ELSE Until(rest, Len(rest))

Blank0 == [records |-> <<>>, total |-> 0, rejected |-> 0]
Rejected(read) == [read EXCEPT !.total = @ + 1, !.rejected = @ + 1]
Taken(read, line) ==
  IF Blank(line) THEN read
  ELSE IF Record(line) = None THEN Rejected(read)
  ELSE [read EXCEPT !.total = @ + 1, !.records = Append(@, Record(line))]

(* visit *)
Visit(input) ==
  LET Step(s) ==
        LET count == Until(s.input, MaxLine + 1)
            line == SubSeq(s.input, 1, count)
            rest == SubSeq(s.input, count + 1, Len(s.input))
            gone == Drained(line, rest)
        IN  IF count = 0 THEN s
            ELSE IF count > MaxLine
            THEN [input |-> SubSeq(rest, gone + 1, Len(rest)), read |-> Rejected(s.read)]
            ELSE [input |-> rest, read |-> Taken(s.read, line)]
      steps[k \in 0 .. Len(input)] ==
        IF k = 0 THEN [input |-> input, read |-> Blank0] ELSE Step(steps[k - 1])
  IN  steps[Len(input)].read

(* read_events: integrity_ok, which is None without a footer.  `sums` says *)
(* whether the last footer's own counters add up.                          *)
Load(input, sums) ==
  LET read == Visit(input)
      accepted == Len(SelectSeq(read.records, LAMBDA r : r = "e"))
  IN  [accepted |-> accepted, total |-> read.total, rejected |-> read.rejected,
       integrity |-> IF "f" \notin ToSet(read.records) THEN None
                     ELSE sums /\ accepted = Persisted /\ read.rejected = 0]

-----------------------------------------------------------------------------
(* The lines of the file, each with its newline, the last perhaps without. *)
Ends == {k \in DOMAIN file : file[k] = NL \/ k = Len(file)}
LineAt(k) ==
  LET before == {j \in Ends : j < k}
      start == IF before = {} THEN 0 ELSE CHOOSE j \in before : \A i \in before : i <= j
  IN  SubSeq(file, start + 1, k)
Good(k) == Len(LineAt(k)) <= MaxLine /\ Record(LineAt(k)) # None
Idle(k) == Len(LineAt(k)) <= MaxLine /\ Blank(LineAt(k))

(* visit's comment: "Rejected lines never leak their suffix into the next  *)
(* event".  Every line is accepted, skipped or rejected by itself, whatever *)
(* is before it, and a session is intact only if every line that is not    *)
(* blank was a record and the events are as many as the footer says.       *)
LinesAreIndependent ==
  \A sums \in BOOLEAN :
    LET good == {k \in Ends : Good(k)}
        events == {k \in good : Record(LineAt(k)) = "e"}
        loaded == Load(file, sums)
    IN  /\ loaded.accepted = Cardinality(events)
        /\ loaded.total = Cardinality({k \in Ends : ~Idle(k)})
        /\ loaded.rejected = Cardinality({k \in Ends : ~Idle(k) /\ ~Good(k)})
        /\ loaded.integrity = TRUE =>
             sums /\ Cardinality(events) = Persisted /\ \A k \in Ends : Good(k) \/ Idle(k)
=============================================================================
