----------------------------- MODULE AuditTrail -----------------------------
(***************************************************************************)
(* The file of the audit trail: the one writer that appends lines to it,   *)
(* and the researcher's reader that follows it from the host.              *)
(*                                                                         *)
(* A line is three pieces, so that an append can be cut in the middle of   *)
(* the record and between the record and its newline.  Whether there is a  *)
(* gateway to write and a machine to read in is the matter of GuestMachine.*)
(***************************************************************************)
EXTENDS Naturals, Sequences, FiniteSetsExt, SequencesExt

CONSTANTS
  MaxRecords,   \* bounds the records of the trail
  Asked         \* `--lines`: how many lines a follower may ask to begin with;
                \* with none, it begins wherever the file ends just then

ASSUME TrailAssumption == MaxRecords \in Nat /\ Asked \subseteq Nat \ {0}

VARIABLES
  trail,         \* the file
  rest,          \* what is still to be written of the record being appended
  begun,         \* records are numbered as their append begins
  acknowledged,  \* a history: those whose append has returned Ok
  cut,           \* a history: those whose append has not, and will not
  follower       \* the audit command

trailVars == <<trail, rest, begun, acknowledged, cut, follower>>

Record == 1..MaxRecords
Piece == [of : Record, part : {"head", "tail", "end"}]

Head_(r) == [of |-> r, part |-> "head"]
Tail_(r) == [of |-> r, part |-> "tail"]
End_(r) == [of |-> r, part |-> "end"]     \* the newline

Text(r) == <<Head_(r), Tail_(r)>>
Line(r) == Append(Text(r), End_(r))

Follower ==
  [state : {"none", "following", "ended"},
   raw : BOOLEAN,               \* --raw: lines are passed through unparsed
   at : Nat,                    \* how much of the trail tail has passed on
   line : Seq(Piece),           \* the line that is not yet complete
   printed : Seq(Seq(Piece))]

NoFollower ==
  [state |-> "none", raw |-> FALSE, at |-> 0, line |-> <<>>, printed |-> <<>>]

TrailTypeOK ==
  /\ trail \in Seq(Piece)
  /\ rest \in Seq(Piece)
  /\ begun \in 0..MaxRecords
  /\ acknowledged \subseteq Record
  /\ cut \subseteq Record
  /\ follower \in Follower

TrailInit ==
  /\ trail = <<>>
  /\ rest = <<>>
  /\ begun = 0
  /\ acknowledged = {}
  /\ cut = {}
  /\ follower = NoFollower

-----------------------------------------------------------------------------
(***************************************************************************)
(* The writer.                                                             *)
(***************************************************************************)

\* AuditWriter::append: the record and its newline are one buffer.
BeginAppend ==
  /\ rest = <<>> /\ begun < MaxRecords
  /\ begun' = begun + 1
  /\ rest' = Line(begun + 1)
  /\ UNCHANGED <<trail, acknowledged, cut, follower>>

\* Mutant of Put: write() for write_all(), whatever it has taken.
PutOnce ==
  /\ rest # <<>>
  /\ \E k \in 1..Len(rest) : trail' = trail \o SubSeq(rest, 1, k)
  /\ rest' = <<>>
  /\ acknowledged' = acknowledged \cup {begun}
  /\ UNCHANGED <<begun, cut, follower>>

\* write_all(): as much as one write takes.  With the last of it flush()
\* returns.
Put ==
  /\ rest # <<>>
  /\ \E k \in 1..Len(rest) :
       /\ trail' = trail \o SubSeq(rest, 1, k)
       /\ rest' = SubSeq(rest, k + 1, Len(rest))
       /\ acknowledged' = IF k = Len(rest) THEN acknowledged \cup {begun}
                                           ELSE acknowledged
  /\ UNCHANGED <<begun, cut, follower>>

\* The append is not finished, whatever of it is in the file.
Abandoned ==
  /\ rest' = <<>>
  /\ cut' = IF rest # <<>> THEN cut \cup {begun} ELSE cut
  /\ UNCHANGED <<trail, begun, acknowledged>>

\* write_all() fails, as it does when the disk is full; spawn() goes on with
\* the next record.
FailToPut == rest # <<>> /\ Abandoned /\ UNCHANGED follower

-----------------------------------------------------------------------------
(***************************************************************************)
(* The follower.                                                           *)
(***************************************************************************)
IsEnd(piece) == piece.part = "end"

\* Where lines begin; one that has no newline yet is a line to tail.
Begins == {i \in 0..(Len(trail) - 1) : i = 0 \/ IsEnd(trail[i])}

\* `tail -n`: whether the last n lines, or all there are, begin there.
AreLast(n, at) ==
  \/ at = 0 /\ Cardinality(Begins) <= n
  \/ at \in Begins /\ Cardinality({j \in Begins : j >= at}) = n

\* follow(): `tail -n .. -F` is started in the machine.
BeginFollowing ==
  /\ follower.state # "following"
  /\ \E n \in Asked, raw \in BOOLEAN, at \in 0..Len(trail) :
       /\ AreLast(n, at)
       /\ follower' = [NoFollower EXCEPT !.state = "following", !.raw = raw,
                                         !.at = at]
  /\ UNCHANGED <<trail, rest, begun, acknowledged, cut>>

Parses(text) == \E r \in Record : text = Text(r)

\* follow(): one line is passed over when it is blank, and printed, as it is
\* or parsed; one that does not parse ends the command.
Given(f, text) ==
  IF text = <<>> THEN f
  ELSE IF f.raw \/ Parses(text)
  THEN [f EXCEPT !.printed = Append(f.printed, text)]
  ELSE [f EXCEPT !.state = "ended"]

\* Mutant of Consume: the line before is still in the buffer.
ConsumeOnto ==
  LET piece == trail[follower.at + 1]
      f == [follower EXCEPT !.at = follower.at + 1]
  IN  follower' = IF IsEnd(piece) THEN Given(f, follower.line)
                  ELSE [f EXCEPT !.line = Append(follower.line, piece)]

\* Lines::next_line(): a line is complete with its newline.
Consume ==
  LET piece == trail[follower.at + 1]
      f == [follower EXCEPT !.at = follower.at + 1]
  IN  follower' = IF IsEnd(piece)
                  THEN Given([f EXCEPT !.line = <<>>], follower.line)
                  ELSE [f EXCEPT !.line = Append(follower.line, piece)]

\* Mutant of Read: a piece is passed on when there is another after it.
ReadBehind ==
  /\ follower.state = "following"
  /\ follower.at + 1 < Len(trail)
  /\ Consume
  /\ UNCHANGED <<trail, rest, begun, acknowledged, cut>>

\* tail passes on another piece of the trail.
Read ==
  /\ follower.state = "following"
  /\ follower.at < Len(trail)
  /\ Consume
  /\ UNCHANGED <<trail, rest, begun, acknowledged, cut>>

\* follow(): tail's output is at its end.  What there is of a line is a line.
Ended ==
  IF follower.state # "following" THEN follower
  ELSE LET f == [follower EXCEPT !.line = <<>>]
       IN  [(IF follower.line = <<>> THEN f ELSE Given(f, follower.line))
              EXCEPT !.state = "ended"]

LoseFollower ==
  /\ follower.state = "following"
  /\ follower' = Ended
  /\ UNCHANGED <<trail, rest, begun, acknowledged, cut>>

-----------------------------------------------------------------------------
(***************************************************************************)
(* Properties.                                                             *)
(***************************************************************************)
IsText(from, to) ==
  /\ from \in Begins
  /\ from < to /\ to <= Len(trail)
  /\ \A i \in from+1..to : ~ IsEnd(trail[i])

IsLine(from, to) ==
  /\ IsText(from, to)
  /\ to < Len(trail) /\ IsEnd(trail[to + 1])

\* A record whose append returned is a line of its own, and stays one,
\* whatever crashes and failures there are later; only the append before it,
\* cut short, can have left a fragment for it to be glued to (io.rs:9-11).
AcknowledgedIsALine ==
  \A r \in acknowledged :
    r - 1 \notin cut =>
      \E i \in Begins : IsLine(i, i + 2) /\ SubSeq(trail, i + 1, i + 2) = Text(r)

\* What a follower has printed is what the trail says, line for line and
\* without a gap, from where it began; only the last line before its end may
\* be the part of a line that had been written (command/audit.rs:43-59).
PrintedAsRecorded ==
  LET printed == follower.printed
      n == Len(printed)
  IN  n > 0 =>
        \E from \in [1..n -> Begins] : \A i \in 1..n :
          LET to == from[i] + Len(printed[i])
          IN  /\ i < n => from[i + 1] = to + 1
              /\ IF i = n /\ follower.state = "ended"
                 THEN IsText(from[i], to) ELSE IsLine(from[i], to)
              /\ SubSeq(trail, from[i] + 1, to) = printed[i]

Shown(r) ==
  \E i \in DOMAIN follower.printed : Contains(follower.printed[i], Tail_(r))
=============================================================================
