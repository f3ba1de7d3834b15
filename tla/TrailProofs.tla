---------------------------- MODULE TrailProofs ----------------------------
(***************************************************************************)
(* What the steps of the writer and of the reader preserve, for trails of  *)
(* any length.  GuestProofs has the behaviours they are steps of.          *)
(***************************************************************************)
EXTENDS AuditTrail, SequenceTheorems, TLAPS

-----------------------------------------------------------------------------
(***************************************************************************)
(* The invariant.                                                          *)
(***************************************************************************)

\* How much of the record being appended is in the file.
Written == 3 - Len(rest)

\* A line may begin after the first n pieces.
Clean(n) == n \in 0..Len(trail) /\ (n = 0 \/ IsEnd(trail[n]))

\* What is still to be written is the end of one line.
RestIsOfALine ==
  rest # <<>> =>
    /\ begun \in Record /\ begun \notin acknowledged \cup cut
    /\ Len(rest) \in 1..3
    /\ \A i \in 1..Len(rest) : rest[i] = Line(begun)[Written + i]

Numbered == acknowledged \cup cut \subseteq 1..begun

\* An append that is not cut leaves the file where a line may begin.
EndsClean == rest = <<>> /\ begun \notin cut => Clean(Len(trail))

\* The record being appended stands where a line may begin, unless the one
\* before it was cut.
ContinuesItsLine ==
  rest # <<>> /\ begun - 1 \notin cut =>
    /\ Clean(Len(trail) - Written)
    /\ \A i \in 1..Written : trail[Len(trail) - Written + i] = Line(begun)[i]

AcknowledgedStands ==
  \A r \in acknowledged :
    r - 1 \notin cut =>
      \E i \in 0..(Len(trail) - 3) :
        /\ Clean(i)
        /\ \A k \in 1..3 : trail[i + k] = Line(r)[k]

TrailInv ==
  /\ RestIsOfALine
  /\ Numbered
  /\ EndsClean
  /\ ContinuesItsLine
  /\ AcknowledgedStands

-----------------------------------------------------------------------------
LEMMA Bounds == MaxRecords \in Nat /\ Asked \subseteq Nat \ {0}
BY TrailAssumption

LEMMA LineIs ==
  ASSUME NEW r \in Record
  PROVE  /\ Line(r) \in Seq(Piece)
         /\ Len(Line(r)) = 3
         /\ Line(r)[1] = Head_(r)
         /\ Line(r)[2] = Tail_(r)
         /\ Line(r)[3] = End_(r)
         /\ Line(r) # <<>>
  BY DEF Line, Text, Head_, Tail_, End_, Piece

LEMMA NextRecord ==
  ASSUME TrailTypeOK, begun < MaxRecords
  PROVE  begun + 1 \in Record /\ begun + 1 \in 0..MaxRecords
  BY Bounds DEF TrailTypeOK, Record

\* An append's first k pieces go to the end of the file.
LEMMA PutIs ==
  ASSUME TrailTypeOK, NEW k \in 1..Len(rest)
  PROVE  LET t == trail \o SubSeq(rest, 1, k)
             s == SubSeq(rest, k + 1, Len(rest))
         IN  /\ t \in Seq(Piece) /\ s \in Seq(Piece)
             /\ Len(t) = Len(trail) + k
             /\ Len(s) = Len(rest) - k
             /\ \A i \in 1..Len(trail) : t[i] = trail[i]
             /\ \A i \in 1..k : t[Len(trail) + i] = rest[i]
             /\ \A i \in 1..Len(s) : s[i] = rest[k + i]
<1> DEFINE u == SubSeq(rest, 1, k)
           s == SubSeq(rest, k + 1, Len(rest))
<1>1. trail \in Seq(Piece) /\ rest \in Seq(Piece) /\ Len(rest) \in Nat
  BY LenProperties DEF TrailTypeOK
<1>2. \A i \in 1..Len(rest) : rest[i] \in Piece
  BY <1>1, ElementOfSeq
<1>3. u \in Seq(Piece) /\ Len(u) = k /\ \A i \in 1..k : u[i] = rest[i]
  <2>1. /\ u \in Seq(Piece)
        /\ Len(u) = IF 1 <= k THEN k - 1 + 1 ELSE 0
        /\ \A i \in 1..k - 1 + 1 : u[i] = rest[1 + i - 1]
    BY <1>1, <1>2, SubSeqProperties
  <2> QED BY <2>1, <1>1
<1>4. s \in Seq(Piece) /\ Len(s) = Len(rest) - k
      /\ \A i \in 1..Len(s) : s[i] = rest[k + i]
  <2>1. /\ s \in Seq(Piece)
        /\ Len(s) = IF k + 1 <= Len(rest) THEN Len(rest) - (k + 1) + 1 ELSE 0
        /\ \A i \in 1..Len(rest) - (k + 1) + 1 : s[i] = rest[k + 1 + i - 1]
    BY <1>1, <1>2, SubSeqProperties
  <2> QED BY <2>1, <1>1
<1>5. /\ trail \o u \in Seq(Piece)
      /\ Len(trail \o u) = Len(trail) + Len(u)
      /\ \A i \in 1 .. Len(trail) + Len(u) :
           (trail \o u)[i] = IF i <= Len(trail) THEN trail[i] ELSE u[i - Len(trail)]
  BY <1>1, <1>3, ConcatProperties
<1> QED
  <2>1. Len(trail) \in Nat
    BY <1>1, LenProperties
  <2> HIDE DEF u, s
  <2>2. \A i \in 1..Len(trail) : (trail \o u)[i] = trail[i]
    BY <2>1, <1>5, <1>3
  <2>3. ASSUME NEW i \in 1..k PROVE (trail \o u)[Len(trail) + i] = rest[i]
    <3>1. Len(trail) + i \in 1..Len(trail) + Len(u) /\ ~ (Len(trail) + i <= Len(trail))
      BY <2>1, <1>3
    <3>2. (trail \o u)[Len(trail) + i] = u[Len(trail) + i - Len(trail)]
      BY <3>1, <1>5
    <3>3. Len(trail) + i - Len(trail) = i
      BY <2>1
    <3> QED BY <3>2, <3>3, <1>3
  <2> QED BY <2>2, <2>3, <1>3, <1>4, <1>5 DEF u, s

-----------------------------------------------------------------------------
(***************************************************************************)
(* Types.                                                                  *)
(***************************************************************************)
LEMMA InitTypes == TrailInit => TrailTypeOK
BY Bounds, EmptySeq DEF TrailInit, TrailTypeOK, NoFollower, Follower, Record

LEMMA SameTypes == TrailTypeOK /\ UNCHANGED trailVars => TrailTypeOK'
BY DEF TrailTypeOK, trailVars

LEMMA BeginAppendTypes == TrailTypeOK /\ BeginAppend => TrailTypeOK'
<1> SUFFICES ASSUME TrailTypeOK, BeginAppend PROVE TrailTypeOK'
  OBVIOUS
<1>1. begun + 1 \in Record /\ begun + 1 \in 0..MaxRecords
  BY NextRecord DEF BeginAppend
<1>2. Line(begun + 1) \in Seq(Piece)
  BY <1>1, LineIs
<1> QED BY <1>1, <1>2 DEF BeginAppend, TrailTypeOK

\* An append under way has the number of a record.
LEMMA PutTypes ==
  TrailTypeOK /\ RestIsOfALine /\ Put => TrailTypeOK'
<1> SUFFICES ASSUME TrailTypeOK, RestIsOfALine, Put PROVE TrailTypeOK'
  OBVIOUS
<1>1. PICK k \in 1..Len(rest) :
        /\ trail' = trail \o SubSeq(rest, 1, k)
        /\ rest' = SubSeq(rest, k + 1, Len(rest))
        /\ acknowledged' = IF k = Len(rest) THEN acknowledged \cup {begun}
                                            ELSE acknowledged
  BY DEF Put
<1>2. trail' \in Seq(Piece) /\ rest' \in Seq(Piece)
  BY <1>1, PutIs
<1>3. begun \in Record
  BY DEF Put, RestIsOfALine
<1> QED BY <1>1, <1>2, <1>3 DEF Put, TrailTypeOK

LEMMA AbandonedTypes ==
  TrailTypeOK /\ RestIsOfALine /\ Abandoned /\ follower' \in Follower
    => TrailTypeOK'
BY EmptySeq DEF TrailTypeOK, RestIsOfALine, Abandoned

LEMMA BeginFollowingTypes == TrailTypeOK /\ BeginFollowing => TrailTypeOK'
<1> SUFFICES ASSUME TrailTypeOK, BeginFollowing PROVE TrailTypeOK'
  OBVIOUS
<1>1. PICK n \in Asked, raw \in BOOLEAN, at \in 0..Len(trail) :
        follower' = [NoFollower EXCEPT !.state = "following", !.raw = raw,
                                       !.at = at]
  BY DEF BeginFollowing
<1>2. at \in Nat
  BY LenProperties DEF TrailTypeOK
<1>3. follower' \in Follower
  BY <1>1, <1>2, EmptySeq DEF NoFollower, Follower
<1> QED BY <1>3 DEF BeginFollowing, TrailTypeOK

LEMMA LineType ==
  ASSUME NEW f \in Follower, NEW l \in Seq(Piece)
  PROVE  [f EXCEPT !.line = l] \in Follower
  BY DEF Follower

LEMMA AtType ==
  ASSUME NEW f \in Follower, NEW n \in Nat
  PROVE  [f EXCEPT !.at = n] \in Follower
  BY DEF Follower

LEMMA GivenType ==
  ASSUME NEW f \in Follower, NEW text \in Seq(Piece)
  PROVE  Given(f, text) \in Follower
<1>1. Append(f.printed, text) \in Seq(Seq(Piece))
  BY DEF Follower
<1> QED BY <1>1 DEF Given, Follower

LEMMA ReadTypes == TrailTypeOK /\ Read => TrailTypeOK'
<1> SUFFICES ASSUME TrailTypeOK, Read PROVE TrailTypeOK'
  OBVIOUS
<1> DEFINE piece == trail[follower.at + 1]
           f == [follower EXCEPT !.at = follower.at + 1]
<1>1. follower \in Follower /\ follower.at \in Nat
      /\ follower.line \in Seq(Piece)
  BY DEF TrailTypeOK, Follower
<1>2. f \in Follower
  <2>1. follower.at + 1 \in Nat
    BY <1>1
  <2> QED BY <1>1, <2>1, AtType
<1>3. piece \in Piece
  <2>1. follower.at + 1 \in 1..Len(trail)
    BY <1>1, LenProperties DEF Read, TrailTypeOK
  <2> QED BY <2>1, ElementOfSeq DEF TrailTypeOK
<1> HIDE DEF f
<1>4. [f EXCEPT !.line = Append(follower.line, piece)] \in Follower
  <2>1. Append(follower.line, piece) \in Seq(Piece)
    BY <1>1, <1>3
  <2> QED BY <2>1, <1>2, LineType
<1>5. follower' \in Follower
  <2>1. [f EXCEPT !.line = <<>>] \in Follower
    BY <1>2, EmptySeq, LineType
  <2>2. Given([f EXCEPT !.line = <<>>], follower.line) \in Follower
    BY <1>1, <2>1, GivenType
  <2> QED BY <2>2, <1>4 DEF Read, Consume, f
<1> QED BY <1>5 DEF Read, TrailTypeOK

LEMMA EndedType == TrailTypeOK => Ended \in Follower
<1> SUFFICES ASSUME TrailTypeOK, follower.state = "following"
             PROVE  Ended \in Follower
  BY DEF Ended, TrailTypeOK
<1> DEFINE f == [follower EXCEPT !.line = <<>>]
<1>1. follower \in Follower /\ f \in Follower /\ follower.line \in Seq(Piece)
  BY EmptySeq DEF TrailTypeOK, Follower
<1>2. Given(f, follower.line) \in Follower
  BY <1>1, GivenType
<1>3. \A g \in Follower : [g EXCEPT !.state = "ended"] \in Follower
  BY DEF Follower
<1> QED
  <2>1. Ended = [(IF follower.line = <<>> THEN f ELSE Given(f, follower.line))
                   EXCEPT !.state = "ended"]
    BY DEF Ended
  <2> HIDE DEF f
  <2> QED BY <2>1, <1>1, <1>2, <1>3

LEMMA LoseFollowerTypes == TrailTypeOK /\ LoseFollower => TrailTypeOK'
BY EndedType DEF LoseFollower, TrailTypeOK

-----------------------------------------------------------------------------
(***************************************************************************)
(* The steps of the writer, and the invariant.                             *)
(***************************************************************************)
LEMMA InitTrail == TrailInit => TrailInv
<1> SUFFICES ASSUME TrailInit PROVE TrailInv
  OBVIOUS
<1>1. Len(trail) = 0
  BY DEF TrailInit
<1> QED
  BY <1>1 DEF TrailInit, TrailInv, RestIsOfALine, Numbered, EndsClean,
              ContinuesItsLine, AcknowledgedStands, Clean

\* The invariant is about the file and the writer only.
LEMMA SameTrail ==
  TrailInv /\ UNCHANGED <<trail, rest, begun, acknowledged, cut>> => TrailInv'
BY DEF TrailInv, RestIsOfALine, Numbered, EndsClean, ContinuesItsLine,
       AcknowledgedStands, Clean, Written

LEMMA BeginAppendTrail == TrailTypeOK /\ TrailInv /\ BeginAppend => TrailInv'
<1> SUFFICES ASSUME TrailTypeOK, TrailInv, BeginAppend PROVE TrailInv'
  OBVIOUS
<1> DEFINE r == begun + 1
<1>1. begun \in Nat /\ r \in Record /\ Len(trail) \in Nat
  BY NextRecord, LenProperties, Bounds DEF TrailTypeOK, BeginAppend
<1>2. /\ begun' = r /\ rest' = Line(r) /\ Len(rest') = 3
      /\ UNCHANGED <<trail, acknowledged, cut>>
  BY <1>1, LineIs DEF BeginAppend
<1>3. Written' = 0
  BY <1>2 DEF Written
<1>4. acknowledged \cup cut \subseteq 1..begun
  BY DEF TrailInv, Numbered
<1>5. RestIsOfALine'
  <2>1. r \notin acknowledged \cup cut
    BY <1>1, <1>4
  <2> QED BY <1>1, <1>2, <1>3, <2>1 DEF RestIsOfALine
<1>6. Numbered'
  BY <1>1, <1>2, <1>4 DEF Numbered
<1>7. EndsClean'
  <2>1. rest' # <<>>
    BY <1>1, <1>2, LineIs
  <2> QED BY <2>1 DEF EndsClean
<1>8. ContinuesItsLine'
  <2>1. begun' - 1 = begun
    BY <1>1, <1>2
  <2>2. begun \notin cut => Clean(Len(trail))
    BY DEF TrailInv, EndsClean, BeginAppend
  <2>3. Len(trail) - Written' = Len(trail)
    BY <1>1, <1>3
  <2> QED BY <1>2, <1>3, <2>1, <2>2, <2>3 DEF ContinuesItsLine, Clean
<1>9. AcknowledgedStands'
  BY <1>2 DEF TrailInv, AcknowledgedStands, Clean
<1> QED BY <1>5, <1>6, <1>7, <1>8, <1>9 DEF TrailInv

LEMMA AbandonedTrail == TrailTypeOK /\ TrailInv /\ Abandoned => TrailInv'
<1> SUFFICES ASSUME TrailTypeOK, TrailInv, Abandoned PROVE TrailInv'
  OBVIOUS
<1>1. CASE rest = <<>>
  BY <1>1, SameTrail DEF Abandoned
<1>2. CASE rest # <<>>
  <2>1. rest' = <<>> /\ cut' = cut \cup {begun}
        /\ UNCHANGED <<trail, begun, acknowledged>>
    BY <1>2 DEF Abandoned
  <2>2. begun \in 1..begun
    BY <1>2, Bounds DEF TrailInv, RestIsOfALine, Record
  <2>3. RestIsOfALine' /\ ContinuesItsLine' /\ EndsClean'
    BY <2>1 DEF RestIsOfALine, ContinuesItsLine, EndsClean
  <2>4. Numbered'
    BY <2>1, <2>2 DEF TrailInv, Numbered
  <2>5. AcknowledgedStands'
    BY <2>1 DEF TrailInv, AcknowledgedStands, Clean
  <2> QED BY <2>3, <2>4, <2>5 DEF TrailInv
<1> QED BY <1>1, <1>2

\* One write takes k pieces of what is left.
LEMMA PutTrail == TrailTypeOK /\ TrailInv /\ Put => TrailInv'
<1> SUFFICES ASSUME TrailTypeOK, TrailInv, Put PROVE TrailInv'
  OBVIOUS
<1>1. PICK k \in 1..Len(rest) :
        /\ trail' = trail \o SubSeq(rest, 1, k)
        /\ rest' = SubSeq(rest, k + 1, Len(rest))
        /\ acknowledged' = IF k = Len(rest) THEN acknowledged \cup {begun}
                                            ELSE acknowledged
  BY DEF Put
<1>2. begun' = begun /\ cut' = cut /\ rest # <<>>
  BY DEF Put
<1>3. /\ begun \in Record /\ begun \notin acknowledged \cup cut
      /\ Len(rest) \in 1..3
      /\ \A i \in 1..Len(rest) : rest[i] = Line(begun)[Written + i]
      /\ acknowledged \cup cut \subseteq 1..begun
  BY <1>2 DEF TrailInv, RestIsOfALine, Numbered
<1>4. Len(trail) \in Nat /\ k \in 1..3 /\ k <= Len(rest)
  BY <1>3, LenProperties DEF TrailTypeOK
<1>5. /\ trail' \in Seq(Piece) /\ rest' \in Seq(Piece)
      /\ Len(trail') = Len(trail) + k
      /\ Len(rest') = Len(rest) - k
      /\ \A i \in 1..Len(trail) : trail'[i] = trail[i]
      /\ \A i \in 1..k : trail'[Len(trail) + i] = rest[i]
      /\ \A i \in 1..Len(rest') : rest'[i] = rest[k + i]
  BY <1>1, PutIs
<1>6. Written \in 0..2 /\ Written' = Written + k
  BY SMTT(20), <1>3, <1>4, <1>5 DEF Written
<1>7. rest' = <<>> <=> k = Len(rest)
  <2>1. rest' = <<>> <=> Len(rest') = 0
    BY <1>5, EmptySeq
  <2> QED BY <2>1, <1>3, <1>4, <1>5
<1>8. \A n : Clean(n) => Clean(n)'
  <2> SUFFICES ASSUME NEW n, Clean(n) PROVE Clean(n)'
    OBVIOUS
  <2>1. n \in 0..Len(trail')
    BY <1>4, <1>5 DEF Clean
  <2>2. n = 0 \/ trail'[n] = trail[n]
    BY <1>5 DEF Clean
  <2> QED BY <2>1, <2>2 DEF Clean, IsEnd
<1>9. RestIsOfALine'
  <2> SUFFICES ASSUME rest' # <<>>
               PROVE  /\ begun \notin acknowledged'
                      /\ Len(rest') \in 1..3
                      /\ \A i \in 1..Len(rest') :
                           rest'[i] = Line(begun)[Written' + i]
    BY <1>2, <1>3 DEF RestIsOfALine
  <2>1. k # Len(rest) /\ acknowledged' = acknowledged
    BY <1>1, <1>7
  <2>2. Len(rest') \in 1..3
    <3> DEFINE l == Len(rest)
               r == Len(rest')
    <3>1. r = l - k /\ l \in 1..3 /\ k \in 1..3 /\ k <= l /\ k # l
      BY <1>3, <1>4, <1>5, <2>1
    <3> HIDE DEF l, r
    <3>2. r \in 1..3
      BY <3>1
    <3> QED BY <3>2 DEF r
  <2>3. ASSUME NEW i \in 1..Len(rest')
        PROVE  rest'[i] = Line(begun)[Written' + i]
    <3>1. k + i \in 1..Len(rest)
      <4>1. Len(rest') = Len(rest) - k
        BY <1>5
      <4> QED BY <4>1, <1>3, <1>4
    <3>3. rest'[i] = rest[k + i]
      BY <1>5
    <3>2. Written + (k + i) = Written' + i
      BY <1>4, <1>6, <2>2
    <3> QED BY <3>1, <3>2, <3>3, <1>3
  <2> QED BY <2>1, <2>2, <2>3, <1>3
<1>10. Numbered'
  <2>1. begun \in 1..begun
    BY <1>3, Bounds DEF Record
  <2> QED BY <1>1, <1>2, <1>3, <2>1 DEF Numbered
<1>11. EndsClean'
  <2> SUFFICES ASSUME rest' = <<>> PROVE Clean(Len(trail))'
    BY DEF EndsClean
  <2>1. k = Len(rest)
    BY <1>7
  <2>2. trail'[Len(trail')] = Line(begun)[3]
    <3>1. k \in 1..Len(rest) /\ Written + k = 3
      BY <2>1, <1>3, <1>4 DEF Written
    <3> QED BY <3>1, <1>3, <1>4, <1>5
  <2>3. IsEnd(trail'[Len(trail')])
    <3>1. Line(begun)[3] = End_(begun)
      BY <1>3, LineIs
    <3>2. IsEnd(End_(begun))
      BY DEF IsEnd, End_
    <3> QED BY <2>2, <3>1, <3>2
  <2>4. Len(trail') \in 0..Len(trail')
    BY <1>4, <1>5
  <2> QED BY <2>3, <2>4 DEF Clean
<1>12. ASSUME begun - 1 \notin cut
       PROVE  /\ Clean(Len(trail) - Written)
              /\ Len(trail) - Written \in 0..Len(trail)
              /\ \A i \in 1..Written + k :
                   trail'[Len(trail) - Written + i] = Line(begun)[i]
  <2>1. /\ Clean(Len(trail) - Written)
        /\ \A i \in 1..Written : trail[Len(trail) - Written + i] = Line(begun)[i]
    BY <1>2, <1>12 DEF TrailInv, ContinuesItsLine
  <2>2. Len(trail) - Written \in 0..Len(trail)
    BY <2>1 DEF Clean
  <2>3. ASSUME NEW i \in 1..Written + k
        PROVE  trail'[Len(trail) - Written + i] = Line(begun)[i]
    <3>1. CASE i \in 1..Written
      <4>1. Len(trail) - Written + i \in 1..Len(trail)
        BY <3>1, <2>2, <1>4, <1>6
      <4> QED BY <4>1, <3>1, <2>1, <1>5
    <3>2. CASE i \notin 1..Written
      <4>1. PICK j \in 1..k : i = Written + j
        <5>1. i - Written \in 1..k /\ i = Written + (i - Written)
          BY <3>2, <1>4, <1>6
        <5> QED BY <5>1
      <4>2. Len(trail) - Written + i = Len(trail) + j
        BY <4>1, <1>4, <1>6
      <4>3. j \in 1..Len(rest)
        BY <4>1, <1>3, <1>4
      <4> QED BY <4>1, <4>2, <4>3, <1>3, <1>5
    <3> QED BY <3>1, <3>2
  <2> QED BY <2>1, <2>2, <2>3
<1>13. ContinuesItsLine'
  <2> SUFFICES ASSUME begun - 1 \notin cut
               PROVE  /\ Clean(Len(trail) - Written)'
                      /\ \A i \in 1..Written' :
                           trail'[Len(trail') - Written' + i] = Line(begun)[i]
    BY <1>2 DEF ContinuesItsLine
  <2>1. Len(trail') - Written' = Len(trail) - Written
    BY <1>4, <1>5, <1>6
  <2>2. Clean(Len(trail) - Written)
    BY <1>12
  <2>3. Clean(Len(trail) - Written)'
    BY <2>1, <2>2, <1>8 DEF Clean
  <2> QED BY <2>1, <2>3, <1>6, <1>12
<1>14. AcknowledgedStands'
  <2> SUFFICES ASSUME NEW r \in acknowledged', r - 1 \notin cut
               PROVE  \E i \in 0..(Len(trail') - 3) :
                        /\ Clean(i)'
                        /\ \A n \in 1..3 : trail'[i + n] = Line(r)[n]
    BY <1>2 DEF AcknowledgedStands, Clean
  <2>1. CASE r \in acknowledged
    <3>1. PICK i \in 0..(Len(trail) - 3) :
            Clean(i) /\ \A n \in 1..3 : trail[i + n] = Line(r)[n]
      BY <2>1 DEF TrailInv, AcknowledgedStands
    <3>2. i \in 0..(Len(trail') - 3) /\ \A n \in 1..3 : i + n \in 1..Len(trail)
      BY <1>4, <1>5
    <3>3. \A n \in 1..3 : trail'[i + n] = Line(r)[n]
      BY <3>1, <3>2, <1>5
    <3> QED BY <3>1, <3>2, <3>3, <1>8
  <2>2. CASE r \notin acknowledged
    <3>1. r = begun /\ k = Len(rest)
      BY <2>2, <1>1
    <3>2. Written + k = 3
      BY <3>1, <1>3 DEF Written
    <3> DEFINE i == Len(trail) - Written
    <3>3. Clean(i) /\ i \in 0..Len(trail)
          /\ \A n \in 1..3 : trail'[i + n] = Line(r)[n]
      BY <3>1, <3>2, <1>12
    <3>4. i \in 0..(Len(trail') - 3)
      BY <3>2, <3>3, <1>4, <1>5, <1>6
    <3> HIDE DEF i
    <3> QED BY <3>3, <3>4, <1>8
  <2> QED BY <2>1, <2>2
<1> QED BY <1>9, <1>10, <1>11, <1>13, <1>14 DEF TrailInv

\* What the invariant is for.
LEMMA StandsAsALine == TrailTypeOK /\ TrailInv => AcknowledgedIsALine
<1> SUFFICES ASSUME TrailTypeOK, TrailInv,
                    NEW r \in acknowledged, r - 1 \notin cut
             PROVE  \E i \in Begins :
                      IsLine(i, i + 2) /\ SubSeq(trail, i + 1, i + 2) = Text(r)
  BY DEF AcknowledgedIsALine
<1>1. PICK i \in 0..(Len(trail) - 3) :
        Clean(i) /\ \A k \in 1..3 : trail[i + k] = Line(r)[k]
  BY DEF TrailInv, AcknowledgedStands
<1>2. Len(trail) \in Nat /\ r \in Record
  BY LenProperties DEF TrailTypeOK
<1>3. trail[i + 1] = Head_(r) /\ trail[i + 2] = Tail_(r) /\ trail[i + 3] = End_(r)
  BY <1>1, <1>2, LineIs
<1>4. i \in Begins
  BY <1>1, <1>2 DEF Begins, Clean
<1>5. IsLine(i, i + 2)
  <2>1. \A j \in i+1..i+2 : ~ IsEnd(trail[j])
    <3>1. ~ IsEnd(trail[i + 1]) /\ ~ IsEnd(trail[i + 2])
      BY <1>3 DEF IsEnd, Head_, Tail_
    <3>2. \A j \in i+1..i+2 : j = i + 1 \/ j = i + 2
      BY <1>2
    <3> QED BY <3>1, <3>2
  <2>2. i + 2 + 1 = i + 3 /\ i < i + 2 /\ i + 2 <= Len(trail) /\ i + 2 < Len(trail)
    BY <1>2
  <2>3. IsEnd(trail[i + 3])
    BY <1>3 DEF IsEnd, End_
  <2> QED BY <1>4, <2>1, <2>2, <2>3 DEF IsLine, IsText
<1>6. SubSeq(trail, i + 1, i + 2) = Text(r)
  <2>1. \A j \in i + 1 .. i + 2 : trail[j] \in Piece
    <3>1. \A j \in i + 1 .. i + 2 : j \in 1..Len(trail)
      BY <1>2
    <3> QED BY <3>1, ElementOfSeq DEF TrailTypeOK
  <2>2. /\ SubSeq(trail, i + 1, i + 2) \in Seq(Piece)
        /\ Len(SubSeq(trail, i + 1, i + 2)) = 2
        /\ SubSeq(trail, i + 1, i + 2)[1] = trail[i + 1]
        /\ SubSeq(trail, i + 1, i + 2)[2] = trail[i + 2]
    <3>1. i + 1 \in Int /\ i + 2 \in Int
      BY <1>2
    <3>2. /\ SubSeq(trail, i + 1, i + 2) \in Seq(Piece)
          /\ Len(SubSeq(trail, i + 1, i + 2))
               = IF i + 1 <= i + 2 THEN i + 2 - (i + 1) + 1 ELSE 0
          /\ \A j \in 1 .. i + 2 - (i + 1) + 1 :
               SubSeq(trail, i + 1, i + 2)[j] = trail[i + 1 + j - 1]
      BY <2>1, <3>1, SubSeqProperties
    <3> DEFINE s == SubSeq(trail, i + 1, i + 2)
    <3>3. i + 2 - (i + 1) + 1 = 2 /\ i + 1 + 1 - 1 = i + 1 /\ i + 1 + 2 - 1 = i + 2
          /\ i + 1 <= i + 2
      BY <1>2
    <3>4. 1 \in 1..i + 2 - (i + 1) + 1 /\ 2 \in 1..i + 2 - (i + 1) + 1
      BY <3>3
    <3> HIDE DEF s
    <3> QED BY <3>2, <3>3, <3>4 DEF s
  <2>3. Text(r) \in Seq(Piece) /\ Len(Text(r)) = 2
        /\ Text(r)[1] = Head_(r) /\ Text(r)[2] = Tail_(r)
    BY <1>2 DEF Text, Head_, Tail_, Piece
  <2>4. \A j \in 1..2 : SubSeq(trail, i + 1, i + 2)[j] = Text(r)[j]
    <3>1. \A j \in 1..2 : j = 1 \/ j = 2
      OBVIOUS
    <3> QED BY <2>2, <2>3, <3>1, <1>3
  <2> QED BY <2>2, <2>3, <2>4, SeqEqual
<1> QED BY <1>4, <1>5, <1>6
-----------------------------------------------------------------------------
(***************************************************************************)
(* The reader.                                                             *)
(***************************************************************************)
\* The trail has no line that is blank: a newline follows a piece of text ...
NoBlankLine ==
  \A i \in 1..Len(trail) :
    IsEnd(trail[i]) => i > 1 /\ ~ IsEnd(trail[i - 1])

\* ... and so will the one of the record being appended.
EndsInText ==
  rest # <<>> /\ Written > 0 =>
    Len(trail) > 0 /\ ~ IsEnd(trail[Len(trail)])

FileInv == NoBlankLine /\ EndsInText

\* The text stands in t after its first n pieces, where a line may begin;
\* and with its newline after it.
Stands(t, text, n) ==
  /\ n \in Nat
  /\ n = 0 \/ IsEnd(t[n])
  /\ n + Len(text) <= Len(t)
  /\ \A k \in 1..Len(text) : t[n + k] = text[k] /\ ~ IsEnd(text[k])

Ends(t, text, n) ==
  n + Len(text) < Len(t) /\ IsEnd(t[n + Len(text) + 1])

\* The lines stand in t, each where from says, one after the other.
StandFrom(t, lines, from) ==
  /\ from \in [1..Len(lines) -> Nat]
  /\ \A i \in 1..Len(lines) :
       /\ Len(lines[i]) > 0 /\ Stands(t, lines[i], from[i])
       /\ i < Len(lines) => Ends(t, lines[i], from[i])
       /\ i < Len(lines) => from[i + 1] = from[i] + Len(lines[i]) + 1

\* A reader f that follows t is in the middle of a line ...
LineStands(t, f) ==
  f.state = "following" =>
    /\ f.at <= Len(t)
    /\ Len(f.line) <= f.at
    /\ Stands(t, f.line, f.at - Len(f.line))

\* ... and that is the one after the last it printed, which is a whole line
\* unless it has ended.
GoesOn(t, f, from) ==
  LET n == Len(f.printed) IN
    /\ f.state # "ended" /\ n > 0 => Ends(t, f.printed[n], from[n])
    /\ f.state = "following" /\ n > 0 =>
         f.at - Len(f.line) = from[n] + Len(f.printed[n]) + 1

Reads(t, f) ==
  /\ LineStands(t, f)
  /\ \E from \in [1..Len(f.printed) -> Nat] :
       StandFrom(t, f.printed, from) /\ GoesOn(t, f, from)

LEMMA InitReads == TrailInit => FileInv /\ Reads(trail, follower)
<1> SUFFICES ASSUME TrailInit PROVE FileInv /\ Reads(trail, follower)
  OBVIOUS
<1>1. /\ trail = <<>> /\ Len(trail) = 0 /\ rest = <<>>
      /\ follower.state = "none" /\ Len(follower.printed) = 0
  BY DEF TrailInit, NoFollower
<1>2. FileInv
  BY <1>1 DEF FileInv, NoBlankLine, EndsInText
<1>3. [i \in {} |-> 0] \in [1..Len(follower.printed) -> Nat]
  BY <1>1
<1>4. \A from \in [1..Len(follower.printed) -> Nat] :
        StandFrom(trail, follower.printed, from) /\ GoesOn(trail, follower, from)
  BY <1>1 DEF StandFrom, GoesOn
<1>5. LineStands(trail, follower)
  BY <1>1 DEF LineStands
<1> QED BY <1>2, <1>3, <1>4, <1>5 DEF Reads

\* What stands in the trail goes on standing there when the trail grows.
LEMMA GrownStands ==
  ASSUME NEW t \in Seq(Piece), NEW u \in Seq(Piece),
         Len(t) <= Len(u), \A i \in 1..Len(t) : u[i] = t[i]
  PROVE  /\ \A text \in Seq(Piece) : \A n : Stands(t, text, n) => Stands(u, text, n)
         /\ \A text \in Seq(Piece), n \in Nat :
              Ends(t, text, n) => Ends(u, text, n)
<1>1. Len(t) \in Nat /\ Len(u) \in Nat /\ \A text \in Seq(Piece) : Len(text) \in Nat
  BY LenProperties
<1>2. ASSUME NEW text \in Seq(Piece), NEW n, Stands(t, text, n)
      PROVE  Stands(u, text, n)
  <2>1. n \in Nat /\ n + Len(text) <= Len(t) /\ Len(text) \in Nat
    BY <1>1, <1>2 DEF Stands
  <2>2. n = 0 \/ u[n] = t[n]
    BY <1>1, <2>1
  <2>3. \A k \in 1..Len(text) : u[n + k] = t[n + k]
    BY <1>1, <2>1
  <2> QED BY <1>1, <1>2, <2>1, <2>2, <2>3 DEF Stands
<1>3. ASSUME NEW text \in Seq(Piece), NEW n \in Nat, Ends(t, text, n)
      PROVE  Ends(u, text, n)
  <2>1. n + Len(text) + 1 \in 1..Len(t)
    BY <1>1, <1>3 DEF Ends
  <2> QED BY <1>1, <1>3, <2>1 DEF Ends
<1> QED BY <1>2, <1>3

LEMMA GrownReads ==
  ASSUME NEW t \in Seq(Piece), NEW u \in Seq(Piece), NEW f \in Follower,
         Len(t) <= Len(u), \A i \in 1..Len(t) : u[i] = t[i],
         Reads(t, f)
  PROVE  Reads(u, f)
<1>1. /\ Len(t) \in Nat /\ Len(u) \in Nat
      /\ f.line \in Seq(Piece) /\ f.at \in Nat
      /\ f.printed \in Seq(Seq(Piece)) /\ Len(f.printed) \in Nat
  BY LenProperties DEF Follower
<1>2. LineStands(u, f)
  <2> SUFFICES ASSUME f.state = "following"
               PROVE  /\ f.at <= Len(u) /\ Len(f.line) <= f.at
                      /\ Stands(u, f.line, f.at - Len(f.line))
    BY DEF LineStands
  <2>1. /\ f.at <= Len(t) /\ Len(f.line) <= f.at
        /\ Stands(t, f.line, f.at - Len(f.line))
    BY DEF Reads, LineStands
  <2> QED BY <1>1, <2>1, GrownStands
<1>3. PICK from \in [1..Len(f.printed) -> Nat] :
        StandFrom(t, f.printed, from) /\ GoesOn(t, f, from)
  BY DEF Reads
<1>4. \A i \in 1..Len(f.printed) : f.printed[i] \in Seq(Piece)
  BY <1>1, ElementOfSeq
<1>5. StandFrom(u, f.printed, from)
  BY <1>3, <1>4, GrownStands DEF StandFrom
<1>6. GoesOn(u, f, from)
  <2> DEFINE n == Len(f.printed)
  <2>1. n \in Nat /\ from \in [1..n -> Nat]
    BY <1>1, <1>3
  <2> HIDE DEF n
  <2>2. n > 0 => n \in 1..n
    BY <2>1
  <2>3. n > 0 => from[n] \in Nat
    BY <2>1, <2>2
  <2>4. n > 0 => f.printed[n] \in Seq(Piece)
    BY <2>2, <1>4 DEF n
  <2>5. f.state # "ended" /\ n > 0 => Ends(t, f.printed[n], from[n])
    BY <1>3 DEF GoesOn, n
  <2>6. f.state # "ended" /\ n > 0 => Ends(u, f.printed[n], from[n])
    BY <2>3, <2>4, <2>5, GrownStands
  <2> QED BY <1>3, <2>6 DEF GoesOn, n
<1> QED BY <1>2, <1>3, <1>5, <1>6 DEF Reads

\* The reader ends up with one line more, the one it was in the middle of.
LEMMA OneLineMore ==
  ASSUME NEW t \in Seq(Piece), NEW f \in Follower,
         f.state = "following", Len(f.line) > 0, LineStands(t, f),
         NEW from \in [1..Len(f.printed) -> Nat],
         StandFrom(t, f.printed, from), GoesOn(t, f, from)
  PROVE  LET n == Len(f.printed)
             more == [i \in 1..n + 1 |->
                        IF i = n + 1 THEN f.at - Len(f.line) ELSE from[i]]
         IN  /\ StandFrom(t, Append(f.printed, f.line), more)
             /\ more[n + 1] = f.at - Len(f.line)
<1> DEFINE n == Len(f.printed)
           lines == Append(f.printed, f.line)
           more == [i \in 1..n + 1 |->
                      IF i = n + 1 THEN f.at - Len(f.line) ELSE from[i]]
<1>1. /\ f.printed \in Seq(Seq(Piece)) /\ n \in Nat
      /\ f.line \in Seq(Piece) /\ Len(f.line) \in Nat /\ f.at \in Nat
  BY LenProperties DEF Follower
<1>2. /\ Len(lines) = n + 1
      /\ \A i \in 1..n : lines[i] = f.printed[i]
      /\ lines[n + 1] = f.line
  BY <1>1, AppendProperties
<1>3. /\ Len(f.line) <= f.at /\ f.at - Len(f.line) \in Nat
      /\ Stands(t, f.line, f.at - Len(f.line))
  BY <1>1 DEF LineStands
<1>4. more \in [1..n + 1 -> Nat]
  BY <1>3
<1>5. n + 1 \in 1..n + 1 /\ 1..n \subseteq 1..n + 1
  BY <1>1
<1>6. more[n + 1] = f.at - Len(f.line) /\ \A i \in 1..n : more[i] = from[i]
  BY <1>1, <1>5
<1> HIDE DEF more, lines
<1>7. ASSUME NEW i \in 1..n + 1
      PROVE  /\ Len(lines[i]) > 0 /\ Stands(t, lines[i], more[i])
             /\ i < n + 1 => Ends(t, lines[i], more[i])
             /\ i < n + 1 => more[i + 1] = more[i] + Len(lines[i]) + 1
  <2>1. CASE i = n + 1
    BY <1>1, <1>2, <1>3, <1>6, <2>1
  <2>2. CASE i \in 1..n /\ i < n
    <3>1. i + 1 \in 1..n
      BY <1>1, <2>2
    <3> QED BY <1>2, <1>6, <2>2, <3>1 DEF StandFrom
  <2>3. CASE i = n
    <3>1. n \in 1..n /\ n > 0
      BY <1>1, <2>3
    <3>2. Len(f.printed[n]) > 0 /\ Stands(t, f.printed[n], from[n])
      BY <3>1 DEF StandFrom
    <3>3. /\ Ends(t, f.printed[n], from[n])
          /\ f.at - Len(f.line) = from[n] + Len(f.printed[n]) + 1
      BY <3>1 DEF GoesOn
    <3> QED BY <1>2, <1>6, <2>3, <3>1, <3>2, <3>3
  <2> QED BY <1>1, <2>1, <2>2, <2>3
<1>8. StandFrom(t, lines, more)
  BY <1>2, <1>4, <1>7 DEF StandFrom
<1> QED BY <1>6, <1>8 DEF more, lines

\* One write takes k pieces of what is left of the line.
LEMMA PutGrows ==
  ASSUME TrailTypeOK, TrailInv, Put
  PROVE  \E k \in 1..3 :
           /\ begun \in Record
           /\ Written \in 0..2 /\ Written + k \in 1..3
           /\ Written' = Written + k
           /\ rest' = <<>> <=> Written + k = 3
           /\ trail' \in Seq(Piece)
           /\ Len(trail') = Len(trail) + k
           /\ \A i \in 1..Len(trail) : trail'[i] = trail[i]
           /\ \A j \in 1..k : trail'[Len(trail) + j] = Line(begun)[Written + j]
<1>1. PICK k \in 1..Len(rest) :
        /\ trail' = trail \o SubSeq(rest, 1, k)
        /\ rest' = SubSeq(rest, k + 1, Len(rest))
  BY DEF Put
<1>2. /\ begun \in Record /\ Len(rest) \in 1..3
      /\ \A i \in 1..Len(rest) : rest[i] = Line(begun)[Written + i]
  BY DEF Put, TrailInv, RestIsOfALine
<1>3. k \in 1..3 /\ k <= Len(rest)
  BY <1>2
<1>4. /\ trail' \in Seq(Piece) /\ rest' \in Seq(Piece)
      /\ Len(trail') = Len(trail) + k
      /\ Len(rest') = Len(rest) - k
      /\ \A i \in 1..Len(trail) : trail'[i] = trail[i]
      /\ \A i \in 1..k : trail'[Len(trail) + i] = rest[i]
  BY <1>1, PutIs
<1>5. /\ Written \in 0..2 /\ Written + k \in 1..3
      /\ Written' = Written + k
      /\ k = Len(rest) <=> Written + k = 3
  <2>1. Len(rest') = Len(rest) - k /\ Len(rest) \in 1..3 /\ k \in 1..3
        /\ k <= Len(rest)
    BY <1>2, <1>3, <1>4
  <2>2. Written = 3 - Len(rest) /\ Written' = 3 - Len(rest')
    BY DEF Written
  <2>3. Written \in 0..2
    BY <2>1, <2>2
  <2>4. Written + k \in 1..3
    <3> DEFINE l == Len(rest)
    <3>1. l \in 1..3 /\ k \in 1..3 /\ k <= l /\ Written = 3 - l
      BY <2>1, <2>2
    <3> HIDE DEF l
    <3> QED BY <3>1
  <2>5. k = Len(rest) <=> Written + k = 3
    BY <2>1, <2>2
  <2> QED BY <2>1, <2>2, <2>3, <2>4, <2>5
<1>6. rest' = <<>> <=> k = Len(rest)
  <2>1. rest' = <<>> <=> Len(rest') = 0
    BY <1>4, EmptySeq
  <2> QED BY <2>1, <1>2, <1>3, <1>4
<1>7. \A j \in 1..k : trail'[Len(trail) + j] = Line(begun)[Written + j]
  <2>1. \A j \in 1..k : j \in 1..Len(rest)
    BY <1>2, <1>3
  <2> QED BY <2>1, <1>2, <1>4
<1> QED BY <1>2, <1>3, <1>4, <1>5, <1>6, <1>7

LEMMA SameFile == FileInv /\ UNCHANGED <<trail, rest>> => FileInv'
BY DEF FileInv, NoBlankLine, EndsInText, Written

LEMMA BeginAppendFile == TrailTypeOK /\ FileInv /\ BeginAppend => FileInv'
<1> SUFFICES ASSUME TrailTypeOK, FileInv, BeginAppend PROVE FileInv'
  OBVIOUS
<1>1. Len(rest') = 3 /\ trail' = trail
  BY NextRecord, LineIs DEF BeginAppend
<1>2. Written' = 0
  BY <1>1 DEF Written
<1> QED BY <1>1, <1>2 DEF FileInv, NoBlankLine, EndsInText

LEMMA AbandonedFile == FileInv /\ Abandoned => FileInv'
BY DEF FileInv, Abandoned, NoBlankLine, EndsInText

LEMMA PutFile == TrailTypeOK /\ TrailInv /\ FileInv /\ Put => FileInv'
<1> SUFFICES ASSUME TrailTypeOK, TrailInv, FileInv, Put PROVE FileInv'
  OBVIOUS
<1>1. PICK k \in 1..3 :
        /\ begun \in Record
        /\ Written \in 0..2 /\ Written + k \in 1..3
        /\ Written' = Written + k
        /\ rest' = <<>> <=> Written + k = 3
        /\ Len(trail') = Len(trail) + k
        /\ \A i \in 1..Len(trail) : trail'[i] = trail[i]
        /\ \A j \in 1..k : trail'[Len(trail) + j] = Line(begun)[Written + j]
  BY PutGrows
<1>2. Len(trail) \in Nat /\ rest # <<>>
  BY LenProperties DEF TrailTypeOK, Put
<1>3. \A i \in 1..3 : IsEnd(Line(begun)[i]) => i = 3
  <2>1. Line(begun)[1] = Head_(begun) /\ Line(begun)[2] = Tail_(begun)
    BY <1>1, LineIs
  <2>2. ~ IsEnd(Head_(begun)) /\ ~ IsEnd(Tail_(begun))
    BY DEF IsEnd, Head_, Tail_
  <2>3. \A i \in 1..3 : i = 1 \/ i = 2 \/ i = 3
    OBVIOUS
  <2> QED BY <2>1, <2>2, <2>3
<1>4. ~ IsEnd(Line(begun)[2])
  BY <1>3
<1>5. ASSUME NEW i \in 1..Len(trail'), IsEnd(trail'[i])
      PROVE  i > 1 /\ ~ IsEnd(trail'[i - 1])
  <2>1. CASE i <= Len(trail)
    <3>1. i \in 1..Len(trail) /\ IsEnd(trail[i])
      BY <1>1, <1>2, <1>5, <2>1
    <3>2. i > 1 /\ ~ IsEnd(trail[i - 1])
      BY <3>1 DEF FileInv, NoBlankLine
    <3>3. i - 1 \in 1..Len(trail)
      BY <3>1, <3>2, <1>2
    <3> QED BY <3>2, <3>3, <1>1
  <2>2. CASE i > Len(trail)
    <3> DEFINE j == i - Len(trail)
    <3>1. j \in 1..k /\ i = Len(trail) + j
      BY <1>1, <1>2, <2>2
    <3> HIDE DEF j
    <3>2. IsEnd(Line(begun)[Written + j]) /\ Written + j \in 1..3
      BY <3>1, <1>1, <1>5
    <3>3. Written + j = 3
      BY <3>2, <1>3
    <3>4. CASE j > 1
      <4>1. j - 1 \in 1..k /\ i - 1 = Len(trail) + (j - 1) /\ Written + (j - 1) = 2
            /\ i > 1
        BY <3>1, <3>3, <3>4, <1>1, <1>2
      <4>2. trail'[i - 1] = Line(begun)[2]
        BY <4>1, <1>1
      <4> QED BY <4>1, <4>2, <1>4
    <3>5. CASE j = 1
      <4>1. Written > 0 /\ i - 1 = Len(trail)
        BY <3>1, <3>3, <3>5, <1>1, <1>2
      <4>2. Len(trail) > 0 /\ ~ IsEnd(trail[Len(trail)])
        BY <4>1, <1>2 DEF FileInv, EndsInText
      <4>3. Len(trail) \in 1..Len(trail) /\ i > 1
        BY <4>1, <4>2, <1>2
      <4> QED BY <4>1, <4>2, <4>3, <1>1
    <3> QED BY <3>1, <3>4, <3>5
  <2> QED BY <1>1, <1>2, <2>1, <2>2
<1>6. ASSUME rest' # <<>>
      PROVE  Len(trail') > 0 /\ ~ IsEnd(trail'[Len(trail')])
  <2>1. Written + k \in 1..3 /\ Written + k # 3
    BY <1>1, <1>6
  <2>2. trail'[Len(trail')] = Line(begun)[Written + k]
    BY <1>1, <1>2
  <2>3. ~ IsEnd(trail'[Len(trail')])
    BY <1>3, <2>1, <2>2
  <2> QED BY <2>3, <1>1, <1>2
<1> QED BY <1>5, <1>6 DEF FileInv, NoBlankLine, EndsInText

LEMMA PutReads ==
  TrailTypeOK /\ TrailInv /\ Reads(trail, follower) /\ Put
    => Reads(trail', follower')
<1> SUFFICES ASSUME TrailTypeOK, TrailInv, Reads(trail, follower), Put
             PROVE  Reads(trail', follower')
  OBVIOUS
<1>1. PICK k \in 1..3 :
        /\ trail' \in Seq(Piece)
        /\ Len(trail') = Len(trail) + k
        /\ \A i \in 1..Len(trail) : trail'[i] = trail[i]
  BY PutGrows
<1>2. trail \in Seq(Piece) /\ follower \in Follower
  BY DEF TrailTypeOK
<1>3. Len(trail) \in Nat
  BY <1>2, LenProperties
<1>4. Len(trail) <= Len(trail')
  BY <1>1, <1>3
<1>5. Reads(trail', follower)
  BY <1>1, <1>2, <1>4, GrownReads
<1> QED BY <1>5 DEF Put

\* What has ended goes on nowhere.
LEMMA EndedReads ==
  ASSUME NEW t, NEW f, NEW g, Reads(t, f),
         g.state = "ended", g.printed = f.printed
  PROVE  Reads(t, g)
<1>1. LineStands(t, g)
  BY DEF LineStands
<1>2. \A from : GoesOn(t, g, from)
  BY DEF GoesOn
<1> QED BY <1>1, <1>2 DEF Reads

\* The line in hand is printed, because its newline has come or because it is
\* the last.
LEMMA PrintedReads ==
  ASSUME NEW t \in Seq(Piece), NEW f \in Follower, NEW g \in Follower,
         f.state = "following", Len(f.line) > 0, Reads(t, f),
         g.printed = Append(f.printed, f.line), g.line = <<>>,
         \/ g.state = "ended"
         \/ /\ g.state = "following" /\ g.at = f.at + 1
            /\ f.at < Len(t) /\ IsEnd(t[f.at + 1])
  PROVE  Reads(t, g)
<1> DEFINE n == Len(f.printed)
<1>1. /\ f.printed \in Seq(Seq(Piece)) /\ n \in Nat
      /\ f.line \in Seq(Piece) /\ Len(f.line) \in Nat /\ f.at \in Nat
      /\ Len(t) \in Nat /\ Len(g.line) = 0
  BY LenProperties DEF Follower
<1>2. LineStands(t, f)
  BY DEF Reads
<1>3. Len(f.line) <= f.at
  BY <1>2 DEF LineStands
<1>4. Len(g.printed) = n + 1 /\ g.printed[n + 1] = f.line
  BY <1>1, AppendProperties
<1>5. PICK from \in [1..n -> Nat] :
        StandFrom(t, f.printed, from) /\ GoesOn(t, f, from)
  BY DEF Reads
<1>6. PICK more :
        /\ StandFrom(t, g.printed, more)
        /\ more[n + 1] = f.at - Len(f.line)
  <2> DEFINE more == [i \in 1..n + 1 |->
                        IF i = n + 1 THEN f.at - Len(f.line) ELSE from[i]]
  <2>1. /\ StandFrom(t, Append(f.printed, f.line), more)
        /\ more[n + 1] = f.at - Len(f.line)
    BY <1>2, <1>5, OneLineMore
  <2> HIDE DEF more
  <2> QED BY <2>1
<1>7. more \in [1..Len(g.printed) -> Nat]
  BY <1>6 DEF StandFrom
<1>8. CASE g.state = "ended"
  BY <1>6, <1>7, <1>8 DEF Reads, LineStands, GoesOn
<1>9. CASE /\ g.state = "following" /\ g.at = f.at + 1
           /\ f.at < Len(t) /\ IsEnd(t[f.at + 1])
  <2>1. more[n + 1] + Len(f.line) = f.at
    BY <1>1, <1>3, <1>6
  <2>2. Ends(t, f.line, more[n + 1])
    BY <1>9, <2>1 DEF Ends
  <2>3. g.at - Len(g.line) = more[n + 1] + Len(f.line) + 1
    BY <1>1, <1>9, <2>1
  <2>4. GoesOn(t, g, more)
    BY <1>4, <2>2, <2>3 DEF GoesOn
  <2>5. LineStands(t, g)
    <3>1. g.at \in Nat /\ g.at <= Len(t) /\ g.at - Len(g.line) = g.at
          /\ Len(g.line) <= g.at /\ IsEnd(t[g.at])
      BY <1>1, <1>9
    <3>2. Stands(t, g.line, g.at)
      BY <1>1, <3>1 DEF Stands
    <3> QED BY <3>1, <3>2 DEF LineStands
  <2> QED BY <1>6, <1>7, <2>4, <2>5 DEF Reads
<1> QED BY <1>8, <1>9

\* What follow() does with a line that is not blank.
LEMMA GivenIs ==
  ASSUME NEW f \in Follower, NEW text \in Seq(Piece), text # <<>>
  PROVE  LET g == Given(f, text) IN
           /\ g.line = f.line /\ g.at = f.at
           /\ \/ g.state = f.state /\ g.printed = Append(f.printed, text)
              \/ g.state = "ended" /\ g.printed = f.printed
<1>1. CASE f.raw \/ Parses(text)
  <2>1. Given(f, text) = [f EXCEPT !.printed = Append(f.printed, text)]
    BY <1>1 DEF Given
  <2> QED BY <2>1 DEF Follower
<1>2. CASE ~ (f.raw \/ Parses(text))
  <2>1. Given(f, text) = [f EXCEPT !.state = "ended"]
    BY <1>2 DEF Given
  <2> QED BY <2>1 DEF Follower
<1> QED BY <1>1, <1>2

LEMMA BeginFollowingReads ==
  TrailTypeOK /\ BeginFollowing => Reads(trail', follower')
<1> SUFFICES ASSUME TrailTypeOK, BeginFollowing
             PROVE  Reads(trail, follower')
  BY DEF BeginFollowing
<1>1. PICK n \in Asked, raw \in BOOLEAN, at \in 0..Len(trail) :
        /\ AreLast(n, at)
        /\ follower' = [NoFollower EXCEPT !.state = "following", !.raw = raw,
                                          !.at = at]
  BY DEF BeginFollowing
<1> DEFINE f == follower'
<1>2. /\ f.state = "following" /\ f.at = at /\ f.line = <<>>
      /\ f.printed = <<>>
  BY <1>1 DEF NoFollower
<1> HIDE DEF f
<1>3. Len(trail) \in Nat /\ at \in Nat /\ at <= Len(trail) /\ at - 0 = at
  BY LenProperties DEF TrailTypeOK
<1>4. at = 0 \/ IsEnd(trail[at])
  BY <1>1 DEF AreLast, Begins
<1>5. Len(f.line) = 0 /\ Len(f.printed) = 0
  BY <1>2
<1>6. Stands(trail, f.line, at)
  BY <1>3, <1>4, <1>5 DEF Stands
<1>7. LineStands(trail, f)
  BY <1>2, <1>3, <1>5, <1>6 DEF LineStands
<1>8. [i \in {} |-> 0] \in [1..Len(f.printed) -> Nat]
  BY <1>5
<1>9. \A from \in [1..Len(f.printed) -> Nat] :
        StandFrom(trail, f.printed, from) /\ GoesOn(trail, f, from)
  BY <1>5 DEF StandFrom, GoesOn
<1> QED BY <1>7, <1>8, <1>9 DEF Reads, f

LEMMA ReadReads ==
  TrailTypeOK /\ FileInv /\ Reads(trail, follower) /\ Read
    => Reads(trail', follower')
<1> SUFFICES ASSUME TrailTypeOK, FileInv, Reads(trail, follower), Read
             PROVE  Reads(trail, follower')
  BY DEF Read
<1> DEFINE piece == trail[follower.at + 1]
           line == follower.line
           g == follower'
<1>1. /\ follower \in Follower /\ follower.at \in Nat
      /\ follower.printed \in Seq(Seq(Piece))
      /\ line \in Seq(Piece) /\ Len(line) \in Nat
      /\ trail \in Seq(Piece) /\ Len(trail) \in Nat
  BY LenProperties DEF TrailTypeOK, Follower
<1>2. /\ follower.state = "following" /\ follower.at < Len(trail)
      /\ follower.at + 1 \in 1..Len(trail) /\ follower.at + 1 \in Nat
  BY <1>1 DEF Read
<1>3. /\ LineStands(trail, follower)
      /\ Len(line) <= follower.at
      /\ Stands(trail, line, follower.at - Len(line))
  BY <1>2 DEF Reads, LineStands
<1>4. g \in Follower
  BY ReadTypes DEF TrailTypeOK
<1>5. CASE IsEnd(piece)
  <2> DEFINE f == [[follower EXCEPT !.at = follower.at + 1] EXCEPT !.line = <<>>]
  <2>1. g = Given(f, line)
    BY <1>5 DEF Read, Consume
  <2>2. /\ f \in Follower
        /\ f.at = follower.at + 1 /\ f.line = <<>>
        /\ f.state = follower.state /\ f.printed = follower.printed
    BY <1>1, <1>2, EmptySeq DEF Follower
  <2>3. Len(line) > 0
    <3> SUFFICES ASSUME Len(line) = 0 PROVE FALSE
      BY <1>1
    <3>1. follower.at = 0 \/ IsEnd(trail[follower.at])
      BY <1>1, <1>3 DEF Stands
    <3>2. follower.at + 1 > 1 /\ ~ IsEnd(trail[(follower.at + 1) - 1])
      <4>1. \A i \in 1..Len(trail) :
              IsEnd(trail[i]) => i > 1 /\ ~ IsEnd(trail[i - 1])
        BY DEF FileInv, NoBlankLine
      <4> DEFINE i == follower.at + 1
      <4>2. i \in 1..Len(trail) /\ IsEnd(trail[i])
        BY <1>2, <1>5
      <4> HIDE DEF i
      <4>3. i > 1 /\ ~ IsEnd(trail[i - 1])
        BY <4>1, <4>2
      <4> QED BY <4>3 DEF i
    <3>3. (follower.at + 1) - 1 = follower.at /\ follower.at # 0
      BY <1>1, <3>2
    <3> QED BY <3>1, <3>2, <3>3
  <2>4. line # <<>>
    BY <2>3
  <2> HIDE DEF f, g
  <2>5. /\ g.line = <<>> /\ g.at = follower.at + 1
        /\ \/ /\ g.state = "following"
              /\ g.printed = Append(follower.printed, line)
           \/ g.state = "ended" /\ g.printed = follower.printed
    BY <1>1, <1>2, <2>1, <2>2, <2>4, GivenIs
  <2>6. CASE g.state = "ended" /\ g.printed = follower.printed
    BY <2>6, EndedReads DEF g
  <2>7. CASE g.state = "following" /\ g.printed = Append(follower.printed, line)
    <3>1. Reads(trail, g)
      BY <1>1, <1>2, <1>4, <1>5, <2>3, <2>5, <2>7, PrintedReads
    <3> QED BY <3>1 DEF g
  <2> QED BY <2>5, <2>6, <2>7
<1>6. CASE ~ IsEnd(piece)
  <2> DEFINE more == Append(line, piece)
  <2>1. /\ g.at = follower.at + 1 /\ g.line = more
        /\ g.state = "following" /\ g.printed = follower.printed
    BY <1>1, <1>2, <1>6 DEF Read, Consume, Follower
  <2>2. piece \in Piece
    BY <1>1, <1>2, ElementOfSeq
  <2>3. /\ Len(more) = Len(line) + 1
        /\ \A k \in 1..Len(line) : more[k] = line[k]
        /\ more[Len(line) + 1] = piece
    BY <1>1, <2>2, AppendProperties
  <2> HIDE DEF g, more
  <2> DEFINE begins == follower.at - Len(line)
  <2>4. /\ g.at - Len(g.line) = begins /\ begins \in Nat
        /\ begins + Len(line) = follower.at
    <3>1. g.at - Len(g.line) = (follower.at + 1) - (Len(line) + 1)
      <4>1. Len(g.line) = Len(line) + 1
        BY <2>1, <2>3
      <4>2. g.at = follower.at + 1
        BY <2>1
      <4> QED BY <4>1, <4>2
    <3>2. /\ (follower.at + 1) - (Len(line) + 1) = begins
          /\ begins \in Nat /\ begins + Len(line) = follower.at
      BY <1>1, <1>3
    <3> QED BY <3>1, <3>2
  <2> HIDE DEF begins
  <2>5. Stands(trail, more, begins)
    <3>1. Stands(trail, line, begins)
      BY <1>3 DEF begins
    <3>2. begins + Len(more) <= Len(trail)
      BY <1>1, <1>2, <2>3, <2>4
    <3>3. ASSUME NEW k \in 1..Len(more)
          PROVE  trail[begins + k] = more[k] /\ ~ IsEnd(more[k])
      <4>1. CASE k \in 1..Len(line)
        BY <3>1, <4>1, <2>3 DEF Stands
      <4>2. CASE k = Len(line) + 1
        <5>1. begins + k = follower.at + 1
          BY <1>1, <2>4, <4>2
        <5> QED BY <5>1, <4>2, <2>3, <1>6
      <4> QED BY <4>1, <4>2, <2>3, <1>1
    <3> QED BY <3>1, <3>2, <3>3 DEF Stands
  <2>6. LineStands(trail, g)
    <3>1. g.at <= Len(trail) /\ Len(g.line) <= g.at
      BY <1>1, <1>2, <1>3, <2>1, <2>3
    <3> QED BY <3>1, <2>1, <2>4, <2>5 DEF LineStands
  <2>7. PICK from \in [1..Len(follower.printed) -> Nat] :
          /\ StandFrom(trail, follower.printed, from)
          /\ GoesOn(trail, follower, from)
    BY DEF Reads
  <2>8. GoesOn(trail, g, from)
    BY <1>2, <2>1, <2>4, <2>7 DEF GoesOn, begins
  <2>9. Reads(trail, g)
    BY <2>1, <2>6, <2>7, <2>8 DEF Reads
  <2> QED BY <2>9 DEF g
<1> QED BY <1>5, <1>6

\* What there is of a line is a line, and the reader prints no more.
LEMMA LastReads ==
  TrailTypeOK /\ Reads(trail, follower) => Reads(trail, Ended)
<1> SUFFICES ASSUME TrailTypeOK, Reads(trail, follower)
             PROVE  Reads(trail, Ended)
  OBVIOUS
<1>1. CASE follower.state # "following"
  BY <1>1 DEF Ended
<1>2. CASE follower.state = "following"
  <2> DEFINE line == follower.line
             f == [follower EXCEPT !.line = <<>>]
             h == IF line = <<>> THEN f ELSE Given(f, line)
             g == Ended
  <2>1. /\ follower \in Follower /\ line \in Seq(Piece)
        /\ follower.printed \in Seq(Seq(Piece)) /\ trail \in Seq(Piece)
    BY DEF TrailTypeOK, Follower
  <2>2. /\ f \in Follower /\ f.line = <<>>
        /\ f.state = follower.state /\ f.printed = follower.printed
    BY <2>1, EmptySeq DEF Follower
  <2>3. g \in Follower
    BY EndedType
  <2>4. g = [h EXCEPT !.state = "ended"]
    BY <1>2 DEF Ended
  <2> HIDE DEF f, g
  <2>5. h \in Follower
    BY <2>1, <2>2, GivenType
  <2>6. CASE line = <<>>
    <3>1. h = f
      BY <2>6
    <3> HIDE DEF h
    <3>2. g.state = "ended" /\ g.printed = follower.printed
      BY <2>2, <2>4, <3>1 DEF Follower
    <3> QED BY <3>2, EndedReads DEF g
  <2>7. CASE line # <<>>
    <3>1. h = Given(f, line)
      BY <2>7
    <3>2. /\ h.line = <<>>
          /\ \/ h.printed = Append(follower.printed, line)
             \/ h.printed = follower.printed
      BY <2>1, <2>2, <2>7, <3>1, GivenIs
    <3> HIDE DEF h
    <3>3. /\ g.state = "ended" /\ g.line = <<>>
          /\ \/ g.printed = Append(follower.printed, line)
             \/ g.printed = follower.printed
      BY <2>4, <2>5, <3>2 DEF Follower
    <3>4. Len(line) > 0
      BY <2>1, <2>7, EmptySeq, LenProperties
    <3>5. CASE g.printed = Append(follower.printed, line)
      <4>1. Reads(trail, g)
        BY <1>2, <2>1, <2>3, <3>3, <3>4, <3>5, PrintedReads
      <4> QED BY <4>1 DEF g
    <3>6. CASE g.printed = follower.printed
      BY <3>3, <3>6, EndedReads DEF g
    <3> QED BY <3>3, <3>5, <3>6
  <2> QED BY <2>6, <2>7
<1> QED BY <1>1, <1>2

\* What it is all for.
LEMMA ReadsTheTrail ==
  TrailTypeOK /\ Reads(trail, follower) => PrintedAsRecorded
<1> SUFFICES ASSUME TrailTypeOK, Reads(trail, follower)
             PROVE  PrintedAsRecorded
  OBVIOUS
<1> DEFINE printed == follower.printed
           n == Len(printed)
<1>1. /\ trail \in Seq(Piece) /\ Len(trail) \in Nat
      /\ printed \in Seq(Seq(Piece)) /\ n \in Nat
  BY LenProperties DEF TrailTypeOK, Follower
<1>2. PICK from \in [1..n -> Nat] :
        StandFrom(trail, printed, from) /\ GoesOn(trail, follower, from)
  BY DEF Reads
<1> SUFFICES ASSUME n > 0
             PROVE  /\ from \in [1..n -> Begins]
                    /\ \A i \in 1..n :
                         LET to == from[i] + Len(printed[i])
                         IN  /\ i < n => from[i + 1] = to + 1
                             /\ IF i = n /\ follower.state = "ended"
                                THEN IsText(from[i], to) ELSE IsLine(from[i], to)
                             /\ SubSeq(trail, from[i] + 1, to) = printed[i]
  BY DEF PrintedAsRecorded
<1> HIDE DEF printed, n
<1>3. ASSUME NEW i \in 1..n
      PROVE  LET to == from[i] + Len(printed[i])
             IN  /\ from[i] \in Begins
                 /\ i < n => from[i + 1] = to + 1
                 /\ IsText(from[i], to)
                 /\ ~ (i = n /\ follower.state = "ended") => IsLine(from[i], to)
                 /\ SubSeq(trail, from[i] + 1, to) = printed[i]
  <2> DEFINE text == printed[i]
             b == from[i]
             to == b + Len(text)
  <2>1. text \in Seq(Piece) /\ Len(text) \in Nat /\ b \in Nat
    <3>1. text \in Seq(Piece)
      BY <1>1, ElementOfSeq DEF n
    <3> HIDE DEF text
    <3> QED BY <3>1, <1>2, LenProperties
  <2>2. /\ Len(text) > 0 /\ Stands(trail, text, b)
        /\ i < n => Ends(trail, text, b)
        /\ i < n => from[i + 1] = to + 1
    BY <1>2 DEF StandFrom, n
  <2>3. i = n /\ follower.state # "ended" => Ends(trail, text, b)
    BY <1>2 DEF GoesOn, n, printed
  <2> HIDE DEF text, b
  <2>4. /\ b = 0 \/ IsEnd(trail[b])
        /\ to <= Len(trail) /\ b < to /\ to \in Nat
        /\ \A k \in 1..Len(text) : trail[b + k] = text[k] /\ ~ IsEnd(text[k])
    BY <2>1, <2>2 DEF Stands
  <2>5. b \in Begins
    <3>1. b \in 0..Len(trail) - 1
      BY <1>1, <2>1, <2>4
    <3> QED BY <2>4, <3>1 DEF Begins
  <2>6. \A j \in b + 1..to : j - b \in 1..Len(text) /\ b + (j - b) = j
    BY <2>1, <2>4
  <2>7. IsText(b, to)
    <3>1. \A j \in b + 1..to : ~ IsEnd(trail[j])
      BY <2>4, <2>6
    <3> QED BY <3>1, <2>4, <2>5 DEF IsText
  <2>8. Ends(trail, text, b) => IsLine(b, to)
    BY <2>7 DEF Ends, IsLine
  <2>9. SubSeq(trail, b + 1, to) = text
    <3> DEFINE s == SubSeq(trail, b + 1, to)
    <3>1. \A j \in b + 1..to : j \in 1..Len(trail)
      BY <1>1, <2>1, <2>4
    <3>2. \A j \in b + 1..to : trail[j] \in Piece
      BY <1>1, <3>1, ElementOfSeq
    <3>3. b + 1 \in Int /\ to \in Int
      BY <2>1, <2>4
    <3>4. /\ s \in Seq(Piece)
          /\ Len(s) = IF b + 1 <= to THEN to - (b + 1) + 1 ELSE 0
          /\ \A j \in 1..to - (b + 1) + 1 : s[j] = trail[b + 1 + j - 1]
      BY <3>2, <3>3, SubSeqProperties
    <3>5. b + 1 <= to /\ to - (b + 1) + 1 = Len(text)
      BY <2>1, <2>4
    <3> HIDE DEF s
    <3>6. Len(s) = Len(text)
      BY <3>4, <3>5
    <3>7. \A j \in 1..Len(text) : s[j] = text[j]
      <4>1. \A j \in 1..Len(text) : b + 1 + j - 1 = b + j
        BY <2>1
      <4> QED BY <4>1, <3>4, <3>5, <2>4
    <3>8. s = text
      BY <2>1, <3>4, <3>6, <3>7, SeqEqual
    <3> QED BY <3>8 DEF s
  <2>10. i < n \/ i = n
    BY <1>1
  <2> QED BY <2>2, <2>3, <2>5, <2>7, <2>8, <2>9, <2>10 DEF text, b
<1>4. from \in [1..n -> Begins]
  BY <1>3
<1> QED BY <1>3, <1>4

=============================================================================
