--------------------------- MODULE GatewayProofs ---------------------------
(***************************************************************************)
(* What Gateway keeps for any connections, queries and packets, any depth  *)
(* of the channel and any number of exchanges.                             *)
(***************************************************************************)
EXTENDS Gateway, TLAPS

-----------------------------------------------------------------------------
(***************************************************************************)
(* Sequences as the channel and the trail use them.                        *)
(***************************************************************************)
\* Appending adds one element to what a sequence holds, and keeps its type.
LEMMA Appended ==
  ASSUME NEW S, NEW s \in Seq(S), NEW r \in S
  PROVE  /\ Append(s, r) \in Seq(S)
         /\ Range(Append(s, r)) = Range(s) \cup {r}
<1>1. Append(s, r) \in Seq(S)
  OBVIOUS
<1>2. ASSUME NEW x \in Range(Append(s, r))  PROVE  x \in Range(s) \cup {r}
  <2>1. PICK i \in DOMAIN Append(s, r) : x = Append(s, r)[i]
    BY <1>2 DEF Range
  <2>2. CASE i = Len(s) + 1
    BY <2>1, <2>2
  <2>3. CASE i \in 1..Len(s)
    BY <2>1, <2>3 DEF Range
  <2>4. QED
    BY <2>1, <2>2, <2>3
<1>3. ASSUME NEW x \in Range(s) \cup {r}  PROVE  x \in Range(Append(s, r))
  <2>1. CASE x = r
    <3>1. /\ Len(s) + 1 \in DOMAIN Append(s, r)
          /\ Append(s, r)[Len(s) + 1] = r
      OBVIOUS
    <3>2. QED
      BY <2>1, <3>1 DEF Range
  <2>2. CASE x \in Range(s)
    <3>1. PICK i \in DOMAIN s : x = s[i]
      BY <2>2 DEF Range
    <3>2. /\ i \in DOMAIN Append(s, r)
          /\ Append(s, r)[i] = x
      BY <3>1
    <3>3. QED
      BY <3>2 DEF Range
  <2>3. QED
    BY <1>3, <2>1, <2>2
<1>4. QED
  BY <1>1, <1>2, <1>3

\* Taking the first element leaves nothing that was not there.
LEMMA Taken ==
  ASSUME NEW S, NEW s \in Seq(S), s # <<>>
  PROVE  /\ Head(s) \in S
         /\ Tail(s) \in Seq(S)
         /\ Head(s) \in Range(s)
         /\ Range(Tail(s)) \subseteq Range(s)
<1>1. /\ Head(s) \in S
      /\ Tail(s) \in Seq(S)
  OBVIOUS
<1>2. Head(s) \in Range(s)
  <2>1. 1 \in DOMAIN s /\ Head(s) = s[1]
    OBVIOUS
  <2>2. QED
    BY <2>1 DEF Range
<1>3. ASSUME NEW x \in Range(Tail(s))  PROVE  x \in Range(s)
  <2>1. PICK i \in DOMAIN Tail(s) : x = Tail(s)[i]
    BY <1>3 DEF Range
  <2>2. i + 1 \in DOMAIN s /\ x = s[i + 1]
    BY <2>1
  <2>3. QED
    BY <2>2 DEF Range
<1>4. QED
  BY <1>1, <1>2, <1>3

\* Appending what a sequence does not hold leaves nothing in it twice.
LEMMA AppendedOnce ==
  ASSUME NEW S, NEW s \in Seq(S), NEW r \in S, IsInjective(s), r \notin Range(s)
  PROVE  IsInjective(Append(s, r))
<1>1. SUFFICES ASSUME NEW i \in DOMAIN Append(s, r), NEW j \in DOMAIN Append(s, r),
                      Append(s, r)[i] = Append(s, r)[j]
               PROVE  i = j
  BY DEF IsInjective
<1>2. \A k \in DOMAIN Append(s, r) :
        \/ k = Len(s) + 1 /\ Append(s, r)[k] = r
        \/ k \in DOMAIN s /\ Append(s, r)[k] = s[k]
  OBVIOUS
<1>3. \A k \in DOMAIN s : s[k] # r
  BY DEF Range
<1>4. QED
  BY <1>1, <1>2, <1>3 DEF IsInjective

\* Taking the first element of a sequence that holds nothing twice leaves one
\* that does not hold that element.
LEMMA TakenOnce ==
  ASSUME NEW S, NEW s \in Seq(S), s # <<>>, IsInjective(s)
  PROVE  /\ IsInjective(Tail(s))
         /\ Head(s) \notin Range(Tail(s))
         /\ Range(s) = {Head(s)} \cup Range(Tail(s))
<1>1. \A k \in DOMAIN Tail(s) :
        k + 1 \in DOMAIN s /\ Tail(s)[k] = s[k + 1] /\ k \in Nat \ {0}
  OBVIOUS
<1>2. 1 \in DOMAIN s /\ Head(s) = s[1]
  OBVIOUS
<1>3. IsInjective(Tail(s))
  <2>1. SUFFICES ASSUME NEW i \in DOMAIN Tail(s), NEW j \in DOMAIN Tail(s),
                        Tail(s)[i] = Tail(s)[j]
                 PROVE  i = j
    BY DEF IsInjective
  <2>2. i + 1 = j + 1
    BY <1>1, <2>1 DEF IsInjective
  <2>3. QED
    BY <1>1, <2>2
<1>4. Head(s) \notin Range(Tail(s))
  <2>1. SUFFICES ASSUME NEW i \in DOMAIN Tail(s), Tail(s)[i] = Head(s)
                 PROVE  FALSE
    BY DEF Range
  <2>2. i + 1 = 1
    BY <1>1, <1>2, <2>1 DEF IsInjective
  <2>3. QED
    BY <1>1, <2>2
<1>5. ASSUME NEW x \in Range(s)  PROVE  x \in {Head(s)} \cup Range(Tail(s))
  <2>1. PICK k \in DOMAIN s : x = s[k]
    BY <1>5 DEF Range
  <2>2. CASE k = 1
    BY <1>2, <2>1, <2>2
  <2>3. CASE k # 1
    <3>1. k - 1 \in DOMAIN Tail(s) /\ Tail(s)[k - 1] = s[k]
      BY <2>1, <2>3
    <3>2. QED
      BY <2>1, <3>1 DEF Range
  <2>4. QED
    BY <2>2, <2>3
<1>6. QED
  BY <1>3, <1>4, <1>5, Taken

\* What a sequence holds is of its type.
LEMMA TypedRange ==
  ASSUME NEW S, NEW s \in Seq(S)
  PROVE  Range(s) \subseteq S
BY DEF Range

-----------------------------------------------------------------------------
(***************************************************************************)
(* What the actions of one connection do to it, and what they hand to the  *)
(* channel.                                                                *)
(***************************************************************************)
\* A connection goes forward: it is attributed once and before anything else,
\* what was refused stays as it was, and nothing starts over.
Forwards(c) ==
  /\ conn' \in [Connection -> Conn]
  /\ \A d \in Connection \ {c} : conn'[d] = conn[d]
  /\ conn'[c].step \notin {"none", "accept", "over"} => conn'[c].uid \in Account
  /\ conn[c].step \notin Early =>
       /\ conn'[c].step \notin Early
       /\ conn'[c].uid = conn[c].uid
  /\ conn'[c].step \in Early \cup {"blocked"} => conn'[c].reached = {}
  /\ conn[c].step \in {"blocked", "over"} =>
       /\ conn'[c].step \in {"blocked", "over"}
       /\ conn'[c].reached = conn[c].reached

\* It records nothing, or one record that agrees with where it is now.
Agrees(c, r) ==
  /\ r \in AuditRecord
  /\ r.of = c
  /\ conn'[c].step \notin Early
  /\ r.uid = conn'[c].uid
  /\ r.what = "blocked" => conn'[c].step = "blocked"
  /\ r.what = "tls" => conn[c].step = "greet"

Sends(c) ==
  \/ UNCHANGED Sink
  \/ \E r \in AuditRecord :
       /\ Agrees(c, r)
       /\ channel' = Append(channel, r)
       /\ UNCHANGED <<spawned, Written>>
  \/ \E r \in AuditRecord :
       /\ Agrees(c, r)
       /\ r.what = "http"
       /\ spawned' = spawned \cup {r}
       /\ UNCHANGED <<channel, Written>>

\* From where a connection may go where.
Allowed(from, to) ==
  /\ from \in {"none", "accept", "over"} => to \in {"none", "accept", "over"}
  /\ from \notin Early => to \notin Early
  /\ to \in Early \cup {"blocked"} => from \in Early \cup {"blocked"}
  /\ from \in {"blocked", "over"} => to \in {"blocked", "over"}

\* A connection that is replaced by one further on goes forward.
LEMMA Replaced ==
  ASSUME TypeOK, AccountKnown, EarlyIsUnreached,
         NEW c \in Connection, NEW d \in Conn,
         conn' = [conn EXCEPT ![c] = d],
         Allowed(conn[c].step, d.step),
         d.uid = conn[c].uid,
         \/ d.reached = conn[c].reached
         \/ /\ d.step \notin Early \cup {"blocked", "over"}
            /\ conn[c].step \notin {"blocked", "over"}
  PROVE  Forwards(c)
<1>1. conn \in [Connection -> Conn]
  BY DEF TypeOK
<1>2. /\ conn' \in [Connection -> Conn]
      /\ conn'[c] = d
      /\ \A e \in Connection \ {c} : conn'[e] = conn[e]
  BY <1>1
<1>3. conn[c].step \notin {"none", "accept", "over"} => conn[c].uid \in Account
  BY DEF AccountKnown
<1>4. conn[c].step \in Early \cup {"blocked"} => conn[c].reached = {}
  BY DEF EarlyIsUnreached
<1>5. QED
  BY <1>2, <1>3, <1>4 DEF Forwards, Allowed

\* So does one whose step alone changes.
LEMMA GoingIsForwards ==
  ASSUME TypeOK, AccountKnown, EarlyIsUnreached,
         NEW c \in Connection, NEW from, NEW to \in Step, Goes(c, from, to),
         Allowed(from, to)
  PROVE  Forwards(c)
<1>1. conn[c] \in Conn
  BY DEF TypeOK
<1>2. PICK d \in Conn : d = [conn[c] EXCEPT !.step = to]
  BY <1>1 DEF Conn
<1>3. /\ d.step = to
      /\ d.uid = conn[c].uid
      /\ d.reached = conn[c].reached
  BY <1>1, <1>2 DEF Conn
<1>4. /\ conn[c].step = from
      /\ conn' = [conn EXCEPT ![c] = d]
  BY <1>2 DEF Goes
<1>5. QED
  BY <1>3, <1>4, Replaced

\* The part of a connection that is no exchange.
LEMMA NoExchange == 0 \in 0..MaxExchanges
BY GatewayAssumption

\* And one whose bytes are relayed from now on.
LEMMA RelayingIsForwards ==
  ASSUME TypeOK, AccountKnown, EarlyIsUnreached,
         NEW c \in Connection, NEW from, Relays(c, from),
         from \in {"dial other", "inner", "splice"}
  PROVE  Forwards(c)
<1>1. conn[c] \in Conn
  BY DEF TypeOK
<1>2. 0 \in 0..MaxExchanges
  BY NoExchange
<1>3. PICK d \in Conn :
        d = [conn[c] EXCEPT !.step = "relay", !.reached = @ \cup {0}]
  BY <1>1, <1>2 DEF Conn, Step
<1>4. /\ d.step = "relay"
      /\ d.uid = conn[c].uid
  BY <1>1, <1>3 DEF Conn
<1>5. /\ conn[c].step = from
      /\ conn' = [conn EXCEPT ![c] = d]
  BY <1>1, <1>3 DEF Relays, Conn, TypeOK
<1>6. Allowed(conn[c].step, d.step)
  BY <1>4, <1>5 DEF Allowed, Early
<1>7. QED
  BY <1>4, <1>5, <1>6, Replaced DEF Early

\* The steps at which nothing but the step of a connection changes.
Moves(c) ==
  \/ Goes(c, "accept", "over")
  \/ \E to \in {"shake", "dial http", "dial other", "over"} : Goes(c, "probe", to)
  \/ Goes(c, "dial http", "request")
  \/ Goes(c, "shake", "dial tls")
  \/ \E to \in {"request", "over"} : Goes(c, "inner", to)
  \/ Goes(c, "tls", "inner")
  \/ \E from \in {"blocked", "connect", "relay", "splice", "request"} :
       Goes(c, from, "over")
  \/ \E to \in {"body", "over", "splice"} : Goes(c, "respond", to)
  \/ \E to \in {"request", "over"} : Goes(c, "body", to)

\* A connection that moves goes forward.
LEMMA MovingIsForwards ==
  ASSUME TypeOK, AccountKnown, EarlyIsUnreached,
         NEW c \in Connection, Moves(c)
  PROVE  Forwards(c)
<1>1. \A from, to :
        Goes(c, from, to) /\ to \in Step /\ Allowed(from, to) => Forwards(c)
  BY GoingIsForwards
<1>2. /\ Allowed("accept", "over")
      /\ \A to \in {"shake", "dial http", "dial other", "over"} :
           Allowed("probe", to)
      /\ Allowed("dial http", "request")
      /\ Allowed("shake", "dial tls")
      /\ \A to \in {"request", "over"} : Allowed("inner", to)
      /\ Allowed("tls", "inner")
      /\ \A from \in {"blocked", "connect", "relay", "splice", "request"} :
           Allowed(from, "over")
      /\ \A to \in {"body", "over", "splice"} : Allowed("respond", to)
      /\ \A to \in {"request", "over"} : Allowed("body", to)
  BY DEF Allowed, Early
<1>3. {"over", "shake", "dial http", "dial other", "dial tls", "request",
       "inner", "body", "splice"} \subseteq Step
  BY DEF Step
<1>4. QED
  BY <1>1, <1>2, <1>3 DEF Moves

\* What RecordOf makes of a connection agrees with where it then is.
LEMMA RecordAgrees ==
  ASSUME TypeOK, AccountKnown,
         NEW c \in Connection, NEW what \in What, NEW n \in 0..MaxExchanges,
         conn[c].step \notin {"none", "accept", "over"},
         conn'[c].step \notin Early,
         conn'[c].uid = conn[c].uid,
         what = "blocked" => conn'[c].step = "blocked",
         what = "tls" => conn[c].step = "greet"
  PROVE  Agrees(c, RecordOf(c, what, n))
<1>1. conn[c].uid \in Account
  BY DEF AccountKnown
<1>2. RecordOf(c, what, n) \in AuditRecord
  BY <1>1 DEF RecordOf, AuditRecord
<1>3. /\ RecordOf(c, what, n).of = c
      /\ RecordOf(c, what, n).what = what
      /\ RecordOf(c, what, n).uid = conn[c].uid
  BY DEF RecordOf
<1>4. QED
  BY <1>2, <1>3 DEF Agrees

\* A connection refused says so, and goes forward.
LEMMA RefusingIsForwards ==
  ASSUME TypeOK, AccountKnown, EarlyIsUnreached,
         NEW c \in Connection,
         NEW from \in {"dial http", "dial other", "dial tls", "shake", "greet"},
         Says(c, from, "blocked")
  PROVE  Forwards(c) /\ Sends(c) /\ UNCHANGED Elsewhere
<1>1. /\ Goes(c, from, "blocked")
      /\ channel' = Append(channel, RecordOf(c, "blocked", 0))
      /\ UNCHANGED <<Elsewhere, spawned, Written>>
  BY DEF Says, Offer
<1>2. Allowed(from, "blocked") /\ "blocked" \in Step
  BY DEF Allowed, Early, Step
<1>3. Forwards(c)
  BY <1>1, <1>2, GoingIsForwards
<1>4. /\ conn[c].step = from
      /\ conn[c] \in Conn
      /\ conn'[c] = [conn[c] EXCEPT !.step = "blocked"]
  BY <1>1 DEF Goes, TypeOK
<1>5. /\ conn'[c].step = "blocked"
      /\ conn'[c].uid = conn[c].uid
  BY <1>4 DEF Conn
<1>6. "blocked" \in What /\ "blocked" \notin Early
  BY DEF What, Early
<1>7. Agrees(c, RecordOf(c, "blocked", 0))
  BY <1>4, <1>5, <1>6, NoExchange, RecordAgrees
<1>8. QED
  BY <1>1, <1>3, <1>7 DEF Sends, Agrees

\* Whatever its task does, or is done to it, a connection goes forward, and
\* sends at most one record, which agrees with it.
LEMMA ConnectionsGoForward ==
  ASSUME TypeOK, AccountKnown, EarlyIsUnreached,
         NEW c \in Connection, ConnStep(c) \/ ConnEvent(c)
  PROVE  Forwards(c) /\ Sends(c) /\ UNCHANGED Elsewhere
<1>t. conn \in [Connection -> Conn] /\ conn[c] \in Conn
  BY DEF TypeOK
<1>1. CASE Moves(c) /\ UNCHANGED <<Elsewhere, Sink>>
  BY <1>1, MovingIsForwards DEF Sends
<1>2. CASE \E from \in {"dial other", "inner", "splice"} : Relays(c, from)
  <2>1. PICK from \in {"dial other", "inner", "splice"} : Relays(c, from)
    BY <1>2
  <2>2. Forwards(c)
    BY <2>1, RelayingIsForwards
  <2>3. QED
    BY <2>1, <2>2 DEF Relays, Sends
<1>3. CASE \E from \in {"dial http", "dial other", "dial tls", "shake", "greet"} :
             Says(c, from, "blocked")
  BY <1>3, RefusingIsForwards
<1>4. CASE Open(c)
  <2>1. PICK d \in Conn : d = [conn[c] EXCEPT !.step = "accept", !.open = TRUE]
    BY <1>t DEF Conn, Step
  <2>2. /\ conn' = [conn EXCEPT ![c] = d]
        /\ d.step = "accept"
        /\ d.uid = conn[c].uid
        /\ d.reached = conn[c].reached
        /\ conn[c].step = "none"
    BY <1>t, <1>4, <2>1 DEF Open, Conn
  <2>3. Allowed(conn[c].step, d.step)
    BY <2>2 DEF Allowed, Early
  <2>4. Forwards(c)
    BY <2>2, <2>3, Replaced
  <2>5. QED
    BY <1>4, <2>4 DEF Open, Sends
<1>5. CASE HangUp(c)
  <2>1. PICK d \in Conn : d = [conn[c] EXCEPT !.open = FALSE]
    BY <1>t DEF Conn
  <2>2. /\ conn' = [conn EXCEPT ![c] = d]
        /\ d.step = conn[c].step
        /\ d.uid = conn[c].uid
        /\ d.reached = conn[c].reached
    BY <1>t, <1>5, <2>1 DEF HangUp, Conn
  <2>3. Allowed(conn[c].step, d.step)
    BY <2>2 DEF Allowed
  <2>4. Forwards(c)
    BY <2>2, <2>3, Replaced
  <2>5. QED
    BY <1>5, <2>4 DEF HangUp, Sends
<1>6. CASE Attribute(c)
  <2>1. PICK uid \in Account :
          conn' = [conn EXCEPT ![c].step = "probe", ![c].uid = uid]
    BY <1>6 DEF Attribute, Account
  <2>2. PICK d \in Conn : d = [conn[c] EXCEPT !.step = "probe", !.uid = uid]
    BY <1>t DEF Conn, Step
  <2>3. /\ d.step = "probe"
        /\ d.uid = uid
        /\ d.reached = conn[c].reached
    BY <1>t, <2>2 DEF Conn
  <2>4. conn' = [conn EXCEPT ![c] = d]
    BY <1>t, <2>1, <2>2
  <2>5. conn[c].step = "accept"
    BY <1>6 DEF Attribute
  <2>6. conn[c].reached = {}
    BY <2>5 DEF EarlyIsUnreached, Early
  <2>7. /\ conn' \in [Connection -> Conn]
        /\ conn'[c] = d
        /\ \A e \in Connection \ {c} : conn'[e] = conn[e]
    BY <1>t, <2>4
  <2>8. Forwards(c)
    BY <2>3, <2>5, <2>6, <2>7 DEF Forwards, Early
  <2>9. QED
    BY <1>6, <2>8 DEF Attribute, Sends
<1>7. CASE Intercept(c)
  <2>1. PICK d \in Conn : d = [conn[c] EXCEPT !.step = "tls", !.tls = TRUE]
    BY <1>t DEF Conn, Step
  <2>2. /\ conn' = [conn EXCEPT ![c] = d]
        /\ d.step = "tls"
        /\ d.uid = conn[c].uid
        /\ d.reached = conn[c].reached
        /\ conn[c].step = "greet"
    BY <1>t, <1>7, <2>1 DEF Intercept, Conn
  <2>3. Allowed(conn[c].step, d.step)
    BY <2>2 DEF Allowed, Early
  <2>4. Forwards(c)
    BY <2>2, <2>3, Replaced
  <2>5. conn'[c] = d /\ "tls" \in What /\ "tls" \notin Early
    BY <1>t, <2>2 DEF What, Early
  <2>6. Agrees(c, RecordOf(c, "tls", 0))
    BY <2>2, <2>5, NoExchange, RecordAgrees
  <2>7. QED
    BY <1>7, <2>4, <2>6 DEF Intercept, Offer, Sends, Agrees
<1>8. CASE EndRelay(c)
  <2>1. PICK d \in Conn :
          d = [conn[c] EXCEPT !.step = "connect", !.ended = @ \cup {0}]
    BY <1>t, NoExchange DEF Conn, Step
  <2>2. /\ conn' = [conn EXCEPT ![c] = d]
        /\ d.step = "connect"
        /\ d.uid = conn[c].uid
        /\ d.reached = conn[c].reached
        /\ conn[c].step = "relay"
    BY <1>t, <1>8, <2>1 DEF EndRelay, Conn
  <2>3. Allowed(conn[c].step, d.step)
    BY <2>2 DEF Allowed, Early
  <2>4. Forwards(c)
    BY <2>2, <2>3, Replaced
  <2>5. conn'[c] = d /\ "connect" \in What /\ "connect" \notin Early
    BY <1>t, <2>2 DEF What, Early
  <2>6. Agrees(c, RecordOf(c, "connect", 0))
    BY <2>2, <2>5, NoExchange, RecordAgrees
  <2>7. QED
    BY <1>8, <2>4, <2>6 DEF EndRelay, Offer, Sends, Agrees
<1>9. CASE Forward(c)
  <2>1. conn[c].n + 1 \in 0..MaxExchanges
    BY <1>t, <1>9, GatewayAssumption DEF Forward, Conn
  <2>2. PICK d \in Conn :
          d = [conn[c] EXCEPT !.step = "respond", !.n = conn[c].n + 1,
                              !.reached = @ \cup {conn[c].n + 1}]
    BY <1>t, <2>1 DEF Conn, Step
  <2>3. /\ conn' = [conn EXCEPT ![c] = d]
        /\ d.step = "respond"
        /\ d.uid = conn[c].uid
        /\ conn[c].step = "request"
    BY <1>t, <1>9, <2>2 DEF Forward, Conn
  <2>4. /\ Allowed(conn[c].step, d.step)
        /\ d.step \notin Early \cup {"blocked", "over"}
        /\ conn[c].step \notin {"blocked", "over"}
    BY <2>3 DEF Allowed, Early
  <2>5. Forwards(c)
    BY <2>3, <2>4, Replaced
  <2>6. QED
    BY <1>9, <2>5 DEF Forward, Sends
<1>10. CASE EndBody(c)
  <2>1. conn[c].n \in 0..MaxExchanges
    BY <1>t DEF Conn
  <2>2. PICK d \in Conn :
          d = [conn[c] EXCEPT !.step = "request", !.ended = @ \cup {conn[c].n}]
    BY <1>t, <2>1 DEF Conn, Step
  <2>3. /\ conn' = [conn EXCEPT ![c] = d]
        /\ d.step = "request"
        /\ d.uid = conn[c].uid
        /\ d.reached = conn[c].reached
        /\ conn[c].step = "body"
    BY <1>t, <1>10, <2>2 DEF EndBody, Conn
  <2>4. Allowed(conn[c].step, d.step)
    BY <2>3 DEF Allowed, Early
  <2>5. Forwards(c)
    BY <2>3, <2>4, Replaced
  <2>6. conn'[c] = d /\ "http" \in What /\ "request" \notin Early
    BY <1>t, <2>3 DEF What, Early
  <2>7. Agrees(c, RecordOf(c, "http", conn[c].n))
    BY <2>1, <2>3, <2>6, RecordAgrees
  <2>8. RecordOf(c, "http", conn[c].n).what = "http"
    BY DEF RecordOf
  <2>9. QED
    BY <1>10, <2>5, <2>7, <2>8 DEF EndBody, Sends, Agrees
<1>11. CASE Continue(c)
  <2>1. PICK what \in {"tls", "blocked", "connect"} :
          Quietly(c, what, IF what = "tls" THEN "inner" ELSE "over")
    BY <1>11 DEF Continue
  <2>2. Moves(c) /\ UNCHANGED <<Elsewhere, Sink>>
    BY <2>1 DEF Quietly, Moves
  <2>3. QED
    BY <1>1, <2>2
<1>12. CASE Probe(c) \/ Shake(c) \/ FailToAttribute(c) \/ FailToProbe(c) \/ BreakRelay(c)
            \/ EndRequests(c) \/ Respond(c) \/ FailToRespond(c)
            \/ EndBodyUnpolled(c) \/ DropBody(c) \/ Upgrade(c) \/ FailToSplice(c)
  <2>1. Moves(c) /\ UNCHANGED <<Elsewhere, Sink>>
    BY <1>12 DEF Quietly, Moves, Probe, Shake, FailToAttribute, FailToProbe,
         BreakRelay, EndRequests, Respond, FailToRespond, EndBodyUnpolled, DropBody, Upgrade,
         FailToSplice
  <2>2. QED
    BY <1>1, <2>1
<1>g. CASE Greet(c)
  <2>1. PICK d \in Conn : d = [conn[c] EXCEPT !.step = "greet", !.greeted = TRUE]
    BY <1>t DEF Conn, Step
  <2>2. /\ conn' = [conn EXCEPT ![c] = d]
        /\ d.step = "greet"
        /\ d.uid = conn[c].uid
        /\ d.reached = conn[c].reached
        /\ conn[c].step = "dial tls"
    BY <1>t, <1>g, <2>1 DEF Greet, Conn
  <2>3. Allowed(conn[c].step, d.step)
    BY <2>2 DEF Allowed, Early
  <2>4. Forwards(c)
    BY <2>2, <2>3, Replaced
  <2>5. QED
    BY <1>g, <2>4 DEF Greet, Sends
<1>13. CASE Dial(c) \/ ProbeInside(c) \/ Splice(c)
  <2>1. \/ Moves(c) /\ UNCHANGED <<Elsewhere, Sink>>
        \/ \E from \in {"dial other", "inner", "splice"} : Relays(c, from)
        \/ Greet(c)
    BY <1>13 DEF Dial, ProbeInside, Splice, Quietly, Moves
  <2>2. QED
    BY <1>1, <1>2, <1>g, <2>1
<1>14. CASE FailToDial(c) \/ FailToIntercept(c)
  BY <1>3, <1>14 DEF FailToDial, FailToIntercept
<1>15. QED
  BY <1>4, <1>5, <1>6, <1>7, <1>8, <1>9, <1>10, <1>11, <1>12, <1>13, <1>14
    DEF ConnStep, ConnEvent

-----------------------------------------------------------------------------
(***************************************************************************)
(* What keeps the records in order, and the invariant.                     *)
(***************************************************************************)
\* A record that goes to the end of the channel is behind all others, and is
\* that of a session only if nothing of the session is recorded.
LEMMA Appending ==
  ASSUME TypeOK, SessionsAhead,
         NEW r \in AuditRecord,
         channel' = Append(channel, r), spawned' \subseteq spawned,
         UNCHANGED Written,
         r.what = "tls" => \A s \in Recorded : s.of # r.of
  PROVE  /\ channel' \in Seq(AuditRecord)
         /\ Recorded' \subseteq Recorded \cup {r}
         /\ SessionsAhead'
<1>1. channel \in Seq(AuditRecord)
  BY DEF TypeOK
<1>2. /\ channel' \in Seq(AuditRecord)
      /\ Range(channel') = Range(channel) \cup {r}
  BY <1>1, Appended
<1>3. /\ trail' = trail
      /\ writing' = writing
      /\ Traced' = Traced
  BY DEF Written, Traced
<1>4. Recorded' \subseteq Recorded \cup {r}
  BY <1>2, <1>3 DEF Recorded, Pending
<1>5. /\ Range(channel) \subseteq Recorded
      /\ Traced \subseteq Recorded
      /\ {writing} \ {None} \subseteq Recorded
  BY DEF Recorded, Pending
<1>6. Behind(channel')
  <2>1. SUFFICES ASSUME NEW i \in DOMAIN channel', NEW j \in DOMAIN channel',
                        i < j, channel'[i].of = channel'[j].of
                 PROVE  channel'[j].what # "tls"
    BY DEF Behind
  <2>2. CASE j \in DOMAIN channel
    <3>1. /\ i \in DOMAIN channel
          /\ channel'[i] = channel[i]
          /\ channel'[j] = channel[j]
      BY <1>1, <2>1, <2>2
    <3>2. QED
      BY <2>1, <2>2, <3>1 DEF SessionsAhead, Behind
  <2>3. CASE j \notin DOMAIN channel
    <3>1. /\ i \in DOMAIN channel
          /\ channel'[i] = channel[i]
          /\ channel'[j] = r
      BY <1>1, <2>1, <2>3
    <3>2. channel[i] \in Recorded
      BY <1>5, <3>1 DEF Range
    <3>3. QED
      BY <2>1, <3>1, <3>2
  <2>4. QED
    BY <2>2, <2>3
<1>7. /\ Precedes(Traced', Range(channel'))
      /\ Precedes({writing'} \ {None}, Range(channel'))
  BY <1>2, <1>3, <1>5 DEF SessionsAhead, Precedes
<1>8. QED
  BY <1>2, <1>3, <1>4, <1>6, <1>7 DEF SessionsAhead

\* The writer keeps the order in which it takes the records.
LEMMA WriterKeepsOrder ==
  ASSUME TypeOK, SessionsAhead, WriterStep
  PROVE  /\ channel' \in Seq(AuditRecord)
         /\ writing' \in AuditRecord \cup {None}
         /\ trail' \in Seq(AuditRecord)
         /\ lost' \in SUBSET AuditRecord
         /\ Recorded' \subseteq Recorded
         /\ SessionsAhead'
<1>1. /\ channel \in Seq(AuditRecord)
      /\ trail \in Seq(AuditRecord)
      /\ writing \in AuditRecord \cup {None}
      /\ lost \in SUBSET AuditRecord
  BY DEF TypeOK
<1>2. CASE Take
  <2>1. /\ channel # <<>>
        /\ writing = None
        /\ writing' = Head(channel)
        /\ channel' = Tail(channel)
        /\ UNCHANGED <<spawned, trail, lost>>
    BY <1>2 DEF Take
  <2>2. /\ Head(channel) \in AuditRecord
        /\ Tail(channel) \in Seq(AuditRecord)
        /\ Head(channel) \in Range(channel)
        /\ Range(Tail(channel)) \subseteq Range(channel)
    BY <1>1, <2>1, Taken
  <2>3. Traced' = Traced
    BY <2>1 DEF Traced
  <2>4. Recorded' \subseteq Recorded
    BY <2>1, <2>2, <2>3 DEF Recorded, Pending
  <2>5. \A i \in DOMAIN Tail(channel) :
          /\ i + 1 \in DOMAIN channel
          /\ Tail(channel)[i] = channel[i + 1]
          /\ i \in Nat /\ 1 < i + 1
    BY <1>1, <2>1
  <2>6. Behind(channel')
    <3>1. SUFFICES ASSUME NEW i \in DOMAIN channel', NEW j \in DOMAIN channel',
                          i < j, channel'[i].of = channel'[j].of
                   PROVE  channel'[j].what # "tls"
      BY DEF Behind
    <3>2. i + 1 < j + 1
      BY <2>1, <2>5, <3>1
    <3>3. QED
      BY <2>1, <2>5, <3>1, <3>2 DEF SessionsAhead, Behind
  <2>7. Precedes({writing'} \ {None}, Range(channel'))
    <3>1. SUFFICES ASSUME NEW s \in Range(channel'), Head(channel).of = s.of
                   PROVE  s.what # "tls"
      BY <2>1 DEF Precedes
    <3>2. PICK i \in DOMAIN channel' : s = channel'[i]
      BY <3>1 DEF Range
    <3>3. 1 \in DOMAIN channel /\ Head(channel) = channel[1]
      BY <1>1, <2>1
    <3>4. QED
      BY <2>1, <2>5, <3>1, <3>2, <3>3 DEF SessionsAhead, Behind
  <2>8. /\ Precedes(Traced', Range(channel'))
        /\ Precedes(Traced', {writing'} \ {None})
    BY <2>1, <2>2, <2>3 DEF SessionsAhead, Precedes
  <2>9. QED
    BY <1>1, <2>1, <2>2, <2>4, <2>6, <2>7, <2>8 DEF SessionsAhead
<1>3. CASE Write
  <2>1. /\ writing # None
        /\ writing' = None
        /\ trail' = Append(trail, writing)
        /\ UNCHANGED <<spawned, channel, lost>>
    BY <1>3 DEF Write
  <2>2. /\ writing \in AuditRecord
        /\ writing \in {writing} \ {None}
    BY <1>1, <2>1
  <2>3. /\ trail' \in Seq(AuditRecord)
        /\ Traced' = Traced \cup {writing}
    BY <1>1, <2>1, <2>2, Appended DEF Traced
  <2>4. Recorded' \subseteq Recorded
    BY <2>1, <2>2, <2>3 DEF Recorded, Pending
  <2>5. Behind(trail')
    <3>1. SUFFICES ASSUME NEW i \in DOMAIN trail', NEW j \in DOMAIN trail',
                          i < j, trail'[i].of = trail'[j].of
                   PROVE  trail'[j].what # "tls"
      BY DEF Behind
    <3>2. CASE j \in DOMAIN trail
      <4>1. /\ i \in DOMAIN trail
            /\ trail'[i] = trail[i]
            /\ trail'[j] = trail[j]
        BY <1>1, <2>1, <2>2, <3>1, <3>2
      <4>2. QED
        BY <3>1, <3>2, <4>1 DEF SessionsAhead, Behind
    <3>3. CASE j \notin DOMAIN trail
      <4>1. /\ i \in DOMAIN trail
            /\ trail'[i] = trail[i]
            /\ trail'[j] = writing
        BY <1>1, <2>1, <2>2, <3>1, <3>3
      <4>2. trail[i] \in Traced
        BY <4>1 DEF Traced, Range
      <4>3. QED
        BY <2>2, <3>1, <4>1, <4>2 DEF SessionsAhead, Precedes
    <3>4. QED
      BY <3>2, <3>3
  <2>6. /\ Precedes(Traced', Range(channel'))
        /\ Precedes(Traced', {writing'} \ {None})
        /\ Precedes({writing'} \ {None}, Range(channel'))
    BY <2>1, <2>2, <2>3 DEF SessionsAhead, Precedes
  <2>7. QED
    BY <1>1, <2>1, <2>3, <2>4, <2>5, <2>6 DEF SessionsAhead
<1>4. CASE FailToWrite
  <2>1. /\ writing # None
        /\ writing' = None
        /\ lost' = lost \cup {writing}
        /\ UNCHANGED <<spawned, channel, trail>>
    BY <1>4 DEF FailToWrite
  <2>2. Traced' = Traced
    BY <2>1 DEF Traced
  <2>3. Recorded' \subseteq Recorded
    BY <2>1, <2>2 DEF Recorded, Pending
  <2>4. SessionsAhead'
    BY <2>1, <2>2 DEF SessionsAhead, Precedes
  <2>5. QED
    BY <1>1, <2>1, <2>3, <2>4
<1>5. QED
  BY <1>2, <1>3, <1>4 DEF WriterStep

\* With every connection as it was, the invariant is kept if the types and
\* the order are, and what is recorded is of no connection.
LEMMA ConnectionsAside ==
  ASSUME Orderly, UNCHANGED conn, TypeOK', SessionsAhead',
         \A r \in Recorded' : r \in Recorded \/ (r.of \notin Connection /\ r.uid = Owner)
  PROVE  Orderly'
<1>1. AccountKnown' /\ EarlyIsUnreached'
  BY DEF Orderly, AccountKnown, EarlyIsUnreached
<1>2. RecordsAgree'
  BY DEF Orderly, RecordsAgree
<1>3. QED
  BY <1>1, <1>2 DEF Orderly

\* A connection that goes forward keeps the invariant.
LEMMA ConnectionsKeep ==
  ASSUME Orderly, NEW c \in Connection,
         Forwards(c), Sends(c), UNCHANGED Elsewhere
  PROVE  Orderly'
<1>t. TypeOK /\ SessionsAhead
  BY DEF Orderly
<1>1. AccountKnown' /\ EarlyIsUnreached'
  BY DEF Orderly, AccountKnown, EarlyIsUnreached, Forwards
<1>2. /\ \A r \in Recorded' : r \in Recorded \/ Agrees(c, r)
      /\ spawned' \in SUBSET AuditRecord
      /\ channel' \in Seq(AuditRecord)
      /\ UNCHANGED Written
      /\ SessionsAhead'
  <2>1. CASE UNCHANGED Sink
    <3>1. Recorded' = Recorded /\ Traced' = Traced
      BY <2>1 DEF Sink, Written, Recorded, Pending, Traced
    <3>2. SessionsAhead'
      BY <1>t, <2>1, <3>1 DEF SessionsAhead, Sink, Written
    <3>3. QED
      BY <1>t, <2>1, <3>1, <3>2 DEF TypeOK, Sink
  <2>2. ASSUME NEW r \in AuditRecord, Agrees(c, r),
               channel' = Append(channel, r), UNCHANGED <<spawned, Written>>
        PROVE  /\ \A s \in Recorded' : s \in Recorded \/ Agrees(c, s)
               /\ spawned' \in SUBSET AuditRecord
               /\ channel' \in Seq(AuditRecord)
               /\ UNCHANGED Written
               /\ SessionsAhead'
    <3>1. r.what = "tls" => \A s \in Recorded : s.of # r.of
      BY <2>2 DEF Agrees, Orderly, RecordsAgree, Early
    <3>2. spawned' = spawned /\ UNCHANGED Written
      BY <2>2
    <3>3. /\ channel' \in Seq(AuditRecord)
          /\ Recorded' \subseteq Recorded \cup {r}
          /\ SessionsAhead'
      BY <1>t, <2>2, <3>1, <3>2, Appending
    <3>4. QED
      BY <1>t, <2>2, <3>2, <3>3 DEF TypeOK
  <2>3. ASSUME NEW r \in AuditRecord, Agrees(c, r), r.what = "http",
               spawned' = spawned \cup {r}, UNCHANGED <<channel, Written>>
        PROVE  /\ \A s \in Recorded' : s \in Recorded \/ Agrees(c, s)
               /\ spawned' \in SUBSET AuditRecord
               /\ channel' \in Seq(AuditRecord)
               /\ UNCHANGED Written
               /\ SessionsAhead'
    <3>1. Traced' = Traced /\ UNCHANGED <<channel, writing, trail>>
      BY <2>3 DEF Traced, Written
    <3>2. \A s \in Recorded' : s \in Recorded \/ s = r
      BY <2>3, <3>1 DEF Recorded, Pending
    <3>3. SessionsAhead'
      BY <1>t, <2>3, <3>1 DEF SessionsAhead
    <3>4. QED
      BY <1>t, <2>3, <3>2, <3>3 DEF TypeOK
  <2>4. QED
    BY <2>1, <2>2, <2>3 DEF Sends
<1>3. TypeOK'
  BY <1>t, <1>2 DEF TypeOK, Forwards, Elsewhere, Written
<1>4. ASSUME NEW r \in Recorded'
      PROVE  IF r.of \in Connection
             THEN /\ conn'[r.of].step \notin Early
                  /\ r.uid = conn'[r.of].uid
                  /\ r.what = "blocked" =>
                       /\ conn'[r.of].step \in {"blocked", "over"}
                       /\ conn'[r.of].reached = {}
             ELSE r.uid = Owner
  <2>1. CASE r \in Recorded
    BY <2>1 DEF Orderly, RecordsAgree, Forwards
  <2>2. CASE Agrees(c, r)
    BY <1>1, <2>2 DEF Agrees, EarlyIsUnreached
  <2>3. QED
    BY <1>2, <1>4, <2>1, <2>2
<1>5. RecordsAgree'
  BY <1>4 DEF RecordsAgree
<1>6. QED
  BY <1>1, <1>2, <1>3, <1>5 DEF Orderly

\* So does the writer.
LEMMA WriterKeeps ==
  ASSUME Orderly, WriterStep
  PROVE  Orderly'
<1>1. TypeOK /\ SessionsAhead
  BY DEF Orderly
<1>2. UNCHANGED <<up, conn, query, packet, log, spawned>>
  BY DEF WriterStep, Take, Write, FailToWrite
<1>3. /\ channel' \in Seq(AuditRecord)
      /\ writing' \in AuditRecord \cup {None}
      /\ trail' \in Seq(AuditRecord)
      /\ lost' \in SUBSET AuditRecord
      /\ Recorded' \subseteq Recorded
      /\ SessionsAhead'
  BY <1>1, WriterKeepsOrder
<1>4. TypeOK'
  BY <1>1, <1>2, <1>3 DEF TypeOK
<1>5. QED
  BY <1>2, <1>3, <1>4, ConnectionsAside

\* And a task that offers the record of an exchange.
LEMMA SpawnedKeep ==
  ASSUME Orderly, OfferSpawned
  PROVE  Orderly'
<1>1. TypeOK /\ SessionsAhead
  BY DEF Orderly
<1>2. PICK r \in spawned :
        /\ spawned' = spawned \ {r}
        /\ channel' = Append(channel, r)
        /\ UNCHANGED <<up, conn, query, packet, log, Written>>
  BY DEF OfferSpawned, Offer
<1>3. r \in AuditRecord /\ r \in Recorded /\ r.what # "tls"
  BY <1>1, <1>2 DEF TypeOK, SessionsAhead, Recorded, Pending
<1>4. /\ channel' \in Seq(AuditRecord)
      /\ Recorded' \subseteq Recorded \cup {r}
      /\ SessionsAhead'
  BY <1>1, <1>2, <1>3, Appending
<1>5. TypeOK'
  BY <1>1, <1>2, <1>4 DEF TypeOK, Written
<1>6. QED
  BY <1>2, <1>3, <1>4, <1>5, ConnectionsAside

\* A record that is of no connection and of no session is offered.
LEMMA OfferingKeeps ==
  ASSUME Orderly, NEW r \in AuditRecord,
         r.of \notin Connection, r.uid = Owner, r.what # "tls",
         Offer(r), UNCHANGED <<conn, spawned, Written>>,
         up' \in BOOLEAN, query' \in [Query -> Lookup],
         packet' \in [Packet -> {"none", "logged", "say", "over"}],
         log' \in Seq(Packet)
  PROVE  Orderly'
<1>1. TypeOK /\ SessionsAhead
  BY DEF Orderly
<1>2. /\ channel' \in Seq(AuditRecord)
      /\ Recorded' \subseteq Recorded \cup {r}
      /\ SessionsAhead'
  BY <1>1, Appending DEF Offer
<1>3. TypeOK'
  BY <1>1, <1>2 DEF TypeOK, Written
<1>4. QED
  BY <1>2, <1>3, ConnectionsAside

\* Nothing is recorded, and no connection changes.
LEMMA IdlingKeeps ==
  ASSUME Orderly, UNCHANGED <<conn, Sink>>,
         up' \in BOOLEAN, query' \in [Query -> Lookup],
         packet' \in [Packet -> {"none", "logged", "say", "over"}],
         log' \in Seq(Packet)
  PROVE  Orderly'
<1>1. TypeOK /\ SessionsAhead
  BY DEF Orderly
<1>2. Recorded' = Recorded /\ Traced' = Traced
  BY DEF Sink, Written, Recorded, Pending, Traced
<1>3. TypeOK'
  BY <1>1 DEF TypeOK, Sink, Written
<1>4. SessionsAhead'
  BY <1>1, <1>2 DEF SessionsAhead, Sink, Written
<1>5. QED
  BY <1>2, <1>3, <1>4, ConnectionsAside

\* Queries keep it.
LEMMA QueriesKeep ==
  ASSUME Orderly, NEW q \in Query,
         Receive(q) \/ QueryStep(q) \/ FailQuery(q)
  PROVE  Orderly'
<1>t. /\ up \in BOOLEAN
      /\ query \in [Query -> Lookup] /\ query[q] \in Lookup
      /\ packet \in [Packet -> {"none", "logged", "say", "over"}]
      /\ log \in Seq(Packet)
  BY DEF Orderly, TypeOK
<1>1. ASSUME NEW from,
             NEW to \in {"attribute", "ask", "wait", "reply", "note", "over"},
             QueryGoes(q, from, to)
      PROVE  Orderly'
  <2>1. PICK l \in Lookup : l = [query[q] EXCEPT !.step = to]
    BY <1>t DEF Lookup
  <2>2. query' = [query EXCEPT ![q] = l]
    BY <1>t, <1>1, <2>1 DEF QueryGoes
  <2>3. query' \in [Query -> Lookup]
    BY <1>t, <2>1, <2>2
  <2>4. UNCHANGED <<up, conn, packet, log, Sink>>
    BY <1>1 DEF QueryGoes, Apart
  <2>5. QED
    BY <1>t, <2>3, <2>4, IdlingKeeps
<1>2. CASE Note(q)
  <2>1. PICK l \in Lookup : l = [query[q] EXCEPT !.step = "say", !.ended = TRUE]
    BY <1>t DEF Lookup
  <2>2. query' = [query EXCEPT ![q] = l]
    BY <1>t, <1>2, <2>1 DEF Note
  <2>3. query' \in [Query -> Lookup]
    BY <1>t, <2>1, <2>2
  <2>4. q \notin Connection
    BY GatewayAssumption
  <2>5. PICK r \in AuditRecord : r = [of |-> q, what |-> "dns", n |-> 0, uid |-> Owner]
    BY NoExchange DEF AuditRecord, What, Account
  <2>6. r.of = q /\ r.uid = Owner /\ r.what # "tls"
    BY <2>5
  <2>7. Offer(r) /\ UNCHANGED <<up, conn, packet, log, spawned, Written>>
    BY <1>2, <2>5 DEF Note, Apart
  <2>8. QED
    BY <1>t, <2>3, <2>4, <2>6, <2>7, OfferingKeeps
<1>3. CASE \E from \in {"attribute", "ask", "wait", "reply"} :
             QueryGoes(q, from, "over")
  BY <1>1, <1>3
<1>4. QED
  BY <1>1, <1>2, <1>3 DEF Receive, QueryStep, AttributeQuery, Ask, Hear, TimeOut,
       Reply, FailToNote, ContinueQuery, FailQuery

\* Refused packets keep it.
LEMMA PacketsKeep ==
  ASSUME Orderly, NEW p \in Packet, Refuse(p) \/ PacketStep(p)
  PROVE  Orderly'
<1>t. /\ up \in BOOLEAN
      /\ query \in [Query -> Lookup]
      /\ packet \in [Packet -> {"none", "logged", "say", "over"}]
      /\ log \in Seq(Packet)
  BY DEF Orderly, TypeOK
<1>1. CASE Refuse(p)
  <2>1. /\ packet' \in [Packet -> {"none", "logged", "say", "over"}]
        /\ log' \in Seq(Packet)
    BY <1>t, <1>1 DEF Refuse
  <2>2. UNCHANGED <<up, conn, query, Sink>>
    BY <1>1 DEF Refuse, Beside
  <2>3. QED
    BY <1>t, <2>1, <2>2, IdlingKeeps
<1>2. CASE Report(p)
  <2>1. /\ packet' \in [Packet -> {"none", "logged", "say", "over"}]
        /\ log' \in Seq(Packet)
    BY <1>t, <1>2 DEF Report
  <2>2. p \notin Connection
    BY GatewayAssumption
  <2>3. PICK r \in AuditRecord :
          r = [of |-> p, what |-> "blocked", n |-> 0, uid |-> Owner]
    BY NoExchange DEF AuditRecord, What, Account
  <2>4. r.of = p /\ r.uid = Owner /\ r.what # "tls"
    BY <2>3
  <2>5. Offer(r) /\ UNCHANGED <<up, conn, query, spawned, Written>>
    BY <1>2, <2>3 DEF Report, Beside
  <2>6. QED
    BY <1>t, <2>1, <2>2, <2>4, <2>5, OfferingKeeps
<1>3. CASE SkipReport(p)
  <2>1. /\ packet' \in [Packet -> {"none", "logged", "say", "over"}]
        /\ log' \in Seq(Packet)
    BY <1>t, <1>3 DEF SkipReport
  <2>2. UNCHANGED <<up, conn, query, Sink>>
    BY <1>3 DEF SkipReport, Beside
  <2>3. QED
    BY <1>t, <2>1, <2>2, IdlingKeeps
<1>4. CASE ContinueReport(p)
  <2>1. packet' \in [Packet -> {"none", "logged", "say", "over"}]
    BY <1>t, <1>4 DEF ContinueReport
  <2>2. UNCHANGED <<up, conn, query, log, Sink>>
    BY <1>4 DEF ContinueReport, Beside
  <2>3. QED
    BY <1>t, <2>1, <2>2, IdlingKeeps
<1>5. QED
  BY <1>1, <1>2, <1>3, <1>4 DEF PacketStep

\* With the gateway goes all it held, and what it had written remains.
LEMMA StoppingKeeps ==
  ASSUME Orderly, Stop
  PROVE  Orderly'
<1>t. TypeOK /\ SessionsAhead
  BY DEF Orderly
<1>1. /\ up' = FALSE
      /\ log' = <<>> /\ channel' = <<>> /\ spawned' = {} /\ writing' = None
      /\ trail' = trail
      /\ lost' = lost \cup Pending
  BY DEF Stop
<1>2. Traced' = Traced
  BY <1>1 DEF Traced
<1>3. Recorded' \subseteq Recorded
  BY <1>1, <1>2 DEF Recorded, Pending, Range
<1>4. \A c \in Connection :
        /\ conn'[c] \in Conn
        /\ conn'[c].uid = conn[c].uid
        /\ conn'[c].reached = conn[c].reached
        /\ conn'[c].step = IF conn[c].step = "none" THEN "none" ELSE "over"
  <2>1. SUFFICES ASSUME NEW c \in Connection
                 PROVE  /\ conn'[c] \in Conn
                        /\ conn'[c].uid = conn[c].uid
                        /\ conn'[c].reached = conn[c].reached
                        /\ conn'[c].step =
                             IF conn[c].step = "none" THEN "none" ELSE "over"
    OBVIOUS
  <2>2. conn[c] \in Conn
    BY <1>t DEF TypeOK
  <2>3. conn'[c] = IF conn[c].step = "none" THEN conn[c]
                   ELSE [conn[c] EXCEPT !.step = "over",
                           !.greeted = conn[c].greeted /\ conn[c].step # "greet"]
    BY DEF Stop
  <2>4. (conn[c].greeted /\ conn[c].step # "greet") \in BOOLEAN
    OBVIOUS
  <2>5. ASSUME NEW g \in BOOLEAN
        PROVE  /\ [conn[c] EXCEPT !.step = "over", !.greeted = g] \in Conn
               /\ [conn[c] EXCEPT !.step = "over", !.greeted = g].uid = conn[c].uid
               /\ [conn[c] EXCEPT !.step = "over", !.greeted = g].reached = conn[c].reached
               /\ [conn[c] EXCEPT !.step = "over", !.greeted = g].step = "over"
    BY ZenonT(40), <2>2 DEF Conn, Step
  <2>6. QED
    BY ZenonT(40), <2>2, <2>3, <2>4, <2>5
<1>5. conn' \in [Connection -> Conn]
  <2>1. conn' = [c \in Connection |-> conn'[c]]
    BY DEF Stop
  <2>2. QED
    BY <1>4, <2>1
<1>6. Pending \subseteq AuditRecord
  <2>1. Range(channel) \subseteq AuditRecord
    BY <1>t, TypedRange DEF TypeOK
  <2>2. QED
    BY <1>t, <2>1 DEF Pending, TypeOK
<1>7. /\ query' \in [Query -> Lookup]
      /\ packet' \in [Packet -> {"none", "logged", "say", "over"}]
  BY <1>t DEF Stop, TypeOK, Lookup
<1>8. TypeOK'
  <2>1. lost' \in SUBSET AuditRecord /\ trail' \in Seq(AuditRecord)
    BY <1>t, <1>1, <1>6 DEF TypeOK
  <2>2. log' \in Seq(Packet) /\ channel' \in Seq(AuditRecord)
    BY <1>1
  <2>3. /\ up' \in BOOLEAN /\ spawned' \in SUBSET AuditRecord
        /\ writing' \in AuditRecord \cup {None}
    BY <1>1
  <2>4. QED
    BY <1>5, <1>7, <2>1, <2>2, <2>3 DEF TypeOK
<1>9. AccountKnown' /\ EarlyIsUnreached'
  BY <1>4 DEF Orderly, AccountKnown, EarlyIsUnreached, Early
<1>10. RecordsAgree'
  BY <1>3, <1>4 DEF Orderly, RecordsAgree, Early
<1>11. SessionsAhead'
  BY <1>t, <1>1, <1>2 DEF SessionsAhead, Behind, Precedes, Range
<1>12. QED
  BY <1>8, <1>9, <1>10, <1>11 DEF Orderly

\* Before anything happens there is no record at all.
LEMMA Initially == Init => Orderly
<1> SUFFICES ASSUME Init
             PROVE  Orderly
  OBVIOUS
<1>1. \A c \in Connection :
        /\ conn[c] \in Conn
        /\ conn[c].step = "none"
        /\ conn[c].reached = {}
  BY NoExchange DEF Init, Conn, Step
<1>2. conn \in [Connection -> Conn]
  <2>1. conn = [c \in Connection |-> conn[c]]
    BY DEF Init
  <2>2. QED
    BY <1>1, <2>1
<1>3. query \in [Query -> Lookup] /\ log \in Seq(Packet)
  BY DEF Init, Lookup
<1>4. channel \in Seq(AuditRecord) /\ trail \in Seq(AuditRecord)
  BY DEF Init
<1>5. TypeOK
  BY <1>2, <1>3, <1>4 DEF Init, TypeOK
<1>6. AccountKnown /\ EarlyIsUnreached
  BY <1>1 DEF AccountKnown, EarlyIsUnreached
<1>7. Recorded = {}
  BY DEF Init, Recorded, Pending, Traced, Range
<1>8. RecordsAgree
  BY <1>7 DEF RecordsAgree
<1>9. SessionsAhead
  BY DEF Init, SessionsAhead, Behind, Precedes, Traced, Range
<1>10. QED
  BY <1>5, <1>6, <1>8, <1>9 DEF Orderly

\* Every step keeps the invariant.
LEMMA StepsKeep == Orderly /\ [Next]_vars => Orderly'
<1> SUFFICES ASSUME Orderly, [Next]_vars
             PROVE  Orderly'
  OBVIOUS
<1>t. /\ up \in BOOLEAN
      /\ query \in [Query -> Lookup]
      /\ packet \in [Packet -> {"none", "logged", "say", "over"}]
      /\ log \in Seq(Packet)
  BY DEF Orderly, TypeOK
<1>1. CASE Start
  BY <1>t, <1>1, IdlingKeeps DEF Start
<1>2. CASE Stop
  BY <1>2, StoppingKeeps
<1>3. CASE WriterStep
  BY <1>3, WriterKeeps
<1>4. CASE OfferSpawned
  BY <1>4, SpawnedKeep
<1>5. ASSUME NEW c \in Connection, ConnStep(c) \/ ConnEvent(c)
      PROVE  Orderly'
  <2>1. Forwards(c) /\ Sends(c) /\ UNCHANGED Elsewhere
    BY <1>5, ConnectionsGoForward DEF Orderly
  <2>2. QED
    BY <2>1, ConnectionsKeep
<1>6. ASSUME NEW q \in Query, Receive(q) \/ QueryStep(q) \/ FailQuery(q)
      PROVE  Orderly'
  BY <1>6, QueriesKeep
<1>7. ASSUME NEW p \in Packet, Refuse(p) \/ PacketStep(p)
      PROVE  Orderly'
  BY <1>7, PacketsKeep
<1>8. CASE UNCHANGED vars
  BY <1>t, <1>8, IdlingKeeps DEF vars, Sink, Written
<1>9. QED
  BY <1>1, <1>2, <1>3, <1>4, <1>5, <1>6, <1>7, <1>8 DEF Next

-----------------------------------------------------------------------------
(***************************************************************************)
(* Every record in one place, once.                                        *)
(***************************************************************************)
\* A new record that goes into the channel is a copy of no other.
LEMMA OfferingOnce ==
  ASSUME TypeOK, OneCopy, NEW r \in AuditRecord, r \notin Recorded,
         channel' = Append(channel, r), UNCHANGED <<spawned, Written>>
  PROVE  /\ OneCopy'
         /\ Recorded' = Recorded \cup {r}
         /\ Somewhere' = Somewhere \cup {r}
<1>1. channel \in Seq(AuditRecord)
  BY DEF TypeOK
<1>2. r \notin spawned /\ r \notin Range(channel) /\ r # writing /\ r \notin Traced
  BY NoneIsNoRecord DEF Recorded, Pending
<1>3. IsInjective(channel') /\ Range(channel') = Range(channel) \cup {r}
  BY <1>1, <1>2, Appended, AppendedOnce DEF OneCopy
<1>4. /\ UNCHANGED <<spawned, writing, trail, lost>>
      /\ Traced' = Traced
  BY DEF Written, Traced
<1>5. OneCopy'
  BY <1>2, <1>3, <1>4 DEF OneCopy
<1>6. Recorded' = Recorded \cup {r} /\ Somewhere' = Somewhere \cup {r}
  BY <1>3, <1>4 DEF Recorded, Somewhere, Pending
<1>7. QED
  BY <1>5, <1>6

\* Nor is one that is left to a task.
LEMMA SpawningOnce ==
  ASSUME TypeOK, OneCopy, NEW r \in AuditRecord, r \notin Recorded,
         spawned' = spawned \cup {r}, UNCHANGED <<channel, Written>>
  PROVE  /\ OneCopy'
         /\ Recorded' = Recorded \cup {r}
         /\ Somewhere' = Somewhere \cup {r}
<1>1. r \notin Range(channel) /\ r # writing /\ r \notin Traced
  BY NoneIsNoRecord DEF Recorded, Pending
<1>2. UNCHANGED <<channel, writing, trail, lost>> /\ Traced' = Traced
  BY DEF Written, Traced
<1>3. OneCopy'
  BY <1>1, <1>2 DEF OneCopy
<1>4. Recorded' = Recorded \cup {r} /\ Somewhere' = Somewhere \cup {r}
  BY <1>2 DEF Recorded, Somewhere, Pending
<1>5. QED
  BY <1>3, <1>4

\* A task that offers its record hands it over.
LEMMA HandingOver ==
  ASSUME TypeOK, OneCopy, OfferSpawned
  PROVE  OneCopy' /\ Recorded' = Recorded /\ Somewhere' = Somewhere
<1>1. PICK r \in spawned :
        /\ spawned' = spawned \ {r}
        /\ channel' = Append(channel, r)
        /\ UNCHANGED Written
  BY DEF OfferSpawned, Offer
<1>2. channel \in Seq(AuditRecord) /\ r \in AuditRecord
  BY DEF TypeOK
<1>3. r \notin Range(channel) /\ r # writing /\ r \notin Traced
  BY DEF OneCopy
<1>4. IsInjective(channel') /\ Range(channel') = Range(channel) \cup {r}
  BY <1>1, <1>2, <1>3, Appended, AppendedOnce DEF OneCopy
<1>5. UNCHANGED <<writing, trail, lost>> /\ Traced' = Traced
  BY <1>1 DEF Written, Traced
<1>6. OneCopy'
  BY <1>1, <1>3, <1>4, <1>5 DEF OneCopy
<1>7. Recorded' = Recorded /\ Somewhere' = Somewhere
  BY <1>1, <1>4, <1>5 DEF Recorded, Somewhere, Pending
<1>8. QED
  BY <1>6, <1>7

\* So does the channel to the writer, and the writer to the file; what it
\* cannot write is lost.
LEMMA WritingOnce ==
  ASSUME TypeOK, OneCopy, WriterStep
  PROVE  OneCopy' /\ Recorded' \subseteq Recorded /\ Somewhere' = Somewhere
<1>1. /\ channel \in Seq(AuditRecord)
      /\ trail \in Seq(AuditRecord)
      /\ writing \in AuditRecord \cup {None}
      /\ Range(channel) \subseteq AuditRecord
      /\ Traced \subseteq AuditRecord
      /\ spawned \subseteq AuditRecord
  BY TypedRange DEF TypeOK, Traced
<1>2. CASE Take
  <2>1. /\ writing = None /\ writing' = Head(channel)
        /\ channel # <<>> /\ channel' = Tail(channel)
        /\ UNCHANGED <<spawned, trail, lost>>
        /\ Traced' = Traced
    BY <1>2 DEF Take, Traced
  <2>2. /\ IsInjective(channel')
        /\ writing' \notin Range(channel')
        /\ Range(channel) = {writing'} \cup Range(channel')
    BY <1>1, <2>1, TakenOnce DEF OneCopy
  <2>3. writing' \in AuditRecord /\ writing' # None
    BY <1>1, <2>2, NoneIsNoRecord
  <2>4. OneCopy'
    BY <2>1, <2>2 DEF OneCopy
  <2>5. Recorded' = Recorded /\ Somewhere' = Somewhere
    BY <2>1, <2>2, <2>3 DEF Recorded, Somewhere, Pending
  <2>6. QED
    BY <2>4, <2>5
<1>3. CASE Write
  <2>1. /\ writing # None /\ writing' = None
        /\ trail' = Append(trail, writing)
        /\ UNCHANGED <<spawned, channel, lost>>
    BY <1>3 DEF Write
  <2>2. writing \in AuditRecord /\ writing \notin Range(trail)
    BY <1>1, <2>1 DEF OneCopy, Traced
  <2>3. IsInjective(trail') /\ Traced' = Traced \cup {writing}
    BY <1>1, <2>1, <2>2, Appended, AppendedOnce DEF OneCopy, Traced
  <2>4. OneCopy'
    BY <1>1, <2>1, <2>2, <2>3, NoneIsNoRecord DEF OneCopy
  <2>5. Recorded' = Recorded /\ Somewhere' = Somewhere
    BY <2>1, <2>3 DEF Recorded, Somewhere, Pending
  <2>6. QED
    BY <2>4, <2>5
<1>4. CASE FailToWrite
  <2>1. /\ writing # None /\ writing' = None
        /\ lost' = lost \cup {writing}
        /\ UNCHANGED <<spawned, channel, trail>>
        /\ Traced' = Traced
    BY <1>4 DEF FailToWrite, Traced
  <2>2. OneCopy'
    BY <1>1, <2>1, NoneIsNoRecord DEF OneCopy
  <2>3. Recorded' \subseteq Recorded /\ Somewhere' = Somewhere
    BY <2>1 DEF Recorded, Somewhere, Pending
  <2>4. QED
    BY <2>2, <2>3
<1>5. QED
  BY <1>2, <1>3, <1>4 DEF WriterStep

-----------------------------------------------------------------------------
(***************************************************************************)
(* What connections record, they record once, and it is what has ended.    *)
(***************************************************************************)
\* A connection does not return to an exchange, nor to a relay, whose record
\* it has made.
Progresses(c) ==
  /\ conn'[c].n \in Nat /\ conn[c].n \in Nat /\ conn[c].n <= conn'[c].n
  /\ conn'[c].step \in Exchanging =>
       conn[c].step \in Exchanging \/ conn[c].n < conn'[c].n
  /\ conn[c].step \in {"connect", "over"} => conn'[c].step \in {"connect", "over"}

\* The record it makes is one it could not make before, nor will again.
Due(c, r) ==
  /\ r.what \in {"tls", "blocked"} => conn[c].step \in Early
  /\ r.what = "connect" => conn[c].step = "relay" /\ conn'[c].step = "connect"
  /\ r.what = "http" => /\ conn[c].step \in Exchanging
                        /\ conn'[c].step \notin Exchanging
                        /\ r.n = conn[c].n
                        /\ conn'[c].n = conn[c].n
  /\ r.what # "dns"

\* What has ended is what had before, and what the record r is of.
EndsWith(c, r) ==
  /\ conn'[c].tls => conn[c].tls \/ (r.what = "tls" /\ r.n = 0)
  /\ \A n \in conn'[c].ended :
       n \in conn[c].ended \/ (r.what = LineOf(n) /\ r.n = n)

\* A connection that is past its greeting, and was not before, says so.
Greets(c, said) ==
  conn'[c].greeted =>
    \/ conn'[c].step = "greet"
    \/ /\ conn'[c].step \notin Early
       /\ said \/ (conn[c].greeted /\ conn[c].step \notin Early)

Records(c) ==
  \/ /\ UNCHANGED Sink
     /\ conn'[c].tls = conn[c].tls
     /\ conn'[c].ended = conn[c].ended
     /\ Greets(c, FALSE)
  \/ \E r \in AuditRecord :
       /\ Agrees(c, r) /\ Due(c, r) /\ EndsWith(c, r)
       /\ Greets(c, r.what \in {"tls", "blocked"} /\ r.n = 0)
       /\ \/ channel' = Append(channel, r) /\ UNCHANGED <<spawned, Written>>
          \/ spawned' = spawned \cup {r} /\ UNCHANGED <<channel, Written>>

\* A connection that has not reached an exchange, or goes on in it, progresses.
LEMMA GoingProgresses ==
  ASSUME TypeOK, NEW c \in Connection, NEW from, NEW to, Goes(c, from, to),
         to \in Exchanging => from \in Exchanging,
         from \in {"connect", "over"} => to \in {"connect", "over"}
  PROVE  /\ Progresses(c)
         /\ conn'[c].step = to /\ conn'[c].uid = conn[c].uid
         /\ conn'[c].tls = conn[c].tls
         /\ conn'[c].ended = conn[c].ended
         /\ conn'[c].greeted = conn[c].greeted
<1>1. conn \in [Connection -> Conn] /\ conn[c] \in Conn
  BY DEF TypeOK
<1>2. conn[c].step = from /\ conn'[c] = [conn[c] EXCEPT !.step = to]
  BY <1>1 DEF Goes
<1>3. /\ conn'[c].step = to /\ conn'[c].n = conn[c].n
      /\ conn'[c].uid = conn[c].uid
      /\ conn'[c].tls = conn[c].tls /\ conn'[c].ended = conn[c].ended
      /\ conn'[c].greeted = conn[c].greeted
      /\ conn[c].n \in Nat
  BY <1>1, <1>2 DEF Conn
<1>4. QED
  BY <1>2, <1>3 DEF Progresses

\* What has not greeted its destination yet has nothing to say of it.
LEMMA GoingGreets ==
  ASSUME EarlyIsUngreeted, NEW c \in Connection,
         conn'[c].greeted = conn[c].greeted,
         conn[c].step = "greet" => conn'[c].step = "greet",
         conn[c].step \notin Early => conn'[c].step \notin Early
  PROVE  Greets(c, FALSE)
BY DEF EarlyIsUngreeted, Greets

\* So does one that moves, is relayed or is refused.
LEMMA MovingRecords ==
  ASSUME TypeOK, EarlyIsUngreeted, NEW c \in Connection, Moves(c), UNCHANGED Sink
  PROVE  Progresses(c) /\ Records(c)
<1>1. ASSUME NEW from, NEW to, Goes(c, from, to), Allowed(from, to),
             to \in Exchanging => from \in Exchanging,
             from \in {"connect", "over"} => to \in {"connect", "over"},
             from # "greet"
      PROVE  Progresses(c) /\ Records(c)
  <2>1. conn[c].step = from
    BY <1>1 DEF Goes
  <2>2. /\ Progresses(c)
        /\ conn'[c].step = to
        /\ conn'[c].tls = conn[c].tls
        /\ conn'[c].ended = conn[c].ended
        /\ conn'[c].greeted = conn[c].greeted
    BY <1>1, GoingProgresses
  <2>3. Greets(c, FALSE)
    BY <1>1, <2>1, <2>2, GoingGreets DEF Allowed
  <2>4. QED
    BY <2>2, <2>3 DEF Records
<1>2. \A from, to :
        /\ Goes(c, from, to)
        /\ Allowed(from, to)
        /\ to \in Exchanging => from \in Exchanging
        /\ from \in {"connect", "over"} => to \in {"connect", "over"}
        /\ from # "greet"
        => Progresses(c) /\ Records(c)
  BY <1>1
<1>3. QED
  BY <1>2 DEF Moves, Exchanging, Allowed, Early

LEMMA RelayingRecords ==
  ASSUME TypeOK, EarlyIsUngreeted, NEW c \in Connection, NEW from,
         Relays(c, from), from \notin {"connect", "over", "greet"}
  PROVE  Progresses(c) /\ Records(c)
<1>1. conn \in [Connection -> Conn] /\ conn[c] \in Conn
  BY DEF TypeOK
<1>2. /\ conn[c].step = from
      /\ conn'[c] = [conn[c] EXCEPT !.step = "relay", !.reached = conn[c].reached \cup {0}]
      /\ UNCHANGED Sink
  BY <1>1 DEF Relays
<1>3. /\ conn'[c].step = "relay" /\ conn'[c].n = conn[c].n
      /\ conn'[c].tls = conn[c].tls /\ conn'[c].ended = conn[c].ended
      /\ conn'[c].greeted = conn[c].greeted
      /\ conn[c].n \in Nat
  BY <1>1, <1>2 DEF Conn
<1>4. Greets(c, FALSE)
  BY <1>2, <1>3, GoingGreets DEF Early
<1>5. Progresses(c)
  BY <1>2, <1>3 DEF Progresses, Exchanging
<1>6. QED
  BY <1>2, <1>3, <1>4, <1>5, Zenon DEF Records

LEMMA RefusingRecords ==
  ASSUME TypeOK, AccountKnown, NEW c \in Connection,
         NEW from \in {"dial http", "dial other", "dial tls", "shake", "greet"},
         Says(c, from, "blocked")
  PROVE  Progresses(c) /\ Records(c)
<1>1. /\ Goes(c, from, "blocked")
      /\ channel' = Append(channel, RecordOf(c, "blocked", 0))
      /\ UNCHANGED <<spawned, Written>>
      /\ conn[c].step = from
  BY DEF Says, Offer, Goes
<1>2. /\ Progresses(c)
      /\ conn'[c].step = "blocked" /\ conn'[c].uid = conn[c].uid
      /\ conn'[c].tls = conn[c].tls /\ conn'[c].ended = conn[c].ended
  BY <1>1, GoingProgresses DEF Exchanging
<1>3. Agrees(c, RecordOf(c, "blocked", 0))
  BY <1>1, <1>2, NoExchange, RecordAgrees DEF What, Early
<1>4. /\ RecordOf(c, "blocked", 0).what = "blocked"
      /\ RecordOf(c, "blocked", 0).n = 0
  BY DEF RecordOf
<1>5. /\ Due(c, RecordOf(c, "blocked", 0))
      /\ EndsWith(c, RecordOf(c, "blocked", 0))
      /\ Greets(c, TRUE)
  BY <1>1, <1>2, <1>4 DEF Due, EndsWith, Greets, Early
<1>6. QED
  BY <1>1, <1>2, <1>3, <1>4, <1>5 DEF Records, Agrees

\* Whatever its task does, or is done to it, a connection progresses, and
\* records what it ends.
LEMMA ConnectionsRecord ==
  ASSUME TypeOK, AccountKnown, ProducersArePast, EarlyIsUngreeted,
         NEW c \in Connection, ConnStep(c) \/ ConnEvent(c)
  PROVE  Progresses(c) /\ Records(c)
<1>t. conn \in [Connection -> Conn] /\ conn[c] \in Conn /\ conn[c].n \in Nat
  BY DEF TypeOK, Conn
<1>1. CASE Moves(c) /\ UNCHANGED Sink
  BY <1>1, MovingRecords
<1>2. CASE \E from \in {"dial other", "inner", "splice"} : Relays(c, from)
  BY <1>2, RelayingRecords
<1>3. CASE \E from \in {"dial http", "dial other", "dial tls", "shake", "greet"} :
             Says(c, from, "blocked")
  BY <1>3, RefusingRecords
<1>4. CASE Open(c)
  <2>1. /\ conn'[c] = [conn[c] EXCEPT !.step = "accept", !.open = TRUE]
        /\ conn[c].step = "none" /\ UNCHANGED Sink
    BY <1>t, <1>4 DEF Open
  <2>2. /\ conn'[c].step = "accept" /\ conn'[c].n = conn[c].n
        /\ conn'[c].tls = conn[c].tls
        /\ conn'[c].ended = conn[c].ended /\ conn'[c].greeted = conn[c].greeted
    BY <1>t, <2>1 DEF Conn
  <2>3. Greets(c, FALSE)
    BY <2>1, <2>2, GoingGreets DEF Early
  <2>4. Progresses(c)
    BY <1>t, <2>1, <2>2 DEF Progresses, Exchanging
  <2>5. QED
    BY <2>1, <2>2, <2>3, <2>4, Zenon DEF Records
<1>5. CASE HangUp(c)
  <2>1. conn'[c] = [conn[c] EXCEPT !.open = FALSE] /\ UNCHANGED Sink
    BY <1>t, <1>5 DEF HangUp
  <2>2. /\ conn'[c].step = conn[c].step /\ conn'[c].n = conn[c].n
        /\ conn'[c].tls = conn[c].tls
        /\ conn'[c].ended = conn[c].ended /\ conn'[c].greeted = conn[c].greeted
    BY <1>t, <2>1 DEF Conn
  <2>3. Greets(c, FALSE)
    BY <2>1, <2>2, GoingGreets DEF Early
  <2>4. Progresses(c)
    BY <1>t, <2>1, <2>2 DEF Progresses
  <2>5. QED
    BY <2>1, <2>2, <2>3, <2>4, Zenon DEF Records
<1>6. CASE Attribute(c)
  <2>1. PICK uid \in Account :
          conn' = [conn EXCEPT ![c].step = "probe", ![c].uid = uid]
    BY <1>6 DEF Attribute, Account
  <2>2. conn'[c] = [conn[c] EXCEPT !.step = "probe", !.uid = uid]
    BY <1>t, <2>1
  <2>3. /\ conn'[c].step = "probe" /\ conn'[c].n = conn[c].n
        /\ conn'[c].tls = conn[c].tls
        /\ conn'[c].ended = conn[c].ended /\ conn'[c].greeted = conn[c].greeted
    BY <1>t, <2>2 DEF Conn
  <2>4. conn[c].step = "accept" /\ UNCHANGED Sink
    BY <1>6 DEF Attribute
  <2>5. Greets(c, FALSE)
    BY <2>3, <2>4, GoingGreets DEF Early
  <2>6. Progresses(c)
    BY <1>t, <2>3, <2>4 DEF Progresses, Exchanging
  <2>7. QED
    BY <2>3, <2>4, <2>5, <2>6, Zenon DEF Records
<1>7. CASE Intercept(c)
  <2>1. /\ conn'[c] = [conn[c] EXCEPT !.step = "tls", !.tls = TRUE]
        /\ conn[c].step = "greet"
        /\ channel' = Append(channel, RecordOf(c, "tls", 0))
        /\ UNCHANGED <<spawned, Written>>
    BY <1>t, <1>7 DEF Intercept, Offer
  <2>2. /\ conn'[c].step = "tls" /\ conn'[c].n = conn[c].n
        /\ conn'[c].uid = conn[c].uid /\ conn'[c].ended = conn[c].ended
    BY <1>t, <2>1 DEF Conn
  <2>3. Agrees(c, RecordOf(c, "tls", 0))
    BY <2>1, <2>2, NoExchange, RecordAgrees DEF What, Early
  <2>4. RecordOf(c, "tls", 0).what = "tls" /\ RecordOf(c, "tls", 0).n = 0
    BY DEF RecordOf
  <2>5. /\ Due(c, RecordOf(c, "tls", 0)) /\ EndsWith(c, RecordOf(c, "tls", 0))
        /\ Greets(c, TRUE)
    BY <2>1, <2>2, <2>4 DEF Due, EndsWith, Greets, Early
  <2>6. Progresses(c)
    BY <1>t, <2>1, <2>2 DEF Progresses, Exchanging
  <2>7. QED
    BY <2>1, <2>3, <2>4, <2>5, <2>6 DEF Records, Agrees
<1>8. CASE EndRelay(c)
  <2>1. /\ conn'[c] = [conn[c] EXCEPT !.step = "connect", !.ended = conn[c].ended \cup {0}]
        /\ conn[c].step = "relay"
        /\ channel' = Append(channel, RecordOf(c, "connect", 0))
        /\ UNCHANGED <<spawned, Written>>
    BY <1>t, <1>8 DEF EndRelay, Offer
  <2>2. /\ conn'[c].step = "connect" /\ conn'[c].n = conn[c].n
        /\ conn'[c].uid = conn[c].uid /\ conn'[c].tls = conn[c].tls
        /\ conn'[c].ended = conn[c].ended \cup {0}
        /\ conn'[c].greeted = conn[c].greeted
    BY <1>t, <2>1 DEF Conn
  <2>3. Agrees(c, RecordOf(c, "connect", 0))
    BY <2>1, <2>2, NoExchange, RecordAgrees DEF What, Early
  <2>4. RecordOf(c, "connect", 0).what = "connect" /\ RecordOf(c, "connect", 0).n = 0
    BY DEF RecordOf
  <2>5. /\ Due(c, RecordOf(c, "connect", 0)) /\ EndsWith(c, RecordOf(c, "connect", 0))
        /\ Greets(c, FALSE)
    BY <2>1, <2>2, <2>4 DEF Due, EndsWith, LineOf, Greets, Early
  <2>6. Progresses(c)
    BY <1>t, <2>1, <2>2 DEF Progresses, Exchanging
  <2>7. QED
    BY <2>1, <2>3, <2>4, <2>5, <2>6 DEF Records, Agrees, Greets
<1>9. CASE Forward(c)
  <2>1. /\ conn'[c] = [conn[c] EXCEPT !.step = "respond", !.n = conn[c].n + 1,
                                      !.reached = conn[c].reached \cup {conn[c].n + 1}]
        /\ conn[c].step = "request" /\ UNCHANGED Sink
    BY <1>t, <1>9 DEF Forward
  <2>2. /\ conn'[c].step = "respond" /\ conn'[c].n = conn[c].n + 1
        /\ conn'[c].tls = conn[c].tls
        /\ conn'[c].ended = conn[c].ended /\ conn'[c].greeted = conn[c].greeted
    BY <1>t, <2>1 DEF Conn
  <2>3. Greets(c, FALSE)
    BY <2>1, <2>2, GoingGreets DEF Early
  <2>4. Progresses(c)
    BY <1>t, <2>1, <2>2 DEF Progresses
  <2>5. QED
    BY <2>1, <2>2, <2>3, <2>4, Zenon DEF Records
<1>10. CASE EndBody(c)
  <2>1. /\ conn'[c] = [conn[c] EXCEPT !.step = "request",
                                      !.ended = conn[c].ended \cup {conn[c].n}]
        /\ conn[c].step = "body"
        /\ spawned' = spawned \cup {RecordOf(c, "http", conn[c].n)}
        /\ UNCHANGED <<channel, Written>>
    BY <1>t, <1>10 DEF EndBody
  <2>2. /\ conn'[c].step = "request" /\ conn'[c].n = conn[c].n
        /\ conn'[c].uid = conn[c].uid /\ conn'[c].tls = conn[c].tls
        /\ conn'[c].ended = conn[c].ended \cup {conn[c].n}
        /\ conn'[c].greeted = conn[c].greeted
    BY <1>t, <2>1 DEF Conn
  <2>3. conn[c].n \in 0..MaxExchanges
    BY <1>t DEF Conn
  <2>4. Agrees(c, RecordOf(c, "http", conn[c].n))
    BY <2>1, <2>2, <2>3, RecordAgrees DEF What, Early
  <2>5. /\ RecordOf(c, "http", conn[c].n).what = "http"
        /\ RecordOf(c, "http", conn[c].n).n = conn[c].n
    BY DEF RecordOf
  <2>6. conn[c].n # 0
    BY <2>1 DEF ProducersArePast, Exchanging
  <2>7. Due(c, RecordOf(c, "http", conn[c].n))
    BY <2>1, <2>2, <2>5 DEF Due, Exchanging
  <2>8. EndsWith(c, RecordOf(c, "http", conn[c].n))
    BY <2>2, <2>5, <2>6 DEF EndsWith, LineOf
  <2>9. Progresses(c)
    BY <1>t, <2>1, <2>2 DEF Progresses, Exchanging
  <2>10. Greets(c, FALSE)
    BY <2>1, <2>2, GoingGreets DEF Early
  <2>11. QED
    BY <2>1, <2>4, <2>7, <2>8, <2>9, <2>10 DEF Records, Agrees, Greets
<1>11. CASE Continue(c)
  <2>1. PICK what \in {"tls", "blocked", "connect"} :
          Quietly(c, what, IF what = "tls" THEN "inner" ELSE "over")
    BY <1>11 DEF Continue
  <2>2. Moves(c) /\ UNCHANGED Sink
    BY <2>1 DEF Quietly, Moves
  <2>3. QED
    BY <1>1, <2>2
<1>12. CASE Probe(c) \/ Shake(c) \/ FailToAttribute(c) \/ FailToProbe(c) \/ BreakRelay(c)
            \/ EndRequests(c) \/ Respond(c) \/ FailToRespond(c)
            \/ EndBodyUnpolled(c) \/ DropBody(c) \/ Upgrade(c) \/ FailToSplice(c)
  <2>1. Moves(c) /\ UNCHANGED Sink
    BY <1>12 DEF Quietly, Moves, Probe, Shake, FailToAttribute, FailToProbe,
         BreakRelay, EndRequests, Respond, FailToRespond, EndBodyUnpolled, DropBody, Upgrade,
         FailToSplice
  <2>2. QED
    BY <1>1, <2>1
<1>g. CASE Greet(c)
  <2>1. /\ conn'[c] = [conn[c] EXCEPT !.step = "greet", !.greeted = TRUE]
        /\ conn[c].step = "dial tls" /\ UNCHANGED Sink
    BY <1>t, <1>g DEF Greet
  <2>2. conn'[c].step = "greet" /\ conn'[c].n = conn[c].n
    BY <1>t, <2>1 DEF Conn
  <2>3. conn'[c].tls = conn[c].tls /\ conn'[c].ended = conn[c].ended
    BY <1>t, <2>1 DEF Conn
  <2>4. conn[c].n \in Nat
    BY <1>t
  <2>5. Progresses(c)
    <3>1. conn'[c].n \in Nat /\ conn[c].n <= conn'[c].n
      BY <2>2, <2>4
    <3>2. conn[c].step = "dial tls"
      BY <2>1
    <3>3. QED
      BY <2>2, <2>4, <3>1, <3>2 DEF Progresses, Exchanging
  <2>6. Greets(c, FALSE)
    BY <2>2 DEF Greets
  <2>7. QED
    BY <2>1, <2>3, <2>5, <2>6, Zenon DEF Records
<1>13. CASE Dial(c) \/ ProbeInside(c) \/ Splice(c)
  <2>1. \/ Moves(c) /\ UNCHANGED Sink
        \/ \E from \in {"dial other", "inner", "splice"} : Relays(c, from)
        \/ Greet(c)
    BY <1>13 DEF Dial, ProbeInside, Splice, Quietly, Moves
  <2>2. QED
    BY <1>1, <1>2, <1>g, <2>1
<1>14. CASE FailToDial(c) \/ FailToIntercept(c)
  BY <1>3, <1>14 DEF FailToDial, FailToIntercept
<1>15. QED
  BY <1>4, <1>5, <1>6, <1>7, <1>8, <1>9, <1>10, <1>11, <1>12, <1>13, <1>14
    DEF ConnStep, ConnEvent

\* A record that is due has not been made.
LEMMA DueIsNew ==
  ASSUME RecordsAgree, ProducersArePast, NEW c \in Connection, NEW r,
         Agrees(c, r), Due(c, r)
  PROVE  r \notin Recorded
<1>1. SUFFICES ASSUME r \in Recorded  PROVE FALSE
  OBVIOUS
<1>2. r.of = c /\ PastIt(r) /\ conn[c].step \notin Early
  BY <1>1 DEF Agrees, ProducersArePast, RecordsAgree
<1>3. r.what \in What
  BY DEF Agrees, AuditRecord
<1>4. r.what \in {"connect", "http"}
  BY <1>2, <1>3 DEF Due, What
<1>5. QED
  BY <1>2, <1>4 DEF Due, PastIt

\* What accounts for an end goes on doing so while nothing gets lost.
LEMMA AccountsStay ==
  ASSUME Somewhere \subseteq Somewhere', NEW x, NEW what, NEW n,
         AccountedFor(x, what, n)
  PROVE  AccountedFor(x, what, n)'
BY DEF AccountedFor

\* What of the invariant is about ends and greetings, and their records.
Untold ==
  /\ OneCopy
  /\ ProducersArePast
  /\ EndedIsRecorded
  /\ EarlyIsUngreeted
  /\ GreetedIsTold

\* Whether of a connection one of the lines is made that tell of a greeting.
Told(c) == AccountedFor(c, "tls", 0) \/ AccountedFor(c, "blocked", 0)

\* A connection that records what it ends keeps the invariant.
LEMMA RecordingKeeps ==
  ASSUME Inductive, NEW c \in Connection,
         Forwards(c), Progresses(c), Records(c), UNCHANGED Elsewhere
  PROVE  Untold'
<1>t. /\ TypeOK /\ RecordsAgree /\ OneCopy /\ ProducersArePast
      /\ EndedIsRecorded /\ EarlyIsUngreeted /\ GreetedIsTold
  BY DEF Inductive, Orderly
<1>1. PICK R \in SUBSET AuditRecord :
        /\ OneCopy'
        /\ Recorded' = Recorded \cup R
        /\ Somewhere' = Somewhere \cup R
        /\ \A r \in R : Agrees(c, r) /\ Due(c, r)
        /\ conn'[c].tls => conn[c].tls \/ \E r \in R : r.what = "tls" /\ r.n = 0
        /\ \A n \in conn'[c].ended :
             n \in conn[c].ended \/ \E r \in R : r.what = LineOf(n) /\ r.n = n
        /\ Greets(c, \E r \in R : r.what \in {"tls", "blocked"} /\ r.n = 0)
  <2>1. CASE /\ UNCHANGED Sink
             /\ conn'[c].tls = conn[c].tls /\ conn'[c].ended = conn[c].ended
             /\ Greets(c, FALSE)
    <3>1. /\ OneCopy' = OneCopy
          /\ Recorded' = Recorded
          /\ Somewhere' = Somewhere
      BY <2>1 DEF Sink, Written, OneCopy, Traced, Recorded, Somewhere, Pending
    <3>2. WITNESS {} \in SUBSET AuditRecord
    <3>3. QED
      BY <1>t, <2>1, <3>1 DEF Greets
  <2>2. ASSUME NEW r \in AuditRecord,
               Agrees(c, r), Due(c, r), EndsWith(c, r),
               Greets(c, r.what \in {"tls", "blocked"} /\ r.n = 0),
               \/ channel' = Append(channel, r) /\ UNCHANGED <<spawned, Written>>
               \/ spawned' = spawned \cup {r} /\ UNCHANGED <<channel, Written>>
        PROVE  \E R \in SUBSET AuditRecord :
                 /\ OneCopy'
                 /\ Recorded' = Recorded \cup R
                 /\ Somewhere' = Somewhere \cup R
                 /\ \A s \in R : Agrees(c, s) /\ Due(c, s)
                 /\ conn'[c].tls =>
                      conn[c].tls \/ \E s \in R : s.what = "tls" /\ s.n = 0
                 /\ \A n \in conn'[c].ended :
                      n \in conn[c].ended \/ \E s \in R : s.what = LineOf(n) /\ s.n = n
                 /\ Greets(c, \E s \in R : s.what \in {"tls", "blocked"} /\ s.n = 0)
    <3>1. r \notin Recorded
      BY <1>t, <2>2, DueIsNew
    <3>2. /\ OneCopy'
          /\ Recorded' = Recorded \cup {r}
          /\ Somewhere' = Somewhere \cup {r}
      BY <1>t, <2>2, <3>1, OfferingOnce, SpawningOnce
    <3>3. WITNESS {r} \in SUBSET AuditRecord
    <3>4. QED
      BY <2>2, <3>2 DEF EndsWith, Greets
  <2>3. QED
    BY <2>1, <2>2 DEF Records
<1>2. \A d \in Connection \ {c} : conn'[d] = conn[d]
  BY DEF Forwards
<1>3. UNCHANGED <<query, packet, log>>
  BY DEF Elsewhere
<1>4. ASSUME NEW r \in Recorded'  PROVE PastIt(r)'
  <2>1. CASE r \in Recorded
    <3>1. PastIt(r)
      BY <1>t, <2>1 DEF ProducersArePast
    <3>2. CASE r.of = c
      <4>1. r.what = "connect" => conn'[c].step \in {"connect", "over"}
        BY <3>1, <3>2 DEF PastIt, Progresses
      <4>2. ASSUME r.what = "http"
            PROVE  /\ r.n <= conn'[c].n
                   /\ conn'[c].step \in Exchanging => r.n # conn'[c].n
        <5>1. r.n \in Nat
          <6>1. r \in AuditRecord
            BY <1>t, <2>1, TypedRange DEF TypeOK, Recorded, Pending, Traced
          <6>2. QED
            BY <6>1 DEF AuditRecord
        <5>2. /\ r.n <= conn[c].n
              /\ conn[c].step \in Exchanging => r.n # conn[c].n
          BY <3>1, <3>2, <4>2 DEF PastIt
        <5>3. QED
          BY <5>1, <5>2 DEF Progresses
      <4>3. c \notin Query /\ c \notin Packet
        BY GatewayAssumption
      <4>4. QED
        BY <3>2, <4>1, <4>2, <4>3 DEF PastIt
    <3>3. CASE r.of # c
      BY <1>2, <1>3, <3>1, <3>3 DEF PastIt
    <3>4. QED
      BY <3>2, <3>3
  <2>2. CASE r \in AuditRecord /\ Agrees(c, r) /\ Due(c, r)
    <3>1. r.of = c /\ c \notin Query /\ c \notin Packet
      BY <2>2, GatewayAssumption DEF Agrees
    <3>2. r.what = "connect" => conn'[c].step \in {"connect", "over"}
      BY <2>2 DEF Due
    <3>3. r.what = "http" =>
            /\ r.n <= conn'[c].n
            /\ conn'[c].step \in Exchanging => r.n # conn'[c].n
      BY <2>2 DEF Due, Progresses
    <3>4. QED
      BY <3>1, <3>2, <3>3 DEF PastIt
  <2>3. QED
    BY <1>1, <2>1, <2>2
<1>5. ASSUME NEW d \in Connection, conn'[d].step \in Exchanging
      PROVE  conn'[d].n # 0
  <2>1. CASE d = c
    BY <1>t, <1>5, <2>1 DEF ProducersArePast, Progresses
  <2>2. CASE d # c
    BY <1>t, <1>2, <1>5, <2>2 DEF ProducersArePast
  <2>3. QED
    BY <2>1, <2>2
<1>6. ProducersArePast'
  BY <1>t, <1>3, <1>4, <1>5 DEF ProducersArePast
<1>7. Somewhere \subseteq Somewhere'
  BY <1>1
<1>8. ASSUME NEW d \in Connection
      PROVE  /\ conn'[d].tls => AccountedFor(d, "tls", 0)'
             /\ \A n \in conn'[d].ended : AccountedFor(d, LineOf(n), n)'
  <2>1. /\ conn[d].tls => AccountedFor(d, "tls", 0)'
        /\ \A n \in conn[d].ended : AccountedFor(d, LineOf(n), n)'
    BY <1>t, <1>7, AccountsStay DEF EndedIsRecorded
  <2>2. CASE d # c
    BY <1>2, <2>1, <2>2
  <2>3. CASE d = c
    <3>1. \A r \in R : r \in Somewhere' /\ r.of = c
      BY <1>1 DEF Agrees
    <3>2. QED
      BY <1>1, <2>1, <2>3, <3>1 DEF AccountedFor
  <2>4. QED
    BY <2>2, <2>3
<1>9. \A q \in Query : query'[q].ended => AccountedFor(q, "dns", 0)'
  BY <1>t, <1>3, <1>7, AccountsStay DEF EndedIsRecorded
<1>10. EndedIsRecorded'
  BY <1>8, <1>9 DEF EndedIsRecorded
<1>11. EarlyIsUngreeted'
  <2>1. conn'[c].step \in Early \ {"greet"} => ~conn'[c].greeted
    BY <1>1 DEF Greets
  <2>2. QED
    BY <1>t, <1>2, <2>1 DEF EarlyIsUngreeted
<1>12. ASSUME NEW d \in Connection, conn'[d].greeted, conn'[d].step # "greet"
       PROVE  Told(d)'
  <2>1. conn[d].greeted /\ conn[d].step # "greet" => Told(d)'
    BY <1>t, <1>7, AccountsStay DEF GreetedIsTold, Told
  <2>2. CASE d # c
    BY <1>2, <1>12, <2>1, <2>2
  <2>3. CASE d = c
    <3>1. CASE conn[c].greeted /\ conn[c].step \notin Early
      BY <2>1, <2>3, <3>1 DEF Early
    <3>2. CASE \E r \in R : r.what \in {"tls", "blocked"} /\ r.n = 0
      <4>1. \A r \in R : r \in Somewhere' /\ r.of = c
        BY <1>1 DEF Agrees
      <4>2. QED
        BY <2>3, <3>2, <4>1 DEF Told, AccountedFor
    <3>3. QED
      BY <1>1, <1>12, <2>3, <3>1, <3>2 DEF Greets
  <2>4. QED
    BY <2>2, <2>3
<1>13. GreetedIsTold'
  BY <1>12 DEF GreetedIsTold, Told
<1>14. QED
  BY <1>1, <1>6, <1>10, <1>11, <1>13 DEF Untold

-----------------------------------------------------------------------------
(***************************************************************************)
(* The other steps, and the theorems.                                      *)
(***************************************************************************)
\* A step that makes no record keeps the invariant, if queries and packets of
\* which there is one stay past it.
LEMMA SilenceKeeps ==
  ASSUME Inductive, OneCopy', Recorded' \subseteq Recorded, Somewhere \subseteq Somewhere',
         IsInjective(log'), \A p \in Range(log') : packet'[p] = "logged",
         \A c \in Connection :
           /\ conn'[c].n = conn[c].n
           /\ conn'[c].tls = conn[c].tls /\ conn'[c].ended = conn[c].ended
           /\ \/ /\ conn'[c].step = conn[c].step
                 /\ conn'[c].greeted = conn[c].greeted
              \/ /\ conn'[c].step = "over"
                 /\ conn'[c].greeted => conn[c].greeted /\ conn[c].step # "greet",
         \A q \in Query :
           /\ query[q].step \in {"say", "over"} => query'[q].step \in {"say", "over"}
           /\ query'[q].ended = query[q].ended,
         \A p \in Packet :
           packet[p] \in {"say", "over"} => packet'[p] \in {"say", "over"}
  PROVE  Untold'
<1>t. /\ ProducersArePast /\ EndedIsRecorded
      /\ EarlyIsUngreeted /\ GreetedIsTold
  BY DEF Inductive
<1>1. ASSUME NEW r \in Recorded'  PROVE PastIt(r)'
  <2>1. PastIt(r)
    BY <1>t DEF ProducersArePast
  <2>2. QED
    BY <2>1 DEF PastIt, Exchanging
<1>2. ASSUME NEW c \in Connection, conn'[c].step \in Exchanging
      PROVE  conn'[c].n # 0
  BY <1>t, <1>2 DEF ProducersArePast, Exchanging
<1>3. ProducersArePast'
  BY <1>1, <1>2 DEF ProducersArePast
<1>4. ASSUME NEW c \in Connection
      PROVE  /\ conn'[c].tls => AccountedFor(c, "tls", 0)'
             /\ \A n \in conn'[c].ended : AccountedFor(c, LineOf(n), n)'
  BY <1>t, AccountsStay DEF EndedIsRecorded
<1>5. ASSUME NEW q \in Query, query'[q].ended  PROVE AccountedFor(q, "dns", 0)'
  BY <1>t, <1>5, AccountsStay DEF EndedIsRecorded
<1>6. EndedIsRecorded'
  BY <1>4, <1>5 DEF EndedIsRecorded
<1>7. EarlyIsUngreeted'
  BY <1>t DEF EarlyIsUngreeted, Early
<1>8. ASSUME NEW c \in Connection, conn'[c].greeted, conn'[c].step # "greet"
      PROVE  Told(c)'
  <2>1. Told(c)
    BY <1>t, <1>8 DEF GreetedIsTold, Told
  <2>2. QED
    BY <2>1, AccountsStay DEF Told
<1>9. GreetedIsTold'
  BY <1>8 DEF GreetedIsTold, Told
<1>10. QED
  BY <1>3, <1>6, <1>7, <1>9 DEF Untold

\* The writer, and the tasks that hand their records over, keep it.
LEMMA WriterKeepsAll ==
  ASSUME Inductive, WriterStep \/ OfferSpawned
  PROVE  Untold'
<1>1. TypeOK /\ OneCopy /\ ProducersArePast
  BY DEF Inductive, Orderly
<1>2. UNCHANGED <<conn, query, packet, log>>
  BY DEF WriterStep, Take, Write, FailToWrite, OfferSpawned
<1>3. OneCopy' /\ Recorded' \subseteq Recorded /\ Somewhere \subseteq Somewhere'
  BY <1>1, WritingOnce, HandingOver
<1>4. IsInjective(log') /\ \A p \in Range(log') : packet'[p] = "logged"
  BY <1>1, <1>2 DEF ProducersArePast
<1>5. QED
  BY <1>2, <1>3, <1>4, SilenceKeeps

\* And so does whatever leaves the records as they were.
LEMMA SinkAside ==
  ASSUME OneCopy, UNCHANGED Sink
  PROVE  OneCopy' /\ Recorded' = Recorded /\ Somewhere' = Somewhere
BY DEF Sink, Written, OneCopy, Traced, Recorded, Somewhere, Pending

\* The gateway starts; or it stops, and all it held is lost, which is where it
\* then is.
LEMMA StartingAndStoppingKeep ==
  ASSUME Inductive, Start \/ Stop
  PROVE  Untold'
<1>t. TypeOK /\ OneCopy /\ ProducersArePast
  BY DEF Inductive, Orderly
<1>1. CASE Start
  <2>1. UNCHANGED <<conn, query, packet, log, Sink>>
    BY <1>1 DEF Start
  <2>2. IsInjective(log') /\ \A p \in Range(log') : packet'[p] = "logged"
    BY <1>t, <2>1 DEF ProducersArePast
  <2>3. QED
    BY <1>t, <2>1, <2>2, SinkAside, SilenceKeeps
<1>2. CASE Stop
  <2>1. /\ log' = <<>> /\ channel' = <<>> /\ spawned' = {} /\ writing' = None
        /\ trail' = trail
        /\ lost' = lost \cup Pending
    BY <1>2 DEF Stop
  <2>2. /\ Range(channel') = {} /\ Range(log') = {}
        /\ IsInjective(channel') /\ IsInjective(log')
    BY <2>1 DEF Range, IsInjective
  <2>3. Traced' = Traced /\ None \notin Traced
    <3>1. Traced \subseteq AuditRecord
      BY <1>t, TypedRange DEF Traced, TypeOK
    <3>2. QED
      BY <2>1, <3>1, NoneIsNoRecord DEF Traced
  <2>4. OneCopy'
    BY <1>t, <2>1, <2>2, <2>3 DEF OneCopy
  <2>5. Recorded' \subseteq Recorded /\ Somewhere \subseteq Somewhere'
    BY <2>1, <2>2, <2>3 DEF Recorded, Somewhere, Pending
  <2>6. ASSUME NEW c \in Connection
        PROVE  /\ conn'[c].n = conn[c].n
               /\ conn'[c].tls = conn[c].tls /\ conn'[c].ended = conn[c].ended
               /\ \/ /\ conn'[c].step = conn[c].step
                     /\ conn'[c].greeted = conn[c].greeted
                  \/ /\ conn'[c].step = "over"
                     /\ conn'[c].greeted => conn[c].greeted /\ conn[c].step # "greet"
    <3>1. conn[c] \in Conn
      BY <1>t DEF TypeOK
    <3>2. \/ conn'[c] = conn[c]
          \/ conn'[c] = [conn[c] EXCEPT !.step = "over",
                           !.greeted = conn[c].greeted /\ conn[c].step # "greet"]
      BY <1>2 DEF Stop
    <3>3. QED
      BY <3>1, <3>2 DEF Conn
  <2>7. ASSUME NEW q \in Query
        PROVE  /\ query[q].step \in {"say", "over"} => query'[q].step \in {"say", "over"}
               /\ query'[q].ended = query[q].ended
    <3>1. query[q] \in Lookup
      BY <1>t DEF TypeOK
    <3>2. query'[q] = query[q] \/ query'[q] = [query[q] EXCEPT !.step = "over"]
      BY <1>2 DEF Stop
    <3>3. QED
      BY <3>1, <3>2 DEF Lookup
  <2>8. \A p \in Packet : packet[p] \in {"say", "over"} => packet'[p] \in {"say", "over"}
    BY <1>2 DEF Stop
  <2>9. QED
    BY <2>2, <2>4, <2>5, <2>6, <2>7, <2>8, SilenceKeeps
<1>3. QED
  BY <1>1, <1>2

\* A record of a query or of a packet, of which there was none, is made.
LEMMA NotingKeeps ==
  ASSUME Inductive, NEW r \in AuditRecord, r \notin Recorded,
         channel' = Append(channel, r), UNCHANGED <<conn, spawned, Written>>,
         r.of \notin Connection, PastIt(r)',
         IsInjective(log'), \A p \in Range(log') : packet'[p] = "logged",
         \A q \in Query :
           /\ query[q].step \in {"say", "over"} => query'[q].step \in {"say", "over"}
           /\ query'[q].ended =>
                query[q].ended \/ (r.of = q /\ r.what = "dns" /\ r.n = 0),
         \A p \in Packet :
           packet[p] \in {"say", "over"} => packet'[p] \in {"say", "over"}
  PROVE  Untold'
<1>t. /\ TypeOK /\ OneCopy /\ ProducersArePast /\ EndedIsRecorded
      /\ EarlyIsUngreeted /\ GreetedIsTold
  BY DEF Inductive, Orderly
<1>1. /\ OneCopy'
      /\ Recorded' = Recorded \cup {r}
      /\ Somewhere' = Somewhere \cup {r}
  BY <1>t, OfferingOnce
<1>2. ASSUME NEW s \in Recorded  PROVE PastIt(s)'
  <2>1. PastIt(s)
    BY <1>t DEF ProducersArePast
  <2>2. QED
    BY <2>1 DEF PastIt
<1>3. ProducersArePast'
  BY <1>t, <1>1, <1>2 DEF ProducersArePast
<1>4. ASSUME NEW c \in Connection
      PROVE  /\ conn'[c].tls => AccountedFor(c, "tls", 0)'
             /\ \A n \in conn'[c].ended : AccountedFor(c, LineOf(n), n)'
  BY <1>t, <1>1, AccountsStay DEF EndedIsRecorded
<1>5. ASSUME NEW q \in Query, query'[q].ended  PROVE AccountedFor(q, "dns", 0)'
  <2>1. CASE query[q].ended
    BY <1>t, <1>1, <2>1, AccountsStay DEF EndedIsRecorded
  <2>2. CASE r.of = q /\ r.what = "dns" /\ r.n = 0
    BY <1>1, <2>2 DEF AccountedFor
  <2>3. QED
    BY <1>5, <2>1, <2>2
<1>6. EndedIsRecorded'
  BY <1>4, <1>5 DEF EndedIsRecorded
<1>7. EarlyIsUngreeted'
  BY <1>t DEF EarlyIsUngreeted
<1>8. GreetedIsTold'
  BY <1>t, <1>1, AccountsStay DEF GreetedIsTold
<1>9. QED
  BY <1>1, <1>3, <1>6, <1>7, <1>8 DEF Untold

\* Queries keep it.
LEMMA QueriesKeepAll ==
  ASSUME Inductive, NEW q \in Query,
         Receive(q) \/ QueryStep(q) \/ FailQuery(q)
  PROVE  Untold'
<1>t. /\ OneCopy /\ ProducersArePast
      /\ query \in [Query -> Lookup] /\ query[q] \in Lookup
  BY DEF Inductive, Orderly, TypeOK
<1>1. ASSUME NEW from, NEW to, QueryGoes(q, from, to),
             from \in {"say", "over"} => to \in {"say", "over"}
      PROVE  Untold'
  <2>1. /\ query'[q] = [query[q] EXCEPT !.step = to]
        /\ query[q].step = from
        /\ \A p \in Query \ {q} : query'[p] = query[p]
        /\ UNCHANGED <<conn, packet, log, Sink>>
    BY <1>t, <1>1 DEF QueryGoes, Apart
  <2>2. query'[q].step = to /\ query'[q].ended = query[q].ended
    BY <1>t, <2>1 DEF Lookup
  <2>3. IsInjective(log') /\ \A p \in Range(log') : packet'[p] = "logged"
    BY <1>t, <2>1 DEF ProducersArePast
  <2>4. \A p \in Query :
          /\ query[p].step \in {"say", "over"} => query'[p].step \in {"say", "over"}
          /\ query'[p].ended = query[p].ended
    BY <1>1, <2>1, <2>2
  <2>5. QED
    BY <1>t, <2>1, <2>3, <2>4, SinkAside, SilenceKeeps
<1>2. CASE Note(q)
  <2>1. PICK r \in AuditRecord : r = [of |-> q, what |-> "dns", n |-> 0, uid |-> Owner]
    BY NoExchange DEF AuditRecord, What, Account
  <2>2. r.of = q /\ r.what = "dns" /\ r.n = 0
    BY <2>1
  <2>3. /\ query[q].step = "note"
        /\ query'[q] = [query[q] EXCEPT !.step = "say", !.ended = TRUE]
        /\ \A p \in Query \ {q} : query'[p] = query[p]
        /\ channel' = Append(channel, r)
        /\ UNCHANGED <<conn, packet, log, spawned, Written>>
    BY <1>t, <1>2, <2>1 DEF Note, Offer, Apart
  <2>4. query'[q].step = "say"
    BY <1>t, <2>3 DEF Lookup
  <2>5. r \notin Recorded
    BY <1>t, <2>2, <2>3 DEF ProducersArePast, PastIt
  <2>6. q \notin Connection /\ q \notin Packet
    BY GatewayAssumption
  <2>7. PastIt(r)'
    BY <2>2, <2>4, <2>6 DEF PastIt
  <2>8. IsInjective(log') /\ \A p \in Range(log') : packet'[p] = "logged"
    BY <1>t, <2>3 DEF ProducersArePast
  <2>9. \A p \in Query :
          /\ query[p].step \in {"say", "over"} => query'[p].step \in {"say", "over"}
          /\ query'[p].ended =>
               query[p].ended \/ (r.of = p /\ r.what = "dns" /\ r.n = 0)
    BY <2>2, <2>3, <2>4
  <2>10. QED
    BY <2>2, <2>3, <2>5, <2>6, <2>7, <2>8, <2>9, NotingKeeps
<1>3. \A from, to :
        /\ QueryGoes(q, from, to)
        /\ from \in {"say", "over"} => to \in {"say", "over"}
        => Untold'
  BY <1>1
<1>4. QED
  BY <1>2, <1>3 DEF Receive, QueryStep, AttributeQuery, Ask, Hear, TimeOut,
       Reply, FailToNote, ContinueQuery, FailQuery

\* The packets the kernel holds are there once, and are the next to be
\* recorded.
LEMMA TakingFromLog ==
  ASSUME TypeOK, ProducersArePast, log # <<>>, log' = Tail(log),
         \A p \in Packet : p # Head(log) => packet'[p] = packet[p]
  PROVE  /\ packet[Head(log)] = "logged"
         /\ Head(log) \in Packet
         /\ IsInjective(log')
         /\ \A p \in Range(log') : packet'[p] = "logged"
<1>1. log \in Seq(Packet) /\ IsInjective(log)
  BY DEF TypeOK, ProducersArePast
<1>2. /\ Head(log) \in Packet
      /\ IsInjective(log')
      /\ Head(log) \notin Range(log')
      /\ Range(log) = {Head(log)} \cup Range(log')
  BY <1>1, Taken, TakenOnce
<1>3. Range(log) \subseteq Packet
  BY <1>1, TypedRange
<1>4. QED
  BY <1>2, <1>3 DEF ProducersArePast

\* Refused packets keep it.
LEMMA PacketsKeepAll ==
  ASSUME Inductive, NEW p \in Packet, Refuse(p) \/ PacketStep(p)
  PROVE  Untold'
<1>t. /\ TypeOK /\ OneCopy /\ ProducersArePast
      /\ packet \in [Packet -> {"none", "logged", "say", "over"}]
      /\ log \in Seq(Packet)
      /\ Range(log) \subseteq Packet
  BY TypedRange DEF Inductive, Orderly, TypeOK
<1>1. CASE Refuse(p)
  <2>1. /\ packet[p] = "none"
        /\ packet'[p] = IF up THEN "logged" ELSE "over"
        /\ \A o \in Packet \ {p} : packet'[o] = packet[o]
        /\ log' = IF up THEN Append(log, p) ELSE log
        /\ UNCHANGED <<conn, query, Sink>>
    BY <1>t, <1>1 DEF Refuse, Beside
  <2>2. p \notin Range(log)
    BY <1>t, <2>1 DEF ProducersArePast
  <2>3. IsInjective(log') /\ \A o \in Range(log') : packet'[o] = "logged"
    <3>1. CASE up
      <4>1. IsInjective(log') /\ Range(log') = Range(log) \cup {p}
        BY <1>t, <2>1, <2>2, <3>1, Appended, AppendedOnce DEF ProducersArePast
      <4>2. QED
        BY <1>t, <2>1, <2>2, <3>1, <4>1 DEF ProducersArePast
    <3>2. CASE ~up
      BY <1>t, <2>1, <2>2, <3>2 DEF ProducersArePast
    <3>3. QED
      BY <3>1, <3>2
  <2>4. \A o \in Packet : packet[o] \in {"say", "over"} => packet'[o] \in {"say", "over"}
    BY <2>1
  <2>5. QED
    BY <1>t, <2>1, <2>3, <2>4, SinkAside, SilenceKeeps
<1>2. CASE Report(p)
  <2>1. PICK r \in AuditRecord :
          r = [of |-> p, what |-> "blocked", n |-> 0, uid |-> Owner]
    BY NoExchange DEF AuditRecord, What, Account
  <2>2. r.of = p
    BY <2>1
  <2>3. /\ log # <<>> /\ log' = Tail(log) /\ p = Head(log)
        /\ packet'[p] = "say"
        /\ \A o \in Packet \ {p} : packet'[o] = packet[o]
        /\ channel' = Append(channel, r)
        /\ UNCHANGED <<conn, query, spawned, Written>>
    BY <1>t, <1>2, <2>1 DEF Report, Offer, Beside
  <2>4. /\ packet[p] = "logged"
        /\ IsInjective(log')
        /\ \A o \in Range(log') : packet'[o] = "logged"
    BY <1>t, <2>3, TakingFromLog
  <2>5. r \notin Recorded
    BY <1>t, <2>2, <2>4 DEF ProducersArePast, PastIt
  <2>6. p \notin Connection /\ p \notin Query
    BY GatewayAssumption
  <2>7. PastIt(r)'
    BY <2>2, <2>3, <2>6 DEF PastIt
  <2>8. \A o \in Packet : packet[o] \in {"say", "over"} => packet'[o] \in {"say", "over"}
    BY <2>3
  <2>9. QED
    BY <2>2, <2>3, <2>4, <2>5, <2>6, <2>7, <2>8, NotingKeeps
<1>3. CASE SkipReport(p)
  <2>1. /\ log # <<>> /\ log' = Tail(log) /\ p = Head(log)
        /\ packet'[p] = "over"
        /\ \A o \in Packet \ {p} : packet'[o] = packet[o]
        /\ UNCHANGED <<conn, query, Sink>>
    BY <1>t, <1>3 DEF SkipReport, Beside
  <2>2. IsInjective(log') /\ \A o \in Range(log') : packet'[o] = "logged"
    BY <1>t, <2>1, TakingFromLog
  <2>3. \A o \in Packet : packet[o] \in {"say", "over"} => packet'[o] \in {"say", "over"}
    BY <2>1
  <2>4. QED
    BY <1>t, <2>1, <2>2, <2>3, SinkAside, SilenceKeeps
<1>4. CASE ContinueReport(p)
  <2>1. /\ packet[p] = "say" /\ packet'[p] = "over"
        /\ \A o \in Packet \ {p} : packet'[o] = packet[o]
        /\ UNCHANGED <<conn, query, log, Sink>>
    BY <1>t, <1>4 DEF ContinueReport, Beside
  <2>2. IsInjective(log') /\ \A o \in Range(log') : packet'[o] = "logged"
    <3>1. \A o \in Range(log) : packet[o] = "logged" /\ o \in Packet \ {p}
      BY <1>t, <2>1 DEF ProducersArePast
    <3>2. QED
      BY <1>t, <2>1, <3>1 DEF ProducersArePast
  <2>3. \A o \in Packet : packet[o] \in {"say", "over"} => packet'[o] \in {"say", "over"}
    BY <2>1
  <2>4. QED
    BY <1>t, <2>1, <2>2, <2>3, SinkAside, SilenceKeeps
<1>5. QED
  BY <1>1, <1>2, <1>3, <1>4 DEF PacketStep

\* Before anything happens nothing has ended and nothing is recorded.
LEMMA InitiallyAll == Init => Inductive
<1> SUFFICES ASSUME Init
             PROVE  Inductive
  OBVIOUS
<1>1. Orderly
  BY Initially
<1>2. /\ Range(channel) = {} /\ Range(log) = {} /\ Traced = {}
      /\ IsInjective(channel) /\ IsInjective(trail) /\ IsInjective(log)
      /\ spawned = {} /\ writing = None
  BY DEF Init, Traced, Range, IsInjective
<1>3. Recorded = {}
  BY <1>2 DEF Recorded, Pending
<1>4. /\ \A c \in Connection :
           /\ conn[c].step = "none" /\ ~conn[c].tls /\ ~conn[c].greeted
           /\ conn[c].ended = {}
      /\ \A q \in Query : ~query[q].ended
  BY DEF Init
<1>5. OneCopy
  BY <1>2 DEF OneCopy
<1>6. ProducersArePast
  BY <1>2, <1>3, <1>4 DEF ProducersArePast, Exchanging
<1>7. EndedIsRecorded
  BY <1>4 DEF EndedIsRecorded
<1>8. EarlyIsUngreeted /\ GreetedIsTold
  BY <1>4 DEF EarlyIsUngreeted, GreetedIsTold
<1>9. QED
  BY <1>1, <1>5, <1>6, <1>7, <1>8 DEF Inductive

\* Every step keeps all of the invariant.
LEMMA StepsKeepAll == Inductive /\ [Next]_vars => Inductive'
<1> SUFFICES ASSUME Inductive, [Next]_vars
             PROVE  Inductive'
  OBVIOUS
<1>t. Orderly /\ OneCopy /\ ProducersArePast /\ EarlyIsUngreeted
  BY DEF Inductive
<1>o. Orderly'
  BY <1>t, StepsKeep
<1>u. SUFFICES Untold'
  BY <1>o DEF Untold, Inductive
<1>1. CASE Start \/ Stop
  BY <1>1, StartingAndStoppingKeep
<1>2. CASE WriterStep \/ OfferSpawned
  BY <1>2, WriterKeepsAll
<1>3. ASSUME NEW c \in Connection, ConnStep(c) \/ ConnEvent(c)
      PROVE  Untold'
  <2>1. Forwards(c) /\ UNCHANGED Elsewhere
    BY <1>t, <1>3, ConnectionsGoForward DEF Orderly
  <2>2. Progresses(c) /\ Records(c)
    BY <1>t, <1>3, ConnectionsRecord DEF Orderly
  <2>3. QED
    BY <2>1, <2>2, RecordingKeeps DEF Untold
<1>4. ASSUME NEW q \in Query, Receive(q) \/ QueryStep(q) \/ FailQuery(q)
      PROVE  Untold'
  BY <1>4, QueriesKeepAll
<1>5. ASSUME NEW p \in Packet, Refuse(p) \/ PacketStep(p)
      PROVE  Untold'
  BY <1>5, PacketsKeepAll
<1>6. CASE UNCHANGED vars
  <2>1. UNCHANGED <<conn, query, packet, log, Sink>>
    BY <1>6 DEF vars, Sink, Written
  <2>2. IsInjective(log') /\ \A p \in Range(log') : packet'[p] = "logged"
    BY <1>t, <2>1 DEF ProducersArePast
  <2>3. QED
    BY <1>t, <2>1, <2>2, SinkAside, SilenceKeeps
<1>7. QED
  BY <1>1, <1>2, <1>3, <1>4, <1>5, <1>6 DEF Next

\* The invariant holds of every behaviour.
THEOREM Invariant == Spec => []Inductive
<1>1. Init => Inductive
  BY InitiallyAll
<1>2. Inductive /\ [Next]_vars => Inductive'
  BY StepsKeepAll
<1>3. QED
  BY <1>1, <1>2, PTL DEF Spec

\* Records of one event are one record: they name one account.
LEMMA SameEventSameRecord ==
  ASSUME TypeOK, RecordsAgree, NEW r \in Traced, NEW s \in Traced,
         [r EXCEPT !.uid = Nobody] = [s EXCEPT !.uid = Nobody]
  PROVE  r = s
<1>1. r \in AuditRecord /\ s \in AuditRecord
  BY TypedRange DEF TypeOK, Traced
<1>2. /\ [r EXCEPT !.uid = Nobody].of = r.of
      /\ [r EXCEPT !.uid = Nobody].what = r.what
      /\ [r EXCEPT !.uid = Nobody].n = r.n
      /\ [s EXCEPT !.uid = Nobody].of = s.of
      /\ [s EXCEPT !.uid = Nobody].what = s.what
      /\ [s EXCEPT !.uid = Nobody].n = s.n
  BY <1>1 DEF AuditRecord
<1>3. r.of = s.of /\ r.what = s.what /\ r.n = s.n
  BY <1>2
<1>4. r.uid = s.uid
  <2>1. r \in Recorded /\ s \in Recorded
    BY DEF Recorded
  <2>2. CASE r.of \in Connection
    BY <1>3, <2>1, <2>2 DEF RecordsAgree
  <2>3. CASE r.of \notin Connection
    BY <1>3, <2>1, <2>3 DEF RecordsAgree
  <2>4. QED
    BY <2>2, <2>3
<1>5. QED
  BY <1>1, <1>3, <1>4 DEF AuditRecord

\* Whatever comes to its end is recorded, whatever the channel's depth and
\* whoever else records, unless a fault loses its record; and it is recorded
\* once.
THEOREM EndsAreRecorded == Spec => []EndedIsRecordedOnce
<1>1. Inductive => RecordedOnce
  <2>1. SUFFICES ASSUME Inductive, NEW i \in DOMAIN trail, NEW j \in DOMAIN trail,
                        [trail[i] EXCEPT !.uid = Nobody] = [trail[j] EXCEPT !.uid = Nobody]
                 PROVE  i = j
    BY DEF RecordedOnce
  <2>2. TypeOK /\ RecordsAgree /\ OneCopy
    BY <2>1 DEF Inductive, Orderly
  <2>3. trail[i] \in Traced /\ trail[j] \in Traced
    BY DEF Traced, Range
  <2>4. trail[i] = trail[j]
    BY <2>1, <2>2, <2>3, SameEventSameRecord
  <2>5. QED
    BY <2>2, <2>4 DEF OneCopy, IsInjective
<1>2. Inductive => EndedIsRecordedOnce
  BY <1>1 DEF Inductive, EndedIsRecordedOnce
<1>3. QED
  BY <1>2, Invariant, PTL

\* Connections, queries and packets, and whatever is in the channel, the
\* writer's hands and the trail, keep their types.
THEOREM TypeCorrect == Spec => []TypeOK
<1>1. Inductive => TypeOK
  BY DEF Inductive, Orderly
<1>2. QED
  BY <1>1, Invariant, PTL

\* The line of an intercepted session comes before those of its contents,
\* through the channel, back-pressure and the tasks exchanges spawn.
THEOREM SessionsComeFirst == Spec => []SessionBeforeContents
<1>1. Inductive => SessionBeforeContents
  BY DEF Inductive, Orderly, SessionsAhead, Behind, SessionBeforeContents
<1>2. QED
  BY <1>1, Invariant, PTL

\* All lines of one connection name the account it was attributed to.
THEOREM AccountsAgree == Spec => []OneAccount
<1>1. Inductive => OneAccount
  BY DEF Inductive, Orderly, RecordsAgree, Recorded, OneAccount
<1>2. QED
  BY <1>1, Invariant, PTL

\* Nothing the session sent over a connection the trail calls refused is ever
\* relayed: its destination sees the gateway's greeting, if anything.
THEOREM RefusalsCarryNothing == Spec => []RefusedCarriedNothing
<1>1. Inductive => RefusedCarriedNothing
  BY DEF Inductive, Orderly, RecordsAgree, Recorded, RefusedCarriedNothing
<1>2. QED
  BY <1>1, Invariant, PTL

\* And a greeting leaves a line, of the session or of the refusal that came
\* of it, unless the gateway went down or a fault lost the line.
THEOREM GreetingsAreTold == Spec => []GreetedIsTold
<1>1. Inductive => GreetedIsTold
  BY DEF Inductive
<1>2. QED
  BY <1>1, Invariant, PTL
=============================================================================
