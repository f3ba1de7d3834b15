------------------------------ MODULE Gateway ------------------------------
(***************************************************************************)
(* The audit gateway: `cyber-sandbox-gateway serve`, inside a session.     *)
(*                                                                         *)
(* The packet filter redirects every TCP connection and every DNS query of *)
(* the session here, and has the kernel log every packet it refuses.  Each *)
(* connection and each query is served by a task of its own, refused       *)
(* packets by one task, and whatever they observe reaches the trail        *)
(* through one bounded channel and one writer.                             *)
(*                                                                         *)
(* Bytes are left out.  Of a connection the module keeps what the session  *)
(* sent over it that has reached its destination: 0 stands for a relay of  *)
(* its bytes, and n for its nth HTTP exchange; and, apart from that,       *)
(* whether the gateway has begun TLS with the destination in its name.     *)
(***************************************************************************)
EXTENDS Naturals, Sequences, Functions

CONSTANTS
  Connection,
  Query,
  Packet,        \* the packets the filter refuses
  Depth,         \* QUEUE_DEPTH
  MaxExchanges,  \* a bound on the HTTP exchanges of one connection
  Faults,        \* whether the gateway is killed, and the system's calls fail
  None

ASSUME GatewayAssumption ==
  /\ Depth \in Nat \ {0}
  /\ MaxExchanges \in Nat
  /\ Faults \in BOOLEAN
  /\ Connection \cap Query = {}
  /\ (Connection \cup Query) \cap Packet = {}
  /\ None \notin Connection \cup Query \cup Packet

VARIABLES
  up,        \* the gateway is running
  conn,      \* each connection, and the task that serves it
  query,     \* each DNS query, and the task that serves it
  packet,    \* each refused packet
  log,       \* those the kernel holds for the gateway, in order
  spawned,   \* records whose tasks have not offered them yet
  channel,   \* records in the channel, then those waiting for room in it
  writing,   \* the record the writer has taken
  trail,     \* the records in the file
  lost       \* a history: records that a fault has kept out of it

vars == <<up, conn, query, packet, log, spawned, channel, writing, trail, lost>>

-----------------------------------------------------------------------------
\* Whom the kernel's table names: the account that opened the socket, nobody
\* when the socket is gone, root when it is closed and lingers.  Queries and
\* packets have one record each, and whom it names is left out.
Owner == "owner"
Root == "root"
Nobody == "nobody"
Account == {Owner, Root, Nobody}

\* AuditEvent
What == {"dns", "connect", "tls", "http", "blocked"}

AuditRecord ==
  [of : Connection \cup Query \cup Packet, what : What,
   n : 0..MaxExchanges, uid : Account]

ASSUME NoneIsNoRecord == None \notin AuditRecord

\* Where the task of a connection waits.
Step ==
  {"none", "accept", "probe", "dial http", "dial other", "shake",
   "dial tls", "greet", "inner", "request", "respond", "body", "splice", "relay",
   "tls", "blocked", "connect",  \* until the channel has the record
   "over"}

Conn ==
  [step : Step,
   open : BOOLEAN,                \* the client has not hung up
   uid : Account \cup {None},
   greeted : BOOLEAN,             \* TLS was begun with its destination, under
                                  \* the name the session asked for, and the
                                  \* gateway did not go down before the answer
   tls : BOOLEAN,                 \* its TLS has been terminated, both ends
   n : 0..MaxExchanges,
   reached : SUBSET (0..MaxExchanges),
   ended : SUBSET (0..MaxExchanges)] \* and was seen to come to its end

Lookup ==
  [step : {"none", "attribute", "ask", "wait", "reply", "note", "say", "over"},
   ended : BOOLEAN]               \* it was answered, and could be read

TypeOK ==
  /\ up \in BOOLEAN
  /\ conn \in [Connection -> Conn]
  /\ query \in [Query -> Lookup]
  /\ packet \in [Packet -> {"none", "logged", "say", "over"}]
  /\ log \in Seq(Packet)
  /\ spawned \in SUBSET AuditRecord
  /\ channel \in Seq(AuditRecord)
  /\ writing \in AuditRecord \cup {None}
  /\ trail \in Seq(AuditRecord)
  /\ lost \in SUBSET AuditRecord

Init ==
  /\ up = FALSE
  /\ conn = [c \in Connection |-> [step |-> "none", open |-> FALSE,
       uid |-> None, greeted |-> FALSE, tls |-> FALSE, n |-> 0,
       reached |-> {}, ended |-> {}]]
  /\ query = [q \in Query |-> [step |-> "none", ended |-> FALSE]]
  /\ packet = [p \in Packet |-> "none"]
  /\ log = <<>>
  /\ spawned = {}
  /\ channel = <<>>
  /\ writing = None
  /\ trail = <<>>
  /\ lost = {}

\* Records on their way to the trail.
Pending == spawned \cup Range(channel) \cup ({writing} \ {None})

-----------------------------------------------------------------------------
(***************************************************************************)
(* audit.rs: the channel and its writer.                                   *)
(***************************************************************************)
Written == <<writing, trail, lost>>
Sink == <<spawned, channel, Written>>

\* Mutant of Offer: a record that does not fit is dropped.
OfferOrDrop(r) ==
  channel' = IF Len(channel) < Depth THEN Append(channel, r) ELSE channel

\* AuditSink::record(), up to where it waits: producers are let in in the
\* order in which they came.
Offer(r) == channel' = Append(channel, r)

\* Whether the producer of what is still waiting for room.
Waits(of, what) ==
  \E i \in DOMAIN channel :
    i > Depth /\ channel[i].of = of /\ channel[i].what = what

\* spawn(): the loop of the writer.
Take ==
  /\ writing = None
  /\ channel # <<>>
  /\ writing' = Head(channel)
  /\ channel' = Tail(channel)
  /\ UNCHANGED <<up, conn, query, packet, log, spawned, trail, lost>>

Write ==
  /\ writing # None
  /\ trail' = Append(trail, writing)
  /\ writing' = None
  /\ UNCHANGED <<up, conn, query, packet, log, spawned, channel, lost>>

\* It cannot be written, which is logged.
FailToWrite ==
  /\ Faults
  /\ writing # None
  /\ lost' = lost \cup {writing}
  /\ writing' = None
  /\ UNCHANGED <<up, conn, query, packet, log, spawned, channel, trail>>

\* ExchangeReport::emit(): the task it spawns.
OfferSpawned ==
  \E r \in spawned :
    /\ spawned' = spawned \ {r}
    /\ Offer(r)
    /\ UNCHANGED <<up, conn, query, packet, log, Written>>

-----------------------------------------------------------------------------
(***************************************************************************)
(* tcp.rs and tls.rs: one connection.                                      *)
(***************************************************************************)
Elsewhere == <<up, query, packet, log>>

\* Mutant of RecordOf: the account is looked up when the record is made.
RecordOfNow(c, what, n) ==
  [of |-> c, what |-> what, n |-> n,
   uid |-> IF conn[c].open THEN Owner ELSE Nobody]

\* What the sink attributed to this connection makes of an event.
RecordOf(c, what, n) ==
  [of |-> c, what |-> what, n |-> n, uid |-> conn[c].uid]

Goes(c, from, to) ==
  /\ conn[c].step = from
  /\ conn' = [conn EXCEPT ![c].step = to]

\* A step at which nothing is recorded.
Quietly(c, from, to) ==
  /\ Goes(c, from, to)
  /\ UNCHANGED <<Elsewhere, Sink>>

\* A record is offered, and awaited before anything else is done.
Says(c, from, what) ==
  /\ Goes(c, from, what)
  /\ Offer(RecordOf(c, what, 0))
  /\ UNCHANGED <<Elsewhere, spawned, Written>>

\* The session opens a connection, which the filter redirects.
Open(c) ==
  /\ up
  /\ conn[c].step = "none"
  /\ conn' = [conn EXCEPT ![c].step = "accept", ![c].open = TRUE]
  /\ UNCHANGED <<Elsewhere, Sink>>

HangUp(c) ==
  /\ conn[c].step # "over"
  /\ conn[c].open
  /\ conn' = [conn EXCEPT ![c].open = FALSE]
  /\ UNCHANGED <<Elsewhere, Sink>>

\* serve(), original_destination() and owner_of().
Attribute(c) ==
  /\ conn[c].step = "accept"
  /\ \E uid \in IF conn[c].open THEN {Owner} ELSE {Root, Nobody} :
       conn' = [conn EXCEPT ![c].step = "probe", ![c].uid = uid]
  /\ UNCHANGED <<Elsewhere, Sink>>

\* Their errors; nothing has been relayed.
FailToAttribute(c) == Faults /\ Quietly(c, "accept", "over")

\* Mutant of Probe: a client that says nothing is waited for.
ProbeUntilEnd(c) ==
  /\ ~conn[c].open
  /\ \E to \in {"shake", "dial http", "dial other"} : Quietly(c, "probe", to)

\* Prefixed::probe(): what the first bytes look like, or what none within
\* PROBE_WAIT do.
Probe(c) ==
  \E to \in {"shake", "dial http", "dial other"} : Quietly(c, "probe", to)

\* The connection is reset, or what comes inside TLS is not a record of it.
FailToProbe(c) ==
  \/ ~conn[c].open /\ Quietly(c, "probe", "over")
  \/ Quietly(c, "inner", "over")

\* The bytes of the connection, or what is left of it, are relayed.
Relays(c, from) ==
  /\ conn[c].step = from
  /\ conn' = [conn EXCEPT ![c].step = "relay", ![c].reached = @ \cup {0}]
  /\ UNCHANGED <<Elsewhere, Sink>>

\* TlsBridge::intercept(): the session's end of TLS, and a server name that
\* can be one ...
Shake(c) == Quietly(c, "shake", "dial tls")

\* ... then the connection to the destination, which learns the name from
\* the first message sent to it, before its certificate is known ...
Greet(c) ==
  /\ conn[c].step = "dial tls"
  /\ conn' = [conn EXCEPT ![c].step = "greet", ![c].greeted = TRUE]
  /\ UNCHANGED <<Elsewhere, Sink>>

\* connect(), and what handle() or intercept() does with the stream.
Dial(c) ==
  \/ Quietly(c, "dial http", "request")
  \/ Relays(c, "dial other")
  \/ Greet(c)

FailToDial(c) ==
  \E from \in {"dial http", "dial other", "dial tls"} : Says(c, from, "blocked")

\* Mutant of Intercept: the record is left to a task.
InterceptAndSpawn(c) ==
  /\ conn[c].step = "greet"
  /\ conn' = [conn EXCEPT ![c].step = "inner", ![c].tls = TRUE]
  /\ spawned' = spawned \cup {RecordOf(c, "tls", 0)}
  /\ UNCHANGED <<Elsewhere, channel, Written>>

\* ... then the destination's end of TLS, and the record of both.
Intercept(c) ==
  /\ conn[c].step = "greet"
  /\ conn' = [conn EXCEPT ![c].step = "tls", ![c].tls = TRUE]
  /\ Offer(RecordOf(c, "tls", 0))
  /\ UNCHANGED <<Elsewhere, spawned, Written>>

\* Mutant of FailToIntercept: the error is passed on before it is recorded.
FailToInterceptUnsaid(c) ==
  \E from \in {"shake", "greet"} : Quietly(c, from, "over")

\* Either handshake fails, or the destination shows no certificate that
\* holds.
FailToIntercept(c) ==
  \E from \in {"shake", "greet"} : Says(c, from, "blocked")

\* The second probe, inside the session.
ProbeInside(c) == Quietly(c, "inner", "request") \/ Relays(c, "inner")

\* The channel has room, and the task goes on.
Continue(c) ==
  \E what \in {"tls", "blocked", "connect"} :
    /\ ~Waits(c, what)
    /\ Quietly(c, what, IF what = "tls" THEN "inner" ELSE "over")

\* copy_bidirectional() has seen both ends of the relay.
EndRelay(c) ==
  /\ conn[c].step = "relay"
  /\ conn' = [conn EXCEPT ![c].step = "connect", ![c].ended = @ \cup {0}]
  /\ Offer(RecordOf(c, "connect", 0))
  /\ UNCHANGED <<Elsewhere, spawned, Written>>

\* Mutant of BreakRelay: it is reported as refused.
BreakAndSay(c) == Says(c, "relay", "blocked")

\* Or an error on either side, and returns before the record.
BreakRelay(c) == Quietly(c, "relay", "over")

-----------------------------------------------------------------------------
(***************************************************************************)
(* http.rs: the exchanges of one connection, which hyper serves one after  *)
(* the other.                                                              *)
(***************************************************************************)
\* forward(): a request is sent to the destination.
Forward(c) ==
  /\ conn[c].step = "request"
  /\ conn[c].n < MaxExchanges
  /\ LET n == conn[c].n + 1 IN
       conn' = [conn EXCEPT ![c].step = "respond", ![c].n = n,
                            ![c].reached = @ \cup {n}]
  /\ UNCHANGED <<Elsewhere, Sink>>

\* There is no further request, it is malformed, or the connection to the
\* destination is gone before it is sent.
EndRequests(c) == Quietly(c, "request", "over")

\* The head of the response arrives.
Respond(c) == Quietly(c, "respond", "body")

\* It does not, or the client hangs up, and the exchange is dropped.
FailToRespond(c) == Quietly(c, "respond", "over")

\* The end of the body is polled, which is what emits the record.
EndBody(c) ==
  /\ conn[c].step = "body"
  /\ conn' = [conn EXCEPT ![c].step = "request",
                          ![c].ended = @ \cup {conn[c].n}]
  /\ spawned' = spawned \cup {RecordOf(c, "http", conn[c].n)}
  /\ UNCHANGED <<Elsewhere, channel, Written>>

\* It is not, because the body said before that it had ended (is_end_stream).
EndBodyUnpolled(c) == Quietly(c, "body", "request")

\* The client or the destination is gone before the end.
DropBody(c) == Quietly(c, "body", "over")

\* The response switches protocols; its body is empty and never polled.
Upgrade(c) == Quietly(c, "respond", "splice")

\* splice_upgrade()
Splice(c) == Relays(c, "splice")

FailToSplice(c) == Quietly(c, "splice", "over")

-----------------------------------------------------------------------------
(***************************************************************************)
(* dns.rs: one query.                                                      *)
(***************************************************************************)
Apart == <<up, conn, packet, log>>

QueryGoes(q, from, to) ==
  /\ query[q].step = from
  /\ query' = [query EXCEPT ![q].step = to]
  /\ UNCHANGED <<Apart, Sink>>

Receive(q) == up /\ QueryGoes(q, "none", "attribute")

AttributeQuery(q) == QueryGoes(q, "attribute", "ask")

Ask(q) == QueryGoes(q, "ask", "wait")

Hear(q) == QueryGoes(q, "wait", "reply")

\* UPSTREAM_TIMEOUT
TimeOut(q) == QueryGoes(q, "wait", "over")

\* The client has its answer before anything is recorded.
Reply(q) == QueryGoes(q, "reply", "note")

FailQuery(q) ==
  /\ Faults
  /\ \E from \in {"attribute", "ask", "wait", "reply"} :
       QueryGoes(q, from, "over")

\* Each question is recorded; there is one.
Note(q) ==
  /\ query[q].step = "note"
  /\ query' = [query EXCEPT ![q].step = "say", ![q].ended = TRUE]
  /\ Offer([of |-> q, what |-> "dns", n |-> 0, uid |-> Owner])
  /\ UNCHANGED <<Apart, spawned, Written>>

\* The question or the answer cannot be parsed, or there is no question.
FailToNote(q) == QueryGoes(q, "note", "over")

ContinueQuery(q) == ~Waits(q, "dns") /\ QueryGoes(q, "say", "over")

-----------------------------------------------------------------------------
(***************************************************************************)
(* nflog.rs: the packets the filter refused.                               *)
(***************************************************************************)
Beside == <<up, conn, query>>

\* The kernel logs it, if anyone listens, and drops it.
Refuse(p) ==
  /\ packet[p] = "none"
  /\ packet' = [packet EXCEPT ![p] = IF up THEN "logged" ELSE "over"]
  /\ log' = IF up THEN Append(log, p) ELSE log
  /\ UNCHANGED <<Beside, Sink>>

\* watch() and report(): one packet, and nothing else until it is recorded.
Report(p) ==
  /\ log # <<>>
  /\ p = Head(log)
  /\ \A other \in Packet : packet[other] # "say"
  /\ log' = Tail(log)
  /\ packet' = [packet EXCEPT ![p] = "say"]
  /\ Offer([of |-> p, what |-> "blocked", n |-> 0, uid |-> Owner])
  /\ UNCHANGED <<Beside, spawned, Written>>

\* It has no payload, or headers that cannot be parsed.
SkipReport(p) ==
  /\ log # <<>>
  /\ p = Head(log)
  /\ \A other \in Packet : packet[other] # "say"
  /\ log' = Tail(log)
  /\ packet' = [packet EXCEPT ![p] = "over"]
  /\ UNCHANGED <<Beside, Sink>>

ContinueReport(p) ==
  /\ packet[p] = "say"
  /\ ~Waits(p, "blocked")
  /\ packet' = [packet EXCEPT ![p] = "over"]
  /\ UNCHANGED <<Beside, log, Sink>>

-----------------------------------------------------------------------------
(***************************************************************************)
(* main.rs: the process.                                                   *)
(***************************************************************************)
\* serve(), up to where it is ready.  The trail is appended to.
Start ==
  /\ ~up
  /\ up' = TRUE
  /\ UNCHANGED <<conn, query, packet, log, Sink>>

\* It is killed, its machine stops, or one of the three services fails (the
\* kernel's log overruns, say): with it goes all it held.
Stop ==
  /\ Faults
  /\ up
  /\ up' = FALSE
  /\ conn' = [c \in Connection |->
       IF conn[c].step = "none" THEN conn[c]
       ELSE [conn[c] EXCEPT !.step = "over",
                            !.greeted = @ /\ conn[c].step # "greet"]]
  /\ query' = [q \in Query |->
       IF query[q].step = "none" THEN query[q] ELSE [query[q] EXCEPT !.step = "over"]]
  /\ packet' = [p \in Packet |-> IF packet[p] = "none" THEN "none" ELSE "over"]
  /\ log' = <<>>
  /\ spawned' = {}
  /\ channel' = <<>>
  /\ writing' = None
  /\ lost' = lost \cup Pending
  /\ UNCHANGED trail

-----------------------------------------------------------------------------
\* What a connection's task does by itself, or by a deadline.
ConnStep(c) ==
  \/ Attribute(c) \/ Probe(c) \/ Dial(c) \/ FailToDial(c) \/ ProbeInside(c)
  \/ Continue(c)

\* What it does when the client or the destination does something.
ConnEvent(c) ==
  \/ Open(c) \/ HangUp(c) \/ FailToAttribute(c) \/ FailToProbe(c)
  \/ Shake(c) \/ Intercept(c) \/ FailToIntercept(c) \/ EndRelay(c) \/ BreakRelay(c)
  \/ Forward(c) \/ EndRequests(c) \/ Respond(c) \/ FailToRespond(c)
  \/ EndBody(c) \/ EndBodyUnpolled(c) \/ DropBody(c)
  \/ Upgrade(c) \/ Splice(c) \/ FailToSplice(c)

QueryStep(q) ==
  \/ AttributeQuery(q) \/ Ask(q) \/ Hear(q) \/ TimeOut(q) \/ Reply(q)
  \/ Note(q) \/ FailToNote(q) \/ ContinueQuery(q)

PacketStep(p) == Report(p) \/ SkipReport(p) \/ ContinueReport(p)

WriterStep == Take \/ Write \/ FailToWrite

Next ==
  \/ Start \/ Stop \/ WriterStep \/ OfferSpawned
  \/ \E c \in Connection : ConnStep(c) \/ ConnEvent(c)
  \/ \E q \in Query : Receive(q) \/ QueryStep(q) \/ FailQuery(q)
  \/ \E p \in Packet : Refuse(p) \/ PacketStep(p)

Spec == Init /\ [][Next]_vars

(***************************************************************************)
(* Tasks run, calls return, TCP gives up connecting.  Nothing is assumed   *)
(* of clients and destinations, nor that the gateway is started again.     *)
(***************************************************************************)
Fairness ==
  /\ WF_vars(WriterStep) /\ WF_vars(OfferSpawned)
  /\ \A c \in Connection : WF_vars(ConnStep(c))
  /\ \A q \in Query : WF_vars(QueryStep(q))
  /\ \A p \in Packet : WF_vars(PacketStep(p))

FairSpec == Spec /\ Fairness

-----------------------------------------------------------------------------
Traced == Range(trail)

Somewhere == Pending \cup Traced \cup lost

\* Which line of the trail accounts for part n of a connection.
LineOf(n) == IF n = 0 THEN "connect" ELSE "http"

AccountedFor(x, what, n) ==
  \E r \in Somewhere : r.of = x /\ r.what = what /\ r.n = n

EndedIsRecorded ==
  /\ \A c \in Connection :
       /\ conn[c].tls => AccountedFor(c, "tls", 0)
       /\ \A n \in conn[c].ended : AccountedFor(c, LineOf(n), n)
  /\ \A q \in Query : query[q].ended => AccountedFor(q, "dns", 0)

RecordedOnce ==
  \A i, j \in DOMAIN trail :
    i # j => [trail[i] EXCEPT !.uid = Nobody] # [trail[j] EXCEPT !.uid = Nobody]

\* Whatever comes to its end while the channel is full, or while records of
\* others come first, is recorded all the same, once, unless a fault loses
\* the record: back-pressure holds producers up and drops nothing.
\* (audit.rs:9-13.)
EndedIsRecordedOnce == EndedIsRecorded /\ RecordedOnce

\* The line of an intercepted session comes before every line of what was
\* seen inside it.  (tcp.rs:123, recorded before the inside is probed.)
SessionBeforeContents ==
  \A i, j \in DOMAIN trail :
    i < j /\ trail[i].of = trail[j].of => trail[j].what # "tls"

\* All lines of one connection name the same account, the one found while it
\* was accepted.  (audit.rs:28-32.)
OneAccount ==
  \A r, s \in Traced : r.of = s.of => r.uid = s.uid

\* Of a connection the trail calls refused, before or after, nothing the
\* session sent has been relayed: all that its destination can have seen is
\* the gateway's own greeting.  (record.rs Blocked, tcp.rs:106-117.)
RefusedCarriedNothing ==
  \A r \in Traced :
    r.what = "blocked" /\ r.of \in Connection => conn[r.of].reached = {}

\* A destination that was greeted under the name a session asked for leaves
\* a line, of the session if it came about and of a refusal if it did not,
\* unless the gateway went down before the answer or a fault lost the line.
\* (tls.rs:99-129, tcp.rs:106-123.)
GreetedIsTold ==
  \A c \in Connection :
    conn[c].greeted /\ conn[c].step # "greet" =>
      AccountedFor(c, "tls", 0) \/ AccountedFor(c, "blocked", 0)

\* Nothing waits for ever on the gateway's account, however slow the trail
\* is: what it can do by itself it does, in every task, and the trail
\* catches up.
Held == {"accept", "probe", "dial http", "dial other", "dial tls",
         "inner", "tls", "blocked", "connect"}

NobodyIsHeldForEver ==
  /\ \A c \in Connection : conn[c].step \in Held ~> conn[c].step \notin Held
  /\ \A q \in Query : query[q].step # "none" ~> query[q].step = "over"
  /\ \A p \in Packet : packet[p] # "none" ~> packet[p] = "over"
  /\ []<>(Pending = {})

\* Once a connection is over, all of it that has reached the network is in
\* the trail, on its way there, or lost to a fault.  (main.rs:3-6, tcp.rs:3-5.)
CarriedIsRecorded ==
  \A c \in Connection :
    conn[c].step = "over" =>
      \A n \in conn[c].reached : AccountedFor(c, LineOf(n), n)
-----------------------------------------------------------------------------
(***************************************************************************)
(* The inductive invariant behind SessionBeforeContents, OneAccount and    *)
(* RefusedCarriedNothing.                                                  *)
(***************************************************************************)
\* Before anything of a connection is relayed or recorded.
Early == {"none", "accept", "probe", "dial http", "dial other", "shake",
          "dial tls", "greet"}

Recorded == Pending \cup Traced

\* A connection past its attribution has an account.
AccountKnown ==
  \A c \in Connection :
    conn[c].step \notin {"none", "accept", "over"} => conn[c].uid \in Account

\* Nothing of a connection that is not being served yet, or that was refused,
\* has reached its destination.
EarlyIsUnreached ==
  \A c \in Connection :
    conn[c].step \in Early \cup {"blocked"} => conn[c].reached = {}

\* What has been recorded of a connection agrees with where it is.
RecordsAgree ==
  \A r \in Recorded :
    IF r.of \in Connection
    THEN /\ conn[r.of].step \notin Early
         /\ r.uid = conn[r.of].uid
         /\ r.what = "blocked" => /\ conn[r.of].step \in {"blocked", "over"}
                                  /\ conn[r.of].reached = {}
    ELSE r.uid = Owner

\* On its way to the trail, the record of a session is ahead of all others.
Behind(s) ==
  \A i, j \in DOMAIN s : i < j /\ s[i].of = s[j].of => s[j].what # "tls"

Precedes(A, B) == \A r \in A, s \in B : r.of = s.of => s.what # "tls"

SessionsAhead ==
  /\ \A r \in spawned : r.what # "tls"
  /\ Behind(channel)
  /\ Behind(trail)
  /\ Precedes(Traced, Range(channel))
  /\ Precedes(Traced, {writing} \ {None})
  /\ Precedes({writing} \ {None}, Range(channel))

Orderly ==
  /\ TypeOK
  /\ AccountKnown
  /\ EarlyIsUnreached
  /\ RecordsAgree
  /\ SessionsAhead

(***************************************************************************)
(* And the one behind EndedIsRecordedOnce and GreetedIsTold.               *)
(***************************************************************************)
\* A record is in one place only, and there once.
OneCopy ==
  /\ IsInjective(channel)
  /\ IsInjective(trail)
  /\ spawned \cap Range(channel) = {}
  /\ spawned \cap Traced = {}
  /\ Range(channel) \cap Traced = {}
  /\ writing \notin spawned \cup Range(channel) \cup Traced

\* In the middle of an exchange, whose record is yet to be made.
Exchanging == {"respond", "body"}

\* What has been recorded will not be recorded again: its producer is past it.
PastIt(r) ==
  /\ r.of \in Connection =>
       /\ r.what = "connect" => conn[r.of].step \in {"connect", "over"}
       /\ r.what = "http" =>
            /\ r.n <= conn[r.of].n
            /\ conn[r.of].step \in Exchanging => r.n # conn[r.of].n
  /\ r.of \in Query => query[r.of].step \in {"say", "over"}
  /\ r.of \in Packet => packet[r.of] \in {"say", "over"}

\* Nor has any destination been greeted before it is its turn.
EarlyIsUngreeted ==
  \A c \in Connection : conn[c].step \in Early \ {"greet"} => ~conn[c].greeted

ProducersArePast ==
  /\ \A r \in Recorded : PastIt(r)
  /\ \A c \in Connection : conn[c].step \in Exchanging => conn[c].n # 0
  /\ IsInjective(log)
  /\ \A p \in Range(log) : packet[p] = "logged"

\* The invariant the proofs are by induction on.
Inductive ==
  /\ Orderly
  /\ OneCopy
  /\ ProducersArePast
  /\ EndedIsRecorded
  /\ EarlyIsUngreeted
  /\ GreetedIsTold
=============================================================================
