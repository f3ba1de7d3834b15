---------------------------- MODULE EgressPolicy ----------------------------
(***************************************************************************)
(* The packet filter of a session's machine: the commands of               *)
(* egress-policy.sh in their order, and what the kernel does with a packet *)
(* when some of them are in force.                                         *)
(***************************************************************************)
EXTENDS Naturals, Sequences

\* A packet is sent by an account or comes from the host, outside or between
\* the guest's own sockets ("lo").  What nat redirects has the address of the
\* gateway's socket from then on, and still the interface of its old route.
Packet ==
  [by : {"gateway", "session", "host"}, protocol : {"tcp", "dns", "udp"},
   family : {4, 6}, to : {"outside", "lo", "gateway"},
   reply : BOOLEAN]        \* ESTABLISHED,RELATED

Four == {p \in Packet : p.family = 4}
Six == {p \in Packet : p.family = 6}
ToLo(S) == {p \in S : p.to = "lo"}
Replies(S) == {p \in S : p.reply}
ByGateway(S) == {p \in S : p.by = "gateway"}
Over(S, protocol) == {p \in S : p.protocol = protocol}
Redirected(S) == {p \in S : p.to = "gateway"}
\* They come in over lo, whatever interface they went out to.
Within(S) == {p \in S : p.to \in {"lo", "gateway"}}

Command ==
  [chain : {"input", "nat", "output", "output6"}, matches : SUBSET Packet,
   verdict : {"accept", "drop", "log", "redirect", "return", "default drop"}]

Does(c, S, v) == [chain |-> c, matches |-> S, verdict |-> v]

\* From the first -P to the end.  The host knocks on the ssh port only; a
\* machine with one interface forwards nothing; and nothing comes in over
\* IPv6 but what went out.
Policy ==
  <<Does("input", Four, "default drop"),
    Does("input", Within(Four), "accept"),
    Does("input", Replies(Four), "accept"),
    Does("input", Over(Four, "tcp"), "accept"),
    Does("nat", ByGateway(Four), "return"),
    Does("nat", ToLo(Four), "return"),
    Does("nat", Over(Four, "tcp"), "redirect"),
    Does("nat", Over(Four, "dns"), "redirect"),
    Does("output", Four, "default drop"),
    Does("output", ToLo(Four), "accept"),
    Does("output", Replies(Four), "accept"),
    Does("output", ByGateway(Four), "accept"),
    Does("output", Redirected(Over(Four, "tcp")), "accept"),
    Does("output", Redirected(Over(Four, "dns")), "accept"),
    Does("output", Four, "log"),
    Does("output", Four, "drop"),
    Does("output6", Six, "default drop"),
    Does("output6", ToLo(Six), "accept"),
    Does("output6", Six, "log")>>

Commands == 1..Len(Policy)

-----------------------------------------------------------------------------
(***************************************************************************)
(* What becomes of a packet when the commands in R are in force.           *)
(***************************************************************************)
Terminal == {"accept", "drop", "redirect", "return"}

Matching(R, c, p, V) ==
  {i \in R : Policy[i].chain = c /\ p \in Policy[i].matches
             /\ Policy[i].verdict \in V}

\* Rules stand in the order of their commands; the first that decides does.
Decides(R, c, p, v) ==
  \E i \in Matching(R, c, p, {v}) :
    \A j \in Matching(R, c, p, Terminal) : i <= j

\* Without one, it is for the chain's own policy.
IsLeft(R, c, p) == Matching(R, c, p, Terminal) = {}
ByDefault(R, c, p) == IsLeft(R, c, p) /\ Matching(R, c, p, {"default drop"}) # {}

IsAccepted(R, c, p) ==
  \/ Decides(R, c, p, "accept")
  \/ IsLeft(R, c, p) /\ ~ ByDefault(R, c, p)

IsDropped(R, c, p) == Decides(R, c, p, "drop") \/ ByDefault(R, c, p)

\* NFLOG lets the next rule decide.
IsLogged(R, c, p) ==
  \E i \in Matching(R, c, p, {"log"}) :
    \A j \in Matching(R, c, p, Terminal) : i <= j

\* Only the first packet of a flow is asked about in nat.
IsRedirected(R, p) ==
  p.family = 4 /\ ~ p.reply /\ Decides(R, "nat", p, "redirect")

Out(p) == IF p.family = 4 THEN "output" ELSE "output6"

\* It gets to the gateway's sockets, whoever is behind them.
IsGivenToGateway(R, p) ==
  LET there == [p EXCEPT !.to = "gateway"]
  IN  /\ IsRedirected(R, p)
      /\ IsAccepted(R, "output", there)
      /\ IsAccepted(R, "input", there)

IsRefused(R, p) ==
  ~ IsRedirected(R, p) /\ IsLogged(R, Out(p), p) /\ IsDropped(R, Out(p), p)

\* The host reaches sshd with its first packet.
Knock == [by |-> "host", protocol |-> "tcp", family |-> 4, to |-> "outside",
          reply |-> FALSE]

LetsIn(R) == IsAccepted(R, "input", Knock)
=============================================================================
