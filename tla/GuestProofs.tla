---------------------------- MODULE GuestProofs ----------------------------
(***************************************************************************)
(* What holds of a session's machine over any number of boots, stops and   *)
(* kills, for any authorities and any length of the trail.                 *)
(***************************************************************************)
EXTENDS GuestMachine, TrailProofs

-----------------------------------------------------------------------------
(***************************************************************************)
(* The trail in the machine.                                               *)
(***************************************************************************)
TrailIsRight == TrailTypeOK /\ TrailInv

LEMMA QuietTrail == TrailIsRight /\ UNCHANGED trailVars => TrailIsRight'
BY SameTypes, SameTrail DEF TrailIsRight, trailVars

LEMMA AbandonedIsRight ==
  TrailIsRight /\ Abandoned /\ follower' \in Follower => TrailIsRight'
BY AbandonedTypes, AbandonedTrail DEF TrailIsRight, TrailInv

LEMMA HostKeepsTrail == TrailIsRight /\ (Host \/ StartOutside) => TrailIsRight'
BY QuietTrail DEF Host, Open, OpenRunning, Reach, LeaveSession, StartOutside

LEMMA EntrypointKeepsTrail == TrailIsRight /\ Entrypoint => TrailIsRight'
BY QuietTrail DEF Entrypoint, Install, InitAuthority, Trust, Copy, UpdateBundle,
     StartGateway, Prepare, DropCapability, Exec, Proceed

LEMMA LoadKeepsTrail == TrailIsRight /\ Load => TrailIsRight'
BY QuietTrail DEF Load, ReadKey, ReadCertificate, WriteKey, WriteCertificate,
     Check, Elsewhere

LEMMA PowerOffKeepsTrail == TrailIsRight /\ PowerOff => TrailIsRight'
<1> SUFFICES ASSUME TrailIsRight, PowerOff PROVE TrailIsRight'
  OBVIOUS
<1>1. Abandoned /\ follower' = Ended
  BY DEF PowerOff, GoesDown
<1>2. follower' \in Follower
  BY <1>1, EndedType DEF TrailIsRight
<1> QED BY <1>1, <1>2, AbandonedIsRight

LEMMA GatewayKeepsTrail == TrailIsRight /\ Gateway => TrailIsRight'
<1> SUFFICES ASSUME TrailIsRight, Gateway PROVE TrailIsRight'
  OBVIOUS
<1>1. follower \in Follower
  BY DEF TrailIsRight, TrailTypeOK
<1>2. CASE OpenTrail \/ HaveAuthority \/ Bind
  BY <1>2, QuietTrail DEF OpenTrail, HaveAuthority, Bind, GatewayGoes
<1>3. CASE GatewayDies
  BY <1>1, <1>3, AbandonedIsRight DEF GatewayDies
<1>4. CASE Records
  <2>1. CASE BeginAppend
    BY <2>1, BeginAppendTypes, BeginAppendTrail DEF TrailIsRight
  <2>2. CASE Put
    BY <2>2, PutTypes, PutTrail DEF TrailIsRight, TrailInv
  <2>3. CASE FailToPut
    BY <1>1, <2>3, AbandonedIsRight DEF FailToPut
  <2> QED BY <1>4, <2>1, <2>2, <2>3 DEF Records
<1> QED BY <1>2, <1>3, <1>4 DEF Gateway

LEMMA FollowKeepsTrail == TrailIsRight /\ Follow => TrailIsRight'
<1> SUFFICES ASSUME TrailIsRight, Follow PROVE TrailIsRight'
  OBVIOUS
<1>1. CASE BeginFollowing
  BY <1>1, BeginFollowingTypes, SameTrail DEF TrailIsRight, BeginFollowing
<1>2. CASE Read
  BY <1>2, ReadTypes, SameTrail DEF TrailIsRight, Read
<1>3. CASE LoseFollower
  BY <1>3, LoseFollowerTypes, SameTrail DEF TrailIsRight, LoseFollower
<1> QED BY <1>1, <1>2, <1>3 DEF Follow

LEMMA TrailStays == TrailIsRight /\ [Next]_vars => TrailIsRight'
<1>1. UNCHANGED vars => UNCHANGED trailVars
  BY DEF vars
<1> QED
  BY <1>1, QuietTrail, HostKeepsTrail, EntrypointKeepsTrail, LoadKeepsTrail,
     PowerOffKeepsTrail, GatewayKeepsTrail, FollowKeepsTrail DEF Next

-----------------------------------------------------------------------------
(***************************************************************************)
(* The types of the rest.                                                  *)
(***************************************************************************)
GuestTypeOK ==
  /\ step \in Step
  /\ rules \subseteq Commands
  /\ capable \in BOOLEAN
  /\ disk \in Disk
  /\ loader \in Loader
  /\ gateway \in {"none", "trail", "loading", "bind", "serving", "dead"}
  /\ created \in BOOLEAN
  /\ host \in [doing : {"idle", "waiting", "open"}, recorded : BOOLEAN]

LEMMA LoaderTypes ==
  /\ NoLoader \in Loader
  /\ [NoLoader EXCEPT !.step = "key"] \in Loader
BY DEF NoLoader, Loader, LoadStep, File

LEMMA HostTypes == GuestTypeOK /\ (Host \/ StartOutside) => GuestTypeOK'
<1> SUFFICES ASSUME GuestTypeOK, Host \/ StartOutside PROVE GuestTypeOK'
  OBVIOUS
<1>1. UNCHANGED <<rules, disk, loader, gateway>>
  BY DEF Host, Open, OpenRunning, Reach, LeaveSession, StartOutside
<1>2. step' \in Step /\ capable' \in BOOLEAN /\ created' \in BOOLEAN
  BY DEF GuestTypeOK, Host, Open, OpenRunning, Reach, LeaveSession,
         StartOutside, Boots, Step
<1>3. host' \in [doing : {"idle", "waiting", "open"}, recorded : BOOLEAN]
  <2> DEFINE T == [doing : {"idle", "waiting", "open"}, recorded : BOOLEAN]
  <2>1. host \in T
    BY DEF GuestTypeOK
  <2>2. \A h \in T, d \in {"idle", "waiting", "open"} : [h EXCEPT !.doing = d] \in T
    OBVIOUS
  <2>3. [doing |-> "open", recorded |-> TRUE] \in T
    OBVIOUS
  <2> HIDE DEF T
  <2>4. host' \in T
    BY <2>1, <2>2, <2>3 DEF Host, Open, OpenRunning, Reach, LeaveSession,
                            StartOutside
  <2> QED BY <2>4 DEF T
<1> QED BY <1>1, <1>2, <1>3 DEF GuestTypeOK

LEMMA PowerOffTypes == GuestTypeOK /\ PowerOff => GuestTypeOK'
BY LoaderTypes DEF GuestTypeOK, PowerOff, GoesDown, Step

LEMMA EntrypointTypes == GuestTypeOK /\ Entrypoint => GuestTypeOK'
<1> SUFFICES ASSUME GuestTypeOK, Entrypoint PROVE GuestTypeOK'
  OBVIOUS
<1> USE DEF GuestTypeOK, Step
<1>1. CASE Install
  BY <1>1 DEF Install
<1>2. CASE InitAuthority \/ Trust
  BY <1>2, LoaderTypes DEF InitAuthority, Trust
<1>3. CASE Copy
  BY <1>3 DEF Copy, Proceed, Disk, File
<1>4. CASE UpdateBundle
  BY <1>4 DEF UpdateBundle, Proceed, Disk, File
<1>5. CASE StartGateway \/ Prepare \/ DropCapability \/ Exec
  BY <1>5 DEF StartGateway, Prepare, DropCapability, Exec, Proceed
<1> QED BY <1>1, <1>2, <1>3, <1>4, <1>5 DEF Entrypoint

LEMMA LoadTypes == GuestTypeOK /\ Load => GuestTypeOK'
<1> SUFFICES ASSUME GuestTypeOK, Load PROVE GuestTypeOK'
  OBVIOUS
<1>1. UNCHANGED <<step, rules, capable, gateway, created, host>>
  BY DEF Load, ReadKey, ReadCertificate, WriteKey, WriteCertificate, Check,
         Elsewhere
<1>2. /\ loader.step \in LoadStep /\ loader.key \in File
      /\ loader.certificate \in File /\ loader \in Loader
      /\ disk \in Disk /\ disk.key \in File /\ disk.certificate \in File
  BY DEF GuestTypeOK, Loader, Disk
<1>3. \A s \in LoadStep, k \in File, c \in File :
        [step |-> s, key |-> k, certificate |-> c] \in Loader
  BY DEF Loader
<1>4. loader' \in Loader /\ disk' \in Disk
  <2>1. CASE ReadKey
    <3>1. CASE \E a \in Authority : Generates(a)
      BY ZenonT(40), <1>3, <2>1, <3>1, <1>2 DEF ReadKey, Generates, LoadStep, File
    <3>2. CASE Loaded(disk.key)
      BY <1>2, <2>1, <3>2 DEF ReadKey, Loaded, Loader, LoadStep
    <3> QED BY <2>1, <3>1, <3>2 DEF ReadKey
  <2>2. CASE ReadCertificate
    BY <1>2, <2>2 DEF ReadCertificate, Loader, LoadStep
  <2>3. CASE WriteKey
    BY <1>2, <2>3 DEF WriteKey, Loads, Loader, LoadStep, Disk, File
  <2>4. CASE WriteCertificate
    BY <1>2, <2>4 DEF WriteCertificate, Loads, Loader, LoadStep, Disk, File
  <2>5. CASE Check
    BY <1>2, <2>5 DEF Check, Loads, Loader, LoadStep
  <2> QED BY <2>1, <2>2, <2>3, <2>4, <2>5 DEF Load
<1> QED BY <1>1, <1>4 DEF GuestTypeOK

LEMMA GatewayTypes == GuestTypeOK /\ Gateway => GuestTypeOK'
BY LoaderTypes DEF GuestTypeOK, Gateway, OpenTrail, HaveAuthority, Bind,
     GatewayDies, Records, GatewayGoes, guestVars

LEMMA GuestTypesStay == GuestTypeOK /\ [Next]_vars => GuestTypeOK'
<1>1. GuestTypeOK /\ UNCHANGED guestVars => GuestTypeOK'
  BY DEF GuestTypeOK, guestVars
<1>2. (Follow \/ UNCHANGED vars) => UNCHANGED guestVars
  BY DEF Follow, vars
<1> QED
  BY <1>1, <1>2, HostTypes, PowerOffTypes, EntrypointTypes, LoadTypes,
     GatewayTypes DEF Next

LEMMA InitGuest == Init => TrailIsRight /\ GuestTypeOK
<1> SUFFICES ASSUME Init PROVE TrailIsRight /\ GuestTypeOK
  OBVIOUS
<1>1. TrailIsRight
  BY InitTypes, InitTrail DEF Init, TrailIsRight
<1>2. GuestTypeOK
  BY LoaderTypes DEF Init, GuestTypeOK, Step, Disk, File
<1> QED BY <1>1, <1>2

\* Every variable keeps its type, for any authorities and any records: what
\* the follower has in hand and has printed, and what is left of an append
\* cut anywhere, included.
THEOREM TypeCorrect == Spec => []TypeOK
<1>1. Init => TrailIsRight /\ GuestTypeOK
  BY InitGuest
<1>2. TrailIsRight /\ GuestTypeOK /\ [Next]_vars => (TrailIsRight /\ GuestTypeOK)'
  BY TrailStays, GuestTypesStay
<1>3. TrailIsRight /\ GuestTypeOK => TypeOK
  BY DEF TrailIsRight, GuestTypeOK, TypeOK
<1> QED BY <1>1, <1>2, <1>3, PTL DEF Spec

\* A record whose append returned is a line of its own in the trail for ever,
\* whatever is cut, killed or restarted afterwards, unless the append before
\* it was cut short (io.rs:37-56).
THEOREM AcknowledgedLasts == Spec => []AcknowledgedIsALine
<1>1. Init => TrailIsRight
  BY InitGuest
<1>2. TrailIsRight /\ [Next]_vars => TrailIsRight'
  BY TrailStays
<1>3. TrailIsRight => AcknowledgedIsALine
  BY StandsAsALine DEF TrailIsRight
<1> QED BY <1>1, <1>2, <1>3, PTL DEF Spec

-----------------------------------------------------------------------------
(***************************************************************************)
(* The reader of the trail.                                                *)
(***************************************************************************)
ReaderIsRight == FileInv /\ Reads(trail, follower)

LEMMA QuietReader == ReaderIsRight /\ UNCHANGED trailVars => ReaderIsRight'
BY SameFile DEF ReaderIsRight, trailVars

LEMMA HostKeepsReader == ReaderIsRight /\ (Host \/ StartOutside) => ReaderIsRight'
BY QuietReader DEF Host, Open, OpenRunning, Reach, LeaveSession, StartOutside

LEMMA EntrypointKeepsReader == ReaderIsRight /\ Entrypoint => ReaderIsRight'
BY QuietReader DEF Entrypoint, Install, InitAuthority, Trust, Copy,
     UpdateBundle, StartGateway, Prepare, DropCapability, Exec, Proceed

LEMMA LoadKeepsReader == ReaderIsRight /\ Load => ReaderIsRight'
BY QuietReader DEF Load, ReadKey, ReadCertificate, WriteKey, WriteCertificate,
     Check, Elsewhere

LEMMA AbandonedKeepsReader ==
  ReaderIsRight /\ Abandoned /\ Reads(trail, follower') => ReaderIsRight'
<1> SUFFICES ASSUME ReaderIsRight, Abandoned, Reads(trail, follower')
             PROVE  ReaderIsRight'
  OBVIOUS
<1>1. trail' = trail
  BY DEF Abandoned
<1>2. Reads(trail', follower')
  BY <1>1
<1> QED BY <1>2, AbandonedFile DEF ReaderIsRight

LEMMA PowerOffKeepsReader ==
  TrailIsRight /\ ReaderIsRight /\ PowerOff => ReaderIsRight'
<1> SUFFICES ASSUME TrailIsRight, ReaderIsRight, PowerOff
             PROVE  ReaderIsRight'
  OBVIOUS
<1>1. Abandoned /\ follower' = Ended
  BY DEF PowerOff, GoesDown
<1>2. Reads(trail, Ended)
  BY LastReads DEF TrailIsRight, ReaderIsRight
<1>3. Reads(trail, follower')
  BY <1>1, <1>2
<1> QED BY <1>1, <1>3, AbandonedKeepsReader

LEMMA GatewayKeepsReader ==
  TrailIsRight /\ ReaderIsRight /\ Gateway => ReaderIsRight'
<1> SUFFICES ASSUME TrailIsRight, ReaderIsRight, Gateway
             PROVE  ReaderIsRight'
  OBVIOUS
<1>1. UNCHANGED follower => Reads(trail, follower')
  BY DEF ReaderIsRight
<1>2. CASE OpenTrail \/ HaveAuthority \/ Bind
  BY <1>2, QuietReader DEF OpenTrail, HaveAuthority, Bind, GatewayGoes
<1>3. CASE GatewayDies
  BY <1>1, <1>3, AbandonedKeepsReader DEF GatewayDies
<1>4. CASE Records
  <2>1. CASE BeginAppend
    <3>1. UNCHANGED <<trail, follower>>
      BY <2>1 DEF BeginAppend
    <3>2. Reads(trail', follower')
      BY <3>1 DEF ReaderIsRight
    <3> QED BY <2>1, <3>2, BeginAppendFile DEF TrailIsRight, ReaderIsRight
  <2>2. CASE Put
    BY <2>2, PutFile, PutReads DEF TrailIsRight, ReaderIsRight
  <2>3. CASE FailToPut
    BY <1>1, <2>3, AbandonedKeepsReader DEF FailToPut
  <2> QED BY <1>4, <2>1, <2>2, <2>3 DEF Records
<1> QED BY <1>2, <1>3, <1>4 DEF Gateway

LEMMA FollowKeepsReader ==
  TrailIsRight /\ ReaderIsRight /\ Follow => ReaderIsRight'
<1> SUFFICES ASSUME TrailIsRight, ReaderIsRight, Follow
             PROVE  ReaderIsRight'
  OBVIOUS
<1>1. UNCHANGED <<trail, rest>>
  BY DEF Follow, BeginFollowing, Read, LoseFollower
<1>2. FileInv'
  BY <1>1, SameFile DEF ReaderIsRight
<1>3. CASE BeginFollowing
  BY <1>2, <1>3, BeginFollowingReads DEF TrailIsRight, ReaderIsRight
<1>4. CASE Read
  BY <1>2, <1>4, ReadReads DEF TrailIsRight, ReaderIsRight
<1>5. CASE LoseFollower
  <2>1. trail' = trail /\ follower' = Ended
    BY <1>5 DEF LoseFollower
  <2>2. Reads(trail, Ended)
    BY LastReads DEF TrailIsRight, ReaderIsRight
  <2>3. Reads(trail', follower')
    BY <2>1, <2>2
  <2> QED BY <1>2, <2>3 DEF ReaderIsRight
<1> QED BY <1>3, <1>4, <1>5 DEF Follow

LEMMA ReaderStays ==
  TrailIsRight /\ ReaderIsRight /\ [Next]_vars => ReaderIsRight'
<1>1. UNCHANGED vars => UNCHANGED trailVars
  BY DEF vars
<1> QED
  BY <1>1, QuietReader, HostKeepsReader, EntrypointKeepsReader,
     LoadKeepsReader, PowerOffKeepsReader, GatewayKeepsReader,
     FollowKeepsReader DEF Next

\* Whatever is appended, cut, killed or restarted while it reads, a follower
\* prints what stands in the trail, line for line from where it began
\* (command/audit.rs:43-59).
THEOREM FollowedAsRecorded == Spec => []PrintedAsRecorded
<1>1. Init => TrailIsRight /\ ReaderIsRight
  BY InitGuest, InitReads DEF Init, ReaderIsRight
<1>2. TrailIsRight /\ ReaderIsRight /\ [Next]_vars
        => (TrailIsRight /\ ReaderIsRight)'
  BY TrailStays, ReaderStays
<1>3. TrailIsRight /\ ReaderIsRight => PrintedAsRecorded
  BY ReadsTheTrail DEF TrailIsRight, ReaderIsRight
<1> QED BY <1>1, <1>2, <1>3, PTL DEF Spec

-----------------------------------------------------------------------------
(***************************************************************************)
(* The packet filter, when all of it is in force.                          *)
(***************************************************************************)
LEMMA PolicyLength == Len(Policy) = 19
BY DEF Policy

LEMMA Chains ==
  /\ Policy[1].chain = "input"
  /\ Policy[2].chain = "input"
  /\ Policy[3].chain = "input"
  /\ Policy[4].chain = "input"
  /\ Policy[5].chain = "nat"
  /\ Policy[6].chain = "nat"
  /\ Policy[7].chain = "nat"
  /\ Policy[8].chain = "nat"
  /\ Policy[9].chain = "output"
  /\ Policy[10].chain = "output"
  /\ Policy[11].chain = "output"
  /\ Policy[12].chain = "output"
  /\ Policy[13].chain = "output"
  /\ Policy[14].chain = "output"
  /\ Policy[15].chain = "output"
  /\ Policy[16].chain = "output"
  /\ Policy[17].chain = "output6"
  /\ Policy[18].chain = "output6"
  /\ Policy[19].chain = "output6"
BY DEF Policy, Does

LEMMA Verdicts ==
  /\ Policy[1].verdict = "default drop"
  /\ Policy[2].verdict = "accept"
  /\ Policy[3].verdict = "accept"
  /\ Policy[4].verdict = "accept"
  /\ Policy[5].verdict = "return"
  /\ Policy[6].verdict = "return"
  /\ Policy[7].verdict = "redirect"
  /\ Policy[8].verdict = "redirect"
  /\ Policy[9].verdict = "default drop"
  /\ Policy[10].verdict = "accept"
  /\ Policy[11].verdict = "accept"
  /\ Policy[12].verdict = "accept"
  /\ Policy[13].verdict = "accept"
  /\ Policy[14].verdict = "accept"
  /\ Policy[15].verdict = "log"
  /\ Policy[16].verdict = "drop"
  /\ Policy[17].verdict = "default drop"
  /\ Policy[18].verdict = "accept"
  /\ Policy[19].verdict = "log"
BY DEF Policy, Does

LEMMA Matches ==
  /\ Policy[1].matches = Four
  /\ Policy[2].matches = Within(Four)
  /\ Policy[3].matches = Replies(Four)
  /\ Policy[4].matches = Over(Four, "tcp")
  /\ Policy[5].matches = ByGateway(Four)
  /\ Policy[6].matches = ToLo(Four)
  /\ Policy[7].matches = Over(Four, "tcp")
  /\ Policy[8].matches = Over(Four, "dns")
  /\ Policy[9].matches = Four
  /\ Policy[10].matches = ToLo(Four)
  /\ Policy[11].matches = Replies(Four)
  /\ Policy[12].matches = ByGateway(Four)
 
        /\ Policy[13].matches = Redirected(Over(Four, "tcp"))
 
        /\ Policy[14].matches = Redirected(Over(Four, "dns"))
  /\ Policy[15].matches = Four
  /\ Policy[16].matches = Four
  /\ Policy[17].matches = Six
  /\ Policy[18].matches = ToLo(Six)
  /\ Policy[19].matches = Six
BY DEF Policy, Does

LEMMA CommandsAre == Commands = 1..19
BY PolicyLength DEF Commands

LEMMA CommandIs ==
  ASSUME NEW i \in Commands
  PROVE  i \in {1, 2, 3, 4, 5, 6, 7, 8, 9, 10, 11, 12, 13, 14, 15, 16, 17, 18, 19}
BY CommandsAre

\* Which of a chain's commands a packet can match, and what they say.
LEMMA InNat ==
  ASSUME NEW i \in Commands, Policy[i].chain = "nat"
  PROVE  \/ i = 5 /\ Policy[i].matches = ByGateway(Four)
         \/ i = 6 /\ Policy[i].matches = ToLo(Four)
         \/ i = 7 /\ Policy[i].matches = Over(Four, "tcp")
         \/ i = 8 /\ Policy[i].matches = Over(Four, "dns")
<1>1. i \in {5, 6, 7, 8}
  BY CommandIs, Chains
<1> QED BY ZenonT(40), <1>1, Verdicts, Matches

LEMMA InOutput ==
  ASSUME NEW i \in Commands, Policy[i].chain = "output"
  PROVE  \/ i \in {9, 15, 16}
         \/ i = 10 /\ Policy[i].matches = ToLo(Four)
         \/ i = 11 /\ Policy[i].matches = Replies(Four)
         \/ i = 12 /\ Policy[i].matches = ByGateway(Four)
         \/ i = 13 /\ Policy[i].matches = Redirected(Over(Four, "tcp"))
         \/ i = 14 /\ Policy[i].matches = Redirected(Over(Four, "dns"))
<1>1. i \in {9, 10, 11, 12, 13, 14, 15, 16}
  BY CommandIs, Chains
<1> QED BY <1>1, Matches

\* Those that decide.
LEMMA DecidesInOutput ==
  ASSUME NEW p, NEW i \in Matching(Commands, "output", p, Terminal)
  PROVE  \/ i = 10 /\ p \in ToLo(Four)
         \/ i = 11 /\ p \in Replies(Four)
         \/ i = 12 /\ p \in ByGateway(Four)
         \/ i = 13 /\ p \in Redirected(Over(Four, "tcp"))
         \/ i = 14 /\ p \in Redirected(Over(Four, "dns"))
         \/ i = 16
<1>1. /\ i \in Commands /\ Policy[i].chain = "output"
      /\ p \in Policy[i].matches /\ Policy[i].verdict \in Terminal
  BY DEF Matching
<1>2. i # 9 /\ i # 15
  BY <1>1, Verdicts DEF Terminal
<1>3. i \in {9, 15, 16} => i = 16
  BY <1>2
<1> QED BY <1>1, <1>3, InOutput

LEMMA InOutput6 ==
  ASSUME NEW i \in Commands, Policy[i].chain = "output6"
  PROVE  \/ i = 17 /\ Policy[i].verdict = "default drop"
         \/ i = 18 /\ Policy[i].matches = ToLo(Six)
         \/ i = 19 /\ Policy[i].verdict = "log"
<1>1. i \in {17, 18, 19}
  BY CommandIs, Chains
<1> QED BY <1>1, Verdicts, Matches

LEMMA DecidesInInput ==
  ASSUME NEW p, NEW i \in Matching(Commands, "input", p, Terminal)
  PROVE  i \in Nat /\ 2 <= i
<1>1. i \in Commands /\ Policy[i].verdict \in Terminal
  BY DEF Matching
<1>2. i # 1
  BY <1>1, Verdicts DEF Terminal
<1> QED BY <1>1, <1>2, CommandsAre

LEMMA IsMatching ==
  ASSUME NEW i \in Commands, NEW p \in Policy[i].matches,
         NEW V, Policy[i].verdict \in V
  PROVE  i \in Matching(Commands, Policy[i].chain, p, V)
  BY DEF Matching

SessionPackets ==
  {p \in Packet : p.by = "session" /\ p.to = "outside" /\ ~ p.reply}

\* What is TCP or a question to a name server over IPv4 is redirected, and
\* accepted where it is redirected to.
LEMMA RedirectedOver4 ==
  ASSUME NEW p \in SessionPackets, p.family = 4,
         NEW n \in Commands, Policy[n].chain = "nat", p \in Policy[n].matches,
         Policy[n].verdict = "redirect",
         n \in {7, 8}, n = 8 => p \notin Over(Four, "tcp")
  PROVE  IsRedirected(Commands, p)
<1>1. p.by = "session" /\ p.to = "outside" /\ ~ p.reply
  BY DEF SessionPackets
<1>2. n \in Matching(Commands, "nat", p, {"redirect"})
  BY IsMatching
<1>3. ASSUME NEW j \in Matching(Commands, "nat", p, Terminal) PROVE n <= j
  <2>1. j \in Commands /\ Policy[j].chain = "nat" /\ p \in Policy[j].matches
    BY <1>3 DEF Matching
  <2>2. p \notin ByGateway(Four) /\ p \notin ToLo(Four)
    BY <1>1 DEF ByGateway, ToLo
  <2> QED BY <2>1, <2>2, InNat
<1> QED BY <1>1, <1>2, <1>3 DEF IsRedirected, Decides

LEMMA AcceptedOver4 ==
  ASSUME NEW q \in Packet, q.family = 4, q.by = "session", q.to = "gateway",
         ~ q.reply,
         NEW m \in Commands, Policy[m].chain = "output", q \in Policy[m].matches,
         Policy[m].verdict = "accept",
         m \in {13, 14}, m = 14 => q \notin Redirected(Over(Four, "tcp"))
  PROVE  IsAccepted(Commands, "output", q) /\ IsAccepted(Commands, "input", q)
<1>1. q \notin ToLo(Four) /\ q \notin Replies(Four) /\ q \notin ByGateway(Four)
  BY DEF ByGateway, Replies, ToLo
<1>2. \A j \in Matching(Commands, "output", q, Terminal) : m <= j
  BY <1>1, DecidesInOutput
<1>3. m \in Matching(Commands, "output", q, {"accept"})
  BY IsMatching
<1>4. 2 \in Matching(Commands, "input", q, {"accept"})
  <2>1. 2 \in Commands
    BY CommandsAre
  <2>2. Policy[2].chain = "input"
    BY Chains
  <2>3. Policy[2].verdict = "accept"
    BY Verdicts
  <2>4. Policy[2].matches = Within(Four)
    BY Matches
  <2>5. q \in Within(Four)
    BY DEF Within, Four
  <2> QED BY <2>1, <2>2, <2>3, <2>4, <2>5, IsMatching
<1>5. \A j \in Matching(Commands, "input", q, Terminal) : 2 <= j
  BY DecidesInInput
<1> QED BY <1>2, <1>3, <1>4, <1>5 DEF IsAccepted, Decides

LEMMA GivenOver4 ==
  ASSUME NEW p \in SessionPackets, p.family = 4, p.protocol \in {"tcp", "dns"}
  PROVE  IsGivenToGateway(Commands, p)
<1> DEFINE there == [p EXCEPT !.to = "gateway"]
<1>1. p \in Packet /\ p.by = "session" /\ p.to = "outside" /\ ~ p.reply
  BY DEF SessionPackets
<1>2. /\ there \in Packet /\ there.by = "session" /\ there.to = "gateway"
      /\ ~ there.reply /\ there.family = 4 /\ there.protocol = p.protocol
  BY <1>1 DEF Packet
<1> HIDE DEF there
<1>3. \A v \in {"tcp", "dns"} : p.protocol = v =>
        p \in Over(Four, v) /\ there \in Redirected(Over(Four, v))
  BY <1>1, <1>2 DEF Over, Redirected, Four
<1>4. CASE p.protocol = "tcp"
  <2>1. 7 \in Commands /\ 13 \in Commands
    BY CommandsAre
  <2>2. Policy[7].chain = "nat" /\ Policy[13].chain = "output"
    BY Chains
  <2>3. Policy[7].verdict = "redirect" /\ Policy[13].verdict = "accept"
    BY Verdicts
  <2>4. /\ Policy[7].matches = Over(Four, "tcp")
        /\ Policy[13].matches = Redirected(Over(Four, "tcp"))
    BY Matches
  <2>5. p \in Over(Four, "tcp") /\ there \in Redirected(Over(Four, "tcp"))
    BY <1>3, <1>4
  <2>6. IsRedirected(Commands, p)
    BY <2>5, <1>4, <2>1, <2>2, <2>3, <2>4, RedirectedOver4
  <2>7. IsAccepted(Commands, "output", there) /\ IsAccepted(Commands, "input", there)
    BY <1>2, <2>5, <2>1, <2>2, <2>3, <2>4, AcceptedOver4
  <2> QED BY <2>6, <2>7 DEF IsGivenToGateway, there
<1>5. CASE p.protocol = "dns"
  <2>1. 8 \in Commands /\ 14 \in Commands
    BY CommandsAre
  <2>2. Policy[8].chain = "nat" /\ Policy[14].chain = "output"
    BY Chains
  <2>3. Policy[8].verdict = "redirect" /\ Policy[14].verdict = "accept"
    BY Verdicts
  <2>4. /\ Policy[8].matches = Over(Four, "dns")
        /\ Policy[14].matches = Redirected(Over(Four, "dns"))
    BY Matches
  <2>5. p \notin Over(Four, "tcp") /\ there \notin Redirected(Over(Four, "tcp"))
    BY <1>2, <1>5 DEF Over, Redirected
  <2>6. IsRedirected(Commands, p)
    BY <1>3, <1>5, <2>1, <2>2, <2>3, <2>4, <2>5, RedirectedOver4
  <2>7. IsAccepted(Commands, "output", there) /\ IsAccepted(Commands, "input", there)
    BY <1>2, <1>3, <1>5, <2>1, <2>2, <2>3, <2>4, <2>5, AcceptedOver4
  <2> QED BY <2>6, <2>7 DEF IsGivenToGateway, there
<1> QED BY <1>4, <1>5

\* Anything else over IPv4 is logged and then dropped.
LEMMA RefusedOver4 ==
  ASSUME NEW p \in SessionPackets, p.family = 4, p.protocol \notin {"tcp", "dns"}
  PROVE  IsRefused(Commands, p)
<1>1. p \in Packet /\ p.by = "session" /\ p.to = "outside" /\ ~ p.reply
  BY DEF SessionPackets
<1>2. ~ IsRedirected(Commands, p)
  <2> SUFFICES ASSUME NEW i \in Matching(Commands, "nat", p, {"redirect"})
               PROVE  FALSE
    BY DEF IsRedirected, Decides
  <2>1. i \in Commands /\ Policy[i].chain = "nat" /\ p \in Policy[i].matches
    BY DEF Matching
  <2>2. /\ p \notin ByGateway(Four) /\ p \notin ToLo(Four)
        /\ p \notin Over(Four, "tcp") /\ p \notin Over(Four, "dns")
    BY <1>1 DEF ByGateway, ToLo, Over
  <2> QED BY <2>1, <2>2, InNat
<1>3. \A j \in Matching(Commands, "output", p, Terminal) : j = 16
  <2>1. /\ p \notin ToLo(Four) /\ p \notin Replies(Four) /\ p \notin ByGateway(Four)
        /\ p \notin Redirected(Over(Four, "tcp"))
        /\ p \notin Redirected(Over(Four, "dns"))
    BY <1>1 DEF ByGateway, Replies, ToLo, Redirected
  <2> QED BY <2>1, DecidesInOutput
<1>4. 15 \in Matching(Commands, "output", p, {"log"})
      /\ 16 \in Matching(Commands, "output", p, {"drop"})
  <2>1. 15 \in Commands /\ 16 \in Commands
    BY CommandsAre
  <2>2. Policy[15].chain = "output" /\ Policy[16].chain = "output"
    BY Chains
  <2>3. Policy[15].verdict = "log" /\ Policy[16].verdict = "drop"
    BY Verdicts
  <2>4. Policy[15].matches = Four /\ Policy[16].matches = Four
    BY Matches
  <2>5. p \in Four
    BY <1>1 DEF Four
  <2>6. 15 \in Matching(Commands, "output", p, {"log"})
    BY <2>1, <2>2, <2>3, <2>4, <2>5, IsMatching
  <2>7. 16 \in Matching(Commands, "output", p, {"drop"})
    BY <2>1, <2>2, <2>3, <2>4, <2>5, IsMatching
  <2> QED BY <2>6, <2>7
<1>5. IsLogged(Commands, "output", p)
  BY <1>3, <1>4 DEF IsLogged
<1>6. IsDropped(Commands, "output", p)
  BY <1>3, <1>4 DEF IsDropped, Decides
<1> QED BY <1>2, <1>5, <1>6 DEF IsRefused, Out

\* And everything over IPv6.
LEMMA RefusedOver6 ==
  ASSUME NEW p \in SessionPackets, p.family # 4
  PROVE  IsRefused(Commands, p)
<1>1. p \in Packet /\ p.to = "outside" /\ p.family = 6
  BY DEF SessionPackets, Packet
<1>2. ~ IsRedirected(Commands, p)
  BY <1>1 DEF IsRedirected
<1>3. Matching(Commands, "output6", p, Terminal) = {}
  <2> SUFFICES ASSUME NEW j \in Matching(Commands, "output6", p, Terminal)
               PROVE  FALSE
    OBVIOUS
  <2>1. /\ j \in Commands /\ Policy[j].chain = "output6"
        /\ p \in Policy[j].matches /\ Policy[j].verdict \in Terminal
    BY DEF Matching
  <2>2. p \notin ToLo(Six)
    BY <1>1 DEF ToLo
  <2>3. Policy[j].verdict \notin {"log", "default drop"}
    BY <2>1 DEF Terminal
  <2> QED BY <2>1, <2>2, <2>3, InOutput6
<1>4. 17 \in Matching(Commands, "output6", p, {"default drop"})
      /\ 19 \in Matching(Commands, "output6", p, {"log"})
  <2>1. 17 \in Commands /\ 19 \in Commands
    BY CommandsAre
  <2>2. Policy[17].chain = "output6" /\ Policy[19].chain = "output6"
    BY Chains
  <2>3. Policy[17].verdict = "default drop" /\ Policy[19].verdict = "log"
    BY Verdicts
  <2>4. Policy[17].matches = Six /\ Policy[19].matches = Six
    BY Matches
  <2>5. p \in Six
    BY <1>1 DEF Six
  <2>6. 17 \in Matching(Commands, "output6", p, {"default drop"})
    BY <2>1, <2>2, <2>3, <2>4, <2>5, IsMatching
  <2>7. 19 \in Matching(Commands, "output6", p, {"log"})
    BY <2>1, <2>2, <2>3, <2>4, <2>5, IsMatching
  <2> QED BY <2>6, <2>7
<1>5. IsLogged(Commands, "output6", p)
  BY <1>3, <1>4 DEF IsLogged
<1>6. IsDropped(Commands, "output6", p)
  BY <1>3, <1>4 DEF IsDropped, ByDefault, IsLeft
<1> QED BY <1>1, <1>2, <1>5, <1>6 DEF IsRefused, Out

-----------------------------------------------------------------------------
(***************************************************************************)
(* The filter is whole and fixed before sshd is there.                     *)
(***************************************************************************)
FilterInv ==
  /\ rules \subseteq Commands
  /\ \A i \in rules : \A j \in Commands : j < i => j \in rules
  /\ step \notin {"off", "policy"} => rules = Commands
  /\ step \in {"exec", "sshd"} => ~ capable

LEMMA InstallKeepsOrder == FilterInv /\ Install => FilterInv'
<1> SUFFICES ASSUME FilterInv, Install PROVE FilterInv'
  OBVIOUS
<1>1. PICK i \in Commands \ rules :
        (\A j \in Commands : j < i => j \in rules) /\ rules' = rules \cup {i}
  BY DEF Install
<1> QED BY <1>1 DEF FilterInv, Install

LEMMA AllInForce == FilterInv /\ Len(Policy) \in rules => rules = Commands
<1> SUFFICES ASSUME FilterInv, Len(Policy) \in rules, NEW j \in Commands
             PROVE  j \in rules
  BY DEF FilterInv
<1>1. j < 19 \/ j = 19
  BY CommandsAre
<1> QED BY <1>1, PolicyLength DEF FilterInv

LEMMA FilterStays == FilterInv /\ [Next]_vars => FilterInv'
<1> SUFFICES ASSUME FilterInv, [Next]_vars PROVE FilterInv'
  OBVIOUS
<1>1. CASE Host \/ StartOutside
  BY <1>1 DEF FilterInv, Host, Open, OpenRunning, Reach, LeaveSession,
              StartOutside, Boots
<1>2. CASE PowerOff
  BY <1>2 DEF FilterInv, PowerOff, GoesDown
<1>3. CASE Entrypoint
  <2>1. CASE Install
    BY <2>1, InstallKeepsOrder
  <2>2. CASE InitAuthority
    <3>1. rules = Commands
      BY <2>2, AllInForce DEF InitAuthority
    <3> QED BY <2>2, <3>1 DEF FilterInv, InitAuthority
  <2>3. CASE Trust
    BY <2>3 DEF FilterInv, Trust
  <2>4. CASE Copy \/ UpdateBundle \/ StartGateway \/ Prepare
    BY <2>4 DEF FilterInv, Copy, UpdateBundle, StartGateway, Prepare, Proceed
  <2>5. CASE DropCapability \/ Exec
    BY <2>5 DEF FilterInv, DropCapability, Exec, Proceed
  <2> QED BY <1>3, <2>1, <2>2, <2>3, <2>4, <2>5 DEF Entrypoint
<1>4. ASSUME UNCHANGED <<step, rules, capable>> PROVE FilterInv'
  BY <1>4 DEF FilterInv
<1>5. CASE Load
  BY <1>4, <1>5 DEF Load, ReadKey, ReadCertificate, WriteKey, WriteCertificate,
                    Check, Elsewhere
<1>6. CASE Gateway
  BY <1>4, <1>6 DEF Gateway, OpenTrail, HaveAuthority, Bind, GatewayDies,
                    Records, GatewayGoes, guestVars
<1>7. CASE Follow \/ UNCHANGED vars
  BY <1>4, <1>7 DEF Follow, vars, guestVars
<1> QED BY <1>1, <1>2, <1>3, <1>5, <1>6, <1>7 DEF Next

LEMMA FilterIsWhole == FilterInv => NothingUnseen
<1> SUFFICES ASSUME FilterInv, step = "sshd"
             PROVE  /\ ~ capable
                    /\ \A p \in SessionPackets :
                         IsGivenToGateway(rules, p) \/ IsRefused(rules, p)
  BY DEF NothingUnseen, SessionPackets
<1>1. ~ capable /\ rules = Commands
  BY DEF FilterInv
<1> QED BY <1>1, GivenOver4, RefusedOver4, RefusedOver6

\* In a session every packet for outside is given to the gateway's sockets or
\* logged and dropped, and nothing in the session can change that
\* (egress-policy.sh:4-7).
THEOREM NothingLeavesUnseen == Spec => []NothingUnseen
<1>1. Init => FilterInv
  BY DEF Init, FilterInv
<1>2. FilterInv /\ [Next]_vars => FilterInv'
  BY FilterStays
<1>3. FilterInv => NothingUnseen
  BY FilterIsWhole
<1> QED BY <1>1, <1>2, <1>3, PTL DEF Spec

-----------------------------------------------------------------------------
(***************************************************************************)
(* The authority.                                                          *)
(***************************************************************************)
Whole == disk.key \in Authority /\ disk.certificate = disk.key

\* The key is written first, and the certificate that is next to it is its own.
DiskShape ==
  /\ disk.key \in {Absent, Torn} => disk.certificate = Absent
  /\ disk.key \in Authority => disk.certificate \in {Absent, Torn, disk.key}

\* Who runs load_or_create().
LoaderHasOwner ==
  loader.step # "none" =>
    \/ step = "authority"
    \/ gateway \in {"loading", "bind", "serving"}

GatewayIsLate ==
  gateway # "none" => step \in {"account", "drop", "exec", "sshd"}

GatewayHasLoaded == gateway \in {"bind", "serving"} => loader.step = "loaded"

\* What load_or_create() has in memory, and what of it is on the disk.
Making ==
  /\ loader.step = "open key" => disk.key = Absent
  /\ loader.step = "write key" => disk.key = Torn
  /\ loader.step \in {"open key", "write key", "open certificate", "write certificate"}
       => loader.key \in Authority /\ loader.certificate = loader.key
  /\ loader.step \in {"open certificate", "write certificate"} => disk.key = loader.key
  /\ loader.step = "open certificate" => disk.certificate = Absent
  /\ loader.step = "write certificate" => disk.certificate = Torn

Having ==
  /\ loader.step \in {"certificate", "check", "loaded"} =>
       loader.key = disk.key /\ disk.key # Absent
  /\ loader.step \in {"check", "loaded"} =>
       loader.certificate = disk.certificate /\ disk.certificate # Absent
  /\ loader.step = "loaded" => Whole

\* Past `init-ca` there is an authority, and then it is trusted.
Trusted ==
  /\ step \notin {"off", "policy", "authority"} => Whole
  /\ step \in {"bundle", "gateway", "account", "drop", "exec", "sshd"} =>
       disk.installed = disk.certificate
  /\ step \in {"gateway", "account", "drop", "exec", "sshd"} =>
       disk.bundle = disk.certificate

RecordedIsWhole == host.recorded => Whole

AuthorityInv ==
  /\ DiskShape
  /\ LoaderHasOwner
  /\ GatewayIsLate
  /\ GatewayHasLoaded
  /\ Making
  /\ Having
  /\ Trusted
  /\ RecordedIsWhole

Keeps ==
  Whole => disk'.key = disk.key /\ disk'.certificate = disk.certificate

LEMMA Files == Absent \notin Authority /\ Torn \notin Authority /\ Absent # Torn
BY GuestAssumption

LEMMA InitAuthorityInv == Init => AuthorityInv
BY Files DEF Init, AuthorityInv, DiskShape, LoaderHasOwner, GatewayIsLate,
     GatewayHasLoaded, Making, Having, Trusted, RecordedIsWhole, NoLoader

\* The invariant where neither the disk nor load_or_create() moves.
LEMMA OthersKeepAuthority ==
  ASSUME AuthorityInv, UNCHANGED <<disk, loader>>,
         LoaderHasOwner', GatewayIsLate', GatewayHasLoaded',
         Trusted', RecordedIsWhole'
  PROVE  AuthorityInv' /\ Keeps
BY DEF AuthorityInv, DiskShape, Making, Having, Whole, Keeps

LEMMA HostKeepsAuthority ==
  GuestTypeOK /\ AuthorityInv /\ (Host \/ StartOutside) => AuthorityInv' /\ Keeps
<1> SUFFICES ASSUME GuestTypeOK, AuthorityInv, Host \/ StartOutside
             PROVE  AuthorityInv' /\ Keeps
  OBVIOUS
<1>1. UNCHANGED <<disk, loader, gateway>>
  BY DEF Host, Open, OpenRunning, Reach, LeaveSession, StartOutside
<1>2. \/ step' = step
      \/ step = "off" /\ step' = "policy"
  BY DEF Host, Open, OpenRunning, Reach, LeaveSession, StartOutside, Boots
<1>3. LoaderHasOwner' /\ GatewayIsLate' /\ GatewayHasLoaded'
  BY <1>1, <1>2 DEF AuthorityInv, LoaderHasOwner, GatewayIsLate, GatewayHasLoaded
<1>4. Trusted'
  BY <1>1, <1>2 DEF AuthorityInv, Trusted, Whole
<1>5. host'.recorded => host.recorded \/ step = "sshd"
  <2>1. \A d : [host EXCEPT !.doing = d].recorded = host.recorded
    BY DEF GuestTypeOK
  <2> QED BY <2>1 DEF Host, Open, OpenRunning, Reach, LeaveSession, StartOutside
<1>6. RecordedIsWhole'
  BY <1>1, <1>5 DEF AuthorityInv, RecordedIsWhole, Trusted, Whole
<1> QED BY <1>1, <1>3, <1>4, <1>6, OthersKeepAuthority

LEMMA PowerOffKeepsAuthority ==
  GuestTypeOK /\ AuthorityInv /\ PowerOff => AuthorityInv' /\ Keeps
<1> SUFFICES ASSUME GuestTypeOK, AuthorityInv, PowerOff
             PROVE  AuthorityInv' /\ Keeps
  OBVIOUS
<1>1. /\ disk' = disk /\ loader' = NoLoader /\ gateway' = "none" /\ step' = "off"
      /\ host'.recorded = host.recorded
  BY DEF PowerOff, GoesDown, GuestTypeOK
<1>2. loader'.step = "none"
  BY <1>1 DEF NoLoader
<1>3. Keeps /\ DiskShape' /\ LoaderHasOwner' /\ GatewayIsLate' /\ GatewayHasLoaded'
  BY <1>1, <1>2 DEF AuthorityInv, DiskShape, LoaderHasOwner, GatewayIsLate,
                    GatewayHasLoaded, Keeps
<1>4. Making' /\ Having' /\ Trusted' /\ RecordedIsWhole'
  BY <1>1, <1>2 DEF AuthorityInv, Making, Having, Trusted, RecordedIsWhole, Whole
<1> QED BY <1>3, <1>4 DEF AuthorityInv

LEMMA EntrypointKeepsAuthority ==
  GuestTypeOK /\ AuthorityInv /\ Entrypoint => AuthorityInv' /\ Keeps
<1> SUFFICES ASSUME GuestTypeOK, AuthorityInv, Entrypoint
             PROVE  AuthorityInv' /\ Keeps
  OBVIOUS
<1>1. host' = host /\ disk.key' = disk.key /\ disk.certificate' = disk.certificate
  BY DEF Entrypoint, Install, InitAuthority, Trust, Copy, UpdateBundle,
         StartGateway, Prepare, DropCapability, Exec, Proceed, GuestTypeOK, Disk
<1>2. Keeps /\ DiskShape' /\ RecordedIsWhole' /\ (Whole => Whole')
  BY <1>1 DEF AuthorityInv, Keeps, DiskShape, RecordedIsWhole, Whole
<1>3. loader' = loader => Making' /\ Having'
  BY <1>1 DEF AuthorityInv, Making, Having, Whole
<1>4. loader'.step \in {"none", "key"} => Making' /\ Having'
  BY DEF Making, Having
<1>5. CASE Install
  BY <1>2, <1>3, <1>5 DEF Install, AuthorityInv, LoaderHasOwner, GatewayIsLate,
       GatewayHasLoaded, Trusted, Whole
<1>6. CASE InitAuthority
  <2>1. loader'.step = "key" /\ step' = "authority" /\ UNCHANGED <<disk, gateway>>
    BY <1>6 DEF InitAuthority, NoLoader
  <2>2. gateway = "none"
    BY <1>6 DEF InitAuthority, AuthorityInv, GatewayIsLate
  <2> QED BY <1>2, <1>4, <2>1, <2>2 DEF AuthorityInv, LoaderHasOwner,
            GatewayIsLate, GatewayHasLoaded, Trusted
<1>7. CASE Trust
  <2>1. /\ loader'.step = "none" /\ step = "authority" /\ step' = "trust"
        /\ UNCHANGED <<disk, gateway>> /\ loader.step = "loaded"
    BY <1>7 DEF Trust, NoLoader
  <2>2. gateway = "none" /\ Whole
    BY <2>1 DEF AuthorityInv, GatewayIsLate, Having
  <2> QED BY <1>2, <1>4, <2>1, <2>2 DEF AuthorityInv, LoaderHasOwner,
            GatewayIsLate, GatewayHasLoaded, Trusted
<1>8. CASE Copy
  <2>1. /\ UNCHANGED <<loader, gateway>>
        /\ \/ step = "trust" /\ step' = "copy"
           \/ /\ step = "copy" /\ step' = "bundle"
              /\ disk'.installed = disk.certificate
    BY <1>8 DEF Copy, Proceed, GuestTypeOK, Disk
  <2> QED BY <1>1, <1>2, <1>3, <2>1 DEF AuthorityInv, LoaderHasOwner,
            GatewayIsLate, GatewayHasLoaded, Trusted
<1>9. CASE UpdateBundle
  <2>1. /\ UNCHANGED <<loader, gateway>> /\ step = "bundle" /\ step' = "gateway"
        /\ disk'.installed = disk.installed /\ disk'.bundle = disk.installed
    BY <1>9 DEF UpdateBundle, Proceed, GuestTypeOK, Disk
  <2> QED BY <1>1, <1>2, <1>3, <2>1 DEF AuthorityInv, LoaderHasOwner,
            GatewayIsLate, GatewayHasLoaded, Trusted
<1>10. CASE StartGateway \/ Prepare \/ DropCapability \/ Exec
  <2>1. /\ UNCHANGED <<disk, loader>>
        /\ step \in {"gateway", "account", "drop", "exec"}
        /\ step' \in {"account", "drop", "exec", "sshd"}
        /\ \/ gateway' = gateway
           \/ gateway' = "trail" /\ step = "gateway"
    <3>1. CASE StartGateway
      BY <3>1 DEF StartGateway, Proceed
    <3>2. CASE Prepare \/ DropCapability \/ Exec
      BY <3>2 DEF Prepare, DropCapability, Exec, Proceed
    <3> QED BY <1>10, <3>1, <3>2
  <2>2. Trusted' /\ GatewayIsLate' /\ GatewayHasLoaded'
    BY <1>2, <2>1 DEF AuthorityInv, Trusted, GatewayIsLate, GatewayHasLoaded
  <2>3. LoaderHasOwner'
    BY <2>1 DEF AuthorityInv, LoaderHasOwner, GatewayIsLate
  <2> QED BY <1>2, <1>3, <2>1, <2>2, <2>3 DEF AuthorityInv
<1> QED BY <1>5, <1>6, <1>7, <1>8, <1>9, <1>10 DEF Entrypoint

LEMMA LoadKeepsAuthority ==
  GuestTypeOK /\ AuthorityInv /\ Load => AuthorityInv' /\ Keeps
<1> SUFFICES ASSUME GuestTypeOK, AuthorityInv, Load
             PROVE  AuthorityInv' /\ Keeps
  OBVIOUS
<1>1. UNCHANGED <<step, gateway, host>>
  BY DEF Load, ReadKey, ReadCertificate, WriteKey, WriteCertificate, Check, Elsewhere
<1>2. /\ disk.key \in Authority \cup {Absent, Torn}
      /\ disk.certificate \in Authority \cup {Absent, Torn}
      /\ loader \in Loader /\ disk \in Disk
  BY DEF GuestTypeOK, Disk, File
<1>3. loader.step \notin {"none", "loaded"}
  BY DEF Load, ReadKey, ReadCertificate, WriteKey, WriteCertificate, Check, Loads
<1>4. gateway \notin {"bind", "serving"} /\ (step = "authority" \/ gateway = "loading")
  BY <1>3 DEF AuthorityInv, GatewayHasLoaded, LoaderHasOwner
<1>5. LoaderHasOwner' /\ GatewayIsLate' /\ GatewayHasLoaded'
  BY <1>1, <1>4 DEF AuthorityInv, LoaderHasOwner, GatewayIsLate, GatewayHasLoaded
<1>6. ASSUME disk' = disk PROVE Keeps /\ DiskShape' /\ Trusted' /\ RecordedIsWhole'
  BY <1>1, <1>6 DEF AuthorityInv, Keeps, DiskShape, Trusted, RecordedIsWhole, Whole
<1>7. CASE ReadKey
  <2>1. CASE disk.key = Absent
    <3>1. PICK a \in Authority : Generates(a)
      BY <1>7, <2>1 DEF ReadKey
    <3>2. loader'.step = "open key" /\ loader'.key = a /\ loader'.certificate = a
          /\ disk' = disk
      BY <1>7, <3>1 DEF ReadKey, Generates
    <3> QED BY <1>5, <1>6, <2>1, <3>2 DEF AuthorityInv, Making, Having
  <2>2. CASE disk.key # Absent
    <3>1. loader'.step = "certificate" /\ loader'.key = disk.key /\ disk' = disk
      BY <1>2, <1>7, <2>2 DEF ReadKey, Loaded, Loader
    <3> QED BY <1>5, <1>6, <2>2, <3>1 DEF AuthorityInv, Making, Having
  <2> QED BY <2>1, <2>2
<1>8. CASE ReadCertificate
  <2>1. /\ loader.step = "certificate" /\ disk.certificate # Absent /\ disk' = disk
        /\ loader'.step = "check" /\ loader'.key = loader.key
        /\ loader'.certificate = disk.certificate
    BY <1>2, <1>8 DEF ReadCertificate, Loader
  <2> QED BY <1>5, <1>6, <2>1 DEF AuthorityInv, Making, Having
<1>9. CASE Check
  <2>1. /\ loader.step = "check" /\ disk' = disk /\ loader'.step = "loaded"
        /\ loader'.key = loader.key /\ loader'.certificate = loader.certificate
        /\ loader.key # Torn /\ loader.certificate # Torn
    BY <1>2, <1>9 DEF Check, Loads, Loader
  <2>2. Whole
    BY <1>2, <2>1, Files DEF AuthorityInv, Having, DiskShape, Whole
  <2> QED BY <1>5, <1>6, <2>1, <2>2 DEF AuthorityInv, Making, Having, Whole
<1>10. CASE WriteKey \/ WriteCertificate
  <2>1. ~ Whole
    BY <1>10, Files DEF WriteKey, WriteCertificate, Loads, AuthorityInv, Making, Whole
  <2>2. Keeps /\ RecordedIsWhole' /\ Trusted'
    BY <1>1, <2>1 DEF AuthorityInv, Keeps, RecordedIsWhole, Trusted
  <2>3. loader'.key = loader.key /\ loader'.certificate = loader.certificate
    BY <1>2, <1>10 DEF WriteKey, WriteCertificate, Loads, Loader
  <2>4. CASE WriteKey
    <3>1. \/ /\ loader.step = "open key" /\ loader'.step = "write key"
             /\ disk'.key = Torn /\ disk'.certificate = disk.certificate
          \/ /\ loader.step = "write key" /\ loader'.step = "open certificate"
             /\ disk'.key = loader.key /\ disk'.certificate = disk.certificate
      BY <1>2, <2>4 DEF WriteKey, Loads, Loader, Disk
    <3>2. disk.certificate = Absent
      BY <3>1 DEF AuthorityInv, Making, DiskShape
    <3> QED BY <1>5, <2>2, <2>3, <3>1, <3>2, Files
            DEF AuthorityInv, Making, Having, DiskShape
  <2>5. CASE WriteCertificate
    <3>1. /\ disk'.key = disk.key
          /\ \/ /\ loader.step = "open certificate"
                /\ loader'.step = "write certificate" /\ disk'.certificate = Torn
             \/ /\ loader.step = "write certificate" /\ loader'.step = "check"
                /\ disk'.certificate = loader.certificate
      BY <1>2, <2>5 DEF WriteCertificate, Loads, Loader, Disk
    <3>2. /\ disk.key = loader.key /\ loader.key \in Authority
          /\ loader.certificate = loader.key
      BY <3>1 DEF AuthorityInv, Making
    <3> QED BY <1>5, <2>2, <2>3, <3>1, <3>2, Files
            DEF AuthorityInv, Making, Having, DiskShape
  <2> QED BY <1>10, <2>4, <2>5
<1> QED BY <1>7, <1>8, <1>9, <1>10 DEF Load

LEMMA GatewayKeepsAuthority ==
  GuestTypeOK /\ AuthorityInv /\ Gateway => AuthorityInv' /\ Keeps
<1> SUFFICES ASSUME GuestTypeOK, AuthorityInv, Gateway
             PROVE  AuthorityInv' /\ Keeps
  OBVIOUS
<1>1. UNCHANGED <<step, disk, host>>
  BY DEF Gateway, OpenTrail, HaveAuthority, Bind, GatewayDies, Records,
         GatewayGoes, guestVars
<1>2. Keeps /\ DiskShape' /\ Trusted' /\ RecordedIsWhole'
  BY <1>1 DEF AuthorityInv, Keeps, DiskShape, Trusted, RecordedIsWhole, Whole
<1>3. gateway # "none" => step \in {"account", "drop", "exec", "sshd"}
  BY DEF AuthorityInv, GatewayIsLate
<1>4. CASE OpenTrail
  <2>1. loader'.step = "key" /\ gateway' = "loading" /\ gateway = "trail"
    BY <1>4 DEF OpenTrail, GatewayGoes, NoLoader
  <2> QED BY <1>1, <1>2, <1>3, <2>1 DEF AuthorityInv, LoaderHasOwner,
            GatewayIsLate, GatewayHasLoaded, Making, Having
<1>5. CASE HaveAuthority \/ Bind
  <2>1. /\ loader' = loader /\ gateway \in {"loading", "bind"}
        /\ gateway' \in {"bind", "serving"} /\ loader.step = "loaded"
    BY <1>5 DEF HaveAuthority, Bind, GatewayGoes, AuthorityInv, GatewayHasLoaded
  <2> QED BY <1>1, <1>2, <1>3, <2>1 DEF AuthorityInv, LoaderHasOwner,
            GatewayIsLate, GatewayHasLoaded, Making, Having, Whole
<1>6. CASE GatewayDies
  <2>1. loader'.step = "none" /\ gateway' = "dead" /\ gateway # "none"
    BY <1>6 DEF GatewayDies, NoLoader
  <2> QED BY <1>1, <1>2, <1>3, <2>1 DEF AuthorityInv, LoaderHasOwner,
            GatewayIsLate, GatewayHasLoaded, Making, Having
<1>7. CASE Records
  BY <1>2, <1>7 DEF Records, guestVars, AuthorityInv, LoaderHasOwner,
            GatewayIsLate, GatewayHasLoaded, Making, Having, Whole
<1> QED BY <1>4, <1>5, <1>6, <1>7 DEF Gateway

LEMMA AuthorityInvStays ==
  GuestTypeOK /\ AuthorityInv /\ [Next]_vars => AuthorityInv' /\ Keeps
<1>1. ASSUME AuthorityInv, UNCHANGED guestVars PROVE AuthorityInv' /\ Keeps
  BY ZenonT(40), <1>1 DEF guestVars, AuthorityInv, DiskShape, LoaderHasOwner, GatewayIsLate,
              GatewayHasLoaded, Making, Having, Trusted, RecordedIsWhole, Whole, Keeps
<1>2. Follow \/ UNCHANGED vars => UNCHANGED guestVars
  BY DEF Follow, vars
<1> QED
  BY <1>1, <1>2, HostKeepsAuthority, PowerOffKeepsAuthority,
     EntrypointKeepsAuthority, LoadKeepsAuthority, GatewayKeepsAuthority DEF Next

GuestInv == GuestTypeOK /\ AuthorityInv

LEMMA GuestInvariant == Spec => []GuestInv
<1>1. Init => GuestInv
  BY InitGuest, InitAuthorityInv DEF GuestInv
<1>2. GuestInv /\ [Next]_vars => GuestInv'
  BY GuestTypesStay, AuthorityInvStays DEF GuestInv
<1> QED BY <1>1, <1>2, PTL DEF Spec

\* Whatever boots, stops and kills came before, the gateway of a session signs
\* with the authority its programs trust (entrypoint.sh:22-24).
THEOREM GatewayIsTrusted == Spec => []SessionTrustsGateway
<1>1. GuestInv => SessionTrustsGateway
  <2> SUFFICES ASSUME GuestInv, step = "sshd", gateway \in {"bind", "serving"}
               PROVE  /\ loader.key = loader.certificate
                      /\ disk.bundle = loader.certificate
                      /\ loader.certificate \in Authority
    BY DEF SessionTrustsGateway
  <2>1. loader.step = "loaded"
    BY DEF GuestInv, AuthorityInv, GatewayHasLoaded
  <2> QED BY <2>1 DEF GuestInv, AuthorityInv, Having, Trusted, Whole
<1> QED BY <1>1, GuestInvariant, PTL

\* A session that can be resumed has an authority its gateway can load
\* (ca.rs:42-61).
THEOREM RecordedNeverWedged == Spec => []RecordedHasAuthority
<1>1. GuestInv => RecordedHasAuthority
  BY DEF GuestInv, AuthorityInv, RecordedIsWhole, RecordedHasAuthority, Whole
<1> QED BY <1>1, GuestInvariant, PTL

\* A whole authority is never replaced, by any run of load_or_create()
\* (ca.rs:34-38).
THEOREM AuthorityIsForEver == Spec => AuthorityStays
<1>1. GuestInv /\ [Next]_vars =>
        [disk.key \in Authority /\ disk.certificate = disk.key =>
           disk'.key = disk.key /\ disk'.certificate = disk.certificate]_vars
  BY AuthorityInvStays DEF GuestInv, Keeps, Whole
<1> QED BY <1>1, GuestInvariant, PTL DEF Spec, AuthorityStays
=============================================================================
