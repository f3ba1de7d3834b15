---------------------------- MODULE LendingProofs ----------------------------
(***************************************************************************)
(* What holds of loans, for any number of openings, any numbers and with   *)
(* or without faults.                                                      *)
(***************************************************************************)
EXTENDS Lending, TLAPS

-----------------------------------------------------------------------------
(***************************************************************************)
(* Types.                                                                  *)
(***************************************************************************)

LEMMA AgedTypes ==
  /\ \A t \in Token : Aged(t) \in Token
  /\ Aged(None) = None
  /\ Aged(Blank) = Blank
  /\ \A t \in Token \cup {None} : Aged(t) \in Token \cup {None}
<1>1. None \notin 1..Life /\ Blank \notin 1..Life
  BY LendingAssumption
<1>2. \A t \in Token : Aged(t) \in Token
  BY LendingAssumption DEF Aged, Token, Forever
<1> QED BY <1>1, <1>2 DEF Aged

LEMMA InitTypes == Init => TypeOK
BY LendingAssumption DEF Init, TypeOK, Token, Forever, Host, Courier

LEMMA HostStays ==
  ASSUME TypeOK, NEW o \in Opening, NEW h \in Host,
         host' = [host EXCEPT ![o] = h]
  PROVE  host' \in [Opening -> Host]
BY DEF TypeOK

LEMMA CourierStays ==
  ASSUME TypeOK, NEW o \in Opening, NEW k \in Courier,
         courier' = [courier EXCEPT ![o] = k]
  PROVE  courier' \in [Opening -> Courier]
BY DEF TypeOK

LEMMA StopsTypes ==
  ASSUME TypeOK, NEW o \in Opening,
         NEW s \in {"idle", "opening", "lending", "ssh", "closing",
                    "returned", "socketLeft", "killed"},
         StopsAt(o, s)
  PROVE  host' \in [Opening -> Host]
<1> DEFINE h == [host[o] EXCEPT !.step = s, !.server = "off",
                   !.inHand = None, !.bearer = None, !.client = None]
<1>1. host[o] \in Host
  BY DEF TypeOK
<1>2. h \in Host
  BY <1>1 DEF Host
<1>3. host' = [host EXCEPT ![o] = h]
  BY DEF StopsAt
<1> HIDE DEF h
<1> QED BY <1>2, <1>3, HostStays

LEMMA DropsTypes ==
  ASSUME TypeOK, NEW o \in Opening, NEW token \in Token \cup {None},
         Drops(o, token)
  PROVE  host' \in [Opening -> Host]
<1> DEFINE h == [host[o] EXCEPT !.server = "accept", !.bearer = None,
                                !.client = None, !.inHand = token]
<1>1. host[o] \in Host
  BY DEF TypeOK
<1>2. h \in Host
  BY <1>1 DEF Host
<1>3. host' = [host EXCEPT ![o] = h]
  BY DEF Drops
<1> HIDE DEF h
<1> QED BY <1>2, <1>3, HostStays

LEMMA OpenLoanTypes ==
  ASSUME TypeOK, NEW o \in Opening, OpenLoan(o)
  PROVE  host' \in [Opening -> Host]
<1> DEFINE h == [host[o] EXCEPT !.step = "lending", !.server = "accept"]
<1>1. host[o] \in Host
  BY DEF TypeOK
<1>2. h \in Host
  BY <1>1 DEF Host
<1>3. host' = [host EXCEPT ![o] = h]
  BY DEF OpenLoan
<1> HIDE DEF h
<1> QED BY <1>2, <1>3, HostStays

LEMMA StepTypes ==
  ASSUME TypeOK, NEW o \in Opening,
         NEW s \in {"idle", "opening", "lending", "ssh", "closing",
                    "returned", "socketLeft", "killed"},
         Step(o, s)
  PROVE  host' \in [Opening -> Host]
<1> DEFINE h == [host[o] EXCEPT !.step = s]
<1>1. host[o] \in Host
  BY DEF TypeOK
<1>2. h \in Host
  BY <1>1 DEF Host
<1>3. host' = [host EXCEPT ![o] = h]
  BY DEF Step
<1> HIDE DEF h
<1> QED BY <1>2, <1>3, HostStays

CourierSteps ==
  {"none", "connect", "asking", "hearing", "stage", "rename", "spawn",
   "watch", "remove", "unlink", "returned", "fileLeft", "socketLeft",
   "killed"}

LEMMA CourierStepTypes ==
  ASSUME TypeOK, NEW o \in Opening, NEW s \in CourierSteps,
         courier' = [courier EXCEPT ![o].step = s]
  PROVE  courier' \in [Opening -> Courier]
<1> DEFINE k == [courier[o] EXCEPT !.step = s]
<1>1. courier[o] \in Courier
  BY DEF TypeOK
<1>2. k \in Courier
  BY <1>1 DEF Courier, CourierSteps
<1>3. courier' = [courier EXCEPT ![o] = k]
  OBVIOUS
<1> HIDE DEF k
<1> QED BY <1>2, <1>3, CourierStays

LEMMA HostTypes ==
  ASSUME TypeOK, NEW o \in Opening,
         \/ Start(o) \/ Abandon(o) \/ OpenLoan(o) \/ LoseKnownHosts(o)
         \/ Connect(o) \/ FailToConnect(o) \/ ClientExits(o) \/ CloseLoan(o)
         \/ FailToWait(o) \/ FailToCloseLoan(o) \/ KillHost(o)
  PROVE  TypeOK'
<1> USE StepTypes, StopsTypes DEF Session, Name
<1>1. CASE \/ Start(o) \/ Abandon(o) \/ FailToConnect(o) \/ ClientExits(o)
           \/ FailToWait(o)
  BY <1>1
  DEF TypeOK, Start, Abandon, FailToConnect, ClientExits, FailToWait
<1>2. CASE LoseKnownHosts(o) \/ FailToCloseLoan(o) \/ KillHost(o)
  BY <1>2 DEF TypeOK, LoseKnownHosts, FailToCloseLoan, KillHost
<1>3. CASE OpenLoan(o)
  <2>1. host' \in [Opening -> Host]
    BY <1>3, OpenLoanTypes
  <2> QED BY <1>3, <2>1 DEF OpenLoan, TypeOK
<1>4. CASE Connect(o)
  <2>1. host' \in [Opening -> Host]
    BY <1>4 DEF Connect
  <2>2. courier' \in [Opening -> Courier]
    BY <1>4, CourierStepTypes DEF Connect, CourierSteps
  <2> QED BY <1>4, <2>1, <2>2 DEF Connect, TypeOK
<1>5. CASE CloseLoan(o)
  <2>1. host' \in [Opening -> Host]
    BY <1>5 DEF CloseLoan
  <2> QED BY <1>5, <2>1 DEF CloseLoan, TypeOK
<1> QED BY <1>1, <1>2, <1>3, <1>4, <1>5

LEMMA AcceptTypes ==
  ASSUME TypeOK, NEW h \in Opening, NEW c \in Opening \cup {Stranger},
         Accept(h, c)
  PROVE  TypeOK'
<1> DEFINE good == IsStillGood(host[h].inHand)
           n == [host[h] EXCEPT
                   !.client = c, !.inHand = None,
                   !.server = IF good THEN "send" ELSE "read",
                   !.bearer = IF good THEN host[h].inHand ELSE None]
<1>1. host[h] \in Host
  BY DEF TypeOK
<1>2. n \in Host
  BY <1>1 DEF Host
<1>3. host' = [host EXCEPT ![h] = n]
  BY DEF Accept
<1> HIDE DEF n
<1>4. host' \in [Opening -> Host]
  BY <1>2, <1>3, HostStays
<1>5. courier' \in [Opening -> Courier]
  BY CourierStepTypes DEF Accept, CourierSteps, TypeOK
<1> QED BY <1>4, <1>5 DEF Accept, TypeOK, Around

LEMMA ReadLoginTypes ==
  ASSUME TypeOK, NEW h \in Opening, ReadLogin(h)
  PROVE  TypeOK'
<1> DEFINE n == [host[h] EXCEPT !.server = "send", !.bearer = login]
<1>1. host[h] \in Host /\ login \in Token \cup {None}
  BY DEF TypeOK
<1>2. n \in Host
  BY <1>1 DEF Host
<1>3. host' = [host EXCEPT ![h] = n]
  BY DEF ReadLogin
<1> HIDE DEF n
<1>4. host' \in [Opening -> Host]
  BY <1>2, <1>3, HostStays
<1> QED BY <1>4 DEF ReadLogin, TypeOK, Around, Session

LEMMA SendTypes ==
  ASSUME TypeOK, NEW h \in Opening, Send(h)
  PROVE  TypeOK'
<1>1. host[h] \in Host
  BY DEF TypeOK
<1>2. host[h].bearer \in Token \cup {None}
  BY <1>1 DEF Host
<1>3. host' \in [Opening -> Host]
  BY <1>2, DropsTypes DEF Send
<1>4. courier' \in [Opening -> Courier]
  <2>1. CASE UNCHANGED courier
    BY <2>1 DEF TypeOK
  <2>2. CASE \E c \in Opening :
               courier' = [courier EXCEPT ![c].step = "stage",
                                          ![c].got = host[h].bearer]
    <3>1. PICK c \in Opening :
            courier' = [courier EXCEPT ![c].step = "stage",
                                       ![c].got = host[h].bearer]
      BY <2>2
    <3> DEFINE k == [courier[c] EXCEPT !.step = "stage",
                                       !.got = host[h].bearer]
    <3>2. courier[c] \in Courier
      BY DEF TypeOK
    <3>3. k \in Courier
      BY <1>2, <3>2 DEF Courier
    <3>4. courier' = [courier EXCEPT ![c] = k]
      BY <3>1
    <3> HIDE DEF k
    <3> QED BY <3>3, <3>4, CourierStays
  <2> QED BY <2>1, <2>2 DEF Send
<1> QED BY <1>3, <1>4 DEF Send, TypeOK, Around

LEMMA ServerTypes ==
  ASSUME TypeOK, NEW h \in Opening,
         \/ \E c \in Opening \cup {Stranger} : Accept(h, c)
         \/ ReadLogin(h) \/ FailToRead(h) \/ Send(h) \/ FailToSend(h)
         \/ StopServing(h)
  PROVE  TypeOK'
<1>1. host[h] \in Host
  BY DEF TypeOK
<1>2. host[h].inHand \in Token \cup {None}
  BY <1>1 DEF Host
<1>3. CASE FailToRead(h) \/ FailToSend(h)
  <2>1. host' \in [Opening -> Host]
    BY <1>2, <1>3, DropsTypes DEF FailToRead, FailToSend
  <2> QED BY <1>3, <2>1 DEF FailToRead, FailToSend, TypeOK, Around, Session
<1>4. CASE StopServing(h)
  <2>1. host' \in [Opening -> Host]
    BY <1>1, <1>4, StopsTypes DEF StopServing, Host
  <2> QED BY <1>4, <2>1 DEF StopServing, TypeOK, Around, Session
<1> QED BY <1>3, <1>4, AcceptTypes, ReadLoginTypes, SendTypes

LEMMA FailsTypes ==
  ASSUME TypeOK, NEW o \in Opening, Fails(o)
  PROVE  courier' \in [Opening -> Courier]
<1> DEFINE s == IF claude[o] = "none" THEN "returned" ELSE "watch"
           n == IF claude[o] = "none" \/ courier[o].missed = Losses
                THEN courier[o].missed ELSE courier[o].missed + 1
           k == [courier[o] EXCEPT !.step = s, !.peer = None, !.got = None,
                                   !.missed = n]
<1>1. courier[o] \in Courier
  BY DEF TypeOK
<1>2. courier[o].missed \in 0..Losses
  BY <1>1 DEF Courier
<1>3. n \in 0..Losses
  BY <1>2, LendingAssumption
<1>4. s \in {"returned", "watch"}
  OBVIOUS
<1>5. courier' = [courier EXCEPT ![o] = k]
  BY DEF Fails
<1> HIDE DEF s, n
<1>6. k \in Courier
  BY <1>1, <1>3, <1>4 DEF Courier
<1> HIDE DEF k
<1> QED BY <1>5, <1>6, CourierStays

LEMMA StageTypes ==
  ASSUME TypeOK, NEW o \in Opening, Stage(o)
  PROVE  TypeOK'
<1> DEFINE k == [courier[o] EXCEPT !.step = "rename",
                   !.write = courier[o].got, !.got = None, !.peer = None,
                   !.lands = "staging"]
<1>1. courier[o] \in Courier
  BY DEF TypeOK
<1>2. k \in Courier
  BY <1>1 DEF Courier
<1>3. courier' = [courier EXCEPT ![o] = k]
  BY DEF Stage
<1> HIDE DEF k
<1>4. courier' \in [Opening -> Courier]
  BY <1>2, <1>3, CourierStays
<1>5. [by |-> o, token |-> Blank] \in Credential
  BY DEF Credential
<1>6. staging' \in [Opening -> Credential \cup {None}]
  BY <1>5 DEF Stage, TypeOK, Name
<1> QED BY <1>4, <1>6 DEF Stage, TypeOK, Around

LEMMA RenameTypes ==
  ASSUME TypeOK, NEW o \in Opening, Rename(o)
  PROVE  TypeOK'
<1> DEFINE s == IF claude[o] = "none" THEN "spawn" ELSE "watch"
           w == IF courier[o].lands = "staging" THEN "path"
                ELSE courier[o].lands
           k == [courier[o] EXCEPT !.step = s, !.missed = 0, !.lands = w]
<1>1. courier[o] \in Courier
  BY DEF TypeOK
<1>2. w \in {"staging", "path", "lost"} /\ s \in {"spawn", "watch"}
  BY <1>1 DEF Courier
<1>3. courier' = [courier EXCEPT ![o] = k]
  BY DEF Rename, Lends
<1> HIDE DEF s, w
<1>4. 0 \in 0..Losses
  BY LendingAssumption
<1>5. k \in Courier
  BY <1>1, <1>2, <1>4 DEF Courier
<1> HIDE DEF k
<1>6. courier' \in [Opening -> Courier]
  BY <1>3, <1>5, CourierStays
<1> QED BY <1>6 DEF Rename, TypeOK, Around, Name

LEMMA TimerTypes ==
  ASSUME TypeOK, NEW o \in Opening, NEW s \in CourierSteps,
         courier' = [courier EXCEPT ![o].step = s, ![o].timer = Refresh]
  PROVE  courier' \in [Opening -> Courier]
<1> DEFINE k == [courier[o] EXCEPT !.step = s, !.timer = Refresh]
<1>1. courier[o] \in Courier
  BY DEF TypeOK
<1>2. Refresh \in 0..Refresh
  BY LendingAssumption
<1>3. k \in Courier
  BY <1>1, <1>2 DEF Courier, CourierSteps
<1>4. courier' = [courier EXCEPT ![o] = k]
  OBVIOUS
<1> HIDE DEF k
<1> QED BY <1>3, <1>4, CourierStays

LEMMA TakeBackTypes ==
  ASSUME TypeOK, NEW o \in Opening, TakeBack(o)
  PROVE  TypeOK'
<1> DEFINE w == IF courier[o].lands = "path" THEN "lost"
                ELSE courier[o].lands
           k == [courier[o] EXCEPT !.step = "unlink", !.lands = w]
<1>1. courier[o] \in Courier
  BY DEF TypeOK
<1>2. w \in {"staging", "path", "lost"}
  BY <1>1 DEF Courier
<1>3. courier' = [courier EXCEPT ![o] = k]
  BY DEF TakeBack
<1> HIDE DEF w
<1>4. k \in Courier
  BY <1>1, <1>2 DEF Courier
<1> HIDE DEF k
<1>5. courier' \in [Opening -> Courier]
  BY <1>3, <1>4, CourierStays
<1> QED BY <1>5 DEF TakeBack, TypeOK, Around, Name

LEMMA WriteTypes ==
  ASSUME TypeOK, NEW o \in Opening, Write(o) \/ FailToWrite(o)
  PROVE  TypeOK'
<1> DEFINE k == [courier[o] EXCEPT !.write = None]
<1>1. courier[o] \in Courier
  BY DEF TypeOK
<1>2. k \in Courier
  BY <1>1 DEF Courier
<1>3. courier' = [courier EXCEPT ![o] = k]
  BY DEF Write, FailToWrite
<1> HIDE DEF k
<1>4. courier' \in [Opening -> Courier]
  BY <1>2, <1>3, CourierStays
<1>5. CASE Write(o)
  <2> DEFINE written == [by |-> o, token |-> courier[o].write]
  <2>1. written \in Credential
    BY <1>1, <1>5 DEF Write, Courier, Credential
  <2>2. /\ file' = [file EXCEPT ![o] = file'[o]]
        /\ file'[o] \in {file[o], written}
    BY <1>5 DEF Write, Name, TypeOK
  <2>3. /\ staging' = [staging EXCEPT ![o] = staging'[o]]
        /\ staging'[o] \in {staging[o], written}
    BY <1>5 DEF Write, Name, TypeOK
  <2> HIDE DEF written
  <2>4. file' \in [Opening -> Credential \cup {None}]
    BY <2>1, <2>2 DEF TypeOK
  <2>5. staging' \in [Opening -> Credential \cup {None}]
    BY <2>1, <2>3 DEF TypeOK
  <2> QED BY <1>4, <1>5, <2>4, <2>5 DEF Write, TypeOK, Around
<1>6. CASE FailToWrite(o)
  BY <1>4, <1>6 DEF FailToWrite, TypeOK, Around
<1> QED BY <1>5, <1>6

LEMMA KillTypes ==
  ASSUME TypeOK, NEW o \in Opening, KillCourier(o)
  PROVE  TypeOK'
<1> DEFINE k == [courier[o] EXCEPT !.step = "killed", !.peer = None,
                                   !.got = None, !.write = None]
<1>1. courier[o] \in Courier
  BY DEF TypeOK
<1>2. k \in Courier
  BY <1>1 DEF Courier
<1>3. courier' = [courier EXCEPT ![o] = k]
  BY DEF KillCourier
<1> HIDE DEF k
<1>4. courier' \in [Opening -> Courier]
  BY <1>2, <1>3, CourierStays
<1> QED BY <1>4 DEF KillCourier, TypeOK, Around

LEMMA AskTypes ==
  ASSUME TypeOK, NEW o \in Opening, Ask(o)
  PROVE  TypeOK'
<1>1. PICK h \in Opening :
        courier' = [courier EXCEPT ![o].step = "asking", ![o].peer = h]
  BY DEF Ask
<1> DEFINE k == [courier[o] EXCEPT !.step = "asking", !.peer = h]
<1>2. courier[o] \in Courier
  BY DEF TypeOK
<1>3. k \in Courier
  BY <1>2 DEF Courier
<1>4. courier' = [courier EXCEPT ![o] = k]
  BY <1>1
<1> HIDE DEF k
<1>5. courier' \in [Opening -> Courier]
  BY <1>3, <1>4, CourierStays
<1> QED BY <1>5 DEF Ask, TypeOK, Around

LEMMA CourierTypes ==
  ASSUME TypeOK, NEW o \in Opening,
         \/ CourierStep(o) \/ Renew(o) \/ Write(o)
         \/ FailToStage(o) \/ FailToWrite(o) \/ FailToSpawn(o)
         \/ FailToSupervise(o) \/ FailToTakeBack(o) \/ FailToUnlink(o)
         \/ KillCourier(o)
  PROVE  TypeOK'
<1>1. CASE FailToAsk(o) \/ HearNothing(o) \/ FailToRename(o) \/ FailToStage(o)
  BY <1>1, FailsTypes
  DEF FailToAsk, HearNothing, FailToRename, FailToStage, TypeOK, Around
<1>2. CASE \/ Notice(o) \/ FailToSpawn(o) \/ FailToSupervise(o)
           \/ FailToTakeBack(o) \/ FailToUnlink(o)
  <2>1. courier' \in [Opening -> Courier]
    BY <1>2, CourierStepTypes
    DEF Notice, FailToSpawn, FailToSupervise, FailToTakeBack, FailToUnlink,
        CourierSteps
  <2> QED
    BY <1>2, <2>1
    DEF Notice, FailToSpawn, FailToSupervise, FailToTakeBack, FailToUnlink,
        TypeOK, Around
<1>3. CASE Unlink(o)
  <2>1. courier' \in [Opening -> Courier]
    BY <1>3, CourierStepTypes DEF Unlink, CourierSteps
  <2> QED BY <1>3, <2>1 DEF Unlink, TypeOK, Name
<1>4. CASE Spawn(o)
  <2>1. courier' \in [Opening -> Courier]
    BY <1>4, TimerTypes DEF Spawn, CourierSteps
  <2> QED BY <1>4, <2>1 DEF Spawn, TypeOK, Around
<1>5. CASE Renew(o)
  <2>1. courier' \in [Opening -> Courier]
    BY <1>5, TimerTypes DEF Renew, CourierSteps
  <2> QED BY <1>5, <2>1 DEF Renew, TypeOK, Around
<1> QED
  BY <1>1, <1>2, <1>3, <1>4, <1>5, AskTypes, StageTypes, RenameTypes,
     TakeBackTypes, WriteTypes, KillTypes DEF CourierStep

LEMMA AgedInTypes ==
  ASSUME NEW f \in [Opening -> Credential \cup {None}]
  PROVE  AgedIn(f) \in [Opening -> Credential \cup {None}]
BY AgedTypes DEF AgedIn, Credential

LEMMA ElapseTypes ==
  ASSUME TypeOK, Elapse
  PROVE  TypeOK'
<1> USE LendingAssumption, AgedTypes
<1>1. login' \in Token \cup {None}
  BY DEF TypeOK, Elapse
<1>2. host' \in [Opening -> Host]
  <2> DEFINE h(o) == [host[o] EXCEPT !.inHand = Aged(host[o].inHand),
                                     !.bearer = Aged(host[o].bearer)]
  <2>1. host' = [o \in Opening |-> h(o)]
    BY DEF Elapse
  <2>2. ASSUME NEW o \in Opening PROVE h(o) \in Host
    <3>1. host[o] \in Host
      BY DEF TypeOK
    <3>2. /\ Aged(host[o].inHand) \in Token \cup {None}
          /\ Aged(host[o].bearer) \in Token \cup {None}
      BY <3>1 DEF Host
    <3> QED BY <3>1, <3>2 DEF Host
  <2> QED BY <2>1, <2>2
<1>3. courier' \in [Opening -> Courier]
  <2> DEFINE left(o) == IF courier[o].timer > 0 THEN courier[o].timer - 1
                        ELSE 0
             k(o) == [courier[o] EXCEPT !.got = Aged(courier[o].got),
                                        !.write = Aged(courier[o].write),
                                        !.timer = left(o)]
  <2>1. courier' = [o \in Opening |-> k(o)]
    BY DEF Elapse
  <2>2. ASSUME NEW o \in Opening PROVE k(o) \in Courier
    <3>1. courier[o] \in Courier
      BY DEF TypeOK
    <3>2. /\ Aged(courier[o].got) \in Token \cup {None}
          /\ Aged(courier[o].write) \in Token \cup {None}
          /\ courier[o].timer \in 0..Refresh
      BY <3>1 DEF Courier
    <3>3. left(o) \in 0..Refresh
      BY <3>2
    <3> HIDE DEF left
    <3> QED BY <3>1, <3>2, <3>3 DEF Courier
  <2> QED BY <2>1, <2>2
<1>4. file' \in [Opening -> Credential \cup {None}]
  BY AgedInTypes DEF TypeOK, Elapse
<1>5. staging' \in [Opening -> Credential \cup {None}]
  BY AgedInTypes DEF TypeOK, Elapse
<1> QED BY <1>1, <1>2, <1>3, <1>4, <1>5 DEF TypeOK, Elapse

LEMMA OutsideTypes ==
  ASSUME TypeOK,
         \/ \E o \in Opening : ClaudeExits(o) \/ EndSession(o) \/ Cut(o)
         \/ RenewLogin \/ LogOut
  PROVE  TypeOK'
<1> USE DEF TypeOK, Session, Around, Name
<1>1. ASSUME NEW o \in Opening, ClaudeExits(o) \/ EndSession(o) \/ Cut(o)
      PROVE  TypeOK'
  BY <1>1 DEF ClaudeExits, EndSession, Cut
<1>2. CASE RenewLogin \/ LogOut
  BY <1>2, LendingAssumption DEF RenewLogin, LogOut, Token, Forever
<1> QED BY <1>1, <1>2

LEMMA NextTypes == TypeOK /\ [Next]_vars => TypeOK'
<1> SUFFICES ASSUME TypeOK, [Next]_vars PROVE TypeOK'
  OBVIOUS
<1>1. CASE UNCHANGED vars
  BY <1>1 DEF vars, TypeOK
<1>2. CASE Next
  BY <1>2, HostTypes, ServerTypes, CourierTypes, ElapseTypes, OutsideTypes
  DEF Next, HostStep, ServerStep, Fault
<1> QED BY <1>1, <1>2

\* Every file, token and step is of its kind, and a write still to come,
\* a timer and a count of failures are within their bounds, in any
\* interleaving of hosts, couriers and faults.  (loan.rs, courier main.rs.)
THEOREM TypeCorrect == Spec => []TypeOK
BY InitTypes, NextTypes, PTL DEF Spec

-----------------------------------------------------------------------------
(***************************************************************************)
(* Safety.                                                                 *)
(***************************************************************************)

\* Nothing that Sound speaks of changes at q.
Same(q) ==
  /\ host'[q].step = host[q].step
  /\ courier'[q].step = courier[q].step
  /\ claude'[q] = claude[q]
  /\ file'[q] = file[q]
  /\ staging'[q] = staging[q]
  /\ hostSocket'[q] = hostSocket[q]
  /\ guestSocket'[q] = guestSocket[q]

LEMMA SameKeeps ==
  ASSUME NEW q \in Opening, Sound(q), Same(q)
  PROVE  Sound(q)'
BY DEF Sound, CourierComesLate, ClaudeComesLater, FilesAreOwn,
       CredentialIsThere, CredentialIsGone, ServerIsBound, Same

LEMMA InitSound == Init => \A o \in Opening : Sound(o)
<1> SUFFICES ASSUME Init, NEW o \in Opening PROVE Sound(o)
  OBVIOUS
<1>1. /\ host[o].step = "idle" /\ courier[o].step = "none"
      /\ claude[o] = "none" /\ file[o] = None /\ staging[o] = None
  BY DEF Init
<1> QED
  BY <1>1
  DEF Sound, CourierComesLate, ClaudeComesLater, FilesAreOwn,
      CredentialIsThere, CredentialIsGone, ServerIsBound, Fetching

\* What the host's process does to its own opening, and to no other.
LEMMA HostEffect ==
  ASSUME TypeOK, NEW o \in Opening,
         \/ Start(o) \/ Abandon(o) \/ OpenLoan(o) \/ LoseKnownHosts(o)
         \/ FailToConnect(o) \/ ClientExits(o) \/ CloseLoan(o)
         \/ FailToWait(o) \/ FailToCloseLoan(o) \/ KillHost(o)
  PROVE  /\ \A q \in Opening : q # o => Same(q)
         /\ UNCHANGED <<courier, claude, file, staging, guestSocket>>
         /\ \/ /\ host'[o].step \notin {"lending", "ssh"}
               /\ host'[o].step \in {"idle", "opening", "lending"} =>
                    host[o].step \in {"idle", "opening", "lending"}
            \/ /\ host[o].step = "opening" /\ host'[o].step = "lending"
               /\ hostSocket'[o] = o
<1> USE DEF TypeOK, Host, Step, StopsAt, Session, Name, Same
<1>1. CASE Start(o) BY <1>1 DEF Start
<1>2. CASE Abandon(o) BY <1>2 DEF Abandon
<1>3. CASE OpenLoan(o) BY <1>3 DEF OpenLoan
<1>4. CASE LoseKnownHosts(o) BY <1>4 DEF LoseKnownHosts
<1>5. CASE FailToConnect(o) BY <1>5 DEF FailToConnect
<1>6. CASE ClientExits(o) BY <1>6 DEF ClientExits
<1>7. CASE CloseLoan(o) BY <1>7 DEF CloseLoan
<1>8. CASE KillHost(o) BY <1>8 DEF KillHost
<1>9. CASE FailToWait(o) BY <1>9 DEF FailToWait
<1>10. CASE FailToCloseLoan(o) BY <1>10 DEF FailToCloseLoan
<1> QED
  BY <1>1, <1>2, <1>3, <1>4, <1>5, <1>6, <1>7, <1>8, <1>9, <1>10

LEMMA HostKeeps ==
  ASSUME Inductive, NEW o \in Opening,
         \/ Start(o) \/ Abandon(o) \/ OpenLoan(o) \/ LoseKnownHosts(o)
         \/ FailToConnect(o) \/ ClientExits(o) \/ CloseLoan(o)
         \/ FailToWait(o) \/ FailToCloseLoan(o) \/ KillHost(o)
  PROVE  \A q \in Opening : Sound(q)'
<1>1. TypeOK /\ Sound(o)
  BY DEF Inductive
<1>2. Sound(o)'
  BY <1>1, HostEffect
  DEF Sound, CourierComesLate, ClaudeComesLater, FilesAreOwn,
      CredentialIsThere, CredentialIsGone, ServerIsBound
<1> QED BY <1>1, <1>2, HostEffect, SameKeeps DEF Inductive

LEMMA ConnectKeeps ==
  ASSUME Inductive, NEW o \in Opening, Connect(o)
  PROVE  \A q \in Opening : Sound(q)'
<1>1. TypeOK /\ Sound(o)
  BY DEF Inductive
<1>2. \A q \in Opening : q # o => Same(q)
  BY <1>1 DEF Connect, Step, Name, TypeOK, Same
<1>3. /\ host'[o].step = "ssh" /\ courier'[o].step = "connect"
      /\ UNCHANGED <<hostSocket, claude, file, staging>>
      /\ host[o].step = "lending"
  BY <1>1 DEF Connect, Step, TypeOK, Host, Courier
<1>4. courier[o].step = "none"
  BY <1>1, <1>3 DEF Sound, CourierComesLate
<1>5. Sound(o)'
  BY <1>1, <1>3, <1>4
  DEF Sound, CourierComesLate, ClaudeComesLater, FilesAreOwn,
      CredentialIsThere, CredentialIsGone, ServerIsBound, Fetching
<1> QED BY <1>1, <1>2, <1>5, SameKeeps DEF Inductive

\* What a server does to the steps of hosts and couriers.
LEMMA ServerEffect ==
  ASSUME TypeOK, NEW h \in Opening,
         \/ \E c \in Opening \cup {Stranger} : Accept(h, c)
         \/ ReadLogin(h) \/ FailToRead(h) \/ Send(h) \/ FailToSend(h)
         \/ StopServing(h)
  PROVE  /\ UNCHANGED <<hostSocket, guestSocket, claude, file, staging>>
         /\ \A q \in Opening :
              /\ host'[q].step = host[q].step
              /\ \/ courier'[q].step = courier[q].step
                 \/ /\ courier[q].step \in {"asking", "hearing"}
                    /\ courier'[q].step \in {"hearing", "stage"}
<1> USE DEF TypeOK, StopsAt, Drops, Session, Around
<1>1. ASSUME NEW c \in Opening \cup {Stranger}, Accept(h, c)
      PROVE  \A q \in Opening :
               /\ host'[q].step = host[q].step
               /\ \/ courier'[q].step = courier[q].step
                  \/ /\ courier[q].step \in {"asking", "hearing"}
                     /\ courier'[q].step \in {"hearing", "stage"}
  <2>1. \A q \in Opening : host'[q].step = host[q].step
    <3> DEFINE good == IsStillGood(host[h].inHand)
               n == [host[h] EXCEPT
                       !.client = c, !.inHand = None,
                       !.server = IF good THEN "send" ELSE "read",
                       !.bearer = IF good THEN host[h].inHand ELSE None]
    <3>1. host' = [host EXCEPT ![h] = n]
      BY <1>1 DEF Accept
    <3>2. host[h] \in Host
      OBVIOUS
    <3>3. n.step = host[h].step
      BY <3>2 DEF Host
    <3> HIDE DEF n
    <3> QED BY <3>1, <3>3
  <2>2. \A q \in Opening :
          \/ courier'[q].step = courier[q].step
          \/ courier[q].step = "asking" /\ courier'[q].step = "hearing"
    BY ZenonT(40), <1>1 DEF Accept, Courier
  <2> QED BY <2>1, <2>2
<1>2. CASE ReadLogin(h) BY <1>2 DEF ReadLogin, Host
<1>3. CASE FailToRead(h) BY <1>3 DEF FailToRead, Host
<1>4. CASE Send(h)
  <2>1. \A q \in Opening : host'[q].step = host[q].step
    BY <1>4 DEF Send, Host
  <2>2. \A q \in Opening :
          \/ courier'[q].step = courier[q].step
          \/ courier[q].step = "hearing" /\ courier'[q].step = "stage"
    BY <1>4 DEF Send, Courier
  <2> QED BY <1>4, <2>1, <2>2 DEF Send
<1>5. CASE FailToSend(h) BY <1>5 DEF FailToSend, Host
<1>6. CASE StopServing(h) BY <1>6 DEF StopServing, Host
<1>7. (\E c \in Opening \cup {Stranger} : Accept(h, c)) =>
        UNCHANGED <<hostSocket, guestSocket, claude, file, staging>>
  BY DEF Accept
<1> QED BY <1>1, <1>2, <1>3, <1>4, <1>5, <1>6, <1>7

LEMMA ServerKeeps ==
  ASSUME Inductive, NEW h \in Opening,
         \/ \E c \in Opening \cup {Stranger} : Accept(h, c)
         \/ ReadLogin(h) \/ FailToRead(h) \/ Send(h) \/ FailToSend(h)
         \/ StopServing(h)
  PROVE  \A q \in Opening : Sound(q)'
<1> TAKE q \in Opening
<1>1. TypeOK /\ Sound(q)
  BY DEF Inductive
<1>2. /\ UNCHANGED <<hostSocket, guestSocket, claude, file, staging>>
      /\ host'[q].step = host[q].step
      /\ \/ courier'[q].step = courier[q].step
         \/ /\ courier[q].step \in {"asking", "hearing"}
            /\ courier'[q].step \in {"hearing", "stage"}
  BY <1>1, ServerEffect
<1> QED
  BY <1>1, <1>2
  DEF Sound, CourierComesLate, ClaudeComesLater, FilesAreOwn,
      CredentialIsThere, CredentialIsGone, ServerIsBound, Fetching

\* What a courier leaves alone.
LEMMA CourierEffect ==
  ASSUME TypeOK, NEW o \in Opening,
         \/ CourierStep(o) \/ Renew(o) \/ Write(o)
         \/ FailToStage(o) \/ FailToWrite(o) \/ FailToSpawn(o)
         \/ FailToSupervise(o) \/ FailToTakeBack(o) \/ FailToUnlink(o)
         \/ KillCourier(o)
  PROVE  /\ UNCHANGED <<host, hostSocket>>
         /\ \A q \in Opening : q # o => Same(q)
<1> USE DEF TypeOK, Around, Name, Same
<1>1. CASE Ask(o) BY <1>1 DEF Ask
<1>2. CASE FailToAsk(o) BY <1>2 DEF FailToAsk, Fails
<1>3. CASE HearNothing(o) BY <1>3 DEF HearNothing, Fails
<1>4. CASE Stage(o) BY <1>4 DEF Stage
<1>5. CASE Rename(o) BY <1>5 DEF Rename, Lends
<1>6. CASE FailToRename(o) BY <1>6 DEF FailToRename, Fails
<1>7. CASE Spawn(o) BY <1>7 DEF Spawn
<1>8. CASE Notice(o) BY <1>8 DEF Notice
<1>9. CASE TakeBack(o) BY <1>9 DEF TakeBack
<1>10. CASE Unlink(o) BY <1>10 DEF Unlink
<1>11. CASE Renew(o) BY <1>11 DEF Renew
<1>12. CASE Write(o) BY <1>12 DEF Write
<1>13. CASE FailToStage(o) BY <1>13 DEF FailToStage, Fails
<1>14. CASE FailToWrite(o) BY <1>14 DEF FailToWrite
<1>15. CASE FailToSpawn(o) BY <1>15 DEF FailToSpawn
<1>16. CASE KillCourier(o) BY <1>16 DEF KillCourier
<1>17. CASE FailToSupervise(o) BY <1>17 DEF FailToSupervise
<1>18. CASE FailToTakeBack(o) BY <1>18 DEF FailToTakeBack
<1>19. CASE FailToUnlink(o) BY <1>19 DEF FailToUnlink
<1> QED
  BY <1>1, <1>2, <1>3, <1>4, <1>5, <1>6, <1>7, <1>8, <1>9, <1>10, <1>11,
     <1>12, <1>13, <1>14, <1>15, <1>16, <1>17, <1>18, <1>19 DEF CourierStep

\* A lend() that fails ends the first time, and is over the other times.
LEMMA FailsSound ==
  ASSUME Inductive, NEW o \in Opening, Fails(o),
         courier[o].step \in Fetching,
         UNCHANGED <<host, hostSocket, claude, file, staging>>
  PROVE  Sound(o)'
<1>1. TypeOK /\ Sound(o)
  BY DEF Inductive
<1>2. courier'[o].step = IF claude[o] = "none" THEN "returned" ELSE "watch"
  BY <1>1 DEF Fails, TypeOK, Courier
<1> QED
  BY <1>1, <1>2
  DEF Sound, CourierComesLate, ClaudeComesLater, FilesAreOwn,
      CredentialIsThere, CredentialIsGone, ServerIsBound, Fetching

LEMMA CourierSound ==
  ASSUME Inductive, NEW o \in Opening,
         \/ CourierStep(o) \/ Renew(o) \/ Write(o)
         \/ FailToStage(o) \/ FailToWrite(o) \/ FailToSpawn(o)
         \/ FailToSupervise(o) \/ FailToTakeBack(o) \/ FailToUnlink(o)
         \/ KillCourier(o)
  PROVE  Sound(o)'
<1>1. TypeOK /\ Sound(o)
  BY DEF Inductive
<1> USE DEF Sound, CourierComesLate, ClaudeComesLater, FilesAreOwn,
            CredentialIsThere, CredentialIsGone, ServerIsBound, Fetching,
            Around, Name
<1>2. CASE FailToAsk(o) \/ HearNothing(o) \/ FailToRename(o) \/ FailToStage(o)
  BY <1>2, FailsSound DEF FailToAsk, HearNothing, FailToRename, FailToStage
<1>3. CASE Ask(o)
  <2>1. courier[o].step = "connect" /\ courier'[o].step = "asking"
    BY <1>1, <1>3 DEF Ask, TypeOK, Courier
  <2> QED BY <1>1, <1>3, <2>1 DEF Ask
<1>4. CASE Stage(o)
  <2>1. courier[o].step = "stage" /\ courier'[o].step = "rename"
    BY <1>1, <1>4 DEF Stage, TypeOK, Courier
  <2>2. staging'[o] = [by |-> o, token |-> Blank]
    BY <1>1, <1>4 DEF Stage, TypeOK
  <2>3. staging'[o].by = o
    BY <2>2
  <2> QED BY <1>1, <1>4, <2>1, <2>3 DEF Stage
<1>5. CASE Rename(o)
  <2>1. /\ courier[o].step = "rename"
        /\ courier'[o].step = IF claude[o] = "none" THEN "spawn" ELSE "watch"
    BY <1>1, <1>5 DEF Rename, Lends, TypeOK, Courier
  <2>2. /\ staging[o] # None
        /\ file'[o] = staging[o] /\ staging'[o] = None
    BY <1>1, <1>5 DEF Rename, TypeOK
  <2> QED BY <1>1, <1>5, <2>1, <2>2 DEF Rename
<1>6. CASE Spawn(o)
  <2>1. /\ courier[o].step = "spawn" /\ courier'[o].step = "watch"
        /\ claude'[o] = "running"
    BY <1>1, <1>6 DEF Spawn, TypeOK, Courier
  <2> QED BY <1>1, <1>6, <2>1 DEF Spawn
<1>7. CASE Notice(o)
  <2>1. courier[o].step = "watch" /\ courier'[o].step = "remove"
    BY <1>1, <1>7 DEF Notice, TypeOK, Courier
  <2> QED BY <1>1, <1>7, <2>1 DEF Notice
<1>8. CASE TakeBack(o)
  <2>1. courier[o].step = "remove" /\ courier'[o].step = "unlink"
    BY <1>1, <1>8 DEF TakeBack, TypeOK, Courier
  <2>2. file'[o] = None
    BY <1>1, <1>8 DEF TakeBack, TypeOK
  <2> QED BY <1>1, <1>8, <2>1, <2>2 DEF TakeBack
<1>9. CASE Unlink(o)
  <2>1. courier[o].step = "unlink" /\ courier'[o].step = "returned"
    BY <1>1, <1>9 DEF Unlink, TypeOK, Courier
  <2>2. guestSocket'[o] = None
    BY <1>1, <1>9 DEF Unlink, TypeOK
  <2> QED BY <1>1, <1>9, <2>1, <2>2 DEF Unlink
<1>10. CASE Renew(o)
  <2>1. courier[o].step = "watch" /\ courier'[o].step = "connect"
    BY <1>1, <1>10 DEF Renew, TypeOK, Courier
  <2> QED BY <1>1, <1>10, <2>1 DEF Renew
<1>11. CASE Write(o)
  <2> DEFINE written == [by |-> o, token |-> courier[o].write]
  <2>1. courier'[o].step = courier[o].step
    BY <1>1, <1>11 DEF Write, TypeOK, Courier
  <2>2. written.by = o
    OBVIOUS
  <2>3. written # None
    <3>1. courier[o] \in Courier
      BY <1>1 DEF TypeOK
    <3>2. written \in Credential
      BY <1>11, <3>1 DEF Write, Courier, Credential
    <3> QED BY <3>2, ModelValuesAssumption
  <2>4. /\ file'[o] \in {file[o], written}
        /\ file[o] = None => file'[o] = None
    BY <1>1, <1>11 DEF Write, TypeOK
  <2>5. /\ staging'[o] \in {staging[o], written}
        /\ staging[o] = None => staging'[o] = None
    BY <1>1, <1>11 DEF Write, TypeOK
  <2> HIDE DEF written
  <2> QED BY <1>1, <1>11, <2>1, <2>2, <2>3, <2>4, <2>5 DEF Write
<1>12. CASE FailToWrite(o)
  <2>1. courier'[o].step = courier[o].step
    BY <1>1, <1>12 DEF FailToWrite, TypeOK, Courier
  <2> QED BY <1>1, <1>12, <2>1 DEF FailToWrite
<1>13. CASE FailToSpawn(o)
  <2>1. courier[o].step = "spawn" /\ courier'[o].step = "returned"
    BY <1>1, <1>13 DEF FailToSpawn, TypeOK, Courier
  <2> QED BY <1>1, <1>13, <2>1 DEF FailToSpawn
<1>14. CASE KillCourier(o)
  <2>1. courier[o].step # "none" /\ courier'[o].step = "killed"
    BY <1>1, <1>14 DEF KillCourier, TypeOK, Courier
  <2> QED BY <1>1, <1>14, <2>1 DEF KillCourier
<1>15. CASE FailToSupervise(o)
  <2>1. courier[o].step = "watch" /\ courier'[o].step = "remove"
    BY <1>1, <1>15 DEF FailToSupervise, TypeOK, Courier
  <2> QED BY <1>1, <1>15, <2>1 DEF FailToSupervise
<1>16. CASE FailToTakeBack(o)
  <2>1. courier[o].step = "remove" /\ courier'[o].step = "fileLeft"
    BY <1>1, <1>16 DEF FailToTakeBack, TypeOK, Courier
  <2> QED BY <1>1, <1>16, <2>1 DEF FailToTakeBack
<1>17. CASE FailToUnlink(o)
  <2>1. courier[o].step = "unlink" /\ courier'[o].step = "socketLeft"
    BY <1>1, <1>17 DEF FailToUnlink, TypeOK, Courier
  <2> QED BY <1>1, <1>17, <2>1 DEF FailToUnlink
<1> QED
  BY <1>2, <1>3, <1>4, <1>5, <1>6, <1>7, <1>8, <1>9, <1>10, <1>11, <1>12,
     <1>13, <1>14, <1>15, <1>16, <1>17 DEF CourierStep

LEMMA OutsideKeeps ==
  ASSUME Inductive,
         \/ \E o \in Opening : ClaudeExits(o) \/ EndSession(o) \/ Cut(o)
         \/ RenewLogin \/ LogOut
  PROVE  \A q \in Opening : Sound(q)'
<1> TAKE q \in Opening
<1>1. TypeOK /\ Sound(q)
  BY DEF Inductive
<1>2. /\ UNCHANGED <<host, courier, file, staging, hostSocket>>
      /\ claude'[q] = claude[q] \/ claude[q] = "running"
      /\ guestSocket'[q] \in {guestSocket[q], None}
  BY <1>1
  DEF ClaudeExits, EndSession, Cut, RenewLogin, LogOut, Session, Around,
      Name, TypeOK
<1> QED
  BY <1>1, <1>2
  DEF Sound, CourierComesLate, ClaudeComesLater, FilesAreOwn,
      CredentialIsThere, CredentialIsGone, ServerIsBound, Fetching

\* Time ages tokens, and changes nothing else.
LEMMA AgedInKeeps ==
  ASSUME NEW f \in [Opening -> Credential \cup {None}], NEW q \in Opening
  PROVE  /\ AgedIn(f)[q] = None <=> f[q] = None
         /\ f[q] # None => AgedIn(f)[q].by = f[q].by
<1>1. CASE f[q] = None
  BY <1>1 DEF AgedIn
<1>2. CASE f[q] # None
  <2>1. f[q] \in Credential
    BY <1>2
  <2>2. AgedIn(f)[q] = [f[q] EXCEPT !.token = Aged(f[q].token)]
    BY <1>2 DEF AgedIn
  <2>3. Aged(f[q].token) \in Token \cup {Blank}
    BY <2>1, AgedTypes DEF Credential
  <2>4. AgedIn(f)[q] \in Credential /\ AgedIn(f)[q].by = f[q].by
    BY <2>1, <2>2, <2>3 DEF Credential
  <2> QED BY <1>2, <2>4, ModelValuesAssumption
<1> QED BY <1>1, <1>2

LEMMA ElapseKeeps ==
  ASSUME Inductive, Elapse
  PROVE  \A q \in Opening : Sound(q)'
<1> TAKE q \in Opening
<1>1. TypeOK /\ Sound(q)
  BY DEF Inductive
<1>2. host'[q].step = host[q].step /\ courier'[q].step = courier[q].step
  <2>1. host[q] \in Host /\ courier[q] \in Courier
    BY <1>1 DEF TypeOK
  <2>2. host'[q] = [host[q] EXCEPT !.inHand = Aged(host[q].inHand),
                                   !.bearer = Aged(host[q].bearer)]
    BY DEF Elapse
  <2>3. host'[q].step = host[q].step
    BY <2>1, <2>2 DEF Host
  <2>4. courier'[q].step = courier[q].step
    BY <2>1 DEF Elapse, Courier
  <2> QED BY <2>3, <2>4
<1>3. /\ file'[q] = None <=> file[q] = None
      /\ file[q] # None => file'[q].by = file[q].by
  BY <1>1, AgedInKeeps DEF Elapse, TypeOK
<1>4. /\ staging'[q] = None <=> staging[q] = None
      /\ staging[q] # None => staging'[q].by = staging[q].by
  BY <1>1, AgedInKeeps DEF Elapse, TypeOK
<1>5. UNCHANGED <<hostSocket, guestSocket, claude>>
  BY DEF Elapse
<1> QED
  BY <1>1, <1>2, <1>3, <1>4, <1>5
  DEF Sound, CourierComesLate, ClaudeComesLater, FilesAreOwn,
      CredentialIsThere, CredentialIsGone, ServerIsBound, Fetching

LEMMA NextKeeps == Inductive /\ [Next]_vars => Inductive'
<1> SUFFICES ASSUME Inductive, [Next]_vars PROVE Inductive'
  OBVIOUS
<1>1. TypeOK'
  BY NextTypes DEF Inductive
<1>2. CASE UNCHANGED vars
  BY <1>1, <1>2, SameKeeps DEF Inductive, vars, Same
<1>3. CASE Next
  <2>1. ASSUME NEW o \in Opening,
               \/ CourierStep(o) \/ Renew(o) \/ Write(o)
               \/ FailToStage(o) \/ FailToWrite(o) \/ FailToSpawn(o)
               \/ FailToSupervise(o) \/ FailToTakeBack(o) \/ FailToUnlink(o)
               \/ KillCourier(o)
        PROVE  \A q \in Opening : Sound(q)'
    BY <2>1, CourierEffect, CourierSound, SameKeeps DEF Inductive
  <2>2. \A q \in Opening : Sound(q)'
    BY <1>3, <2>1, HostKeeps, ConnectKeeps, ServerKeeps, OutsideKeeps,
       ElapseKeeps DEF Next, HostStep, ServerStep, Fault
  <2> QED BY <1>1, <2>2 DEF Inductive
<1> QED BY <1>2, <1>3

\* Each opening's courier, Claude Code and credential come and go in their
\* order, and what is at its names is its own, whatever the others do and
\* whatever fails.  (claude.rs run(), main.rs run() of the courier.)
THEOREM AlwaysInductive == Spec => []Inductive
<1>1. Init => Inductive
  BY InitTypes, InitSound DEF Inductive
<1> QED BY <1>1, NextKeeps, PTL DEF Spec

\* However many openings of one session or of several there are, each
\* lending host is the one bound to its socket, and each Claude Code finds
\* the file its own courier wrote.  (loan.rs, Attachment.)
THEOREM KeptApart == Spec => []OpeningsKeepApart
<1>1. Inductive => OpeningsKeepApart
  BY DEF Inductive, Sound, OpeningsKeepApart, Name, ServerIsBound,
         CredentialIsThere, FilesAreOwn
<1> QED BY <1>1, AlwaysInductive, PTL

\* A courier that started Claude Code and ended by itself leaves neither the
\* credential nor the socket, whatever write it never waited for is carried
\* out afterwards, but for what it says it could not remove.  (courier
\* main.rs, run().)
THEOREM NothingIsLeft == Spec => []TakenBack
<1>1. Inductive => TakenBack
  BY DEF Inductive, Sound, TakenBack, Name, CredentialIsGone
<1> QED BY <1>1, AlwaysInductive, PTL

-----------------------------------------------------------------------------
(***************************************************************************)
(* The credential lasts, where nothing is killed, cut or failing but the   *)
(* reading of the login, and nothing is in time's way.                     *)
(***************************************************************************)

\* How long a credential has to do: Losses renewals that fail and the one
\* after them.
Lasting == (Losses + 1) * Refresh

\* What a credential has to last on with that many failures behind it, and
\* so long until the next renewal.
Needs(missed, timer) == (Losses - missed) * Refresh + timer

\* What the theorem takes for granted: a token that is handed out lasts that
\* long, the one in hand for its margin and the one in the keychain for
\* being renewed.
Supplied ==
  /\ Faults = FALSE /\ Prompt = TRUE
  /\ Margin >= Lasting
  /\ Kept > Lasting

LoginLasts == login \in Token /\ login > Lasting

\* A courier that was started and is not done has its connection, the socket
\* it asks at, and the server behind it.
Attached(o) ==
  /\ courier[o].step \notin {"fileLeft", "socketLeft", "killed"}
  /\ host[o].step \in {"lending", "ssh"} => host[o].server # "off"
  /\ courier[o].step \notin {"none", "returned"} =>
       host[o].step = "ssh" /\ link[o] /\ guestSocket[o] = o

\* It hears from its own server, and is let down only where it may be.
Answered(o) ==
  /\ courier[o].step \in {"asking", "hearing"} => courier[o].peer = o
  /\ courier[o].step = "hearing" =>
       host[o].client = o \/ courier[o].missed < Losses
  /\ host[o].client \in Opening =>
       /\ host[o].client = o
       /\ courier[o].step = "hearing"
       /\ host[o].server \in {"read", "send"}

\* A token on its way lasts: being sent, received, or assembled.
LastsOnTheWay(o) ==
  /\ host[o].server = "send" =>
       host[o].bearer \in Token /\ host[o].bearer > Lasting
  /\ courier[o].step = "stage" =>
       courier[o].got \in Token /\ courier[o].got > Lasting
  /\ courier[o].step = "rename" =>
       /\ staging[o] # None
       /\ courier[o].lands = "staging"
       /\ IF courier[o].write = None
          THEN staging[o].token \in Token /\ staging[o].token > Lasting
          ELSE staging[o].token = Blank /\ courier[o].write > Lasting

\* A file is blank while a write to it is still to come, and only then.
BlankIsWritten(o) ==
  file[o] # None =>
    (file[o].token = Blank <=>
       courier[o].write # None /\ courier[o].lands = "path")

\* Claude Code is waited for as long as it runs, and what it reads lasts.
Lasts(o) ==
  /\ courier[o].step \in {"remove", "unlink", "returned"} =>
       claude[o] # "running"
  /\ courier[o].step = "spawn" =>
       courier[o].missed = 0 /\ Holds(o) > Lasting
  /\ courier[o].step = "watch" =>
       Holds(o) > Needs(courier[o].missed, courier[o].timer)
  /\ courier[o].step \in Fetching /\ claude[o] # "none" =>
       /\ courier[o].timer = Refresh
       /\ Holds(o) > Needs(courier[o].missed, 0)

Timely(o) ==
  Attached(o) /\ Answered(o) /\ LastsOnTheWay(o) /\ BlankIsWritten(o)
    /\ Lasts(o)

InTime == LoginLasts /\ \A o \in Opening : Timely(o)

\* Each renewal that fails uses up one of those that may, and each unit of
\* time one of what is left.
LEMMA NeedsFacts ==
  /\ Lasting \in Nat \ {0}
  /\ Needs(0, Refresh) = Lasting
  /\ \A m \in 0..Losses, t \in 0..Refresh : Needs(m, t) \in Nat
  /\ \A t \in 0..Refresh : Needs(0, t) <= Lasting
  /\ \A m \in 0..Losses :
       m < Losses => Needs(m + 1, Refresh) = Needs(m, 0)
  /\ \A m \in 0..Losses, t \in 0..Refresh :
       t > 0 => Needs(m, t) = Needs(m, t - 1) + 1
<1> USE LendingAssumption
<1>1. \A k \in Nat : k * Refresh \in Nat /\ (k + 1) * Refresh = k * Refresh + Refresh
  OBVIOUS
<1>2. \A m \in 0..Losses : Losses - m \in Nat
  OBVIOUS
<1>3. Lasting = Losses * Refresh + Refresh /\ Losses * Refresh \in Nat
  BY <1>1 DEF Lasting
<1>4. \A m \in 0..Losses : (Losses - m) * Refresh \in Nat
  BY <1>1, <1>2
<1>5. \A t \in 0..Refresh : Needs(0, t) = Losses * Refresh + t
  BY DEF Needs
<1>6. ASSUME NEW m \in 0..Losses, m < Losses
      PROVE  Needs(m + 1, Refresh) = Needs(m, 0)
  <2> DEFINE k == Losses - (m + 1)
  <2>1. k \in Nat /\ Losses - m = k + 1
    BY <1>6
  <2>2. (k + 1) * Refresh = k * Refresh + Refresh /\ k * Refresh \in Nat
    BY <1>1, <2>1
  <2>3. Needs(m + 1, Refresh) = k * Refresh + Refresh
    BY DEF Needs
  <2>4. Needs(m, 0) = (k + 1) * Refresh + 0
    BY <2>1 DEF Needs
  <2> HIDE DEF k
  <2> QED BY <2>2, <2>3, <2>4
<1>7. ASSUME NEW m \in 0..Losses, NEW t \in 0..Refresh
      PROVE  /\ Needs(m, t) \in Nat
             /\ t > 0 => Needs(m, t) = Needs(m, t - 1) + 1
  <2> DEFINE k == (Losses - m) * Refresh
  <2>1. k \in Nat
    BY <1>4
  <2>2. Needs(m, t) = k + t /\ Needs(m, t - 1) = k + (t - 1)
    BY DEF Needs
  <2> HIDE DEF k
  <2> QED BY <2>1, <2>2
<1> QED BY <1>3, <1>5, <1>6, <1>7

LEMMA TokenIsInt == \A t \in Token : t \in Int /\ t # None /\ t # Blank
BY LendingAssumption DEF Token, Forever

\* Nothing that Timely speaks of changes at q.
Quiet(q) ==
  UNCHANGED <<host[q], courier[q], link[q], guestSocket[q], claude[q],
              file[q], staging[q]>>

LEMMA QuietKeeps ==
  ASSUME NEW q \in Opening, Timely(q), Quiet(q)
  PROVE  Timely(q)'
<1> USE DEF Timely, Quiet
<1>1. Attached(q)' BY DEF Attached
<1>2. Answered(q)' BY DEF Answered
<1>3. LastsOnTheWay(q)' BY DEF LastsOnTheWay
<1>4. BlankIsWritten(q)' BY DEF BlankIsWritten
<1>5. Holds(q)' = Holds(q) BY DEF Holds, Name
<1>6. Lasts(q)' BY <1>5 DEF Lasts, Needs
<1> QED BY <1>1, <1>2, <1>3, <1>4, <1>6

LEMMA OwnKeeps ==
  ASSUME InTime, NEW o \in Opening, UNCHANGED login,
         \A q \in Opening : q # o => Quiet(q),
         Timely(o)'
  PROVE  InTime'
BY QuietKeeps DEF InTime, LoginLasts

LEMMA InitInTime == Supplied /\ Init => InTime
<1> SUFFICES ASSUME Supplied, Init PROVE InTime
  OBVIOUS
<1>1. LoginLasts
  BY LendingAssumption, NeedsFacts
  DEF Init, LoginLasts, Supplied, Token, Forever
<1>2. ASSUME NEW o \in Opening PROVE Timely(o)
  <2>1. /\ host[o].step = "idle" /\ host[o].server = "off"
        /\ host[o].client = None
        /\ courier[o].step = "none" /\ file[o] = None
    BY DEF Init
  <2> QED
    BY <2>1, LendingAssumption
    DEF Timely, Attached, Answered, LastsOnTheWay, BlankIsWritten, Lasts,
        Fetching
<1> QED BY <1>1, <1>2 DEF InTime

-----------------------------------------------------------------------------
\* What the host's process does, to its own opening and no other.
LEMMA HostDoes ==
  ASSUME TypeOK, NEW o \in Opening,
         \/ Start(o) \/ OpenLoan(o) \/ FailToConnect(o) \/ ClientExits(o)
         \/ CloseLoan(o)
  PROVE  /\ \A q \in Opening : q # o => Quiet(q)
         /\ UNCHANGED <<login, courier, claude, file, staging, link,
                        guestSocket>>
         /\ \/ /\ host[o].step \in {"idle", "opening", "lending"}
               /\ host'[o].step # "ssh"
            \/ ~link[o]
            \/ host[o].step = "closing" /\ host'[o].step # "ssh"
         /\ host'[o].step = "lending" => host'[o].server # "off"
         /\ host'[o].step # "ssh"
         /\ \/ /\ host'[o].client = None /\ host'[o].server = "off"
            \/ /\ host'[o].client = host[o].client
               /\ host'[o].server = host[o].server
               /\ host'[o].bearer = host[o].bearer
            \/ /\ host'[o].client = host[o].client
               /\ host'[o].server = "accept" /\ host[o].step = "opening"
<1> USE DEF TypeOK, Host, Step, StopsAt, Session, Name, Quiet
<1>1. CASE Start(o) BY <1>1 DEF Start
<1>2. CASE OpenLoan(o) BY <1>2 DEF OpenLoan
<1>3. CASE FailToConnect(o) BY <1>3 DEF FailToConnect
<1>4. CASE ClientExits(o) BY <1>4 DEF ClientExits
<1>5. CASE CloseLoan(o) BY <1>5 DEF CloseLoan
<1> QED BY <1>1, <1>2, <1>3, <1>4, <1>5

LEMMA HostInTime ==
  ASSUME Supplied, Inductive, InTime, NEW o \in Opening,
         \/ Start(o) \/ OpenLoan(o) \/ FailToConnect(o) \/ ClientExits(o)
         \/ CloseLoan(o)
  PROVE  InTime'
<1>1. TypeOK /\ Sound(o) /\ Timely(o)
  BY DEF Inductive, InTime
<1>2. courier[o].step \in {"none", "returned"}
  <2>1. \/ host[o].step \in {"idle", "opening", "lending", "closing"}
        \/ ~link[o]
    BY <1>1, HostDoes
  <2>2. host[o].step \in {"idle", "opening", "lending"} =>
          courier[o].step = "none"
    BY <1>1 DEF Sound, CourierComesLate
  <2> QED BY <1>1, <2>1, <2>2 DEF Timely, Attached
<1>3. UNCHANGED <<courier, claude, file, staging, link, guestSocket>>
  BY <1>1, HostDoes
<1>4. host[o].client \notin Opening
  BY <1>1, <1>2 DEF Timely, Answered
<1>5. Attached(o)'
  BY <1>1, <1>2, <1>3, HostDoes DEF Timely, Attached
<1>6. host'[o].client \notin Opening
  BY <1>1, <1>4, HostDoes, LendingAssumption
<1>7. Answered(o)'
  BY <1>2, <1>3, <1>6 DEF Answered
<1>8. host'[o].server = "send" =>
        host[o].server = "send" /\ host'[o].bearer = host[o].bearer
  BY <1>1, HostDoes
<1>9. LastsOnTheWay(o)'
  BY <1>1, <1>2, <1>3, <1>8 DEF Timely, LastsOnTheWay
<1>10. BlankIsWritten(o)'
  BY <1>1, <1>3 DEF Timely, BlankIsWritten
<1>11. Lasts(o)'
  BY <1>1, <1>2, <1>3 DEF Timely, Lasts, Fetching
<1>12. Timely(o)'
  BY <1>5, <1>7, <1>9, <1>10, <1>11 DEF Timely
<1> QED BY <1>1, <1>12, HostDoes, OwnKeeps

LEMMA ConnectInTime ==
  ASSUME Supplied, Inductive, InTime, NEW o \in Opening, Connect(o)
  PROVE  InTime'
<1>1. TypeOK /\ Sound(o) /\ Timely(o)
  BY DEF Inductive, InTime
<1>2. /\ \A q \in Opening : q # o => Quiet(q)
      /\ UNCHANGED <<login, claude, file, staging>>
  BY <1>1 DEF Connect, Step, Name, TypeOK, Quiet
<1>3. /\ host[o].step = "lending" /\ host'[o].step = "ssh"
      /\ host'[o].server = host[o].server
      /\ host'[o].client = host[o].client
      /\ host'[o].bearer = host[o].bearer
  BY <1>1 DEF Connect, Step, TypeOK, Host
<1>4. courier[o].step = "none"
  BY <1>1, <1>3 DEF Sound, CourierComesLate
<1>5. /\ courier'[o].step = "connect"
      /\ courier'[o].write = courier[o].write
      /\ courier'[o].lands = courier[o].lands
  BY <1>1 DEF Connect, TypeOK, Courier
<1>6. link'[o] /\ guestSocket'[o] = o
  BY <1>1 DEF Connect, TypeOK, Name
<1>7. claude'[o] = "none"
  BY <1>1, <1>2, <1>4 DEF Sound, ClaudeComesLater
<1>8. Attached(o)'
  BY <1>1, <1>3, <1>5, <1>6 DEF Timely, Attached
<1>9. Answered(o)'
  BY <1>1, <1>3, <1>4, <1>5 DEF Timely, Answered
<1>10. LastsOnTheWay(o)'
  BY <1>1, <1>3, <1>5 DEF Timely, LastsOnTheWay
<1>11. BlankIsWritten(o)'
  BY <1>1, <1>2, <1>5 DEF Timely, BlankIsWritten
<1>12. Lasts(o)'
  BY <1>5, <1>7 DEF Lasts
<1>13. Timely(o)'
  BY <1>8, <1>9, <1>10, <1>11, <1>12 DEF Timely
<1> QED BY <1>2, <1>13, OwnKeeps

-----------------------------------------------------------------------------
\* A server deals with its own courier, and touches nothing but the two.
LEMMA ServerDeals ==
  ASSUME TypeOK, NEW h \in Opening, Timely(h),
         \A q \in Opening : Timely(q),
         \/ \E c \in Opening \cup {Stranger} : Accept(h, c)
         \/ ReadLogin(h) \/ FailToRead(h) \/ Send(h) \/ FailToSend(h)
  PROVE  /\ \A q \in Opening : q # h => Quiet(q)
         /\ UNCHANGED <<login, claude, file, staging, link, guestSocket>>
<1> USE DEF TypeOK, Drops, Session, Around, Quiet
<1>1. ASSUME NEW c \in Opening \cup {Stranger}, Accept(h, c)
      PROVE  \A q \in Opening : q # h => Quiet(q)
  <2>1. c \in Opening => c = h
    <3>1. c \in Opening => courier[c].step = "asking" /\ courier[c].peer = h
      BY <1>1, LendingAssumption DEF Accept
    <3> QED BY <3>1 DEF Timely, Answered
  <2>2. \A q \in Opening : q # h => host'[q] = host[q]
    BY <1>1 DEF Accept
  <2>3. \A q \in Opening : q # h => courier'[q] = courier[q]
    BY <1>1, <2>1 DEF Accept
  <2> QED BY <1>1, <2>2, <2>3 DEF Accept
<1>2. CASE ReadLogin(h) BY <1>2 DEF ReadLogin
<1>3. CASE FailToRead(h) BY <1>3 DEF FailToRead
<1>4. CASE Send(h)
  <2>1. host[h].client \in Opening => host[h].client = h
    BY DEF Timely, Answered
  <2>2. \A q \in Opening : q # h => host'[q] = host[q]
    BY <1>4 DEF Send
  <2>3. \A q \in Opening : q # h => courier'[q] = courier[q]
    BY <1>4, <2>1 DEF Send
  <2> QED BY <1>4, <2>2, <2>3 DEF Send
<1>5. CASE FailToSend(h) BY <1>5 DEF FailToSend
<1>6. (\E c \in Opening \cup {Stranger} : Accept(h, c)) =>
        UNCHANGED <<login, claude, file, staging, link, guestSocket>>
  BY DEF Accept
<1> QED BY <1>1, <1>2, <1>3, <1>4, <1>5, <1>6

\* What is said of files is left alone where only the steps of a courier
\* that is asking or hearing change.
LEMMA FilesKeep ==
  ASSUME NEW h \in Opening, TypeOK, Timely(h),
         UNCHANGED <<claude, file, staging, link, guestSocket>>,
         courier'[h].write = courier[h].write,
         courier'[h].lands = courier[h].lands,
         courier'[h].timer = courier[h].timer,
         courier'[h].missed = courier[h].missed,
         \/ courier'[h].step = courier[h].step
         \/ /\ courier[h].step \in {"connect", "asking", "hearing"}
            /\ courier'[h].step \in {"asking", "hearing", "stage"}
  PROVE  BlankIsWritten(h)' /\ Lasts(h)'
<1>1. BlankIsWritten(h)'
  BY DEF Timely, BlankIsWritten
<1>2. Holds(h)' = Holds(h)
  BY DEF Holds, Name
<1>3. Lasts(h)'
  BY <1>2 DEF Timely, Lasts, Fetching, Needs
<1> QED BY <1>1, <1>3

LEMMA AcceptInTime ==
  ASSUME Supplied, Inductive, InTime, NEW h \in Opening,
         NEW c \in Opening \cup {Stranger}, Accept(h, c)
  PROVE  InTime'
<1>1. /\ TypeOK /\ Timely(h) /\ host[h] \in Host /\ courier[h] \in Courier
      /\ \A q \in Opening : Timely(q)
  BY DEF Inductive, InTime, TypeOK
<1>2. /\ \A q \in Opening : q # h => Quiet(q)
      /\ UNCHANGED <<login, claude, file, staging, link, guestSocket>>
  BY <1>1, ServerDeals
<1> DEFINE good == IsStillGood(host[h].inHand)
           s == IF good THEN "send" ELSE "read"
           b == IF good THEN host[h].inHand ELSE None
           n == [host[h] EXCEPT !.client = c, !.inHand = None,
                                !.server = s, !.bearer = b]
<1>3. host' = [host EXCEPT ![h] = n]
  BY DEF Accept
<1>4. n.step = host[h].step /\ n.client = c /\ n.server = s /\ n.bearer = b
  BY <1>1 DEF Host
<1> HIDE DEF n
<1>5. /\ host'[h].step = host[h].step /\ host'[h].client = c
      /\ host'[h].server = s /\ host'[h].bearer = b
  BY <1>1, <1>3, <1>4 DEF TypeOK
<1>6. s = "send" => b \in Token /\ b > Lasting
  BY <1>1, NeedsFacts, TokenIsInt, LendingAssumption
  DEF IsStillGood, Host, Supplied
<1>7. s \in {"send", "read"}
  OBVIOUS
<1> HIDE DEF s, b
<1>8. /\ host[h].server = "accept"
      /\ host[h].client \notin Opening
  BY <1>1 DEF Accept, Timely, Answered
<1>9. c \in Opening => c = h /\ courier[h].step = "asking"
  <2>1. c \in Opening => courier[c].step = "asking" /\ courier[c].peer = h
    BY LendingAssumption DEF Accept
  <2> QED BY <1>1, <2>1 DEF Timely, Answered
<1>10. /\ courier'[h].step =
            IF c \in Opening THEN "hearing" ELSE courier[h].step
       /\ courier'[h].peer = courier[h].peer
       /\ courier'[h].got = courier[h].got
       /\ courier'[h].write = courier[h].write
       /\ courier'[h].lands = courier[h].lands
       /\ courier'[h].timer = courier[h].timer
       /\ courier'[h].missed = courier[h].missed
  BY <1>1, <1>9, LendingAssumption DEF Accept, TypeOK, Courier
<1>11. Attached(h)'
  BY <1>1, <1>2, <1>5, <1>7, <1>9, <1>10 DEF Timely, Attached
<1>12. Answered(h)'
  <2>1. CASE c \in Opening
    BY <1>1, <1>5, <1>7, <1>9, <1>10, <2>1 DEF Timely, Answered
  <2>2. CASE c \notin Opening
    BY <1>1, <1>5, <1>8, <1>10, <2>2 DEF Timely, Answered
  <2> QED BY <2>1, <2>2
<1>13. LastsOnTheWay(h)'
  BY <1>1, <1>2, <1>5, <1>6, <1>9, <1>10 DEF Timely, LastsOnTheWay
<1>14. BlankIsWritten(h)' /\ Lasts(h)'
  BY <1>1, <1>2, <1>9, <1>10, FilesKeep
<1>15. Timely(h)'
  BY <1>11, <1>12, <1>13, <1>14 DEF Timely
<1> QED BY <1>2, <1>15, OwnKeeps

LEMMA ReadLoginInTime ==
  ASSUME Supplied, Inductive, InTime, NEW h \in Opening, ReadLogin(h)
  PROVE  InTime'
<1>1. /\ TypeOK /\ Timely(h) /\ host[h] \in Host /\ courier[h] \in Courier
      /\ \A q \in Opening : Timely(q)
  BY DEF Inductive, InTime, TypeOK
<1>2. /\ \A q \in Opening : q # h => Quiet(q)
      /\ UNCHANGED <<login, claude, file, staging, link, guestSocket>>
  BY <1>1, ServerDeals
<1>3. /\ host[h].server = "read"
      /\ host'[h].step = host[h].step /\ host'[h].client = host[h].client
      /\ host'[h].server = "send" /\ host'[h].bearer = login
  BY <1>1 DEF ReadLogin, TypeOK, Host
<1>4. UNCHANGED courier
  BY DEF ReadLogin, Session
<1>5. Attached(h)'
  BY <1>1, <1>2, <1>3, <1>4 DEF Timely, Attached
<1>6. Answered(h)'
  BY <1>1, <1>3, <1>4 DEF Timely, Answered
<1>7. LastsOnTheWay(h)'
  BY <1>1, <1>2, <1>3, <1>4 DEF Timely, LastsOnTheWay, InTime, LoginLasts
<1>8. BlankIsWritten(h)' /\ Lasts(h)'
  BY <1>1, <1>2, <1>4, FilesKeep
<1>9. Timely(h)'
  BY <1>5, <1>6, <1>7, <1>8 DEF Timely
<1> QED BY <1>2, <1>9, OwnKeeps

\* A courier whose connection is dropped may be let down.
LEMMA DropInTime ==
  ASSUME Supplied, Inductive, InTime, NEW h \in Opening,
         FailToRead(h) \/ FailToSend(h)
  PROVE  InTime'
<1>1. /\ TypeOK /\ Timely(h) /\ host[h] \in Host /\ courier[h] \in Courier
      /\ \A q \in Opening : Timely(q)
  BY DEF Inductive, InTime, TypeOK
<1>2. /\ \A q \in Opening : q # h => Quiet(q)
      /\ UNCHANGED <<login, claude, file, staging, link, guestSocket>>
  BY <1>1, ServerDeals
<1>3. /\ host'[h].step = host[h].step /\ host'[h].client = None
      /\ host'[h].server = "accept"
  BY <1>1 DEF FailToRead, FailToSend, Drops, TypeOK, Host
<1>4. UNCHANGED courier
  BY DEF FailToRead, FailToSend, Session
<1>5. host[h].client = h => courier[h].missed < Losses
  <2>1. CASE FailToRead(h)
    <3>1. Lendable
      BY NeedsFacts, TokenIsInt DEF Lendable, InTime, LoginLasts
    <3> QED BY <2>1, <3>1, LendingAssumption DEF FailToRead, Supplied
  <2>2. CASE FailToSend(h)
    BY <1>1, <2>2 DEF FailToSend, Timely, Answered, Attached
  <2> QED BY <2>1, <2>2
<1>6. Attached(h)'
  BY <1>1, <1>2, <1>3, <1>4 DEF Timely, Attached
<1>7. Answered(h)'
  BY <1>1, <1>3, <1>4, <1>5, LendingAssumption DEF Timely, Answered
<1>8. LastsOnTheWay(h)'
  BY <1>1, <1>2, <1>3, <1>4 DEF Timely, LastsOnTheWay
<1>9. BlankIsWritten(h)' /\ Lasts(h)'
  BY <1>1, <1>2, <1>4, FilesKeep
<1>10. Timely(h)'
  BY <1>6, <1>7, <1>8, <1>9 DEF Timely
<1> QED BY <1>2, <1>10, OwnKeeps

LEMMA SendInTime ==
  ASSUME Supplied, Inductive, InTime, NEW h \in Opening, Send(h)
  PROVE  InTime'
<1>1. /\ TypeOK /\ Timely(h) /\ host[h] \in Host /\ courier[h] \in Courier
      /\ \A q \in Opening : Timely(q)
  BY DEF Inductive, InTime, TypeOK
<1>2. /\ \A q \in Opening : q # h => Quiet(q)
      /\ UNCHANGED <<login, claude, file, staging, link, guestSocket>>
  BY <1>1, ServerDeals
<1>3. /\ host'[h].step = host[h].step /\ host'[h].client = None
      /\ host'[h].server = "accept"
  BY <1>1 DEF Send, Drops, TypeOK, Host
<1>4. host[h].bearer \in Token /\ host[h].bearer > Lasting
  BY <1>1 DEF Send, Timely, LastsOnTheWay
<1>5. CASE host[h].client \notin Opening
  <2>1. UNCHANGED courier
    BY <1>5 DEF Send
  <2>2. Attached(h)'
    BY <1>1, <1>2, <1>3, <2>1 DEF Timely, Attached
  <2>3. Answered(h)'
    BY <1>1, <1>3, <1>5, <2>1, LendingAssumption DEF Timely, Answered
  <2>4. LastsOnTheWay(h)'
    BY <1>1, <1>2, <1>3, <2>1 DEF Timely, LastsOnTheWay
  <2>5. BlankIsWritten(h)' /\ Lasts(h)'
    BY <1>1, <1>2, <2>1, FilesKeep
  <2>6. Timely(h)'
    BY <2>2, <2>3, <2>4, <2>5 DEF Timely
  <2> QED BY <1>2, <2>6, OwnKeeps
<1>6. CASE host[h].client \in Opening
  <2>1. host[h].client = h /\ courier[h].step = "hearing"
    BY <1>1, <1>6 DEF Timely, Answered
  <2> DEFINE k == [courier[h] EXCEPT !.step = "stage", !.got = host[h].bearer]
  <2>2. courier' = [courier EXCEPT ![h] = k]
    BY <1>6, <2>1, LendingAssumption DEF Send
  <2>3. /\ k.step = "stage" /\ k.got = host[h].bearer
        /\ k.write = courier[h].write /\ k.lands = courier[h].lands
        /\ k.timer = courier[h].timer /\ k.missed = courier[h].missed
    BY <1>1 DEF Courier
  <2> HIDE DEF k
  <2>4. /\ courier'[h].step = "stage" /\ courier'[h].got = host[h].bearer
        /\ courier'[h].write = courier[h].write
        /\ courier'[h].lands = courier[h].lands
        /\ courier'[h].timer = courier[h].timer
        /\ courier'[h].missed = courier[h].missed
    BY <1>1, <2>2, <2>3 DEF TypeOK
  <2>5. Attached(h)'
    BY <1>1, <1>2, <1>3, <2>1, <2>4 DEF Timely, Attached
  <2>6. Answered(h)'
    BY <1>3, <2>4, LendingAssumption DEF Answered
  <2>7. LastsOnTheWay(h)'
    BY <1>3, <1>4, <2>4 DEF LastsOnTheWay
  <2>8. BlankIsWritten(h)' /\ Lasts(h)'
    BY <1>1, <1>2, <2>1, <2>4, FilesKeep
  <2>9. Timely(h)'
    BY <2>5, <2>6, <2>7, <2>8 DEF Timely
  <2> QED BY <1>2, <2>9, OwnKeeps
<1> QED BY <1>5, <1>6

-----------------------------------------------------------------------------
\* A courier's step leaves the host, the login and other openings alone.
LEMMA CourierAlone ==
  ASSUME TypeOK, NEW o \in Opening,
         \/ CourierStep(o) \/ Renew(o) \/ Write(o)
  PROVE  /\ UNCHANGED <<login, host, link>>
         /\ \A q \in Opening : q # o => Quiet(q)
<1> USE DEF TypeOK, Around, Name, Quiet
<1>1. CASE Ask(o) BY <1>1 DEF Ask
<1>2. CASE FailToAsk(o) BY <1>2 DEF FailToAsk, Fails
<1>3. CASE HearNothing(o) BY <1>3 DEF HearNothing, Fails
<1>4. CASE Stage(o) BY <1>4 DEF Stage
<1>5. CASE Rename(o) BY <1>5 DEF Rename, Lends
<1>6. CASE FailToRename(o) BY <1>6 DEF FailToRename, Fails
<1>7. CASE Spawn(o) BY <1>7 DEF Spawn
<1>8. CASE Notice(o) BY <1>8 DEF Notice
<1>9. CASE TakeBack(o) BY <1>9 DEF TakeBack
<1>10. CASE Unlink(o) BY <1>10 DEF Unlink
<1>11. CASE Renew(o) BY <1>11 DEF Renew
<1>12. CASE Write(o) BY <1>12 DEF Write
<1> QED
  BY <1>1, <1>2, <1>3, <1>4, <1>5, <1>6, <1>7, <1>8, <1>9, <1>10, <1>11,
     <1>12 DEF CourierStep

\* While a courier is under way its requests reach its own server.
LEMMA ReachesOwn ==
  ASSUME Inductive, InTime, NEW o \in Opening,
         courier[o].step \notin {"none", "returned"}
  PROVE  \A h \in Opening : Reaches(o, h) <=> h = o
<1>1. /\ host[o].step = "ssh" /\ link[o] /\ guestSocket[o] = o
      /\ host[o].server # "off" /\ hostSocket[o] = o
  BY DEF Inductive, InTime, Sound, Timely, Attached, ServerIsBound
<1> QED BY <1>1, LendingAssumption DEF Reaches, Name

LEMMA AskInTime ==
  ASSUME Supplied, Inductive, InTime, NEW o \in Opening, Ask(o)
  PROVE  InTime'
<1>1. TypeOK /\ Timely(o) /\ courier[o] \in Courier
  BY DEF Inductive, InTime, TypeOK
<1>2. /\ UNCHANGED <<login, host, link>>
      /\ \A q \in Opening : q # o => Quiet(q)
  BY <1>1, CourierAlone DEF CourierStep
<1>3. UNCHANGED <<claude, file, staging, guestSocket>>
  BY DEF Ask, Around
<1>4. courier[o].step = "connect"
  BY DEF Ask
<1>5. \A h \in Opening : Reaches(o, h) => h = o
  BY <1>4, ReachesOwn
<1>6. courier' = [courier EXCEPT ![o].step = "asking", ![o].peer = o]
  BY <1>5 DEF Ask
<1>7. /\ courier'[o].step = "asking" /\ courier'[o].peer = o
      /\ courier'[o].write = courier[o].write
      /\ courier'[o].lands = courier[o].lands
      /\ courier'[o].timer = courier[o].timer
      /\ courier'[o].missed = courier[o].missed
  BY <1>1, <1>6 DEF TypeOK, Courier
<1>8. Attached(o)'
  BY <1>1, <1>2, <1>3, <1>4, <1>7 DEF Timely, Attached
<1>9. Answered(o)'
  BY <1>1, <1>2, <1>4, <1>7 DEF Timely, Answered
<1>10. LastsOnTheWay(o)'
  BY <1>1, <1>2, <1>7 DEF Timely, LastsOnTheWay
<1>11. BlankIsWritten(o)' /\ Lasts(o)'
  BY <1>1, <1>2, <1>3, <1>4, <1>7, FilesKeep
<1>12. Timely(o)'
  BY <1>8, <1>9, <1>10, <1>11 DEF Timely
<1> QED BY <1>2, <1>12, OwnKeeps

\* The only lend() that fails is one that was let down by the server, and
\* may be: any other finds its server, and what it staged.
LEMMA OnlyLetDown ==
  ASSUME Supplied, Inductive, InTime, NEW o \in Opening,
         FailToAsk(o) \/ HearNothing(o) \/ FailToRename(o)
  PROVE  /\ courier[o].step = "hearing"
         /\ courier[o].missed < Losses
         /\ host[o].client # o
         /\ Fails(o)
         /\ UNCHANGED <<claude, file, staging, guestSocket>>
<1>1. Timely(o) /\ Sound(o)
  BY DEF Inductive, InTime
<1>2. ~FailToAsk(o)
  BY ReachesOwn DEF FailToAsk
<1>3. ~FailToRename(o)
  BY <1>1 DEF FailToRename, Timely, LastsOnTheWay, Supplied, Name
<1>4. HearNothing(o)
  BY <1>2, <1>3
<1>5. courier[o].step = "asking" =>
        /\ courier[o].peer = o /\ host[o].server # "off" /\ link[o]
  BY <1>1 DEF Timely, Attached, Answered
<1>6. courier[o].step = "hearing" => courier[o].peer = o /\ link[o]
  BY <1>1 DEF Timely, Attached, Answered
<1>7. courier[o].step = "hearing" /\ host[o].client # o
  BY <1>4, <1>5, <1>6 DEF HearNothing
<1> QED BY <1>1, <1>4, <1>7 DEF HearNothing, Timely, Answered, Around

LEMMA FailsInTime ==
  ASSUME Supplied, Inductive, InTime, NEW o \in Opening,
         FailToAsk(o) \/ HearNothing(o) \/ FailToRename(o)
  PROVE  InTime'
<1>1. TypeOK /\ Timely(o) /\ courier[o] \in Courier
  BY DEF Inductive, InTime, TypeOK
<1>2. /\ UNCHANGED <<login, host, link>>
      /\ \A q \in Opening : q # o => Quiet(q)
  BY <1>1, CourierAlone DEF CourierStep
<1>3. /\ courier[o].step = "hearing" /\ courier[o].missed < Losses
      /\ host[o].client # o
      /\ UNCHANGED <<claude, file, staging, guestSocket>>
  BY OnlyLetDown
<1> DEFINE s == IF claude[o] = "none" THEN "returned" ELSE "watch"
           m == IF claude[o] = "none" \/ courier[o].missed = Losses
                THEN courier[o].missed ELSE courier[o].missed + 1
           k == [courier[o] EXCEPT !.step = s, !.peer = None, !.got = None,
                                   !.missed = m]
<1>4. courier' = [courier EXCEPT ![o] = k]
  <2>1. Fails(o)
    BY OnlyLetDown
  <2> QED BY <2>1 DEF Fails
<1>5. /\ k.step = s /\ k.missed = m /\ k.write = courier[o].write
      /\ k.lands = courier[o].lands /\ k.timer = courier[o].timer
  BY <1>1 DEF Courier
<1> HIDE DEF k
<1>6. /\ courier'[o].step = s /\ courier'[o].missed = m
      /\ courier'[o].write = courier[o].write
      /\ courier'[o].lands = courier[o].lands
      /\ courier'[o].timer = courier[o].timer
  BY <1>1, <1>4, <1>5 DEF TypeOK
<1>7. s \in {"returned", "watch"}
  OBVIOUS
<1>8. courier[o].missed \in 0..Losses
  BY <1>1 DEF Courier
<1>9. claude[o] # "none" => s = "watch" /\ m = courier[o].missed + 1
  BY <1>3, <1>8, LendingAssumption
<1>10. claude[o] = "none" => s = "returned"
  OBVIOUS
<1> HIDE DEF s, m
<1>11. host[o].client \notin Opening
  BY <1>1, <1>3 DEF Timely, Answered
<1>12. Attached(o)'
  BY <1>1, <1>2, <1>3, <1>6, <1>7 DEF Timely, Attached
<1>13. Answered(o)'
  BY <1>2, <1>6, <1>7, <1>11 DEF Answered
<1>14. LastsOnTheWay(o)'
  BY <1>1, <1>2, <1>6, <1>7 DEF Timely, LastsOnTheWay
<1>15. BlankIsWritten(o)'
  BY <1>1, <1>3, <1>6 DEF Timely, BlankIsWritten
<1>16. Lasts(o)'
  <2>1. Holds(o)' = Holds(o)
    BY <1>3, <1>6 DEF Holds, Name
  <2>2. CASE claude[o] = "none"
    BY <1>3, <1>6, <1>10, <2>2 DEF Lasts, Fetching
  <2>3. CASE claude[o] # "none"
    <3>1. /\ courier[o].timer = Refresh
          /\ Holds(o) > Needs(courier[o].missed, 0)
      BY <1>1, <1>3, <2>3 DEF Timely, Lasts, Fetching
    <3>2. Needs(courier[o].missed + 1, Refresh) = Needs(courier[o].missed, 0)
      BY <1>3, <1>8, NeedsFacts
    <3>3. Holds(o)' > Needs(m, Refresh)
      BY <1>9, <2>1, <2>3, <3>1, <3>2
    <3>4. Needs(courier[o].missed, courier[o].timer)' = Needs(m, Refresh)
      BY <1>6, <3>1 DEF Needs
    <3> QED BY <1>6, <1>9, <2>3, <3>3, <3>4 DEF Lasts, Fetching
  <2> QED BY <2>2, <2>3
<1>17. Timely(o)'
  BY <1>12, <1>13, <1>14, <1>15, <1>16 DEF Timely
<1> QED BY <1>2, <1>17, OwnKeeps

LEMMA StageInTime ==
  ASSUME Supplied, Inductive, InTime, NEW o \in Opening, Stage(o)
  PROVE  InTime'
<1>1. TypeOK /\ Timely(o) /\ courier[o] \in Courier
  BY DEF Inductive, InTime, TypeOK
<1>2. /\ UNCHANGED <<login, host, link>>
      /\ \A q \in Opening : q # o => Quiet(q)
  BY <1>1, CourierAlone DEF CourierStep
<1>3. /\ courier[o].step = "stage" /\ courier[o].write = None
      /\ UNCHANGED <<claude, file, guestSocket>>
  BY DEF Stage, Around
<1> DEFINE k == [courier[o] EXCEPT !.step = "rename",
                   !.write = courier[o].got, !.got = None, !.peer = None,
                   !.lands = "staging"]
<1>4. courier' = [courier EXCEPT ![o] = k]
  BY DEF Stage
<1>5. /\ k.step = "rename" /\ k.write = courier[o].got
      /\ k.lands = "staging" /\ k.timer = courier[o].timer
      /\ k.missed = courier[o].missed
  BY <1>1 DEF Courier
<1> HIDE DEF k
<1>6. /\ courier'[o].step = "rename" /\ courier'[o].write = courier[o].got
      /\ courier'[o].lands = "staging"
      /\ courier'[o].timer = courier[o].timer
      /\ courier'[o].missed = courier[o].missed
  BY <1>1, <1>4, <1>5 DEF TypeOK
<1>7. courier[o].got \in Token /\ courier[o].got > Lasting
  BY <1>1, <1>3 DEF Timely, LastsOnTheWay
<1>8. staging'[o] # None /\ staging'[o].token = Blank
  <2>1. staging'[o] = [by |-> o, token |-> Blank]
    BY <1>1 DEF Stage, Name, TypeOK
  <2>2. staging'[o] \in Credential
    BY <2>1 DEF Credential
  <2> QED BY <2>1, <2>2, ModelValuesAssumption
<1>9. file[o] # None => file[o].token # Blank
  BY <1>1, <1>3 DEF Timely, BlankIsWritten
<1>10. Attached(o)'
  BY <1>1, <1>2, <1>3, <1>6 DEF Timely, Attached
<1>11. Answered(o)'
  BY <1>1, <1>2, <1>3, <1>6 DEF Timely, Answered
<1>12. LastsOnTheWay(o)'
  BY <1>1, <1>2, <1>6, <1>7, <1>8, TokenIsInt DEF Timely, LastsOnTheWay
<1>13. BlankIsWritten(o)'
  BY <1>3, <1>6, <1>9 DEF BlankIsWritten
<1>14. Lasts(o)'
  <2>1. CASE claude[o] = "none"
    BY <1>3, <1>6, <2>1 DEF Lasts, Fetching
  <2>2. CASE claude[o] # "none"
    <3>1. file[o] # None
      BY <1>3, <2>2 DEF Inductive, Sound, CredentialIsThere, Fetching
    <3>2. Holds(o)' = Holds(o)
      BY <1>3, <1>9, <3>1 DEF Holds, Name
    <3>3. Needs(courier[o].missed, 0)' = Needs(courier[o].missed, 0)
      BY <1>6 DEF Needs
    <3> QED BY <1>1, <1>3, <1>6, <2>2, <3>2, <3>3 DEF Timely, Lasts, Fetching
  <2> QED BY <2>1, <2>2
<1>15. Timely(o)'
  BY <1>10, <1>11, <1>12, <1>13, <1>14 DEF Timely
<1> QED BY <1>2, <1>15, OwnKeeps

\* A write lands where it was bound, and what a file holds once what was
\* written has landed is the same before and after.
LEMMA WriteInTime ==
  ASSUME Supplied, Inductive, InTime, NEW o \in Opening, Write(o)
  PROVE  InTime'
<1>1. TypeOK /\ Timely(o) /\ courier[o] \in Courier
  BY DEF Inductive, InTime, TypeOK
<1>2. /\ UNCHANGED <<login, host, link>>
      /\ \A q \in Opening : q # o => Quiet(q)
  BY <1>1, CourierAlone
<1>3. UNCHANGED <<claude, guestSocket>>
  BY DEF Write, Around
<1>4. /\ courier'[o].step = courier[o].step
      /\ courier'[o].peer = courier[o].peer
      /\ courier'[o].got = courier[o].got
      /\ courier'[o].write = None
      /\ courier'[o].lands = courier[o].lands
      /\ courier'[o].timer = courier[o].timer
      /\ courier'[o].missed = courier[o].missed
  BY <1>1 DEF Write, TypeOK, Courier
<1>5. courier[o].write \in Token /\ courier[o].write # Blank
  BY <1>1, TokenIsInt DEF Write, Courier
<1> DEFINE written == [by |-> o, token |-> courier[o].write]
<1>6. written # None /\ written.token = courier[o].write
  <2>1. written \in Credential
    BY <1>5 DEF Credential
  <2> QED BY <2>1, ModelValuesAssumption
<1>7. /\ file'[o] = IF courier[o].lands = "path" /\ file[o] # None
                    THEN written ELSE file[o]
      /\ staging'[o] = IF courier[o].lands = "staging" /\ staging[o] # None
                       THEN written ELSE staging[o]
  BY <1>1, <1>5, TokenIsInt DEF Write, Lands, Name, TypeOK
<1> HIDE DEF written
<1>8. Attached(o)'
  BY <1>1, <1>2, <1>3, <1>4 DEF Timely, Attached
<1>9. Answered(o)'
  BY <1>1, <1>2, <1>4 DEF Timely, Answered
<1>10. LastsOnTheWay(o)'
  <2>1. /\ host'[o].server = "send" =>
             host'[o].bearer \in Token /\ host'[o].bearer > Lasting
        /\ courier'[o].step = "stage" =>
             courier'[o].got \in Token /\ courier'[o].got > Lasting
    BY <1>1, <1>2, <1>4 DEF Timely, LastsOnTheWay
  <2>2. CASE courier[o].step = "rename"
    <3>1. /\ staging[o] # None /\ courier[o].lands = "staging"
          /\ courier[o].write > Lasting
      BY <1>1, <1>5, <2>2, TokenIsInt DEF Timely, LastsOnTheWay
    <3>2. staging'[o] = written
      BY <1>7, <3>1
    <3> QED BY <1>4, <1>5, <1>6, <2>1, <3>1, <3>2 DEF LastsOnTheWay
  <2>3. CASE courier[o].step # "rename"
    BY <1>4, <2>1, <2>3 DEF LastsOnTheWay
  <2> QED BY <2>2, <2>3
<1>11. /\ file'[o] = None <=> file[o] = None
       /\ file'[o] # None => file'[o].token # Blank
  BY <1>1, <1>5, <1>6, <1>7, TokenIsInt DEF Timely, BlankIsWritten
<1>12. BlankIsWritten(o)'
  BY <1>4, <1>11 DEF BlankIsWritten
<1>13. file[o] # None => Holds(o)' = Holds(o)
  <2> SUFFICES ASSUME file[o] # None PROVE Holds(o)' = Holds(o)
    OBVIOUS
  <2>1. CASE courier[o].lands = "path"
    <3>1. file[o].token = Blank
      BY <1>1, <1>5, <2>1, TokenIsInt DEF Timely, BlankIsWritten
    <3>2. file'[o].token = courier[o].write
      BY <1>6, <1>7, <2>1
    <3> QED BY <1>5, <3>1, <3>2 DEF Holds, Name
  <2>2. CASE courier[o].lands # "path"
    <3>1. file'[o] = file[o]
      BY <1>7, <2>2
    <3>2. file[o].token # Blank
      BY <1>1, <2>2 DEF Timely, BlankIsWritten
    <3> QED BY <3>1, <3>2 DEF Holds, Name
  <2> QED BY <2>1, <2>2
<1>14. Lasts(o)'
  <2>1. Needs(courier[o].missed, courier[o].timer)'
          = Needs(courier[o].missed, courier[o].timer)
    BY <1>4 DEF Needs
  <2>2. Needs(courier[o].missed, 0)' = Needs(courier[o].missed, 0)
    BY <1>4 DEF Needs
  <2>3. CredentialIsThere(o)
    BY DEF Inductive, Sound
  <2> QED BY <1>1, <1>3, <1>4, <1>13, <2>1, <2>2, <2>3
          DEF Timely, Lasts, CredentialIsThere, Fetching
<1>15. Timely(o)'
  BY <1>8, <1>9, <1>10, <1>12, <1>14 DEF Timely
<1> QED BY <1>2, <1>15, OwnKeeps

LEMMA RenameInTime ==
  ASSUME Supplied, Inductive, InTime, NEW o \in Opening, Rename(o)
  PROVE  InTime'
<1>1. TypeOK /\ Timely(o) /\ courier[o] \in Courier
  BY DEF Inductive, InTime, TypeOK
<1>2. /\ UNCHANGED <<login, host, link>>
      /\ \A q \in Opening : q # o => Quiet(q)
  BY <1>1, CourierAlone DEF CourierStep
<1>3. /\ courier[o].step = "rename"
      /\ UNCHANGED <<claude, guestSocket>>
  BY DEF Rename, Around
<1> DEFINE s == IF claude[o] = "none" THEN "spawn" ELSE "watch"
           w == IF courier[o].lands = "staging" THEN "path"
                ELSE courier[o].lands
           k == [courier[o] EXCEPT !.step = s, !.missed = 0, !.lands = w]
<1>4. courier' = [courier EXCEPT ![o] = k]
  BY DEF Rename, Lends
<1>5. /\ k.step = s /\ k.missed = 0 /\ k.write = courier[o].write
      /\ k.lands = w /\ k.timer = courier[o].timer
  BY <1>1 DEF Courier
<1> HIDE DEF k
<1>6. /\ courier'[o].step = s /\ courier'[o].missed = 0
      /\ courier'[o].write = courier[o].write
      /\ courier'[o].lands = "path"
      /\ courier'[o].timer = courier[o].timer
  BY <1>1, <1>3, <1>4, <1>5 DEF TypeOK, Timely, LastsOnTheWay
<1>7. /\ s \in {"spawn", "watch"}
      /\ s = "spawn" <=> claude[o] = "none"
  OBVIOUS
<1> HIDE DEF s
<1>8. /\ staging[o] # None /\ file'[o] = staging[o]
      /\ IF courier[o].write = None
         THEN staging[o].token \in Token /\ staging[o].token > Lasting
         ELSE staging[o].token = Blank /\ courier[o].write > Lasting
  BY <1>1, <1>3 DEF Rename, Name, TypeOK, Timely, LastsOnTheWay
<1>9. Attached(o)'
  BY <1>1, <1>2, <1>3, <1>6, <1>7 DEF Timely, Attached
<1>10. Answered(o)'
  BY <1>1, <1>2, <1>3, <1>6, <1>7 DEF Timely, Answered
<1>11. LastsOnTheWay(o)'
  BY <1>1, <1>2, <1>6, <1>7 DEF Timely, LastsOnTheWay
<1>12. BlankIsWritten(o)'
  BY <1>6, <1>8, TokenIsInt DEF BlankIsWritten
<1>13. Holds(o)' > Lasting
  BY <1>6, <1>8, TokenIsInt DEF Holds, Name
<1>14. Holds(o)' \in Int
  BY <1>1, <1>6, <1>8, TokenIsInt DEF Holds, Name, Courier
<1>15. Lasts(o)'
  <2>1. courier[o].timer \in 0..Refresh
    BY <1>1 DEF Courier
  <2>2. /\ Needs(0, courier[o].timer) <= Lasting
        /\ Needs(0, courier[o].timer) \in Int /\ Lasting \in Int
    BY <2>1, NeedsFacts, LendingAssumption
  <2>3. Needs(courier[o].missed, courier[o].timer)'
          = Needs(0, courier[o].timer)
    BY <1>6 DEF Needs
  <2>4. Holds(o)' > Needs(courier[o].missed, courier[o].timer)'
    BY <1>13, <1>14, <2>2, <2>3
  <2> QED BY <1>6, <1>7, <1>13, <2>4 DEF Lasts, Fetching
<1>16. Timely(o)'
  BY <1>9, <1>10, <1>11, <1>12, <1>15 DEF Timely
<1> QED BY <1>2, <1>16, OwnKeeps

\* The steps that only move a courier on, or set its timer.
LEMMA MovesOn ==
  ASSUME Supplied, Inductive, InTime, NEW o \in Opening,
         Spawn(o) \/ Renew(o) \/ Notice(o) \/ TakeBack(o) \/ Unlink(o)
  PROVE  /\ courier'[o].write = courier[o].write
         /\ courier'[o].missed = courier[o].missed
         /\ UNCHANGED staging
         /\ courier[o].step \in {"spawn", "watch", "remove", "unlink"}
         /\ courier'[o].step \in {"watch", "connect", "remove", "unlink",
                                  "returned"}
         /\ courier'[o].step # "returned" => guestSocket'[o] = guestSocket[o]
<1>1. TypeOK /\ courier[o] \in Courier
  BY DEF Inductive, TypeOK
<1> USE DEF TypeOK, Courier, Around, Name
<1>2. CASE Spawn(o) BY <1>1, <1>2 DEF Spawn
<1>3. CASE Renew(o) BY <1>1, <1>3 DEF Renew
<1>4. CASE Notice(o) BY <1>1, <1>4 DEF Notice
<1>5. CASE Unlink(o) BY <1>1, <1>5 DEF Unlink
<1>6. CASE TakeBack(o)
  <2> DEFINE w == IF courier[o].lands = "path" THEN "lost"
                  ELSE courier[o].lands
             k == [courier[o] EXCEPT !.step = "unlink", !.lands = w]
  <2>1. courier' = [courier EXCEPT ![o] = k]
    BY <1>6 DEF TakeBack
  <2>2. /\ k.step = "unlink" /\ k.write = courier[o].write
        /\ k.missed = courier[o].missed
    BY <1>1
  <2> HIDE DEF k
  <2> QED BY <1>1, <1>6, <2>1, <2>2 DEF TakeBack
<1> QED BY <1>2, <1>3, <1>4, <1>5, <1>6

LEMMA MovesInTime ==
  ASSUME Supplied, Inductive, InTime, NEW o \in Opening,
         Spawn(o) \/ Renew(o) \/ Notice(o) \/ TakeBack(o) \/ Unlink(o)
  PROVE  InTime'
<1>1. /\ TypeOK /\ Timely(o) /\ courier[o] \in Courier
      /\ courier[o].missed \in 0..Losses
  BY DEF Inductive, InTime, TypeOK, Courier
<1>2. /\ UNCHANGED <<login, host, link>>
      /\ \A q \in Opening : q # o => Quiet(q)
  BY <1>1, CourierAlone DEF CourierStep
<1>3. Attached(o)'
  BY <1>1, <1>2, MovesOn DEF Timely, Attached
<1>4. Answered(o)'
  BY <1>1, <1>2, MovesOn DEF Timely, Answered
<1>5. LastsOnTheWay(o)'
  BY <1>1, <1>2, MovesOn DEF Timely, LastsOnTheWay
<1>6. BlankIsWritten(o)'
  <2>1. CASE Spawn(o)
    BY <1>1, <2>1 DEF Spawn, Timely, BlankIsWritten, TypeOK, Courier, Around
  <2>2. CASE Renew(o)
    BY <1>1, <2>2 DEF Renew, Timely, BlankIsWritten, TypeOK, Courier, Around
  <2>3. CASE Notice(o)
    BY <1>1, <2>3 DEF Notice, Timely, BlankIsWritten, TypeOK, Courier, Around
  <2>4. CASE TakeBack(o)
    <3>1. file'[o] = None
      BY <1>1, <2>4 DEF TakeBack, TypeOK, Name
    <3> QED BY <3>1 DEF BlankIsWritten
  <2>5. CASE Unlink(o)
    BY <1>1, <2>5 DEF Unlink, Timely, BlankIsWritten, TypeOK, Courier
  <2> QED BY <2>1, <2>2, <2>3, <2>4, <2>5
<1>7. Holds(o)' = Holds(o) \/ TakeBack(o)
  BY <1>1, MovesOn DEF Holds, Name, Spawn, Renew, Notice, Unlink, Around
<1>8. Lasts(o)'
  <2>1. CASE Spawn(o)
    <3>1. /\ courier'[o].step = "watch" /\ courier'[o].timer = Refresh
          /\ courier'[o].missed = 0
          /\ Holds(o)' > Lasting
      <4>1. courier[o].missed = 0 /\ Holds(o) > Lasting
        BY <1>1, <2>1 DEF Spawn, Timely, Lasts
      <4>2. ~TakeBack(o)
        BY <2>1 DEF Spawn, TakeBack
      <4>3. courier'[o].step = "watch" /\ courier'[o].timer = Refresh
        BY <1>1, <2>1 DEF Spawn, TypeOK, Courier
      <4> QED BY <1>7, <4>1, <4>2, <4>3, MovesOn
    <3>2. Needs(courier[o].missed, courier[o].timer)' = Lasting
      BY <3>1, NeedsFacts DEF Needs
    <3> QED BY <3>1, <3>2 DEF Lasts, Fetching
  <2>2. CASE Renew(o)
    <3>1. /\ courier'[o].step = "connect" /\ courier'[o].timer = Refresh
          /\ courier[o].step = "watch" /\ courier[o].timer = 0
      BY <1>1, <2>2 DEF Renew, TypeOK, Courier
    <3>2. Holds(o) > Needs(courier[o].missed, 0)
      BY <1>1, <3>1 DEF Timely, Lasts
    <3>3. Holds(o)' = Holds(o)
      BY <1>7, <2>2 DEF Renew, TakeBack
    <3>4. Needs(courier[o].missed, 0)' = Needs(courier[o].missed, 0)
      BY MovesOn DEF Needs
    <3> QED BY <3>1, <3>2, <3>3, <3>4 DEF Lasts, Fetching
  <2>3. CASE Notice(o)
    <3>1. courier'[o].step = "remove" /\ claude'[o] = "exited"
      BY <1>1, <2>3 DEF Notice, TypeOK, Courier, Around
    <3> QED BY <3>1 DEF Lasts, Fetching
  <2>4. CASE TakeBack(o)
    <3>1. courier[o].step = "remove" /\ claude'[o] = claude[o]
      BY <2>4 DEF TakeBack
    <3>2. courier'[o].step = "unlink"
      BY <1>1, <2>4 DEF TakeBack, TypeOK, Courier
    <3> QED BY <1>1, <3>1, <3>2 DEF Timely, Lasts, Fetching
  <2>5. CASE Unlink(o)
    <3>1. courier[o].step = "unlink" /\ claude'[o] = claude[o]
      BY <2>5 DEF Unlink
    <3>2. courier'[o].step = "returned"
      BY <1>1, <2>5 DEF Unlink, TypeOK, Courier
    <3> QED BY <1>1, <3>1, <3>2 DEF Timely, Lasts, Fetching
  <2> QED BY <2>1, <2>2, <2>3, <2>4, <2>5
<1>9. Timely(o)'
  BY <1>3, <1>4, <1>5, <1>6, <1>8 DEF Timely
<1> QED BY <1>2, <1>9, OwnKeeps

-----------------------------------------------------------------------------
LEMMA OutsideInTime ==
  ASSUME Supplied, Inductive, InTime,
         \/ \E o \in Opening : ClaudeExits(o) \/ EndSession(o)
         \/ RenewLogin
  PROVE  InTime'
<1>1. TypeOK
  BY DEF Inductive
<1>2. ASSUME NEW o \in Opening, ClaudeExits(o)
      PROVE  InTime'
  <2>1. /\ UNCHANGED <<login, host, link, guestSocket, courier, file,
                       staging>>
        /\ claude[o] = "running" /\ claude'[o] = "exited"
        /\ \A q \in Opening : q # o => claude'[q] = claude[q]
    BY <1>1, <1>2 DEF ClaudeExits, Around, TypeOK
  <2>2. Timely(o)
    BY DEF InTime
  <2>3. Holds(o)' = Holds(o)
    BY <2>1 DEF Holds, Name
  <2>4. Lasts(o)'
    BY <2>1, <2>2, <2>3 DEF Timely, Lasts, Needs
  <2>5. Timely(o)'
    BY <2>1, <2>2, <2>4
    DEF Timely, Attached, Answered, LastsOnTheWay, BlankIsWritten
  <2>6. \A q \in Opening : q # o => Quiet(q)
    BY <2>1 DEF Quiet
  <2> QED BY <2>1, <2>5, <2>6, OwnKeeps
<1>3. ASSUME NEW o \in Opening, EndSession(o)
      PROVE  InTime'
  <2>1. /\ UNCHANGED <<login, host, courier, claude, file, staging>>
        /\ courier[o].step \in Over
        /\ \A q \in Opening : q # o => Quiet(q)
    BY <1>1, <1>3 DEF EndSession, Session, Name, TypeOK, Quiet, Over
  <2>2. Timely(o)
    BY DEF InTime
  <2>3. Attached(o)'
    BY <2>1, <2>2 DEF Timely, Attached, Over
  <2>4. Holds(o)' = Holds(o)
    BY <2>1 DEF Holds, Name
  <2>5. Lasts(o)'
    BY <2>1, <2>2, <2>4 DEF Timely, Lasts, Needs
  <2>6. Timely(o)'
    BY <2>1, <2>2, <2>3, <2>5
    DEF Timely, Answered, LastsOnTheWay, BlankIsWritten
  <2> QED BY <2>1, <2>6, OwnKeeps
<1>4. CASE RenewLogin
  <2>1. \A q \in Opening : Quiet(q)
    BY <1>4 DEF RenewLogin, Session, Quiet
  <2>2. \A q \in Opening : Timely(q)'
    BY <2>1, QuietKeeps DEF InTime
  <2>3. login' = Life
    BY <1>4 DEF RenewLogin
  <2>4. Life \in Token /\ Life > Lasting
    BY LendingAssumption, NeedsFacts DEF Supplied, Token, Forever
  <2> QED BY <2>2, <2>3, <2>4 DEF InTime, LoginLasts
<1> QED BY <1>2, <1>3, <1>4

\* What is left of a token after a unit of time.
LEMMA AgedFacts ==
  \A t \in Token : t > 0 => Aged(t) \in Token /\ Aged(t) >= t - 1
BY LendingAssumption DEF Aged, Token, Forever

LEMMA ElapseInTime ==
  ASSUME Supplied, Inductive, InTime, Elapse
  PROVE  InTime'
<1>1. TypeOK
  BY DEF Inductive
<1>2. LoginLasts'
  <2>1. login \in Token /\ login > Lasting /\ Lasting \in Nat
    BY NeedsFacts DEF InTime, LoginLasts
  <2>2. CASE login \in 1..Life
    <3>1. login' = Aged(login) /\ Aged(login) >= Kept
      BY <2>2 DEF Elapse
    <3>2. Aged(login) \in Token
      BY <2>1, AgedTypes
    <3> QED BY <2>1, <3>1, <3>2, LendingAssumption, TokenIsInt
            DEF LoginLasts, Supplied
  <2>3. CASE login \notin 1..Life
    <3>1. login' = login
      BY <2>3 DEF Elapse, Aged
    <3> QED BY <2>1, <3>1 DEF LoginLasts
  <2> QED BY <2>2, <2>3
<1>3. ASSUME NEW o \in Opening PROVE Timely(o)'
  <2>1. /\ Timely(o) /\ Sound(o)
        /\ host[o] \in Host /\ courier[o] \in Courier
    BY <1>1 DEF InTime, Inductive, TypeOK
  <2>2. AtRest(o)
    BY DEF Elapse, Supplied
  <2>3. /\ host'[o].step = host[o].step /\ host'[o].server = host[o].server
        /\ host'[o].client = host[o].client
    <3>1. host'[o] = [host[o] EXCEPT !.inHand = Aged(host[o].inHand),
                                     !.bearer = Aged(host[o].bearer)]
      BY DEF Elapse
    <3> QED BY <2>1, <3>1 DEF Host
  <2> DEFINE left == IF courier[o].timer > 0 THEN courier[o].timer - 1 ELSE 0
  <2>4. /\ courier'[o].step = courier[o].step
        /\ courier'[o].write = None
        /\ courier'[o].lands = courier[o].lands
        /\ courier'[o].timer = left
        /\ courier'[o].missed = courier[o].missed
    <3> DEFINE k == [courier[o] EXCEPT !.got = Aged(courier[o].got),
                       !.write = Aged(courier[o].write), !.timer = left]
    <3>1. courier'[o] = k
      BY DEF Elapse
    <3>2. Aged(courier[o].write) = None
      BY <2>2, AgedTypes DEF AtRest
    <3>3. /\ k.step = courier[o].step /\ k.write = Aged(courier[o].write)
          /\ k.lands = courier[o].lands /\ k.timer = left
          /\ k.missed = courier[o].missed
      BY <2>1 DEF Courier
    <3> HIDE DEF k, left
    <3> QED BY <3>1, <3>2, <3>3
  <2>5. UNCHANGED <<link, guestSocket, claude>>
    BY DEF Elapse
  <2>6. courier[o].step \in {"none", "returned", "watch"}
    BY <2>1, <2>2 DEF AtRest, Timely, Attached, Over
  <2>7. file[o] # None => file[o].token \in Token
    <3>1. file[o] # None => file[o] \in Credential /\ file[o].token # Blank
      BY <1>1, <2>1, <2>2 DEF TypeOK, Timely, BlankIsWritten, AtRest
    <3> QED BY <3>1 DEF Credential
  <2>8. file'[o] # None =>
          file[o] # None /\ file'[o].token = Aged(file[o].token)
    <3>1. CASE file[o] = None
      BY <3>1 DEF Elapse, AgedIn
    <3>2. CASE file[o] # None
      <4>1. file'[o] = [file[o] EXCEPT !.token = Aged(file[o].token)]
        BY <3>2 DEF Elapse, AgedIn
      <4>2. file[o] \in Credential
        BY <1>1, <3>2 DEF TypeOK
      <4> QED BY <3>2, <4>1, <4>2 DEF Credential
    <3> QED BY <3>1, <3>2
  <2>9. Attached(o)'
    BY <2>1, <2>3, <2>4, <2>5 DEF Timely, Attached
  <2>10. Answered(o)'
    BY <2>1, <2>3, <2>4, <2>6 DEF Timely, Answered
  <2>11. LastsOnTheWay(o)'
    BY <2>2, <2>3, <2>4, <2>6 DEF AtRest, LastsOnTheWay
  <2>12. BlankIsWritten(o)'
    BY <2>4, <2>7, <2>8, AgedTypes, TokenIsInt DEF BlankIsWritten
  <2>13. Lasts(o)'
    <3>1. CASE courier[o].step = "watch"
      <4>1. /\ file[o] # None /\ file'[o] # None
        BY <1>1, <2>1, <3>1, AgedInKeeps
        DEF Sound, CredentialIsThere, Elapse, TypeOK
      <4>2. Holds(o) = file[o].token /\ Holds(o)' = Aged(file[o].token)
        BY <2>7, <2>8, <4>1, AgedTypes, TokenIsInt DEF Holds, Name
      <4>3. /\ courier[o].timer \in 0..Refresh /\ courier[o].timer > 0
            /\ courier[o].missed \in 0..Losses
        BY <2>1, <2>2, <3>1 DEF AtRest, Courier, Over
      <4>4. /\ left = courier[o].timer - 1 /\ left \in 0..Refresh
        BY <4>3, LendingAssumption
      <4>5. /\ Needs(courier[o].missed, courier[o].timer)
                 = Needs(courier[o].missed, left) + 1
            /\ Needs(courier[o].missed, left) \in Nat
        BY <4>3, <4>4, NeedsFacts
      <4>6. Holds(o) > Needs(courier[o].missed, courier[o].timer)
        BY <2>1, <3>1 DEF Timely, Lasts
      <4>7. Holds(o) \in Token /\ Holds(o) \in Int
        BY <2>7, <4>1, <4>2, TokenIsInt
      <4> HIDE DEF left
      <4>8. Holds(o) > 0
        BY <4>5, <4>6, <4>7
      <4>9. Aged(Holds(o)) \in Int /\ Aged(Holds(o)) >= Holds(o) - 1
        BY <4>7, <4>8, AgedFacts, TokenIsInt
      <4>10. Holds(o)' > Needs(courier[o].missed, left)
        BY <4>2, <4>5, <4>6, <4>7, <4>9
      <4>11. Needs(courier[o].missed, courier[o].timer)'
               = Needs(courier[o].missed, left)
        BY <2>4 DEF Needs
      <4> QED BY <2>4, <3>1, <4>10, <4>11 DEF Lasts, Fetching
    <3>2. CASE courier[o].step # "watch"
      BY <2>1, <2>4, <2>5, <2>6, <3>2 DEF Timely, Lasts, Fetching
    <3> QED BY <3>1, <3>2
  <2> QED BY <2>9, <2>10, <2>11, <2>12, <2>13 DEF Timely
<1> QED BY <1>2, <1>3 DEF InTime

LEMMA NextInTime ==
  ASSUME Supplied
  PROVE  Inductive /\ InTime /\ [Next]_vars => InTime'
<1> SUFFICES ASSUME Inductive, InTime, [Next]_vars PROVE InTime'
  OBVIOUS
<1>1. CASE UNCHANGED vars
  BY <1>1, QuietKeeps DEF InTime, LoginLasts, vars, Quiet
<1>2. CASE Next
  <2>1. ~LogOut /\ \A o \in Opening : ~Fault(o)
    BY DEF Supplied, LogOut, Fault, Abandon, LoseKnownHosts, KillHost,
           FailToWait, FailToCloseLoan, FailToSupervise, FailToTakeBack,
           FailToUnlink,
           StopServing, FailToStage, FailToWrite, FailToSpawn, KillCourier,
           Cut
  <2>2. ASSUME NEW o \in Opening, HostStep(o) \/ Start(o) PROVE InTime'
    BY <2>2, HostInTime, ConnectInTime DEF HostStep
  <2>3. ASSUME NEW o \in Opening, ServerStep(o) PROVE InTime'
    BY <2>3, ReadLoginInTime, DropInTime, SendInTime DEF ServerStep
  <2>4. ASSUME NEW o \in Opening, CourierStep(o) \/ Renew(o) \/ Write(o)
        PROVE  InTime'
    BY <2>4, AskInTime, FailsInTime, StageInTime, RenameInTime, MovesInTime,
       WriteInTime DEF CourierStep
  <2> QED
    BY <1>2, <2>1, <2>2, <2>3, <2>4, AcceptInTime, OutsideInTime,
       ElapseInTime DEF Next
<1> QED BY <1>1, <1>2

\* With any number of openings, while each Claude Code runs, there is a
\* credential that has not expired, though Losses renewals in a row come to
\* nothing: provided the margin covers that many periods and one more, and
\* the login is not left with less than that.  Nothing else fails, and no
\* time passes while a token is on its way.  (REREAD_MARGIN_MINUTES of
\* loan.rs and REFRESH of the courier.)
THEOREM NeverWithout ==
  ASSUME Supplied
  PROVE  Spec => []NeverRunsOut
<1>1. Init => InTime
  BY InitInTime
<1>2. Inductive /\ InTime /\ [Next]_vars => InTime'
  BY NextInTime
<1>3. Inductive /\ InTime => NeverRunsOut
  <2> SUFFICES ASSUME Inductive, InTime, NEW o \in Opening,
                      claude[o] = "running"
               PROVE  file[Name(o)] # None /\ Holds(o) > 0
    BY DEF NeverRunsOut
  <2>1. /\ Sound(o) /\ Timely(o) /\ courier[o] \in Courier
        /\ courier[o].missed \in 0..Losses
        /\ courier[o].timer \in 0..Refresh
        /\ file[o] # None => file[o] \in Credential
    BY DEF Inductive, InTime, TypeOK, Courier
  <2>2. courier[o].step \in Fetching \cup {"watch"}
    <3>1. courier[o].step \notin
            {"none", "spawn", "fileLeft", "socketLeft", "killed"}
      BY <2>1 DEF Sound, ClaudeComesLater, Timely, Attached
    <3>2. courier[o].step \notin {"remove", "unlink", "returned"}
      BY <2>1 DEF Timely, Lasts
    <3> QED BY <2>1, <3>1, <3>2 DEF Courier, Fetching
  <2>3. file[o] # None
    BY <2>1, <2>2 DEF Sound, CredentialIsThere
  <2>4. Holds(o) \in Token
    <3>1. file[o].token \in Token \cup {Blank}
      BY <2>1, <2>3 DEF Credential
    <3>2. file[o].token = Blank => courier[o].write \in Token
      BY <2>1, <2>3 DEF Timely, BlankIsWritten, Courier
    <3> QED BY <3>1, <3>2 DEF Holds, Name
  <2>5. \E t \in 0..Refresh : Holds(o) > Needs(courier[o].missed, t)
    BY <2>1, <2>2, LendingAssumption DEF Timely, Lasts
  <2>6. Holds(o) > 0
    BY <2>1, <2>4, <2>5, NeedsFacts, TokenIsInt
  <2> QED BY <2>3, <2>6 DEF Name
<1> QED BY <1>1, <1>2, <1>3, AlwaysInductive, PTL DEF Spec
=============================================================================
