------------------------------ MODULE Lending ------------------------------
(***************************************************************************)
(* Lending the researcher's Claude Code login to sessions.                 *)
(*                                                                         *)
(* An opening is one run of `cyber-sandbox claude`.  On the host it serves *)
(* tokens on a socket, one a connection, and waits for its ssh client.     *)
(* ssh publishes the socket in the session, where the courier fetches a    *)
(* token, writes it to the credential file, starts Claude Code, and goes   *)
(* on fetching until Claude Code exits.                                    *)
(*                                                                         *)
(* A token is the time it has left: Elapse takes one from every token,     *)
(* wherever it is.  Refresh, Margin and Life are in the same unit.         *)
(***************************************************************************)
EXTENDS Integers

CONSTANTS
  Opening,
  None,
  Stranger,  \* any other program of the session that connects to the socket
  Blank,     \* what a file holds that was created and not written yet
  Life,      \* what a token has left when Claude Code is issued it
  Refresh,   \* how often the courier fetches
  Margin,    \* a token with no more than this left is not handed out again
  Kept,      \* the researcher's own Claude Code renews the login before it
             \* has less than this left; 0 when it need not
  Losses,    \* how many renewals in a row may fail, when Faults is FALSE
  Faults,    \* whether processes are killed, connections cut, calls fail
  Prompt     \* whether no time passes while a token is on its way

ASSUME LendingAssumption ==
  /\ {Life, Refresh, Margin} \subseteq Nat \ {0}
  /\ Kept \in 0..Life
  /\ Losses \in Nat
  /\ {Faults, Prompt} \subseteq BOOLEAN
  /\ {None, Stranger} \cap Opening = {}
  /\ None # Stranger
  /\ {None, Blank} \cap Int = {}

VARIABLES
  login,        \* the token in the researcher's keychain
  host,         \* each opening's process on the host, and its server
  link,         \* whether its ssh connection is up
  hostSocket,   \* by name: whose server is bound to the socket on the host
  guestSocket,  \* by name: whose connection the socket in the session leads to
  courier,      \* each opening's courier
  claude,       \* and the Claude Code it started
  file,         \* by name: the credential file in the session
  staging       \* and where it is assembled

vars == <<login, host, link, hostSocket, guestSocket,
          courier, claude, file, staging>>

-----------------------------------------------------------------------------
\* A login whose issuer did not say when it expires.
Forever == Life + 1
Token == 0..Forever

Aged(t) == IF t \in 1..Life THEN t - 1 ELSE t

\* Mutant of Name: named for the session rather than for the opening.
NameOfSession(o) == CHOOSE n \in Opening : TRUE

\* Attachment: the name of the sockets and the file of an opening.
Name(o) == o

\* Mutant of IsStillGood: the margin itself is enough.
IsAtMargin(t) == t # None /\ t >= Margin

\* is_still_good()
IsStillGood(t) == t # None /\ t > Margin

\* ClaudeLogin::bearer() answers with the token.
Lendable == login # None /\ login > 0

\* A process that has ended: it returned, reporting perhaps the removal that
\* failed, or was killed.
Over == {"returned", "fileLeft", "socketLeft", "killed"}

Host ==
  [step : {"idle", "opening", "lending", "ssh", "closing",
           "returned", "socketLeft", "killed"},
   server : {"off", "accept", "read", "send"},
   inHand : Token \cup {None},             \* the token from last time
   bearer : Token \cup {None},             \* the one being sent
   client : Opening \cup {Stranger, None}] \* who it is being sent to

Courier ==
  [step : {"none", "connect", "asking", "hearing", "stage", "rename",
           "spawn", "watch", "remove", "unlink", "returned", "fileLeft",
           "socketLeft", "killed"},
   peer : Opening \cup {None},     \* whose server it asked
   got : Token \cup {None},        \* what it was sent
   write : Token \cup {None},      \* a write not carried out yet
   lands : {"staging", "path", "lost"}, \* where the file written is
   timer : 0..Refresh,             \* until the next renewal is due
   missed : 0..Losses]             \* renewals that failed in a row

Credential == [by : Opening, token : Token \cup {Blank}]

ASSUME ModelValuesAssumption == None \notin Credential

TypeOK ==
  /\ login \in Token \cup {None}
  /\ host \in [Opening -> Host]
  /\ link \in [Opening -> BOOLEAN]
  /\ hostSocket \in [Opening -> Opening \cup {None}]
  /\ guestSocket \in [Opening -> Opening \cup {None}]
  /\ courier \in [Opening -> Courier]
  /\ claude \in [Opening -> {"none", "running", "exited"}]
  /\ file \in [Opening -> Credential \cup {None}]
  /\ staging \in [Opening -> Credential \cup {None}]

Init ==
  /\ login \in {Life, Forever}
  /\ host = [o \in Opening |-> [step |-> "idle", server |-> "off",
       inHand |-> None, bearer |-> None, client |-> None]]
  /\ link = [o \in Opening |-> FALSE]
  /\ hostSocket = [n \in Opening |-> None]
  /\ guestSocket = [n \in Opening |-> None]
  /\ courier = [o \in Opening |-> [step |-> "none", peer |-> None,
       got |-> None, write |-> None, lands |-> "lost", timer |-> 0,
       missed |-> 0]]
  /\ claude = [o \in Opening |-> "none"]
  /\ file = [n \in Opening |-> None]
  /\ staging = [n \in Opening |-> None]

-----------------------------------------------------------------------------
(***************************************************************************)
(* The host's process.                                                     *)
(***************************************************************************)
Session == <<courier, claude, file, staging>>

Step(o, s) == host' = [host EXCEPT ![o].step = s]

\* The server's task and everything it holds are gone.
StopsAt(o, s) ==
  host' = [host EXCEPT ![o].step = s, ![o].server = "off", ![o].inHand = None,
                       ![o].bearer = None, ![o].client = None]

\* run(): the login is read once before anything is built or started.
Start(o) ==
  /\ host[o].step = "idle"
  /\ Lendable
  /\ Step(o, "opening")
  /\ UNCHANGED <<login, link, hostSocket, guestSocket, Session>>

\* The session cannot be opened, or the socket cannot be bound.
Abandon(o) ==
  /\ Faults
  /\ host[o].step = "opening"
  /\ Step(o, "returned")
  /\ UNCHANGED <<login, link, hostSocket, guestSocket, Session>>

\* Loan::open(): whatever is at the path is cleared, a listener is bound
\* there, and a task serves it.
OpenLoan(o) ==
  /\ host[o].step = "opening"
  /\ host' = [host EXCEPT ![o].step = "lending", ![o].server = "accept"]
  /\ hostSocket' = [hostSocket EXCEPT ![Name(o)] = o]
  /\ UNCHANGED <<login, link, guestSocket, Session>>

\* The path of the known hosts cannot be had: run() returns, and takes the
\* server with it, but not the socket.
LoseKnownHosts(o) ==
  /\ Faults
  /\ host[o].step = "lending"
  /\ StopsAt(o, "returned")
  /\ UNCHANGED <<login, link, hostSocket, guestSocket, Session>>

\* The client of supervise(): the forward is made and the courier started.
Connect(o) ==
  /\ host[o].step = "lending"
  /\ guestSocket[Name(o)] = None
  /\ Step(o, "ssh")
  /\ link' = [link EXCEPT ![o] = TRUE]
  /\ guestSocket' = [guestSocket EXCEPT ![Name(o)] = o]
  /\ courier' = [courier EXCEPT ![o].step = "connect"]
  /\ UNCHANGED <<login, hostSocket, claude, file, staging>>

\* The client fails, or the forward does (ExitOnForwardFailure).
FailToConnect(o) ==
  /\ Faults \/ guestSocket[Name(o)] # None
  /\ host[o].step = "lending"
  /\ Step(o, "closing")
  /\ UNCHANGED <<login, link, hostSocket, guestSocket, Session>>

\* The client has exited; signals do not end the wait for it.
ClientExits(o) ==
  /\ host[o].step = "ssh"
  /\ ~link[o]
  /\ Step(o, "closing")
  /\ UNCHANGED <<login, link, hostSocket, guestSocket, Session>>

\* client.wait() fails; the client lives on.
FailToWait(o) ==
  /\ Faults
  /\ host[o].step = "ssh"
  /\ Step(o, "closing")
  /\ UNCHANGED <<login, link, hostSocket, guestSocket, Session>>

\* Loan::close(), and run() returns.
CloseLoan(o) ==
  /\ host[o].step = "closing"
  /\ StopsAt(o, "returned")
  /\ hostSocket' = [hostSocket EXCEPT ![Name(o)] = None]
  /\ UNCHANGED <<login, link, guestSocket, Session>>

\* The socket cannot be removed: the server is gone, the socket is left, and
\* run() says so.
FailToCloseLoan(o) ==
  /\ Faults
  /\ host[o].step = "closing"
  /\ StopsAt(o, "socketLeft")
  /\ UNCHANGED <<login, link, hostSocket, guestSocket, Session>>

\* Killed anywhere, by a signal before supervise() listens for them too.
\* The client is a process of its own and lives on.
KillHost(o) ==
  /\ Faults
  /\ host[o].step \notin Over \cup {"idle"}
  /\ StopsAt(o, "killed")
  /\ UNCHANGED <<login, link, hostSocket, guestSocket, Session>>

-----------------------------------------------------------------------------
(***************************************************************************)
(* The server: serve() and lend().                                         *)
(***************************************************************************)
Around == <<login, link, hostSocket, guestSocket>>

\* A connection is accepted, and the token in hand is sent if it is still
\* good.  It is out of the hand until it has been.
Accept(h, c) ==
  /\ host[h].server = "accept"
  /\ \/ c = Stranger /\ link[h] /\ UNCHANGED courier
     \/ /\ c \in Opening
        /\ courier[c].step = "asking" /\ courier[c].peer = h
        /\ courier' = [courier EXCEPT ![c].step = "hearing"]
  /\ LET good == IsStillGood(host[h].inHand) IN
       host' = [host EXCEPT
         ![h].client = c, ![h].inHand = None,
         ![h].server = IF good THEN "send" ELSE "read",
         ![h].bearer = IF good THEN host[h].inHand ELSE None]
  /\ UNCHANGED <<Around, claude, file, staging>>

\* Otherwise the keychain is read.
ReadLogin(h) ==
  /\ host[h].server = "read"
  /\ Lendable
  /\ host' = [host EXCEPT ![h].server = "send", ![h].bearer = login]
  /\ UNCHANGED <<Around, Session>>

\* The connection is dropped, and the next one is waited for with that token
\* in hand.
Drops(h, token) ==
  host' = [host EXCEPT ![h].server = "accept", ![h].bearer = None,
                       ![h].client = None, ![h].inHand = token]

\* There is no login, it has expired, or the keychain refuses.
FailToRead(h) ==
  /\ host[h].server = "read"
  /\ \/ Faults \/ ~Lendable \/ host[h].client = Stranger
     \/ host[h].client \in Opening /\ courier[host[h].client].missed < Losses
  /\ Drops(h, host[h].inHand)
  /\ UNCHANGED <<Around, Session>>

\* Bearer::send(): the whole message, then the end of it.
Send(h) ==
  /\ host[h].server = "send"
  /\ LET c == host[h].client IN
       \/ c = Stranger /\ UNCHANGED courier
       \/ /\ c \in Opening
          /\ courier[c].step = "hearing" /\ link[c]
          /\ courier' = [courier EXCEPT ![c].step = "stage",
                                        ![c].got = host[h].bearer]
  /\ Drops(h, host[h].bearer)
  /\ UNCHANGED <<Around, claude, file, staging>>

\* The client has hung up.  The token is not in hand any more.
FailToSend(h) ==
  /\ host[h].server = "send"
  /\ LET c == host[h].client IN
       c \in Opening => courier[c].step # "hearing" \/ ~link[c]
  /\ Drops(h, host[h].inHand)
  /\ UNCHANGED <<Around, Session>>

\* accept() itself fails, and serve() returns.
StopServing(h) ==
  /\ Faults
  /\ host[h].server = "accept"
  /\ StopsAt(h, host[h].step)
  /\ UNCHANGED <<Around, Session>>

-----------------------------------------------------------------------------
(***************************************************************************)
(* The courier: run(), supervise() and lend().                             *)
(***************************************************************************)
Lands(o, where) == courier[o].write # None /\ courier[o].lands = where

\* The server that a connection to the socket in the session reaches.
Reaches(o, h) ==
  LET g == guestSocket[Name(o)] IN
    /\ g # None /\ link[g]
    /\ hostSocket[Name(g)] = h /\ host[h].server # "off"

\* The first lend may not fail; a later one may.
Fails(o) ==
  courier' = [courier EXCEPT
    ![o].step = IF claude[o] = "none" THEN "returned" ELSE "watch",
    ![o].peer = None, ![o].got = None,
    ![o].missed = IF claude[o] = "none" \/ @ = Losses THEN @ ELSE @ + 1]

\* fetch()
Ask(o) ==
  /\ courier[o].step = "connect"
  /\ \E h \in Opening :
       /\ Reaches(o, h)
       /\ courier' = [courier EXCEPT ![o].step = "asking", ![o].peer = h]
  /\ UNCHANGED <<Around, host, claude, file, staging>>

FailToAsk(o) ==
  /\ courier[o].step = "connect"
  /\ \A h \in Opening : ~Reaches(o, h)
  /\ Fails(o)
  /\ UNCHANGED <<Around, host, claude, file, staging>>

\* Mutant of HearNothing: a server that hangs up is waited for all the same.
HearNothingYet(o) ==
  /\ courier[o].step \in {"asking", "hearing"}
  /\ ~link[o]
  /\ Fails(o)
  /\ UNCHANGED <<Around, host, claude, file, staging>>

\* The connection ends and nothing was sent on it.
HearNothing(o) ==
  /\ \/ /\ courier[o].step = "asking"
        /\ host[courier[o].peer].server = "off" \/ ~link[o]
     \/ /\ courier[o].step = "hearing"
        /\ host[courier[o].peer].client # o \/ ~link[o]
  /\ Fails(o)
  /\ UNCHANGED <<Around, host, claude, file, staging>>

\* Credentials::write_to(): the staging file is created or truncated, and a
\* write of the credential is handed to another thread.  The file is dropped
\* without a flush, so nothing waits for that write.
Stage(o) ==
  /\ courier[o].step = "stage"
  /\ courier[o].write = None
  /\ staging' = [staging EXCEPT ![Name(o)] = [by |-> o, token |-> Blank]]
  /\ courier' = [courier EXCEPT
       ![o].step = "rename", ![o].write = courier[o].got,
       ![o].got = None, ![o].peer = None, ![o].lands = "staging"]
  /\ UNCHANGED <<Around, host, claude, file>>

FailToStage(o) ==
  /\ Faults
  /\ courier[o].step = "stage"
  /\ Fails(o)
  /\ UNCHANGED <<Around, host, claude, file, staging>>

\* That write, wherever its file is by now.
Write(o) ==
  /\ courier[o].write # None
  /\ courier[o].step # "killed"
  /\ LET written == [by |-> o, token |-> courier[o].write] IN
       /\ file' = [file EXCEPT
            ![Name(o)] = IF Lands(o, "path") /\ @ # None THEN written ELSE @]
       /\ staging' = [staging EXCEPT
            ![Name(o)] = IF Lands(o, "staging") /\ @ # None THEN written ELSE @]
  /\ courier' = [courier EXCEPT ![o].write = None]
  /\ UNCHANGED <<Around, host, claude>>

\* It fails, on a full disk, and nobody is told.
FailToWrite(o) ==
  /\ Faults
  /\ courier[o].write # None
  /\ courier' = [courier EXCEPT ![o].write = None]
  /\ UNCHANGED <<Around, host, claude, file, staging>>

\* The end of a lend().
Lends(o) ==
  courier' = [courier EXCEPT
    ![o].step = IF claude[o] = "none" THEN "spawn" ELSE "watch",
    ![o].missed = 0,
    ![o].lands = IF @ = "staging" THEN "path" ELSE @]

Rename(o) ==
  /\ courier[o].step = "rename"
  /\ staging[Name(o)] # None
  /\ file' = [file EXCEPT ![Name(o)] = staging[Name(o)]]
  /\ staging' = [staging EXCEPT ![Name(o)] = None]
  /\ Lends(o)
  /\ UNCHANGED <<Around, host, claude>>

FailToRename(o) ==
  /\ Faults \/ staging[Name(o)] = None
  /\ courier[o].step = "rename"
  /\ Fails(o)
  /\ UNCHANGED <<Around, host, claude, file, staging>>

Spawn(o) ==
  /\ courier[o].step = "spawn"
  /\ claude' = [claude EXCEPT ![o] = "running"]
  /\ courier' = [courier EXCEPT ![o].step = "watch", ![o].timer = Refresh]
  /\ UNCHANGED <<Around, host, file, staging>>

\* claude cannot be started: run() returns from there.
FailToSpawn(o) ==
  /\ Faults
  /\ courier[o].step = "spawn"
  /\ courier' = [courier EXCEPT ![o].step = "returned"]
  /\ UNCHANGED <<Around, host, claude, file, staging>>

\* Mutant of Renew: the next renewal is due a period later than the last.
RenewLate(o) ==
  /\ courier[o].step = "watch"
  /\ courier[o].timer = 0
  /\ courier' = [courier EXCEPT ![o].step = "connect",
                                ![o].timer = 2 * Refresh]
  /\ UNCHANGED <<Around, host, claude, file, staging>>

\* supervise(): a renewal is due.  Nothing else is looked at until it ends.
Renew(o) ==
  /\ courier[o].step = "watch"
  /\ courier[o].timer = 0
  /\ courier' = [courier EXCEPT ![o].step = "connect", ![o].timer = Refresh]
  /\ UNCHANGED <<Around, host, claude, file, staging>>

\* Mutant of Notice: supervise() leaves run() as well.
NoticeAndReturn(o) ==
  /\ courier[o].step = "watch"
  /\ claude[o] = "exited"
  /\ courier' = [courier EXCEPT ![o].step = "returned"]
  /\ UNCHANGED <<Around, host, claude, file, staging>>

\* supervise(): Claude Code has exited.
Notice(o) ==
  /\ courier[o].step = "watch"
  /\ claude[o] = "exited"
  /\ courier' = [courier EXCEPT ![o].step = "remove"]
  /\ UNCHANGED <<Around, host, claude, file, staging>>

\* supervise() fails: a signal cannot be listened for, or claude.wait() fails.
\* Claude Code lives on, and the credential is taken back all the same.
FailToSupervise(o) ==
  /\ Faults
  /\ courier[o].step = "watch"
  /\ courier' = [courier EXCEPT ![o].step = "remove"]
  /\ UNCHANGED <<Around, host, claude, file, staging>>

\* Credentials::remove()
TakeBack(o) ==
  /\ courier[o].step = "remove"
  /\ file' = [file EXCEPT ![Name(o)] = None]
  /\ courier' = [courier EXCEPT
       ![o].step = "unlink",
       ![o].lands = IF @ = "path" THEN "lost" ELSE @]
  /\ UNCHANGED <<Around, host, claude, staging>>

\* The credential cannot be removed: run() says so and returns, and the
\* socket is not tried.
FailToTakeBack(o) ==
  /\ Faults
  /\ courier[o].step = "remove"
  /\ courier' = [courier EXCEPT ![o].step = "fileLeft"]
  /\ UNCHANGED <<Around, host, claude, file, staging>>

\* remove_if_present()
Unlink(o) ==
  /\ courier[o].step = "unlink"
  /\ guestSocket' = [guestSocket EXCEPT ![Name(o)] = None]
  /\ courier' = [courier EXCEPT ![o].step = "returned"]
  /\ UNCHANGED <<login, link, hostSocket, host, claude, file, staging>>

FailToUnlink(o) ==
  /\ Faults
  /\ courier[o].step = "unlink"
  /\ courier' = [courier EXCEPT ![o].step = "socketLeft"]
  /\ UNCHANGED <<Around, host, claude, file, staging>>

\* Killed: outright, with its machine, or by a signal that supervise() does
\* not listen for yet.  A write handed over is not carried out any more.
KillCourier(o) ==
  /\ Faults
  /\ courier[o].step \notin Over \cup {"none"}
  /\ courier' = [courier EXCEPT ![o].step = "killed", ![o].peer = None,
                                ![o].got = None, ![o].write = None]
  /\ UNCHANGED <<Around, host, claude, file, staging>>

-----------------------------------------------------------------------------
(***************************************************************************)
(* What is not ours.                                                       *)
(***************************************************************************)
ClaudeExits(o) ==
  /\ claude[o] = "running"
  /\ claude' = [claude EXCEPT ![o] = "exited"]
  /\ UNCHANGED <<Around, host, courier, file, staging>>

\* sshd closes the connection when the courier is done, and unlinks the
\* socket it made.
EndSession(o) ==
  /\ link[o]
  /\ courier[o].step \in Over
  /\ link' = [link EXCEPT ![o] = FALSE]
  /\ guestSocket' = [guestSocket EXCEPT ![Name(o)] = None]
  /\ UNCHANGED <<login, hostSocket, host, Session>>

\* A connection that is cut leaves the socket behind.
Cut(o) ==
  /\ Faults
  /\ link[o]
  /\ link' = [link EXCEPT ![o] = FALSE]
  /\ UNCHANGED <<login, hostSocket, guestSocket, host, Session>>

\* The researcher's own Claude Code renews its login, or is logged in again.
RenewLogin ==
  /\ login \notin {Life, Forever}
  /\ login' = Life
  /\ UNCHANGED <<host, link, hostSocket, guestSocket, Session>>

LogOut ==
  /\ Faults
  /\ login # None
  /\ login' = None
  /\ UNCHANGED <<host, link, hostSocket, guestSocket, Session>>

\* Nothing is under way but waiting for time to pass.
AtRest(o) ==
  /\ host[o].server \in {"off", "accept"}
  /\ courier[o].write = None
  /\ \/ courier[o].step \in Over \cup {"none"}
     \/ courier[o].step = "watch" /\ courier[o].timer > 0

AgedIn(f) ==
  [n \in Opening |->
     IF f[n] = None THEN None ELSE [f[n] EXCEPT !.token = Aged(@)]]

Elapse ==
  /\ Prompt => \A o \in Opening : AtRest(o)
  /\ login \in 1..Life => Aged(login) >= Kept
  /\ login' = Aged(login)
  /\ host' = [o \in Opening |->
       [host[o] EXCEPT !.inHand = Aged(@), !.bearer = Aged(@)]]
  /\ courier' = [o \in Opening |->
       [courier[o] EXCEPT !.got = Aged(@), !.write = Aged(@),
                          !.timer = IF @ > 0 THEN @ - 1 ELSE 0]]
  /\ file' = AgedIn(file)
  /\ staging' = AgedIn(staging)
  /\ UNCHANGED <<link, hostSocket, guestSocket, claude>>

-----------------------------------------------------------------------------
HostStep(o) ==
  \/ OpenLoan(o) \/ Connect(o) \/ FailToConnect(o) \/ ClientExits(o)
  \/ CloseLoan(o)

ServerStep(h) == ReadLogin(h) \/ FailToRead(h) \/ Send(h) \/ FailToSend(h)

CourierStep(o) ==
  \/ Ask(o) \/ FailToAsk(o) \/ HearNothing(o)
  \/ Stage(o) \/ Rename(o) \/ FailToRename(o)
  \/ Spawn(o) \/ Notice(o) \/ TakeBack(o) \/ Unlink(o)

Fault(o) ==
  \/ Abandon(o) \/ LoseKnownHosts(o) \/ FailToWait(o)
  \/ FailToCloseLoan(o) \/ KillHost(o) \/ StopServing(o)
  \/ FailToStage(o) \/ FailToWrite(o) \/ FailToSpawn(o)
  \/ FailToSupervise(o) \/ FailToTakeBack(o) \/ FailToUnlink(o)
  \/ KillCourier(o) \/ Cut(o)

Next ==
  \/ \E o \in Opening :
       \/ Start(o) \/ HostStep(o) \/ ServerStep(o) \/ CourierStep(o)
       \/ Renew(o) \/ Write(o) \/ ClaudeExits(o) \/ EndSession(o)
       \/ Fault(o)
       \/ \E c \in Opening \cup {Stranger} : Accept(o, c)
  \/ RenewLogin \/ LogOut \/ Elapse

Spec == Init /\ [][Next]_vars

(***************************************************************************)
(* Every call returns but for the reading of the keychain, which may wait  *)
(* for the researcher; connections are accepted in the order they were     *)
(* made; of a child that exited and a renewal that is due, select! does    *)
(* not choose the renewal for ever.  Nothing is assumed of the researcher, *)
(* of Claude Code, of time, of the login or of strangers.                  *)
(***************************************************************************)
Fairness ==
  \A o \in Opening :
    /\ WF_vars(HostStep(o)) /\ WF_vars(Send(o) \/ FailToSend(o))
    /\ WF_vars(CourierStep(o)) /\ WF_vars(Write(o)) /\ WF_vars(EndSession(o))
    /\ SF_vars(Notice(o))
    /\ \A h \in Opening : SF_vars(Accept(h, o))

FairSpec == Spec /\ Fairness

-----------------------------------------------------------------------------
\* Two openings do not come between each other: whoever is lending is bound
\* to its socket, and Claude Code finds what its own courier wrote, for as
\* long as they run.  (loan.rs, Attachment.)
OpeningsKeepApart ==
  \A o \in Opening :
    /\ host[o].step \in {"lending", "ssh"} => hostSocket[Name(o)] = o
    /\ courier[o].step = "watch" =>
         file[Name(o)] # None /\ file[Name(o)].by = o

\* What the credential file holds once what was written has landed.
Holds(o) ==
  LET token == file[Name(o)].token IN
    IF token = Blank THEN courier[o].write ELSE token

\* A renewal reaches the session in time: while Claude Code runs there is a
\* credential that has not expired, though Losses renewals in a row fail.
\* (REREAD_MARGIN_MINUTES and REFRESH, and the comment on both.)
NeverRunsOut ==
  \A o \in Opening :
    claude[o] = "running" /\ courier[o].step # "killed" =>
      file[Name(o)] # None /\ Holds(o) > 0

\* A courier that has started Claude Code and then ended by itself has taken
\* the credential and the socket back, whatever write was still to come, but
\* for what it says it could not remove: the socket, or the credential, after
\* which the socket is not tried.  (main.rs, run().)
TakenBack ==
  \A o \in Opening :
    claude[o] # "none" =>
      /\ courier[o].step \in {"returned", "socketLeft"} =>
           file[Name(o)] = None
      /\ courier[o].step = "returned" => guestSocket[Name(o)] = None

\* No question is left to the researcher for ever.
KeychainAnswers == \A h \in Opening : []<>(host[h].server # "read")

\* The loan ends when the session's Claude Code does, provided the researcher
\* answers what the keychain asks: both processes end, and of what they
\* published on either machine nothing is left behind by one that ended by
\* itself but what it says it could not remove.  (main.rs:18-20 of the
\* courier, claude.rs run().)
LoanEndsWithClaude ==
  KeychainAnswers =>
    \A o \in Opening :
      claude[o] = "exited" ~>
        /\ courier[o].step \in Over /\ host[o].step \in Over
        /\ courier[o].step \in {"returned", "socketLeft"} =>
             file[Name(o)] = None
        /\ courier[o].step = "returned" => guestSocket[Name(o)] = None
        /\ host[o].step = "returned" => hostSocket[Name(o)] = None

-----------------------------------------------------------------------------
(***************************************************************************)
(* The inductive invariant: of each opening, the order in which its parts  *)
(* come and go.                                                            *)
(***************************************************************************)
\* The steps of a lend() in the courier.
Fetching == {"connect", "asking", "hearing", "stage", "rename"}

\* A courier is started by the client, and not before.
CourierComesLate(o) ==
  host[o].step \in {"idle", "opening", "lending"} => courier[o].step = "none"

\* And Claude Code by the courier.
ClaudeComesLater(o) ==
  courier[o].step \in {"none", "spawn"} => claude[o] = "none"

\* What is at the names of an opening was put there by its own courier.
FilesAreOwn(o) ==
  /\ file[o] # None => file[o].by = o
  /\ staging[o] # None => staging[o].by = o

\* Between the first lend() and the removal there is a credential file.
CredentialIsThere(o) ==
  \/ courier[o].step \in {"spawn", "watch"}
  \/ courier[o].step \in Fetching /\ claude[o] # "none"
  => file[o] # None

\* From the removal on there is none, whatever is still to be written.
CredentialIsGone(o) ==
  /\ courier[o].step \in {"unlink", "socketLeft"} => file[o] = None
  /\ courier[o].step = "returned" /\ claude[o] # "none" =>
       file[o] = None /\ guestSocket[o] = None

\* The server of an opening that lends is the one bound to its socket.
ServerIsBound(o) ==
  host[o].step \in {"lending", "ssh"} => hostSocket[o] = o

Sound(o) ==
  /\ CourierComesLate(o)
  /\ ClaudeComesLater(o)
  /\ FilesAreOwn(o)
  /\ CredentialIsThere(o)
  /\ CredentialIsGone(o)
  /\ ServerIsBound(o)

Inductive == TypeOK /\ \A o \in Opening : Sound(o)
=============================================================================
