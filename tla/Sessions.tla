------------------------------ MODULE Sessions ------------------------------
(***************************************************************************)
(* The life of a research session on one host: invocations of the CLI that *)
(* create, resume and reclaim sessions, and the state they share.          *)
(*                                                                         *)
(* Every invocation is a process of its own.  No two of them take a lock:  *)
(* they meet only in the runtime (machines, images) and in the files under *)
(* ~/.cyber-sandbox (records, identities, host keys).  Each action below   *)
(* is one call an invocation makes on that shared state, so what happens   *)
(* between two calls -- another invocation, a machine going down, a kill   *)
(* -- is part of every behaviour.                                          *)
(*                                                                         *)
(* Sizes (cores, memory) are the business of HostBudget: here a            *)
(* reservation is granted or refused.                                      *)
(***************************************************************************)
EXTENDS Integers, FiniteSets

CONSTANTS
  Invocation,     \* the processes that may be running at one time
  Id,             \* session identifiers the entropy source can draw
  Image,          \* sandbox image tags (architecture and source digest)
  MaxTime,        \* bound on the clock; one unit is a stretch of days
  IdleLimit,      \* IDLE_LIMIT in the same unit
  DrawsRepeat,    \* whether two draws of an identifier can coincide
  Interrupts,     \* whether an invocation can be killed, or fail on I/O
  Interference,   \* whether machines are stopped or deleted from outside
  Absent,         \* no such file, machine or value
  Torn,           \* a record file that was truncated and not yet written
  Garbled         \* one written over a longer one, whose end is still there

ASSUME SessionsAssumption ==
  /\ MaxTime \in Nat
  /\ IdleLimit \in Nat \ {0}
  /\ {DrawsRepeat, Interrupts, Interference} \subseteq BOOLEAN
  /\ Absent \notin Invocation \cup Id \cup Image
  /\ Absent # Torn /\ Absent # Garbled /\ Torn # Garbled

Time == 0 .. MaxTime

\* SessionRecord: the fields reclamation and resumption read.
Record == [image : Image, used : Time]

\* ContainerState, with the key the entrypoint was handed to authorise.
Machine == [state : {"running", "stopped"}, image : Image,
            authorised : Invocation]

ASSUME AbsentIsNoRecordOrMachine ==
  /\ {Absent, Torn, Garbled} \cap Record = {}
  /\ Absent \notin Machine

\* An entry of make_room's list of candidates.
Candidate == [id : Id, used : Time]

Labels ==
  {"idle",
   "list", "sessions", "stale", "images", "refs", "prune", "room",
   "reserve", "ensure", "build", "allocate", "key", "new key", "run",
   "existing", "restart",
   "wait", "store", "write", "open", "shell", "codex",
   "rm list", "rm machine", "rm entry", "rm key", "rm host key",
   "rm record"}

\* What one invocation holds in memory.
Local ==
  [pc      : Labels,
   id      : Id \cup {Absent},         \* the session it is for
   image   : Image \cup {Absent},      \* the image it is (to be) made from
   key     : Invocation \cup {Absent}, \* the identity it loaded or generated
   live    : SUBSET Id,                \* sessions the runtime was running
   asof    : Time,                     \* the last Timestamp::now() it took
   todo    : SUBSET Candidate,         \* candidates not yet dealt with
   doomed  : SUBSET Image,             \* images found to be unreferenced
   victim  : Id \cup {Absent},         \* the session being removed
   back    : {"stale", "room", "idle"}] \* where removal returns to

Idle ==
  [pc |-> "idle", id |-> Absent, image |-> Absent, key |-> Absent,
   live |-> {}, asof |-> 0, todo |-> {}, doomed |-> {},
   victim |-> Absent, back |-> "idle"]

VARIABLES
  record,    \* sessions/<id>.json
  opened,    \* who has the file now at that path open to store to it, and a
             \* history: who had, since it last held a record left alone
  key,       \* keys/<id>: the invocation that generated the identity in it
  hostKey,   \* sessions with a known_hosts file
  entry,     \* sessions registered in Codex's configuration
  machine,   \* the runtime's containers
  images,    \* the runtime's images in the tool's repository
  now,       \* the host's clock
  drawn,     \* identifiers drawn so far
  local      \* each invocation's own state

disk == <<record, opened, key, hostKey, entry>>
runtime == <<machine, images>>
vars == <<disk, runtime, now, drawn, local>>

Init ==
  /\ record = [s \in Id |-> Absent]
  /\ opened = [s \in Id |-> {}]
  /\ key = [s \in Id |-> Absent]
  /\ hostKey = {}
  /\ entry = {}
  /\ machine = [s \in Id |-> Absent]
  /\ images = {}
  /\ now = 0
  /\ drawn = {}
  /\ local = [p \in Invocation |-> Idle]

At(p, label) == local[p].pc = label

\* Moves p on to label.
Goto(p, label) == local' = [local EXCEPT ![p].pc = label]

\* p returns, with or without an error; what it did to shared state stays.
Return(p) == local' = [local EXCEPT ![p] = Idle]

Exists(s) == machine[s] # Absent
Running(s) == Exists(s) /\ machine[s].state = "running"

\* host.sessions() fails as a whole on one record it cannot parse.
Unreadable == {Torn, Garbled}
Readable == \A s \in Id : record[s] \notin Unreadable
Recorded == {s \in Id : record[s] # Absent}

\* The runtime deletes an image only if it holds it and no container of any
\* state was created from it.
Deletable(i) ==
  /\ i \in images
  /\ \A s \in Id : Exists(s) => machine[s].image # i

-----------------------------------------------------------------------------
(***************************************************************************)
(* create(): stage and name the image, then make_room().                   *)
(***************************************************************************)
Create(p, i) ==
  /\ At(p, "idle")
  /\ local' = [local EXCEPT ![p].pc = "list", ![p].image = i]
  /\ UNCHANGED <<disk, runtime, now, drawn>>

ListLive(p) ==
  /\ At(p, "list")
  /\ local' = [local EXCEPT ![p].pc = "sessions",
                            ![p].live = {s \in Id : Running(s)},
                            ![p].asof = now]
  /\ UNCHANGED <<disk, runtime, now, drawn>>

\* host.sessions(), and candidates.retain(not running), after which the list
\* of running machines is not looked at again.
ReadSessions(p) ==
  /\ At(p, "sessions")
  /\ Readable
  /\ local' = [local EXCEPT
       ![p].pc = "stale", ![p].live = {},
       ![p].todo = {[id |-> s, used |-> record[s].used] :
                      s \in Recorded \ local[p].live}]
  /\ UNCHANGED <<disk, runtime, now, drawn>>

\* The least recently opened first: candidates are taken in that order.
Oldest(C) == {c \in C : \A d \in C : c.used =< d.used}
IsStale(p, c) == local[p].asof - c.used >= IdleLimit
StaleOf(p) == {c \in local[p].todo : IsStale(p, c)}

BeginRemoval(p, s, back) ==
  local' = [local EXCEPT ![p].pc = "rm list", ![p].victim = s,
                         ![p].back = back]

RemoveStale(p) ==
  /\ At(p, "stale")
  /\ \E c \in Oldest(StaleOf(p)) : BeginRemoval(p, c.id, "stale")
  /\ UNCHANGED <<disk, runtime, now, drawn>>

NoneStale(p) ==
  /\ At(p, "stale")
  /\ StaleOf(p) = {}
  /\ Goto(p, "images")
  /\ UNCHANGED <<disk, runtime, now, drawn>>

\* prune_images(): the images held, other than the one to be kept ...
ListImages(p) ==
  /\ At(p, "images")
  /\ local' = [local EXCEPT ![p].pc = "refs",
                            ![p].doomed = images \ {local[p].image}]
  /\ UNCHANGED <<disk, runtime, now, drawn>>

\* ... and, of those, the ones no record refers to.
Unreferenced(p) ==
  /\ At(p, "refs")
  /\ Readable
  /\ local' = [local EXCEPT
       ![p].pc = "prune",
       ![p].doomed = {i \in @ : \A s \in Recorded : record[s].image # i}]
  /\ UNCHANGED <<disk, runtime, now, drawn>>

PruneImage(p) ==
  /\ At(p, "prune")
  /\ \E i \in local[p].doomed :
       /\ Deletable(i)
       /\ images' = images \ {i}
       /\ local' = [local EXCEPT ![p].doomed = @ \ {i}]
  /\ UNCHANGED <<disk, machine, now, drawn>>

NonePrunable(p) ==
  /\ At(p, "prune")
  /\ local[p].doomed = {}
  /\ Goto(p, "room")
  /\ UNCHANGED <<disk, runtime, now, drawn>>

\* The disk is measured before each removal; what else is on it is not the
\* tool's to know, so either answer is possible every time.  Its locals go
\* out of scope when make_room() returns.
MakeRoom(p) ==
  /\ At(p, "room")
  /\ \E c \in Oldest(local[p].todo) : BeginRemoval(p, c.id, "room")
  /\ UNCHANGED <<disk, runtime, now, drawn>>

RoomEnough(p) ==
  /\ At(p, "room")
  /\ local' = [local EXCEPT ![p] =
                   [Idle EXCEPT !.pc = "reserve", !.image = local[p].image]]
  /\ UNCHANGED <<disk, runtime, now, drawn>>

-----------------------------------------------------------------------------
(***************************************************************************)
(* create(), continued: reserve, build the image, make the machine.        *)
(***************************************************************************)
Reserve(p) ==
  /\ At(p, "reserve")
  /\ Goto(p, "ensure")
  /\ UNCHANGED <<disk, runtime, now, drawn>>

EnsureImage(p) ==
  /\ At(p, "ensure")
  /\ Goto(p, IF local[p].image \in images THEN "allocate" ELSE "build")
  /\ UNCHANGED <<disk, runtime, now, drawn>>

Build(p) ==
  /\ At(p, "build")
  /\ images' = images \cup {local[p].image}
  /\ Goto(p, "allocate")
  /\ UNCHANGED <<disk, machine, now, drawn>>

\* Identifiers neither the runtime nor the host's state holds.
Free == {s \in Id : ~Exists(s) /\ record[s] = Absent}
Drawable == IF DrawsRepeat THEN Free ELSE Free \ drawn

Allocate(p) ==
  /\ At(p, "allocate")
  /\ \E s \in Drawable :
       /\ drawn' = drawn \cup {s}
       /\ local' = [local EXCEPT ![p].pc = "key", ![p].id = s]
  /\ UNCHANGED <<disk, runtime, now>>

\* SandboxKey::load_or_create(): an identity already there is used ...
LoadKey(p) ==
  /\ At(p, "key")
  /\ IF key[local[p].id] # Absent
       THEN local' = [local EXCEPT ![p].pc = "run",
                                   ![p].key = key[local[p].id]]
       ELSE Goto(p, "new key")
  /\ UNCHANGED <<disk, runtime, now, drawn>>

\* ... and otherwise one is generated and written over whatever is there.
WriteKey(p) ==
  /\ At(p, "new key")
  /\ key' = [key EXCEPT ![local[p].id] = p]
  /\ local' = [local EXCEPT ![p].pc = "run", ![p].key = p]
  /\ UNCHANGED <<record, opened, hostKey, entry, runtime, now, drawn>>

Startable(p) == ~Exists(local[p].id) /\ local[p].image \in images

\* From here on ssh reads the identity from its file.
RunDetached(p) ==
  /\ At(p, "run")
  /\ Startable(p)
  /\ machine' = [machine EXCEPT ![local[p].id] =
       [state |-> "running", image |-> local[p].image,
        authorised |-> local[p].key]]
  /\ local' = [local EXCEPT ![p].pc = "wait", ![p].key = Absent]
  /\ UNCHANGED <<disk, images, now, drawn>>

-----------------------------------------------------------------------------
(***************************************************************************)
(* resume(): a session with a readable record, named or picked.            *)
(***************************************************************************)
Resume(p, s) ==
  /\ At(p, "idle")
  /\ record[s] \notin Unreadable \cup {Absent}
  /\ local' = [local EXCEPT ![p].pc = "existing", ![p].id = s,
                            ![p].image = record[s].image]
  /\ UNCHANGED <<disk, runtime, now, drawn>>

CheckExisting(p) ==
  /\ At(p, "existing")
  /\ LET s == local[p].id IN
       CASE ~Exists(s)              -> BeginRemoval(p, s, "idle")
         [] Running(s)              -> Goto(p, "wait")
         [] Exists(s) /\ ~Running(s) -> Goto(p, "restart")
  /\ UNCHANGED <<disk, runtime, now, drawn>>

Restart(p) ==
  /\ At(p, "restart")
  /\ Exists(local[p].id)
  /\ machine' = [machine EXCEPT ![local[p].id].state = "running"]
  /\ Goto(p, "wait")
  /\ UNCHANGED <<disk, images, now, drawn>>

-----------------------------------------------------------------------------
(***************************************************************************)
(* Both: wait until sshd answers, store the record, hand the session over. *)
(***************************************************************************)
Reachable(p) ==
  /\ At(p, "wait")
  /\ Running(local[p].id)
  /\ local' = [local EXCEPT ![p].pc = "store", ![p].asof = now]
  /\ UNCHANGED <<disk, runtime, now, drawn>>

\* Mutant of TruncateRecord: the write that should follow is skipped.
TruncateOnly(p) ==
  /\ At(p, "store")
  /\ record' = [record EXCEPT ![local[p].id] = Torn]
  /\ opened' = [opened EXCEPT ![local[p].id] = {p}]
  /\ Goto(p, "open")
  /\ UNCHANGED <<key, hostKey, entry, runtime, now, drawn>>

\* p is between the two halves of storing s in the file now at its path.
Storing(p, s) == At(p, "write") /\ local[p].id = s /\ p \in opened[s]

\* tokio::fs::write() opens the file at the path, or makes one, and
\* truncates it, also while another invocation has it open ...
TruncateRecord(p) ==
  /\ At(p, "store")
  /\ LET s == local[p].id IN
       /\ record' = [record EXCEPT ![s] = Torn]
       /\ opened' = [opened EXCEPT ![s] = {p} \cup {q \in @ : Storing(q, s)}]
  /\ Goto(p, "write")
  /\ UNCHANGED <<key, hostKey, entry, runtime, now, drawn>>

\* A record written from the start of a file that holds c.  The time in it
\* is not always written in as many characters, so over a record somebody
\* else wrote since the file was truncated it may leave the end of that one.
Overwritten(c, r) == IF c = Torn THEN {r} ELSE {r, Garbled}

\* Where nobody is killed it is remembered who opened the file until it holds
\* a record that nobody else is storing to; elsewhere, who has it open.
StillOpen(p, s, c) ==
  IF Interrupts THEN opened[s] \ {p}
  ELSE IF c # Garbled /\ \A q \in Invocation \ {p} : ~Storing(q, s)
         THEN {} ELSE opened[s]

\* ... and then writes to it, wherever its name has gone meanwhile: if the
\* record was removed, what p writes is in no directory any more.
WriteRecord(p) ==
  /\ At(p, "write")
  /\ LET s == local[p].id
         r == [image |-> local[p].image, used |-> local[p].asof]
     IN IF p \in opened[s]
          THEN \E c \in Overwritten(record[s], r) :
                 /\ record' = [record EXCEPT ![s] = c]
                 /\ opened' = [opened EXCEPT ![s] = StillOpen(p, s, c)]
          ELSE UNCHANGED <<record, opened>>
  /\ Goto(p, "open")
  /\ UNCHANGED <<key, hostKey, entry, runtime, now, drawn>>

\* ssh connects for a shell or for Claude Code and remembers the host key.
OpenShell(p) ==
  /\ At(p, "open")
  /\ hostKey' = IF Running(local[p].id) THEN hostKey \cup {local[p].id}
                                        ELSE hostKey
  /\ Goto(p, "shell")
  /\ UNCHANGED <<record, opened, key, entry, runtime, now, drawn>>

\* For Codex the session is first registered in its configuration.
OpenCodex(p) ==
  /\ At(p, "open")
  /\ entry' = entry \cup {local[p].id}
  /\ hostKey' = IF Running(local[p].id) THEN hostKey \cup {local[p].id}
                                        ELSE hostKey
  /\ Goto(p, "codex")
  /\ UNCHANGED <<record, opened, key, runtime, now, drawn>>

Close(p) ==
  /\ local[p].pc \in {"shell", "codex"}
  /\ entry' = IF At(p, "codex") THEN entry \ {local[p].id} ELSE entry
  /\ Return(p)
  /\ UNCHANGED <<record, opened, key, hostKey, runtime, now, drawn>>

-----------------------------------------------------------------------------
(***************************************************************************)
(* reclaim::remove(): the machine, then what the host keeps, record last.  *)
(***************************************************************************)
\* Mutant of RmList: the machine is never deleted.
RmListKeepsMachine(p) ==
  /\ At(p, "rm list")
  /\ Goto(p, "rm entry")
  /\ UNCHANGED <<disk, runtime, now, drawn>>

RmList(p) ==
  /\ At(p, "rm list")
  /\ Goto(p, IF Exists(local[p].victim) THEN "rm machine" ELSE "rm entry")
  /\ UNCHANGED <<disk, runtime, now, drawn>>

\* `container delete --force`, which kills a running machine first.
RmMachine(p) ==
  /\ At(p, "rm machine")
  /\ Exists(local[p].victim)
  /\ machine' = [machine EXCEPT ![local[p].victim] = Absent]
  /\ Goto(p, "rm entry")
  /\ UNCHANGED <<disk, images, now, drawn>>

\* Mutant of RmEntry: the record goes before the identity.
RmEntryThenRecord(p) ==
  /\ At(p, "rm entry")
  /\ entry' = entry \ {local[p].victim}
  /\ Goto(p, "rm record")
  /\ UNCHANGED <<record, opened, key, hostKey, runtime, now, drawn>>

RmEntry(p) ==
  /\ At(p, "rm entry")
  /\ entry' = entry \ {local[p].victim}
  /\ Goto(p, "rm key")
  /\ UNCHANGED <<record, opened, key, hostKey, runtime, now, drawn>>

\* Mutants of RmKey: the host key is not forgotten; the identity is kept.
RmKeyThenRecord(p) ==
  /\ At(p, "rm key")
  /\ key' = [key EXCEPT ![local[p].victim] = Absent]
  /\ Goto(p, "rm record")
  /\ UNCHANGED <<record, opened, hostKey, entry, runtime, now, drawn>>

RmKeyNot(p) ==
  /\ At(p, "rm key")
  /\ Goto(p, "rm host key")
  /\ UNCHANGED <<disk, runtime, now, drawn>>

RmKey(p) ==
  /\ At(p, "rm key")
  /\ key' = [key EXCEPT ![local[p].victim] = Absent]
  /\ Goto(p, "rm host key")
  /\ UNCHANGED <<record, opened, hostKey, entry, runtime, now, drawn>>

RmHostKey(p) ==
  /\ At(p, "rm host key")
  /\ hostKey' = hostKey \ {local[p].victim}
  /\ Goto(p, "rm record")
  /\ UNCHANGED <<record, opened, key, entry, runtime, now, drawn>>

\* Mutant of RmRecord: the candidate is taken up again.
RmRecordAgain(p) ==
  /\ At(p, "rm record")
  /\ record' = [record EXCEPT ![local[p].victim] = Absent]
  /\ opened' = [opened EXCEPT ![local[p].victim] = {}]
  /\ IF local[p].back = "idle"
       THEN Return(p)
       ELSE local' = [local EXCEPT ![p].pc = local[p].back, ![p].victim = Absent,
                                   ![p].back = "idle"]
  /\ UNCHANGED <<key, hostKey, entry, runtime, now, drawn>>

RmRecord(p) ==
  /\ At(p, "rm record")
  /\ record' = [record EXCEPT ![local[p].victim] = Absent]
  /\ opened' = [opened EXCEPT ![local[p].victim] = {}]
  /\ IF local[p].back = "idle"
       THEN Return(p)
       ELSE local' = [local EXCEPT
              ![p].pc = local[p].back, ![p].victim = Absent, ![p].back = "idle",
              ![p].todo = {c \in @ : c.id # local[p].victim}]
  /\ UNCHANGED <<key, hostKey, entry, runtime, now, drawn>>

-----------------------------------------------------------------------------
(***************************************************************************)
(* Ways an invocation ends early, and what happens around it.              *)
(***************************************************************************)
\* A call whose refusal the state decides, or that may be refused for
\* reasons below this model (the budget, the build, the arguments of a
\* resume, the readiness deadline).
Refused(p) ==
  \/ local[p].pc \in {"reserve", "build", "existing", "restart", "wait"}
  \/ local[p].pc \in {"sessions", "refs"} /\ ~Readable
  \/ At(p, "prune") /\ \E i \in local[p].doomed : ~Deletable(i)
  \/ At(p, "allocate") /\ Drawable = {}
  \/ At(p, "run") /\ ~Startable(p)
  \/ At(p, "rm machine") /\ ~Exists(local[p].victim)

Refuse(p) ==
  /\ Refused(p)
  /\ Return(p)
  /\ UNCHANGED <<disk, runtime, now, drawn>>

\* The process is killed, or an I/O error takes the `?` out of it.
Interrupt(p) ==
  /\ Interrupts
  /\ ~At(p, "idle")
  /\ opened' = [s \in Id |-> opened[s] \ {p}]
  /\ Return(p)
  /\ UNCHANGED <<record, key, hostKey, entry, runtime, now, drawn>>

\* The guest powers off, the host reboots, or `container stop` is run by hand.
MachineStops(s) ==
  /\ Interference
  /\ Running(s)
  /\ machine' = [machine EXCEPT ![s].state = "stopped"]
  /\ UNCHANGED <<disk, images, now, drawn, local>>

\* `container delete` is run by hand.
MachineLost(s) ==
  /\ Interference
  /\ Exists(s)
  /\ machine' = [machine EXCEPT ![s] = Absent]
  /\ UNCHANGED <<disk, images, now, drawn, local>>

Tick ==
  /\ now < MaxTime
  /\ now' = now + 1
  /\ UNCHANGED <<disk, runtime, drawn, local>>

Reclaim(p) ==
  \/ ListLive(p) \/ ReadSessions(p) \/ RemoveStale(p) \/ NoneStale(p)
  \/ ListImages(p) \/ Unreferenced(p) \/ PruneImage(p) \/ NonePrunable(p)
  \/ MakeRoom(p) \/ RoomEnough(p)

Remove(p) ==
  \/ RmList(p) \/ RmMachine(p) \/ RmEntry(p) \/ RmKey(p) \/ RmHostKey(p)
  \/ RmRecord(p)

Provision(p) ==
  \/ Reserve(p) \/ EnsureImage(p) \/ Build(p) \/ Allocate(p) \/ LoadKey(p)
  \/ WriteKey(p) \/ RunDetached(p) \/ CheckExisting(p) \/ Restart(p)
  \/ Reachable(p) \/ TruncateRecord(p) \/ WriteRecord(p)
  \/ OpenShell(p) \/ OpenCodex(p)

\* What an invocation does of itself once it has been started.
Progress(p) == Reclaim(p) \/ Remove(p) \/ Provision(p) \/ Refuse(p)

Start(p) ==
  \/ \E i \in Image : Create(p, i)
  \/ \E s \in Id : Resume(p, s)

Environment ==
  \/ Tick
  \/ \E s \in Id : MachineStops(s) \/ MachineLost(s)

Next ==
  \/ \E p \in Invocation :
       Start(p) \/ Progress(p) \/ Close(p) \/ Interrupt(p)
  \/ Environment

Spec == Init /\ [][Next]_vars

\* Every call returns (the readiness wait has a deadline), so an invocation
\* keeps going until its session is open.  Nothing makes a researcher start
\* or end one.
FairSpec == Spec /\ \A p \in Invocation : WF_vars(Progress(p))

-----------------------------------------------------------------------------
TypeOK ==
  /\ record \in [Id -> Record \cup {Absent, Torn, Garbled}]
  /\ opened \in [Id -> SUBSET Invocation]
  /\ key \in [Id -> Invocation \cup {Absent}]
  /\ hostKey \subseteq Id
  /\ entry \subseteq Id
  /\ machine \in [Id -> Machine \cup {Absent}]
  /\ images \subseteq Image
  /\ now \in Time
  /\ drawn \subseteq Id
  /\ local \in [Invocation -> Local]

(***************************************************************************)
(* Safety.                                                                 *)
(***************************************************************************)
\* The identity kept for a session is the one its machine authorises, so a
\* session that exists can be logged in to: no interleaving of creations,
\* removals and kills leaves a machine whose key is gone or was replaced.
\* (keys.rs load_or_create and remove, reclaim.rs remove, provision.rs create.)
MachineHasIdentity ==
  \A s \in Id : Exists(s) => key[s] = machine[s].authorised

\* A remembered host key always belongs to a recorded session, whatever
\* removals are cut short: vmnet can hand the address to another machine
\* without ssh refusing it.  (reclaim.rs forget_host_key, before forget.)
HostKeyHasRecord == \A s \in hostKey : record[s] # Absent

\* The file of s was open in two invocations that stored it at one time.
StoredTwice(s) == \E p, q \in opened[s] : p # q

\* As long as no invocation is killed, a record that does not parse is one
\* that somebody is in the middle of storing, or that two invocations
\* stored at one time: every listing fails on it, for a moment in the one
\* case and until somebody removes or stores it in the other.
\* (host.rs:244 store, host.rs:222-228 sessions.)
UnreadableOnlyMidStore ==
  \A s \in Id : record[s] \in Unreadable =>
    \/ \E p \in Invocation : Storing(p, s)
    \/ record[s] = Garbled /\ StoredTwice(s)

\* The record is what a later reclamation finds a session by, so it is the
\* last part to go: a removal cut short, or overtaken by another one, leaves
\* nothing behind without a record.  (reclaim.rs remove.)
RecordOutlivesTheRest ==
  [][\A s \in Id :
       record[s] # Absent /\ record'[s] = Absent
         => ~Exists(s) /\ key[s] = Absent /\ s \notin hostKey]_vars

\* "A machine the runtime is currently running is never touched by either
\* rule" (reclaim.rs:16-18).  The code does not keep this promise: the list
\* of running machines is taken once, before any removal, and a session that
\* another invocation restarts after that is still among the candidates.
RunningIsNeverReclaimed ==
  [][\A p \in Invocation :
       RmMachine(p) /\ local[p].back # "idle" => ~Running(local[p].victim)]_vars

(***************************************************************************)
(* Liveness.                                                               *)
(***************************************************************************)
\* An invocation that was started ends up with an open session or returns,
\* whatever the others remove under it.  (provision.rs open.)
OpensOrRefuses ==
  \A p \in Invocation :
    ~At(p, "idle") ~> local[p].pc \in {"idle", "shell", "codex"}
-----------------------------------------------------------------------------
(***************************************************************************)
(* The inductive invariant behind MachineHasIdentity, HostKeyHasRecord and *)
(* RecordOutlivesTheRest when no identifier is drawn twice.                *)
(***************************************************************************)
Making == {"key", "new key", "run"}
Holding == Making \cup
  {"existing", "restart", "wait", "store", "write", "open", "shell", "codex"}
MachineGone == {"rm entry", "rm key", "rm host key", "rm record"}
KeyGone == {"rm host key", "rm record"}
Removing == {"rm list", "rm machine"} \cup MachineGone

\* p would act on s: it is for s, removing s, or has s among its candidates.
Mentions(p, s) ==
  \/ local[p].id = s
  \/ local[p].victim = s
  \/ \E c \in local[p].todo : c.id = s

\* What each stretch of the code holds, it holds a proper value of.
Scoped(l) ==
  /\ l.pc \in Holding => l.id \in Id
  /\ l.pc \in Removing => l.victim \in Id
  /\ l.pc # "idle" => l.image \in Image
  /\ l.pc = "run" => l.key \in Invocation

InScope == \A p \in Invocation : Scoped(local[p])

\* A session nobody has drawn is one nothing on the host refers to.
UndrawnIsUnknown ==
  \A s \in Id \ drawn :
    /\ record[s] = Absent
    /\ machine[s] = Absent
    /\ \A p \in Invocation : ~Mentions(p, s)

\* Until its machine is created, a new session is its creator's alone.
CreatorAlone ==
  \A p \in Invocation : local[p].pc \in Making =>
    /\ record[local[p].id] = Absent
    /\ machine[local[p].id] = Absent
    /\ \A q \in Invocation \ {p} : ~Mentions(q, local[p].id)
    /\ At(p, "run") => key[local[p].id] = local[p].key

\* A removal has left behind it what it has passed.
RemovalInOrder ==
  \A p \in Invocation :
    /\ local[p].pc \in MachineGone => machine[local[p].victim] = Absent
    /\ local[p].pc \in KeyGone => key[local[p].victim] = Absent
    /\ At(p, "rm record") => local[p].victim \notin hostKey

\* A session about to be opened is recorded for as long as it has a machine.
OpenedIsRecorded ==
  \A p \in Invocation :
    local[p].pc \in {"write", "open"} /\ Exists(local[p].id)
      => record[local[p].id] # Absent

\* The file an invocation opened last for a session is found at its path.
OpenIsThere == \A s \in Id : opened[s] # {} => record[s] # Absent

\* The invariant the proofs are by induction on.
Inductive ==
  /\ TypeOK
  /\ InScope
  /\ UndrawnIsUnknown
  /\ CreatorAlone
  /\ RemovalInOrder
  /\ OpenedIsRecorded
  /\ OpenIsThere
  /\ MachineHasIdentity
  /\ HostKeyHasRecord

=============================================================================
