# Verification of cyber-sandbox

TLA+ models of the parts of cyber-sandbox whose correctness depends on what happens
*between* two calls: on other invocations of the tool, on a kill, on a machine that goes
away. TLC checks them on small instances, TLAPS proves the most important properties for
every number of invocations, sessions and images. Paths below are relative to the
repository's `crates/`.

## 1. The system

A session is a virtual machine of Apple's `container` runtime, and what the host keeps
about it under `~/.cyber-sandbox`. The command-line tool has no daemon: every invocation is
a process of its own, several run at once, and they share state only through the runtime
and the file system, without a lock anywhere.

| component | state | operations | meets |
|---|---|---|---|
| **session lifecycle** (`cyber-sandbox/src/{provision,reclaim,host,keys,session}.rs`) | record, identity, known host key per session | `create`, `resume`, `make_room`, `prune_images`, `remove` | runtime (every step is a call), agents' files |
| **runtime adapter** (`cyber-sandbox-runtime/src/apple.rs`) | machines, images, one shared builder | list, run, start, delete, build, image list and delete | the `container` program |
| **host budget** (`cyber-sandbox-runtime/src/budget.rs`) | none kept; measures cores, memory, disk, what runs | `measure`, `reserve`, `suggest` | asked before each start and build |
| **agents' files** (`cyber-sandbox-agents/src/codex`, `toml_file.rs`) | `environments.toml`, `config.toml` | register, unregister, select, trust | the codex command, reclamation, the researcher's own codex |
| **commands** (`cyber-sandbox/src/command`) | the running client | `shell` replaces itself by ssh; `codex` borrows the configuration; `claude` lends a token | all of the above |
| **loan and courier** (`cyber-sandbox/src/loan.rs`, `cyber-sandbox-courier`, `cyber-sandbox-creds`) | token in hand, socket, credential file | host: accept and send one token a connection; guest: fetch, write, spawn, renew, take back | each other over a forwarded socket |
| **audit gateway** (`cyber-sandbox-gateway`) | connections, bounded queue, one writer | accept, attribute, probe, intercept, relay, record | the packet filter, the trail |
| **audit trail** (`cyber-sandbox-audit`, `command/audit.rs`) | a file of lines | append, follow | gateway writes, host reads |
| **guest start-up** (`cyber-sandbox-image/templates`) | packet filter, authority, processes | the entrypoint's steps, in order | gateway, sshd |
| **image staging** (`cyber-sandbox-image/src/stage.rs`, `digest.rs`) | a directory per process, one per digest | stage, digest, rename | concurrent stagings, the builder |

What makes each of them correct, and what is hard about it:

- *Lifecycle.* A session that exists can be logged in to; a removal that is cut short can be
  finished by the next; nothing in use is reclaimed; what is abandoned is. Hard: each of
  `create` and `remove` is a dozen calls, two of them interleave with each other and with
  machines going down, and either may be killed anywhere.
- *Budget.* What runs never exceeds the host less its reserve. Hard: measured first, started
  later; a builder that is replaced while another invocation builds on it.
- *Agents' files.* The researcher's own configuration comes back as it was. Hard:
  read-modify-write by several processes, a borrowed default, kills.
- *Loan.* A token in the guest is always one the host handed out and is gone when Claude
  Code is; a renewal reaches the guest before expiry. Hard: timers, one-at-a-time service,
  spawn failures.
- *Gateway.* Nothing leaves unrecorded. Hard: back-pressure, relays ending in errors, records
  made after the fact.
- *Start-up.* No process runs before the filter is in place; a login finds the gateway
  listening. Hard: a background process nobody waits for.
- *Staging.* A directory named for a digest holds the bytes of that digest. Hard: several
  processes renaming to one name.

`PROJECT.json` lists every component with its status and every hazard at its line.

## 2. The modules

| module | models | builds on |
|---|---|---|
| `Sessions` | create, resume, reclaim by any number of processes | |
| `SessionsProofs` | its inductive invariant, the safety theorems that follow | `Sessions` |
| `CodexEdits` | what editing Codex's files promises: one whole edit at a time | |
| `CodexFiles` | the edits step by step, borrow and restore, removal's edits | implements `CodexEdits` |
| `CodexProofs` | its type invariant; the refinement and what a run hands back, one invocation at a time | `CodexFiles` |
| `Lending` | host server, courier, sockets, credential file, time | |
| `LendingProofs` | its type invariant, that openings keep apart, that what was lent lasts and is taken back | `Lending` |
| `Gateway` | connections, queries, refused packets, the bounded channel, its writer | |
| `GatewayProofs` | its inductive invariant, all of its safety properties | `Gateway` |
| `HostBudget` | measurements, reservations, the shared builder, integer arithmetic | |
| `BudgetProofs` | its type invariant, what holds of the builder, sums and saturated sums, that a fresh start fits | `HostBudget` |
| `ImageStage` | copying the sources, the digest, renaming, building, pruning, edits meanwhile | |
| `StageProofs` | that the digest determines what is built, and that staging keeps it so | `ImageStage` |
| `AuditTrail` | the file of the trail: its writer, its follower | |
| `EgressPolicy` | the rules of the packet filter, and what they do to a packet | |
| `GuestMachine` | a machine from its first process to a login: entrypoint, authority, gateway, stops and restarts | `AuditTrail`, `EgressPolicy` |
| `TrailProofs`, `GuestProofs` | what lasts of the trail and what is read of it; filter, authority and types of the composition | `AuditTrail`; `GuestMachine` |
| `MCSessions`, `MCCodexFiles`, `MCLending`, `MCGateway`, `MCHostBudget`, `MCImageStage`, `MCGuestMachine` | instances for TLC | |

The modules meet where the code does: `Sessions` starts machines whose sizes are
`HostBudget`'s, from images that are `ImageStage`'s, with entries in files that are
`CodexFiles`'; `GuestMachine` is what happens inside one of those machines, with the file that
`Gateway`'s writer appends to. Each takes from the others what its own properties need: in
`Sessions` a reservation is granted or refused, in `Gateway` an append succeeds or not. They are not
put together into one state machine, whose instances would be beyond TLC.

Every operation is an action, and the parameters are CONSTANTS with their assumptions, so that a
module is both checked and proved about. A definition marked "Mutant of" is not part of the model: it is
what a plausible mistake in that operation would make of it, and there to show that the properties
notice. One thing would be worth having beyond this: an abstract
session (absent, made, open, going, gone) that `Sessions` refines.

## 3. `Sessions`

One variable per kind of shared state, one record per invocation for what it holds in memory.

| variable | in the code |
|---|---|
| `record` | `sessions/<id>.json`: `Absent`, `Torn` (truncated, not yet written), `Garbled` (written over a longer one) or the fields reclamation reads, image and `last_used` |
| `opened` | who has opened that file since it was last whole and left alone; a history, for the one property about unreadable records, which is checked where nobody is killed. Where invocations can be killed it holds only those who have the file open |
| `key` | `keys/<id>`, named by the invocation that generated it |
| `hostKey` | `known_hosts/<id>` exists |
| `entry` | the session is registered in Codex's files |
| `machine` | the runtime's container of that name: state, image, and the key its entrypoint authorised |
| `images` | tags of the tool's repository the runtime holds |
| `now` | the clock, in units of `IDLE_LIMIT / IdleLimit` |
| `drawn` | identifiers handed out so far, a history used when `DrawsRepeat` is `FALSE` |
| `local[p]` | where invocation `p` is (`pc`, a label per awaited call) and its locals |

Each action is one call on shared state, with the conditions around it, so that everything
may happen between two calls. `create` walks `list, sessions, stale, images, refs, prune,
room, reserve, ensure, build, allocate, key, run, wait, store, write, open`; `resume` enters
at `existing`. `remove` is the `rm ...` labels, entered from three places; `back` says which.
`Refuse` is every `?` and `bail!` whose outcome the model can see or that lies below it (budget,
build, refused arguments, readiness deadline); `Interrupt` is a kill or an I/O error at any
other call. `MachineStops` and `MachineLost` are what is done to machines from outside the tool.

What is abstracted:

- The system services (`ensure_services`), architecture and sample directories only add
  refusals, all of which `Refuse` allows.
- The disk is whatever it is: `make_room`'s loop may find it short or sufficient each time.
- Registering with Codex is one step. Its own races belong to `CodexFiles`.
- A store is two steps, truncate and write, which is what `tokio::fs::write` does (`host.rs:244`). The write
  goes to the file that was opened: if the record was deleted in between, it stays deleted. Two invocations
  that store one record at a time both truncate it and then both write from its start: the time in it is not
  always written in as many characters, so a shorter text over a longer one leaves the end of that one
  (`Overwritten`), and the record is `Garbled` when both are done.
- `image::stage` names one of the images and has no other effect here.
- `ssh` records the host key on connecting, if the machine is up. The Claude command is a
  shell as far as this module is concerned.

### Runs

| run | instance | checks | shows |
|---|---|---|---|
| `SessionsTogether` | 2 invocations, 2 ids, 1 image, kills, interference | `Inductive`, `MachineHasIdentity`, `HostKeyHasRecord`, `RecordOutlivesTheRest` | identities, host keys and records agree with the machines under every interleaving |
| `SessionsReclaims` | 2 invocations, 1 id, 1 image, clock to 1, no kills, interference | `RunningIsNeverReclaimed` | *violated*: a running machine is taken down by reclamation, see below |
| `SessionsProgress` | 2 invocations, 1 id, 2 images, clock to 1, no kills, `FairSpec` | `UnreadableOnlyMidStore`, `OpensOrRefuses` | every invocation opens its session or returns; an unparsable record is a store in progress, or two that overlapped |

Two invocations are the least that race, and every hazard in the list is one between two:
a remover and whoever its victim matters to. Two identifiers let one invocation reclaim
another's session while making its own; two images are needed for pruning to have a
choice; the clock needs one step for a session to go stale (`IdleLimit` is one unit). In
`SessionsTogether` the clock stands still: the properties do not read it, and with the disk
always possibly short nothing becomes unreachable by it. Symmetry is used in `SessionsTogether`
only. `DrawsRepeat` is `FALSE` in every run: no two draws of an identifier coincide. `CHECK_DEADLOCK` is
left on: an idle invocation can always start a creation.

Fairness, in `SessionsProgress` only: weak fairness of each invocation's own next call. The
code awaits one call after another and `wait_until_reachable` has a deadline, so an
invocation whose call can be taken takes it. Nothing is assumed of the researcher: no
fairness on starting or closing, nor on machines going down or the clock.

What the repository says of reclamation does not hold: "a machine the runtime is currently running is never
touched by either rule" (`reclaim.rs:16-18`). The list of what runs is taken once, before the first removal. In
`SessionsReclaims` one invocation takes it while the session's machine is down, the other resumes the session, and
`delete --force` takes the running machine away from it.

Nor is an unparsable record always about to be parsable. `UnreadableOnlyMidStore` has both cases: somebody is
between truncating and writing, or two invocations stored the record at one time and the later text was the
shorter. In the second case `sessions()` fails for every invocation until the record is stored or removed, and it is
the listing that either would begin with.

Two things the model has and no run singles out: a machine that does not become reachable in time is
left running without a record (`Refuse` at `wait`), and since nothing stops a machine, a session
whose shell was closed is never a candidate (`ReadSessions`).

### Proofs

`SessionsProofs` proves, for all finite or infinite sets of invocations, identifiers and images:

- `TypeCorrect`: `Spec => []TypeOK`;
- `AlwaysInductive`: `Spec => []Inductive`, assuming `DrawsRepeat = FALSE`;
- `UnreadableIsPassing` (`UnreadableOnlyMidStore`), assuming `Interrupts = FALSE`: a record that does not parse
  is being stored, or was stored by two invocations whose stores overlapped. Its invariant adds to the types that whoever is
  storing has the file open, so that the `Garbled` record one of two leaves has both among those who opened it;
- `IdentityKept`, `HostKeysRecorded`, `RecordGoesLast`: the three properties of
  `SessionsTogether`, assuming `DrawsRepeat = FALSE`.

Assumed are the two named assumptions of `Sessions` on its constants, and, for `Inductive` and
what follows from it, that no identifier is drawn twice. The code draws 24 random bits and does not look
at what other processes have drawn, so this is a matter of probability, not of the code. Without it two
invocations can both find the identifier free and make one session each.

None of the three is inductive. `Inductive` adds what carries them:

- `InScope` — a label implies the locals its code reads hold values;
- `UndrawnIsUnknown` — nobody refers to an identifier that was never drawn;
- `CreatorAlone` — from `allocate` until the machine exists, no other invocation has the new
  identifier in hand, so none can remove the identity from under it (it can only come by
  it through a record or a machine, and there is none);
- `RemovalInOrder` — what a removal has passed is gone *and stays gone* until its end:
  nobody makes a new machine or identity under an identifier someone is removing;
- `OpenedIsRecorded` — between storing and opening, a session with a machine has a record.

The proof that steps preserve it does not go action by action for each conjunct. Actions are
first sorted by what they can touch: `QuietKeeps` (they change only the invocation's own
state), `RecordEffect`, `KeyEffect`, `MachineEffect`, `HostKeyEffect` (what the others do to
one variable), `ControlEffect` (where control can go). `ActingKeeps` and `EnvironmentKeeps`
then prove each conjunct from those effects. `SessionsTogether` checks `Inductive` as an
invariant of a run; it contains `TypeOK`, which is why no run lists that.

Only `OpensOrRefuses` is model-checked alone.

## 4. `CodexFiles`

| variable | in the code |
|---|---|
| `content[f]` | what `environments.toml` or `config.toml` holds: the default, and the ids or directories listed |
| `staging[f]` | what is at `<file>.cyber-sandbox-staging`, if anything |
| `local[p]` | the step of `codex::run` an invocation is at, the phase within its edit, and its locals |
| `found` | a history: what the files held when the first of the present invocations began; kept where `Recall` is `TRUE`, left at its first value where no property reads it |

`After` is the order of `codex::run` and what it calls: register and trust, read the old
default and preselect, spawn, wait, restore, unregister and distrust. Removal takes the last
two. Every step that edits is `Read` (with the change of the document in memory), `Open`,
`Write`, `Rename`; `selected` only reads. An invocation writes to the file it opened: `writes`
says whether that is still the staging file, has been renamed to the real path by somebody
else, or has been replaced since. Writing over what another invocation has written gives either
one's text or a mixture; a mixture is taken not to parse (`Garbled`), which makes the next
`read` fail. `Fail` is an error that the files themselves cause, `Kill` a kill or an I/O error
at any point, `SpawnFails` a Codex that cannot be started, after which the code restores.

The researcher's own entry in each file is `Own`; formatting, comments and what an entry says are
left out, as is a file in a shape the tool refuses. `config.toml` is given a `default` it never
uses so that both files are documents of one type.

| run | instance | checks | shows |
|---|---|---|---|
| `CodexAlone` | 1 invocation at a time, 2 sessions, kills | `KillsDoNotWedge`, `ImplementsEdits`, `OpensOnItsSession`, `HandedBackAsFound` | a kill never loses or half-writes anything, and the next run starts and ends as if it had not happened |
| `CodexTogether` | 2 invocations, 1 session, no kills, `FairSpec` | `ReachesCodexOrReturns` | the two cannot hold each other up |

With one invocation the state space is finite without any bound, since a run can start over in
whatever an earlier one left; two sessions let one be left behind while another runs. In
`CodexTogether` one session is enough for the two to collide on both files, and keeps the
liveness check small. Fairness is weak fairness of an invocation's next file operation or
spawn: these calls return. Codex itself need never end, and nobody need start anything.

`HandedBackAsFound` says what one run at a time does promise: both files as found, less what
a killed run, or an earlier one on the same session, had left in them (a session's id
as the default is dropped on purpose, `preselect`). `ImplementsEdits` is the refinement
`CodexEdits!Spec` with `files <- content`: every change of a file is one addition, removal
or selection applied to what the file held. It does not hold of two invocations:
both use the one staging name that `lib.rs:95-102` derives from the target, so one renames what the other had
only truncated, and when that one dies the file stays half written, although `lib.rs:84-85` says that a
crash cannot leave it so. No run is spent on that. `OpensOnItsSession` does not hold of two either: another invocation's edit can come between
a run's preselection and its Codex. The four properties of `CodexAlone` are thus about runs that do not overlap, and of
overlapping ones only that they come to an end is shown.

`CodexProofs` proves `TypeOK` for any number of invocations, with `Scoped` (whoever is at work has
a session) added. For invocations that run one at a time (`Process = {p}`), over any set of
sessions and with kills anywhere, it proves the refinement (`OneAtATimeImplementsEdits`) and
`KillsDoNotWedge` and `OpensOnItsSession`. The inductive invariant is `Sole`: the document in memory,
and then the staging file, is `p`'s edit of what the real file holds *now* (`Undisturbed`), and
what the steps up to now have put into the files is there (`Lent`). A kill anywhere leaves the
real file alone and the leftover staging file is truncated before it is used again, which is why
`Undisturbed` constrains the staging file only between `Open` and `Rename`. Assumed is
`CodexAssumption`, that the model values are distinct.

`OneAtATimeHandsBack` (`HandedBackAsFound`) needs more than `Sole`, whose `Lent` says what is in the files and not
what was there before. `Borrowed` is the difference, step by step, between the files and `found`: the session's entry, which comes
with `register` and goes with `unregister`, and the default, which is `Before` in the invocation's memory while another is in the
file. It assumes `Recall`, since otherwise `found` is not kept. Only `ReachesCodexOrReturns` is model-checked alone.

## 5. `Lending`

One opening is one `cyber-sandbox claude`: a process on the host, an ssh connection, a courier in the
session and the Claude Code it starts. The host and the courier meet only through the socket ssh forwards.

| variable | in the code |
|---|---|
| `login` | the token in the researcher's keychain, or none |
| `host[o]` | where `run` is, where `serve` and `lend` are, the token in hand, the one being sent and to whom |
| `link[o]` | ssh is connected |
| `hostSocket[n]`, `guestSocket[n]` | who is bound to the socket of that name on either side |
| `courier[o]` | where the courier is, whom it asked, what it was sent, a write not carried out yet, its timer |
| `claude[o]` | the process the courier started |
| `file[n]`, `staging[n]` | the credential file and its sibling: whose, and which token, or nothing yet (`Blank`) |

A token is the time it has left, and `Elapse` ages every copy of it at once, so there is no clock to
bound. `Stage`, `Write` and `Rename` are three steps because tokio's `write_all` returns when another thread
has been handed the bytes, and the file is dropped without a flush. A machine that stops is
`KillCourier`, `Cut` and `ClaudeExits`. Left out: that the interval may deliver missed ticks in a
burst, the pids a stamp names, quoting, and where the keychain entry is found.

| run | instance | checks | shows |
|---|---|---|---|
| `LendingTogether` | 2 openings, no faults, `Life` 5, `Margin` 3, `Refresh` 1 | `OpeningsKeepApart`, `NeverRunsOut` | openings do not come between each other, and with two renewals in a row lost there is still a token that has not expired |
| `LendingFaults` | 1 opening, kills, cut links, failing calls (removals, waits and signal handlers too), logouts anywhere, `FairSpec` | `Inductive`, `TakenBack`, `LoanEndsWithClaude` | what was published is taken back or reported as left, and the loan ends on both machines once Claude Code does |

The code's numbers are a margin of fifteen minutes and a renewal every five: the ratio 3 to 1 of `LendingTogether`, and
what the comment on both claims to allow for (two renewals that fail). `Life` need only exceed the margin by
enough for a token to be handed out, kept in hand and dropped. `Kept` is an assumption about the
researcher's own Claude Code: that it renews its login before less than `Kept` is left. Without it nothing keeps
a session's token alive, and the tool does not claim so. `Prompt` lets no time pass while a token is
between keychain and file: seconds against a unit of five minutes. `LendingFaults` assumes neither,
and needs one opening: two share nothing but `login`, which is what `LendingTogether` checks.

Fairness, in `LendingFaults`: every call returns, but for the reading of the keychain, on which there is none, since
it may put a question to the researcher. `LoanEndsWithClaude` has `KeychainAnswers` as its premise instead: no such reading goes on
for ever. It is needed, because a courier awaits a renewal inside its `select!` arm, and does not notice Claude's exit
until the host answers or hangs up (`courier/src/main.rs:151`). Connections are accepted in the order they were
made, so a courier that keeps asking is heard (strong fairness of `Accept`); `select!` picks at random, so it does not
pick the renewal for ever when the child has also exited (strong fairness of `Notice`). Nothing is assumed of Claude Code, time, the
login, or other programs that connect.

What is left behind. A process that ends by itself says which removal failed, by the step it ends at: `fileLeft` is a courier
whose removal of the credential failed and which returned without trying the socket (`main.rs:113-121`),
`socketLeft` one that removed the credential and not the socket, or a host whose `Loan::close` failed
(`loan.rs:131-141`); either returns the error. `TakenBack` and `LoanEndsWithClaude` say that nothing else is left by one that started
Claude Code. They do not speak of a process that was killed, nor of two ways of leaving something unsaid: a courier that
cannot start Claude Code returns without removing the file (`FailToSpawn`), and a host that cannot tell where its known hosts are leaves
its socket (`LoseKnownHosts`). The comment at `file.rs:56-58`, that no half-written file is ever seen under the final name, does not hold
either: the rename does not wait for the write, so the file in place is empty for a while (`Holds` and
`Blank` are that while). `NeverRunsOut` and `TakenBack` say that it does no harm: the token is on its way, and
when it comes after the removal it goes to a file that has no name any more.

`LendingTogether` has no kills, so that what a killed opening leaves at its names plays no part in it; names are drawn anew for
every opening and taken to be distinct. `KeptApart` below is proved with kills as well.

### Proofs

`LendingProofs` proves, for any openings, any `Life`, `Margin`, `Refresh`, `Kept` and `Losses`, with and without
faults: `TypeCorrect`, `AlwaysInductive` (`Inductive`), `KeptApart` (`OpeningsKeepApart`) and `NothingIsLeft` (`TakenBack`).
Assumed are `LendingAssumption` and `ModelValuesAssumption` (no file is `None`). `Inductive`, which `LendingFaults` checks and
which contains `TypeOK`, is, of each opening, the order in
which its parts come and go: a courier only after the client has connected (`CourierComesLate`), Claude Code only after the first
`lend` (`ClaudeComesLater`), a credential from then until the removal although renewals fail in between
(`CredentialIsThere`), none once a removal has succeeded although a write may be left (`CredentialIsGone`), and what is at its names
is its own (`FilesAreOwn`, `ServerIsBound`). `HostEffect`, `ServerEffect` and `CourierEffect` say which opening a step
is about, `SameKeeps` that the others do not notice, and `CourierSound` goes through the courier's steps.

`NeverWithout` (`NeverRunsOut`) is about how margin, period and losses add up, and holds under `Supplied`: nothing is killed, cut or
failing but the reading of the login, which may fail `Losses` times in a row; no time passes while a token is on its way
(`Prompt`); the margin covers `Losses + 1` periods; and the login always has more than that left (`Kept`). These are
the conditions `LendingTogether` has, where the code's own numbers, fifteen minutes and five, make `Losses` two. The
invariant is `InTime`. With `missed` failures behind it and `timer` to go until the next renewal, the file's token has more than
`Needs(missed, timer)` left: an elapsed unit takes one from both, and a failed renewal turns a period into one of the losses (`Lasts`).
A token that arrives has more than `Lasting`, wherever on its way it is (`LastsOnTheWay`), a file that is blank has
its text coming (`BlankIsWritten`), and a courier that asks is answered by its own server, and let down only while it may be
(`Attached`, `Answered`). Only `LoanEndsWithClaude` is model-checked alone.

## 6. `Gateway`

| variable | in the code |
|---|---|
| `up` | the process serves |
| `conn[c]` | where `handle` (and what it calls) waits, whether the client is still there, the account found, and, as history, whether its destination was `greeted`, what of it `reached` the destination and what was seen to have `ended` |
| `query[q]` | where `resolve` waits |
| `packet[p]`, `log` | refused packets, and those the kernel holds for `watch` |
| `spawned` | the tasks of `ExchangeReport::emit` that have not run |
| `channel` | the first `Depth` records are in the channel, the rest are waiting for room with their tasks |
| `writing` | the record the writer has taken |
| `trail` | the file |
| `lost` | a history: records a fault kept from the file |

A connection's step is the await its task is at. `handle` walks `accept, probe`, then `dial http` or `dial
other`, or `shake, dial tls, greet` and, inside TLS, `inner`; then `request, respond, body` for HTTP, `splice` for an upgrade, `relay`
for bytes. At `tls`, `blocked` and `connect` it waits for the channel to take the record of that kind. A sender
that finds the channel full is let in in its turn, which tokio's semaphore guarantees, so one
sequence is both the channel and its waiting list.

Interception is four steps, in the order of `tls.rs:82-129`: the session's handshake, the connection to the destination, the first message to
it, which carries the server name the session asked for (`Greet`), and its certificate. It can fail at each, and every
failure is recorded as refused, so "refused" does not mean that the destination was not reached: what it means is
that nothing the session sent *inside* TLS was relayed (`RefusedCarriedNothing`), and that whoever was greeted is told of one way or
the other (`GreetedIsTold`), unless the gateway went down in between: `Stop` then takes the connection off the greeted.

What is abstracted: bytes, headers and names; what an account may open (the packet filter is taken to redirect
and refuse as its script says); which account a query or a packet names; more than one question a query.
The probe may find anything: a client slower than `PROBE_WAIT` is relayed unparsed. `EndBodyUnpolled` is hyper's: it does not
poll a body again that says it has ended, and such an exchange is not recorded.

| run | instance | checks | shows |
|---|---|---|---|
| `GatewayPressure` | 1 connection with 1 exchange, 1 query, 1 packet, channel of 1, stops and restarts, failing appends, `FairSpec` | `Inductive`, `EndedIsRecordedOnce`, `SessionBeforeContents`, `OneAccount`, `RefusedCarriedNothing`, `GreetedIsTold`, `NobodyIsHeldForEver` | whatever contends for the channel, nothing that ended is dropped or written twice, what the trail calls refused carried nothing, what was greeted is told, and every task goes on |
| `GatewayUnaudited` | 1 connection, no faults | `CarriedIsRecorded` | *violated*: a relay that ends in an error returns before its record |

The code's channel holds 1024. With one place, four tasks (the connection, the task of its exchange, the query, the
reader of refused packets) are enough to fill it and queue up behind it in every order. The
properties of a connection speak of that connection alone, and what connections share is the channel.
`MaxExchanges` bounds the requests on it.

Fairness: tasks run, calls return, and TCP gives up connecting to a destination that does not answer. A client or
destination need do nothing: a handshake, a response or a relay may last for ever, and
`NobodyIsHeldForEver` leaves those steps out (`Held` lists the steps whose end is the gateway's own doing).
A disk that is full makes appends fail, not wait.

`EndedIsRecordedOnce` is what the code does promise; `CarriedIsRecorded` is what its comments promise. They differ
for a relay or a splice that ends in an error, an exchange cut off before its body's end, and a body whose
end is not polled; a query that times out is not recorded either. An end is what the gateway itself sees of one
(`ended`), and what a fault kept from the file is excused (`lost`). What a stop loses is everything in
`Pending`, up to the channel's depth and more, while `AuditWriter`'s comment that a crash loses
"at most the record in flight" is about the writer alone.

`GatewayProofs` proves, from `GatewayAssumption` (at least one place in the channel; connections, queries and packets
are different things), for any number of connections, queries, packets and exchanges and any depth:
`Invariant` (`Inductive`, which contains `TypeOK`), `TypeCorrect`, `SessionsComeFirst` (`SessionBeforeContents`), `AccountsAgree` (`OneAccount`), `RefusalsCarryNothing`
(`RefusedCarriedNothing`), `GreetingsAreTold` (`GreetedIsTold`) and `EndsAreRecorded` (`EndedIsRecordedOnce`). Of the first three and the last none is inductive: each speaks of the file, and a record may spend any time in a task,
in the channel or in the writer's hands first. `Inductive` says of every place a record can be what the properties say of
the last. `RecordsAgree`: whatever is recorded of a connection names the account the connection has now and
belongs to one past its attribution, and a refusal to one that is over or about to be and of which nothing was relayed. `EarlyIsUnreached` and
`AccountKnown` say that a connection comes to that point with nothing relayed and with an account.
`SessionsAhead`: no record of a session is left to a task, and wherever it is, what comes before it is not
its own contents. The argument has two halves. `ConnectionsGoForward` goes through the actions of a connection and finds that
each sends it `Forwards` (it is attributed once, and never refused and then relayed) and sends at most one
record that `Agrees` with where it then is. `ConnectionsKeep`, `QueriesKeep`, `PacketsKeep`, `WriterKeeps`, `SpawnedKeep` and
`StoppingKeeps` show that this is enough, by way of `Appending`: a record that goes to the end of the channel leaves sessions ahead.

That nothing is recorded twice is again not about the file alone. `OneCopy`: a record is in one place, with the tasks, in the channel, with the
writer or in the file, and there once. `ProducersArePast`: wherever it is, the task that made it will not make it again; its connection is at or past
that record's step, and its exchange is not the one in hand. `EndedIsRecorded` is itself part of the induction: what
ended is in one of those places or was lost. So is `GreetedIsTold`, with `EarlyIsUngreeted`: nobody is greeted before its turn. `Orderly` names the parts that the first three properties rest on.
The liveness of `NobodyIsHeldForEver` is model-checked only.

## 7. `HostBudget`

| variable | in the code |
|---|---|
| `machines[n]` | what the runtime lists: sessions' machines, the builder, other people's; size and state |
| `local[p]` | where `create`, `image::ensure`, `ensure_builder`, `run_detached`, `resume` or `start` waits, with the reservations (`Allocation`) in hand |
| `since`, `disturbed` | histories: which machines others have started since an invocation measured the host, whose builder was touched since |

`Spare`, `CanReserve` and `Suggestion` are `budget.rs` with its saturating `u32` arithmetic (`Sat`, `Less`;
`MaxWord` is the largest word) and the rule that a build is not charged for the builder it replaces
(`Replaces`). A machine is `starting`, `running`, `stopping` or `stopped`, and is charged for while it is starting or running
(`IsUp`, `budget.rs:137`): one that is shutting down is not, though it still has its memory (`inspect.rs:43-44`). `Leave` is any call that
fails, any measurement that refuses and any kill. `GoDown`, `BeDown` and `Vanish` are what happens to machines; `StartForeign`
is somebody who does not ask the budget.

`BudgetTogether` has 2 invocations, 2 sessions, 1 foreign machine; 5 cores and 7 units of memory of which 2
and 2 are reserved, words up to 15, a foreign machine whose memory is more than a word. That leaves three cores and five
units: enough for a sandbox next to a builder made from the halves, and not for a third; odd, so
that halving rounds; and small, so that a share of nothing comes up. Two invocations make each other's
measurement and builder stale. It checks

- `FreshStartFits`: when an invocation starts a machine, what runs and is coming up, without the machines others have started
  since its measurement, is within the host's allowance; so whatever is in excess is exactly what came after, and the half for the builder
  and the half for the sandbox fit together;
- `BuilderAsReserved`: a build begins on a builder of the size reserved for it, unless somebody
  touched the builder since it was looked at;
- `Inductive`, the invariant the proofs rest on: `TypeOK`, which also says which reservations are in memory at which
  step, and `Found`, `Room` and `Positive`, explained below.

`budget.rs:16-19` claims more: "two allocations that each fit on their own can no longer oversubscribe the host
between them". Two invocations that measure before either starts do so all the same, since nothing is reserved
outside an invocation's memory; and a machine that is shutting down is not counted while it still has its memory, so one
allocation next to it can. `FreshStartFits` is what is left of the claim: it takes the machines of `since` out, all of them and no others, and
does not count what is stopping. No run is spent on the stronger statement.

`BudgetProofs` proves `TypeCorrect`, `Invariant` (`Inductive`), `BuildsAsReserved` and `FreshStartsFit`
(`FreshStartFits`) for any invocations, sessions, sizes and hosts, from `BudgetAssumption` (names are different, numbers are numbers) and `ModelValuesAssumption`. `BuildsAsReserved`
needs `Found`: what `ensure_builder` saw still holds from the start of the builder on, for whoever is not in
`disturbed`.

`FreshStartsFit` is the one about numbers. Its part of the invariant, `RoomInv`, says of every invocation what its measurement
left (`Room`), of the runtime without the machines started since by others (`Without(machines, since[p])`): while a machine is being made, what is held now and the
sandbox's half fit what is allowed; so do what is held beside the builder and twice that half; and, while a build is, twice the build's half. From the last two the two halves fit together
when the builder comes up. At a measurement nothing is left out (`WithoutNothing`). After it only a start can take the room away (`RoomStays`, `BeginsOrCalm`); a start of somebody else's
goes into `since`, where it is not seen (`Seen`, `OthersRoom`), and one's own is what the room was for (`ItselfRoom`). `Positive` is there because saturated subtraction makes "nothing left" and "less than
nothing" the same: a size that is granted is not zero, so something was left, and then the difference is exact (`SpareIs`).

What is charged is a fold with saturation, what is held is a sum, and both are recursions over a set. The library's induction
theorems cannot be used for them (they take an operator), but two facts it has about sets can: the numbers are well-founded, and so are the
subsets of a finite set. `Smallest`, `NaturalsByStep` and `SubsetsByStep` turn these into induction over a *set* of the cases that hold;
`FoldExists` gives a fold its value, `SumsExist` makes a sum independent of the order in which `CHOOSE` takes its
elements, and `ChargedIs` says that the charge is the sum as far as a word goes.

## 8. `ImageStage`

| variable | in the code |
|---|---|
| `workspace`, `edits` | the sources on the researcher's disk, and how often they changed |
| `staging[p]` | `staging-<pid>` |
| `settled` | the directories named by a digest |
| `images` | what the runtime holds, by tag: the programs in it |
| `local[p]` | where `stage`, `ensure` or `create` is; the closure so far, what is left to copy, the tag; and, as history, what was edited meanwhile and what was copied |

A crate is its manifest and its sources (a version). `source_closure` and Cargo do not read a manifest alike, so it names crates in two
ways. `deps` is what `guest.rs:85` reads and `guest.rs:161-169` takes: the tables `[dependencies]` and `[build-dependencies]`, with a path that is
`crates/<name>`, as in the workspace's own table. `other` is everything else Cargo follows: `[target.<cfg>.dependencies]`, which the gateway's manifest has (for crates from elsewhere so far), and a path
such as `../x`, which `crate_directory` drops. `Followed` is the closure by the first, which the digest uses; `Compiled` the closure by both, which the builder
compiles. The comment at `guest.rs:56-61` takes the two for one. The digest is what was digested: all
manifests, and the sources of the crates in the closure; collisions are left out. `Compiled` is taken of the copied manifests, which need not
be those `source_closure` found in the workspace before. One crate is read or copied at a time and the researcher may save between any two. A process that
is killed leaves its directory to whoever is given its number (`Leave`, `Clear`).

`StagingTogether`: 2 processes, 2 crates (a guest program, and one that it may come to depend on, may be edited
and may go away), 2 edits. Two edits are the least that can change something and change it back, or change a manifest and
then the sources. It checks

- `BuiltAsStaged`: an invocation during whose staging no manifest changed runs an image of the crates it staged, and of exactly the sources it
  staged of every crate the closure follows, whoever built it, when, and whatever was edited then;
- `StagedAsFound`: one undisturbed while staging has staged the workspace, with nothing left of a killed process, and has named it by
  all manifests and the sources the closure follows in it;
- `SettledNeverChanges`: a directory with a name does not change under a builder.

Two things are outside that. A manifest that is edited between `source_closure` and the copy can give a digest that leaves out sources that are
compiled; the history `edited` is there to say so. And the sources of a crate that is compiled but not followed are in no digest: when only they
change, the name stays and the old image is run. `SmallContents` lets the guest program name the other crate in either way, and TLC does reach such a stale image; `BuiltAsStaged` is
about the crates of `Followed` for that reason.

`StageProofs` proves the three, `RunsAllItStaged` (of a staged context all of whose compiled crates are followed the image is built of nothing but what was staged) and `TypeCorrect`, for any processes, crates, versions and edits, from
`StageAssumption` and `NothingAssumption`. The heart is `DigestTells`: contexts of the same digest, taken over the closure of
one of them, have the same crates compiled and the same sources of all that is followed; whence `SettledAreNamed` and `ImagesAreBuilt` carry what a tag promises to whoever
finds it. `Follows` is the loop invariant of `source_closure`, `Copies` that of the copy, `Names` what the two
amount to.

## 9. `AuditTrail`, `EgressPolicy`, `GuestMachine`

| variable | in the code |
|---|---|
| `step` | the command of `entrypoint.sh` that is next |
| `rules`, `capable` | the commands of `egress-policy.sh` that are in force; whether what is started may still change them |
| `disk` | key and certificate of the authority, the installed copy, the bundle programs trust |
| `loader` | where `load_or_create` is, in `init-ca` or `serve`, and what it has in memory |
| `gateway` | where `serve` is |
| `created`, `host` | whether there is a machine; the invocation that waits for it, and whether its session is recorded |
| `trail`, `rest`, `begun` | the file in pieces; what `write_all` has still to write; records so far |
| `follower` | the `audit` command: how far `tail` is, the line so far, what was printed |
| `acknowledged`, `cut` | histories: records whose append returned, and those whose never will |

A line is three pieces, head, tail and newline, so that a write can be cut within the record and before its end. An
authority is one value for a key and its certificate; a file that was opened and not written is `Torn`. `EgressPolicy` has
the 19 commands as data, and what iptables makes of a packet when any set of them is in force; a packet is its sender, protocol,
family, destination and whether it is a reply. What a stopped machine loses is its memory: files are taken to be
durable in the order they were written.

`GuestBoots`: 2 records, followers that ask for the last one or two lines, raw or parsed, 2 authorities. Two records are the
least of which one can be glued to another; two authorities are the least that can be mixed up; a machine may stop
and start any number of times, and the filter is installed one command at a time. It checks

- `NothingUnseen`: while a session can run the filter is whole and not its to change, and every packet it sends
  outside is given to the gateway's sockets, or logged and dropped; also before the gateway is listening and after it has died;
- `SessionTrustsGateway`: the gateway of a session signs with the authority its programs trust;
- `RecordedHasAuthority`, `AuthorityStays`: a machine that was killed while its authority was being made can never
  start a session again, and is never one whose session is recorded; an authority that is whole stays;
- `AcknowledgedIsALine`: what was appended stays readable as a line of its own, but for the one directly after a cut append;
- `PrintedAsRecorded`: a follower's output is the trail, line for line and without a gap;
- `FollowedIsShown`: a record that begins while somebody follows is shown, unless it is cut or the command ends.

Fairness: the writer writes on while the gateway serves, and the reader reads what there is. Both are calls that return,
and a disk that is full fails. Nothing is assumed of the machine, the gateway's life, or the researcher; the
liveness property has their ends as exceptions.

Where the text of the repository and the code differ here, the properties say what the code does. `io.rs:9-11`
says that a crash loses at most the record in flight: the next one is appended to the fragment, does not
parse, and ends a follower that is not `--raw` (`AcknowledgedIsALine` has the condition). `audit.rs:33` speaks of a
rotation that nothing performs. `ca.rs:36-38` says that the entrypoint tells by the certificate whether the authority is there: it
tests nothing, and runs `init-ca` at every boot. `--lines 0` is left out: it begins wherever the file happens to end.

`TrailProofs` and `GuestProofs` prove, for any authorities and any number of records, from `TrailAssumption` and
`GuestAssumption`: `TypeCorrect`, `NothingLeavesUnseen`, `GatewayIsTrusted`, `RecordedNeverWedged`, `AuthorityIsForEver` and
`AcknowledgedLasts`. The filter: `FilterInv` says that commands are in force in their order, and all of them past the script;
that all of them do what `NothingUnseen` says is a calculation over the rules a session's packets match.
The authority: `DiskShape` (the key first, then a certificate that is its own) with `Making` and `Having` (what `load_or_create` has in memory
against what is on disk, before and after it), and `Trusted`, `RecordedIsWhole`, which follow the step of the entrypoint. The trail:
`EndsClean` and `ContinuesItsLine` say where the next piece will fall, and `AcknowledgedStands` that what has its
newline is not written over.

`FollowedAsRecorded` (`PrintedAsRecorded`) relates two sequences that grow at their own pace. The file: no line is blank, and what is
being appended has begun with text (`FileInv`). The reader: there is a place in the file for each line printed, each directly after the one
before (`StandFrom`), and the line in hand stands where the last of them ended (`LineStands`, `GoesOn`); together `Reads`. What is appended
moves none of that, and a piece that is read makes the line longer or puts one more place at the end, so that no recursion over the file
is needed. Only `FollowedIsShown` is model-checked alone.

## 10. What is only model-checked

Liveness, which is out of the prover's reach: `OpensOrRefuses`, `ReachesCodexOrReturns`, `LoanEndsWithClaude`, `NobodyIsHeldForEver` and
`FollowedIsShown` hold on the instances described above, and for no others by anything shown here. Every other property of a
passing run is also a theorem, some under the hypotheses named with them: `DrawsRepeat = FALSE`, `Interrupts = FALSE`,
one invocation at a time (of `CodexProofs`), `Supplied`.
They are hypotheses of the theorem and not of the module, so that TLC checks each property where its run says.

## 11. Not modelled

Rendering of templates and command lines (`render.rs`, `spec.rs`), parsing of the runtime's JSON (`inspect.rs`), the terminal picker, the hand-off
of keys, argument parsing, what records say and how they are printed, TLS and HTTP byte handling, and what an image
contains. They are sequential transformations of data without shared state, and the repository's unit tests are the
right tool for them. The runtime's services (`ensure_services`) only refuse. The kernel, Cargo, `container`, ssh and
tokio are modelled by what the code relies on.
