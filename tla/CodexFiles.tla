----------------------------- MODULE CodexFiles -----------------------------
(***************************************************************************)
(* Runs of `cyber-sandbox codex` borrowing Codex's configuration, and      *)
(* reclamation taking leftovers out of it.                                 *)
(*                                                                         *)
(* An edit reads the file, changes the document in memory, truncates and   *)
(* writes a staging file beside it, and renames that over the file.  The   *)
(* staging file's name is the same for everybody (lib.rs write_file), and  *)
(* a rename moves the file under whoever still has it open.                *)
(***************************************************************************)
CONSTANTS
  Process,      \* invocations that may be running at one time
  Session, Own, None,
  Garbled,      \* contents that are not TOML: one write on top of another
  Interrupts,   \* whether an invocation can be killed, or fail on I/O
  Recall        \* whether the history variable is kept; off where none reads it

VARIABLES
  content,      \* what is at the path of each file
  staging,      \* what is at its staging path
  local,        \* each invocation's own state
  found         \* the files when nobody was last at work on them (history)

Files == INSTANCE CodexEdits WITH files <- content

ASSUME CodexAssumption ==
  /\ Own \notin Session
  /\ None \notin Session \cup {Own}
  /\ Garbled \notin Files!Document
  /\ None \notin Files!Document
  /\ {Interrupts, Recall} \subseteq BOOLEAN

vars == <<content, staging, local, found>>

Content == Files!Document \cup {Garbled}
Contents == [Files!File -> Content]

\* Mutant of After: the directory is not trusted.
AfterUntrusting ==
  [register |-> "selected", trust |-> "selected", selected |-> "select",
   select |-> "spawn", spawn |-> "codex", codex |-> "restore",
   restore |-> "unregister", unregister |-> "distrust", distrust |-> "idle"]

\* codex::run from the first edit to the last; removal has only the last two.
After ==
  [register |-> "trust", trust |-> "selected", selected |-> "select",
   select |-> "spawn", spawn |-> "codex", codex |-> "restore",
   restore |-> "unregister", unregister |-> "distrust", distrust |-> "idle"]

Local ==
  [step     : DOMAIN After \cup {"idle"},
   phase    : {"read", "open", "write", "rename"},  \* within an edit
   session  : Session \cup {None},
   document : Files!Document,                 \* the document in memory
   writes   : {"staging", "path", "lost"},    \* where the file it opened is
   previous : Session \cup {Own, None},       \* the default to put back
   removal  : BOOLEAN]                        \* reclaims a session, runs nothing

Idle ==
  [step |-> "idle", phase |-> "read", session |-> None,
   document |-> Files!Blank, writes |-> "lost", previous |-> None,
   removal |-> FALSE]

Init ==
  /\ Files!Init
  /\ staging = [f \in Files!File |-> None]
  /\ local = [p \in Process |-> Idle]
  /\ found = content

Editing(p) == local[p].step \notin {"idle", "spawn", "codex"}
FileOf(p) ==
  IF local[p].step \in {"trust", "distrust"} THEN "config" ELSE "environments"

\* p's state on to its next step; after the last it returns.
Advanced(l) ==
  IF l.step = "distrust" THEN Idle
  ELSE [l EXCEPT !.step = After[l.step], !.phase = "read",
                 !.previous = IF l.step = "restore" THEN None ELSE @]

Advance(p) == local' = [local EXCEPT ![p] = Advanced(@)]
Return(p) == local' = [local EXCEPT ![p] = Idle]

-----------------------------------------------------------------------------
(***************************************************************************)
(* How a run and a removal begin.                                          *)
(***************************************************************************)
AllIdle == \A p \in Process : local[p].step = "idle"

\* The first to begin notes what the files hold.
Remember == found' = IF Recall /\ AllIdle THEN content ELSE found

Start(p, s) ==
  /\ local[p].step = "idle"
  /\ local' = [local EXCEPT
       ![p] = [Idle EXCEPT !.step = "register", !.session = s]]
  /\ Remember
  /\ UNCHANGED <<content, staging>>

\* reclaim::remove(), of any session: one that is open is not a candidate
\* when the candidates are chosen, and may be by the time it is removed.
Reclaim(p, s) ==
  /\ local[p].step = "idle"
  /\ local' = [local EXCEPT
       ![p] = [Idle EXCEPT !.step = "unregister", !.session = s,
                           !.removal = TRUE]]
  /\ Remember
  /\ UNCHANGED <<content, staging>>

-----------------------------------------------------------------------------
(***************************************************************************)
(* One edit: TomlFile::read, the change, and write_file.                   *)
(***************************************************************************)
\* What an invocation in the state l makes of the document d.
Edited(l, d) ==
  CASE l.step \in {"register", "trust"} -> Files!Adding(d, l.session)
    [] l.step \in {"unregister", "distrust"} -> Files!Dropping(d, l.session)
    [] l.step = "select" -> Files!Selecting(d, l.session)
    [] l.step = "restore" -> Files!Selecting(d, l.previous)

\* Removing what is not there writes nothing.
NothingToDo(l, d) ==
  l.step \in {"unregister", "distrust"} /\ l.session \notin d.entries

\* Mutant of Read: a session left as the default is remembered.
ReadRemembering(p) ==
  /\ Editing(p)
  /\ local[p].phase = "read"
  /\ content[FileOf(p)] # Garbled
  /\ LET d == content[FileOf(p)] IN
       IF local[p].step = "selected"
         THEN local' = [local EXCEPT ![p] =
                [Advanced(@) EXCEPT !.previous = d.default]]
         ELSE IF NothingToDo(local[p], d)
                THEN Advance(p)
                ELSE local' = [local EXCEPT ![p].phase = "open",
                                            ![p].document = Edited(local[p], d)]
  /\ UNCHANGED <<content, staging, found>>

\* preselect() drops a default that is itself a session's id.
Read(p) ==
  /\ Editing(p)
  /\ local[p].phase = "read"
  /\ content[FileOf(p)] # Garbled
  /\ LET d == content[FileOf(p)] IN
       IF local[p].step = "selected"
         THEN local' = [local EXCEPT ![p] =
                [Advanced(@) EXCEPT
                   !.previous = IF d.default \in Session THEN None
                                                         ELSE d.default]]
         ELSE IF NothingToDo(local[p], d)
                THEN Advance(p)
                ELSE local' = [local EXCEPT ![p].phase = "open",
                                            ![p].document = Edited(local[p], d)]
  /\ UNCHANGED <<content, staging, found>>

\* Mutants of Open: the file itself is opened; a leftover is not truncated.
OpenInPlace(p) ==
  /\ Editing(p)
  /\ local[p].phase = "open"
  /\ content' = [content EXCEPT ![FileOf(p)] = Files!Blank]
  /\ staging' = [staging EXCEPT ![FileOf(p)] = Files!Blank]
  /\ local' = [local EXCEPT ![p].phase = "write", ![p].writes = "staging"]
  /\ UNCHANGED found

OpenKeeping(p) ==
  /\ Editing(p)
  /\ local[p].phase = "open"
  /\ staging' = [staging EXCEPT ![FileOf(p)] = IF @ = None THEN Files!Blank ELSE @]
  /\ local' = [local EXCEPT ![p].phase = "write", ![p].writes = "staging"]
  /\ UNCHANGED <<content, found>>

\* tokio::fs::write() creates or truncates the staging file ...
Open(p) ==
  /\ Editing(p)
  /\ local[p].phase = "open"
  /\ staging' = [staging EXCEPT ![FileOf(p)] = Files!Blank]
  /\ local' = [local EXCEPT ![p].phase = "write", ![p].writes = "staging"]
  /\ UNCHANGED <<content, found>>

\* What becomes of a file that held c when d is written from its start.
Overwritten(c, d) == IF c \in {Files!Blank, d} THEN {d} ELSE {d, Garbled}

\* ... and writes to the file it opened, which may have been renamed since.
Write(p) ==
  /\ Editing(p)
  /\ local[p].phase = "write"
  /\ LET f == FileOf(p)
         d == local[p].document IN
       CASE local[p].writes = "staging" ->
              /\ \E c \in Overwritten(staging[f], d) :
                   staging' = [staging EXCEPT ![f] = c]
              /\ UNCHANGED content
         [] local[p].writes = "path" ->
              /\ \E c \in Overwritten(content[f], d) :
                   content' = [content EXCEPT ![f] = c]
              /\ UNCHANGED staging
         [] local[p].writes = "lost" -> UNCHANGED <<content, staging>>
  /\ local' = [local EXCEPT ![p].phase = "rename", ![p].writes = "lost",
                           ![p].document = Files!Blank]
  /\ UNCHANGED found

\* Where a file is that others have open, once the staging file is renamed.
Moved(place) == IF place = "staging" THEN "path" ELSE "lost"

Rename(p) ==
  /\ Editing(p)
  /\ local[p].phase = "rename"
  /\ staging[FileOf(p)] # None
  /\ content' = [content EXCEPT ![FileOf(p)] = staging[FileOf(p)]]
  /\ staging' = [staging EXCEPT ![FileOf(p)] = None]
  /\ local' = [q \in Process |->
       IF q = p THEN Advanced(local[p])
       ELSE IF Editing(q) /\ FileOf(q) = FileOf(p)
              THEN [local[q] EXCEPT !.writes = Moved(@)]
              ELSE local[q]]
  /\ UNCHANGED found

\* The file does not parse, or the staging file has been renamed by another.
\* Either ends the run there, whatever is left to hand back.
Fails(p) ==
  /\ Editing(p)
  /\ \/ local[p].phase = "read" /\ content[FileOf(p)] = Garbled
     \/ local[p].phase = "rename" /\ staging[FileOf(p)] = None

\* Mutant of Fail: the call is made again until it succeeds.
FailAgain(p) == Fails(p) /\ UNCHANGED vars

Fail(p) ==
  /\ Fails(p)
  /\ Return(p)
  /\ UNCHANGED <<content, staging, found>>

-----------------------------------------------------------------------------
(***************************************************************************)
(* Codex itself, and ways a run ends early.                                *)
(***************************************************************************)
\* Codex reads both files as it starts; if it cannot start, what was
\* borrowed is handed back all the same.
Spawn(p) ==
  /\ local[p].step = "spawn"
  /\ Advance(p)
  /\ UNCHANGED <<content, staging, found>>

SpawnFails(p) ==
  /\ local[p].step = "spawn"
  /\ local' = [local EXCEPT ![p].step = "restore"]
  /\ UNCHANGED <<content, staging, found>>

\* Codex ends; the signals that end it do not end its parent.
Exit(p) ==
  /\ local[p].step = "codex"
  /\ Advance(p)
  /\ UNCHANGED <<content, staging, found>>

Kill(p) ==
  /\ Interrupts
  /\ local[p].step # "idle"
  /\ Return(p)
  /\ UNCHANGED <<content, staging, found>>

Progress(p) ==
  \/ Read(p) \/ Open(p) \/ Write(p) \/ Rename(p) \/ Fail(p)
  \/ Spawn(p) \/ SpawnFails(p)

Next ==
  \E p \in Process :
    \/ \E s \in Session : Start(p, s) \/ Reclaim(p, s)
    \/ Progress(p) \/ Exit(p) \/ Kill(p)

Spec == Init /\ [][Next]_vars

\* A file operation returns; nothing makes Codex end, or a run begin.
FairSpec == Spec /\ \A p \in Process : WF_vars(Progress(p))

-----------------------------------------------------------------------------
TypeOK ==
  /\ content \in Contents
  /\ staging \in [Files!File -> Content \cup {None}]
  /\ local \in [Process -> Local]
  /\ found \in Contents

(***************************************************************************)
(* One invocation at a time.                                               *)
(***************************************************************************)
\* Every change of a file is one edit of what it held, whatever is killed on
\* the way: the researcher's own entries are never lost and no file is ever
\* half written.  (lib.rs write_file.)
ImplementsEdits == Files!Spec

\* The files offer the session s to Codex.
Offers(s) ==
  /\ \A f \in Files!File : content[f] # Garbled /\ s \in content[f].entries
  /\ content["environments"].default = s

\* Codex starts with its own session registered, trusted and preselected,
\* whatever earlier runs left behind.  (codex.rs run.)
OpensOnItsSession ==
  [][\A p \in Process : Spawn(p) => Offers(local[p].session)]_vars

\* p's last edit, with which it returns.
Finishes(p) ==
  /\ local[p].step = "distrust"
  /\ Read(p) \/ Rename(p)
  /\ local'[p].step = "idle"

\* What c is once s is taken back out of it.
Without(c, s) ==
  [environments |->
     [default |-> IF c["environments"].default \in Session
                    THEN None ELSE c["environments"].default,
      entries |-> c["environments"].entries \ {s}],
   config |-> Files!Dropping(c["config"], s)]

\* A run that ends of itself leaves both files as it found them, but for
\* what an earlier run on the same session, or one that was killed, had left
\* in them.  (codex.rs restore.)
HandedBackAsFound ==
  [][\A p \in Process :
       (Finishes(p) /\ ~local[p].removal) =>
         content' = Without(found, local[p].session)]_vars

\* A run that was killed never makes a later one fail.  (lib.rs write_file.)
KillsDoNotWedge == \A p \in Process : ~Fails(p)

(***************************************************************************)
(* Several at a time.                                                      *)
(***************************************************************************)
\* An invocation comes to the point where Codex runs, or returns, whatever
\* the others do to the files.
ReachesCodexOrReturns ==
  \A p \in Process :
    local[p].step # "idle" ~> local[p].step \in {"codex", "idle"}
=============================================================================
