---------------------------- MODULE CodexProofs -----------------------------
(***************************************************************************)
(* What TLAPS proves of CodexFiles: that values keep their types whatever  *)
(* several invocations do to one another's staging files, and that         *)
(* invocations which run one at a time carry out whole edits.              *)
(***************************************************************************)
EXTENDS CodexFiles, TLAPS

-----------------------------------------------------------------------------
(***************************************************************************)
(* Types, for any number of invocations.                                   *)
(***************************************************************************)
\* Whoever is at work is so on behalf of a session.
Scoped == \A p \in Process : local[p].step # "idle" => local[p].session \in Session

Typed == TypeOK /\ Scoped

LEMMA EditsAreDocuments ==
  ASSUME NEW d \in Files!Document, NEW s \in Session,
         NEW v \in Session \cup {Own, None}
  PROVE  /\ Files!Adding(d, s) \in Files!Document
         /\ Files!Dropping(d, s) \in Files!Document
         /\ Files!Selecting(d, v) \in Files!Document
         /\ Files!Blank \in Files!Document
BY DEF Files!Document, Files!Adding, Files!Dropping, Files!Selecting, Files!Blank

LEMMA BlankIsDocument == Files!Blank \in Files!Document
BY DEF Files!Document, Files!Blank

LEMMA IdleIsLocal == Idle \in Local
BY BlankIsDocument DEF Idle, Local, After

\* Going on to the next step keeps a proper local state.
LEMMA AdvancedIsLocal ==
  ASSUME NEW l \in Local, l.step # "idle", l.session \in Session
  PROVE  /\ Advanced(l) \in Local
         /\ Advanced(l).step # "idle" => Advanced(l).session = l.session
<1>1. CASE l.step = "distrust"
  BY <1>1, IdleIsLocal DEF Advanced, Idle
<1>2. CASE l.step # "distrust"
  <2>1. /\ l.step \in DOMAIN After
        /\ After[l.step] \in DOMAIN After \cup {"idle"}
    BY DEF Local, After
  <2>2. Advanced(l) =
          [l EXCEPT !.step = After[l.step], !.phase = "read",
                    !.previous = IF l.step = "restore" THEN None ELSE l.previous]
    BY <1>2 DEF Advanced
  <2> QED
    BY <2>1, <2>2 DEF Local
<1> QED
  BY <1>1, <1>2

\* Where each step leads, and what it takes along.
LEMMA AdvancedSteps ==
  ASSUME NEW l \in Local, l.step # "idle"
  PROVE  /\ Advanced(l).phase = "read"
         /\ l.step = "distrust" => Advanced(l) = Idle
         /\ l.step # "distrust" =>
              /\ Advanced(l).step = After[l.step]
              /\ Advanced(l).session = l.session
              /\ Advanced(l).removal = l.removal
              /\ l.step # "restore" => Advanced(l).previous = l.previous
<1>1. CASE l.step = "distrust"
  BY <1>1 DEF Advanced, Idle
<1>2. CASE l.step # "distrust"
  <2>1. Advanced(l) =
          [l EXCEPT !.step = After[l.step], !.phase = "read",
                    !.previous = IF l.step = "restore" THEN None ELSE l.previous]
    BY <1>2 DEF Advanced
  <2> QED
    BY <1>2, <2>1 DEF Local
<1> QED
  BY <1>1, <1>2

LEMMA Order ==
  /\ After["register"] = "trust" /\ After["trust"] = "selected"
  /\ After["selected"] = "select" /\ After["select"] = "spawn"
  /\ After["spawn"] = "codex" /\ After["codex"] = "restore"
  /\ After["restore"] = "unregister" /\ After["unregister"] = "distrust"
BY DEF After

LEMMA EditedIsDocument ==
  ASSUME Typed, NEW p \in Process, Editing(p), local[p].step # "selected",
         NEW d \in Files!Document
  PROVE  Edited(local[p], d) \in Files!Document
<1>1. local[p] \in Local /\ local[p].session \in Session
  BY DEF Typed, TypeOK, Scoped, Editing
<1>2. local[p].step \in
        {"register", "trust", "unregister", "distrust", "select", "restore"}
  BY <1>1 DEF Editing, Local, After
<1> QED
  BY <1>1, <1>2, EditsAreDocuments DEF Edited, Local

\* An edit depends on the step, the session and the default to put back.
LEMMA SameEdit ==
  ASSUME NEW l \in Local, NEW m \in Local, NEW d,
         m.step = l.step, m.session = l.session, m.previous = l.previous
  PROVE  Edited(m, d) = Edited(l, d)
BY DEF Edited

\* Each step's edit.
LEMMA EditedAt ==
  ASSUME NEW l, NEW d
  PROVE  /\ l.step \in {"register", "trust"} =>
              Edited(l, d) = Files!Adding(d, l.session)
         /\ l.step \in {"unregister", "distrust"} =>
              Edited(l, d) = Files!Dropping(d, l.session)
         /\ l.step = "select" => Edited(l, d) = Files!Selecting(d, l.session)
         /\ l.step = "restore" => Edited(l, d) = Files!Selecting(d, l.previous)
BY DEF Edited

LEMMA InitTyped == Init => Typed
BY CodexAssumption, IdleIsLocal
DEF Init, Files!Init, Typed, TypeOK, Scoped, Contents, Content, Files!Document,
    Idle, Files!File

LEMMA NextTyped == Typed /\ [Next]_vars => Typed'
<1> SUFFICES ASSUME Typed, [Next]_vars PROVE Typed'
  OBVIOUS
<1> USE DEF Typed
<1>1. CASE UNCHANGED vars
  BY <1>1 DEF vars, TypeOK, Scoped
<1>2. ASSUME NEW p \in Process, NEW s \in Session, Start(p, s) \/ Reclaim(p, s)
      PROVE  Typed'
  <2>1. local'[p] \in Local /\ local'[p].session = s
    <3>1. local[p] \in Local /\ {"register", "unregister"} \subseteq DOMAIN After
      BY DEF TypeOK, After
    <3>2. CASE Start(p, s)
      BY <3>1, <3>2, IdleIsLocal DEF Start, TypeOK, Local
    <3>3. CASE Reclaim(p, s)
      BY <3>1, <3>3, IdleIsLocal DEF Reclaim, TypeOK, Local
    <3> QED
      BY <1>2, <3>2, <3>3
  <2>2. local' = [local EXCEPT ![p] = local'[p]]
    BY <1>2 DEF Start, Reclaim, TypeOK
  <2> QED
    BY <1>2, <2>1, <2>2 DEF Start, Reclaim, Remember, TypeOK, Scoped
<1>3. ASSUME NEW p \in Process, Read(p)
      PROVE  Typed'
  <2>1. local[p] \in Local /\ local[p].session \in Session /\ local[p].step # "idle"
    BY <1>3 DEF Read, Editing, TypeOK, Scoped
  <2>2. FileOf(p) \in Files!File
    BY DEF FileOf, Files!File
  <2>3. content[FileOf(p)] \in Files!Document
    BY <1>3, <2>2 DEF Read, TypeOK, Contents, Content
  <2>4. /\ local'[p] \in Local
        /\ local'[p].step # "idle" => local'[p].session \in Session
        /\ local' = [local EXCEPT ![p] = local'[p]]
    <3>1. CASE local[p].step = "selected"
      <4>1. content[FileOf(p)].default \in Session \cup {Own, None}
        BY <2>3 DEF Files!Document
      <4> DEFINE d == content[FileOf(p)]
                 default == IF d.default \in Session THEN None ELSE d.default
      <4>2. /\ local' = [local EXCEPT ![p] = [Advanced(@) EXCEPT !.previous = default]]
            /\ default \in Session \cup {Own, None}
        BY <1>3, <3>1, <4>1 DEF Read
      <4>3. Advanced(local[p]) \in Local
        BY <2>1, AdvancedIsLocal
      <4>4. [Advanced(local[p]) EXCEPT !.previous = default] \in Local
        BY <4>2, <4>3 DEF Local
      <4>5. local'[p] = [Advanced(local[p]) EXCEPT !.previous = default]
        BY <4>2 DEF TypeOK
      <4>6. local'[p].step = Advanced(local[p]).step
            /\ local'[p].session = Advanced(local[p]).session
        BY <4>3, <4>5 DEF Local
      <4> QED
        BY <2>1, <4>2, <4>4, <4>5, <4>6, AdvancedIsLocal DEF TypeOK
    <3>2. CASE local[p].step # "selected" /\ NothingToDo(local[p], content[FileOf(p)])
      BY <1>3, <2>1, <3>2, AdvancedIsLocal DEF Read, Advance, TypeOK
    <3>3. CASE local[p].step # "selected" /\ ~NothingToDo(local[p], content[FileOf(p)])
      BY <1>3, <2>1, <2>3, <3>3, EditedIsDocument DEF Read, TypeOK, Local
    <3> QED
      BY <3>1, <3>2, <3>3
  <2> QED
    BY <1>3, <2>4 DEF Read, TypeOK, Scoped
<1>4. ASSUME NEW p \in Process, Open(p)
      PROVE  Typed'
  <2>1. /\ local'[p] \in Local
        /\ local'[p].step = local[p].step /\ local'[p].session = local[p].session
        /\ local' = [local EXCEPT ![p] = local'[p]]
    BY ZenonT(40), <1>4 DEF Open, TypeOK, Local
  <2>2. staging' \in [Files!File -> Content \cup {None}]
    BY <1>4, BlankIsDocument DEF Open, TypeOK, Content
  <2>3. local' \in [Process -> Local] /\ content' = content /\ found' = found
    BY <1>4, <2>1 DEF Open, TypeOK
  <2>4. Scoped'
    BY <2>1 DEF TypeOK, Scoped
  <2> QED
    BY <2>2, <2>3, <2>4 DEF TypeOK
<1>5. ASSUME NEW p \in Process, Write(p)
      PROVE  Typed'
  <2>1. local'[p] \in Local /\ local'[p].step = local[p].step
        /\ local'[p].session = local[p].session
        /\ local' = [local EXCEPT ![p] = local'[p]]
    BY ZenonT(40), <1>5, BlankIsDocument DEF Write, TypeOK, Local
  <2>2. \A c \in Content : Overwritten(c, local[p].document) \subseteq Content
    BY DEF Overwritten, TypeOK, Local, Content
  <2>3. FileOf(p) \in Files!File
    BY DEF FileOf, Files!File
  <2>4. content' \in Contents /\ staging' \in [Files!File -> Content \cup {None}]
    <3>1. CASE local[p].writes = "staging"
      <4>1. PICK c \in Overwritten(staging[FileOf(p)], local[p].document) :
              staging' = [staging EXCEPT ![FileOf(p)] = c] /\ content' = content
        BY <1>5, <3>1 DEF Write
      <4>2. c \in Content
        BY <4>1 DEF Overwritten, TypeOK, Local, Content
      <4> QED
        BY <4>1, <4>2, <2>3 DEF TypeOK
    <3>2. CASE local[p].writes = "path"
      <4>1. PICK c \in Overwritten(content[FileOf(p)], local[p].document) :
              content' = [content EXCEPT ![FileOf(p)] = c] /\ staging' = staging
        BY <1>5, <3>2 DEF Write
      <4>2. c \in Content
        BY <4>1 DEF Overwritten, TypeOK, Local, Content
      <4> QED
        BY <4>1, <4>2, <2>3 DEF TypeOK, Contents
    <3>3. CASE local[p].writes = "lost"
      BY <1>5, <3>3 DEF Write, TypeOK
    <3> QED
      BY <3>1, <3>2, <3>3 DEF TypeOK, Local
  <2> QED
    BY <1>5, <2>1, <2>4 DEF Write, TypeOK, Scoped
<1>6. ASSUME NEW p \in Process, Rename(p)
      PROVE  Typed'
  <2>1. FileOf(p) \in Files!File
    BY DEF FileOf, Files!File
  <2>2. content' \in Contents /\ staging' \in [Files!File -> Content \cup {None}]
    BY <1>6, <2>1 DEF Rename, TypeOK, Contents
  <2>3. \A q \in Process : local'[q] \in Local
          /\ (local'[q].step # "idle" => local'[q].session \in Session)
    <3> TAKE q \in Process
    <3>1. local[q] \in Local
      BY DEF TypeOK
    <3>2. CASE q = p
      BY <1>6, <3>1, <3>2, AdvancedIsLocal DEF Rename, Scoped, Editing
    <3>3. CASE q # p
      BY <1>6, <3>1, <3>3 DEF Rename, Moved, Local, Scoped
    <3> QED
      BY <3>2, <3>3
  <2>4. local' \in [Process -> Local]
    BY <1>6, <2>3 DEF Rename
  <2> QED
    BY <1>6, <2>2, <2>3, <2>4 DEF Rename, TypeOK, Scoped
<1>7. ASSUME NEW p \in Process, Fail(p) \/ Kill(p)
      PROVE  Typed'
  <2>1. local' = [local EXCEPT ![p] = Idle] /\ UNCHANGED <<content, staging, found>>
    BY <1>7 DEF Fail, Kill, Return
  <2>2. Idle.step = "idle"
    BY DEF Idle
  <2> QED
    BY <2>1, <2>2, IdleIsLocal DEF TypeOK, Scoped
<1>8. ASSUME NEW p \in Process, Spawn(p) \/ Exit(p)
      PROVE  Typed'
  BY <1>8, AdvancedIsLocal DEF Spawn, Exit, Advance, TypeOK, Scoped
<1>9. ASSUME NEW p \in Process, SpawnFails(p)
      PROVE  Typed'
  BY <1>9 DEF SpawnFails, TypeOK, Scoped, Local, After
<1> QED
  BY <1>1, <1>2, <1>3, <1>4, <1>5, <1>6, <1>7, <1>8, <1>9 DEF Next, Progress

LEMMA AlwaysTyped == Spec => []Typed
<1> QED
  BY InitTyped, NextTyped, PTL DEF Spec

\* Every variable keeps its type, whichever of several invocations truncates,
\* overwrites or renames the one staging file.  (lib.rs write_file.)
THEOREM CodexTypeCorrect == Spec => []TypeOK
<1>1. Typed => TypeOK
  BY DEF Typed
<1> QED
  BY <1>1, AlwaysTyped, PTL

-----------------------------------------------------------------------------
(***************************************************************************)
(* Invocations that run one at a time, killed anywhere.                    *)
(***************************************************************************)
\* p, alone, finds its files as it left them: what it has in memory, and then
\* in the staging file, is its edit of what the real file holds.
Undisturbed(p) ==
  /\ \A f \in Files!File : content[f] \in Files!Document
  /\ local[p].phase # "read" => Editing(p) /\ local[p].step # "selected"
  /\ local[p].phase \in {"open", "write"} =>
       local[p].document = Edited(local[p], content[FileOf(p)])
  /\ local[p].phase = "write" =>
       local[p].writes = "staging" /\ staging[FileOf(p)] = Files!Blank
  /\ local[p].phase = "rename" =>
       staging[FileOf(p)] = Edited(local[p], content[FileOf(p)])

\* What p's steps up to now have put into the files is there.
Lent(p) ==
  LET s == local[p].session IN
    /\ local[p].step \in {"trust", "selected", "select", "spawn", "codex", "restore"} =>
         s \in content["environments"].entries
    /\ local[p].step \in {"selected", "select", "spawn", "codex", "restore"} =>
         s \in content["config"].entries
    /\ local[p].step \in {"spawn", "codex"} =>
         content["environments"].default = s

Sole(p) == Typed /\ Undisturbed(p) /\ Lent(p)

LEMMA SoleInit ==
  ASSUME NEW p, Process = {p}, Init
  PROVE  Sole(p)
<1>1. Typed
  BY InitTyped
<1>2. local[p] = Idle
  BY DEF Init
<1>3. \A f \in Files!File : content[f] \in Files!Document
  BY DEF Init, Files!Init, Files!Document, Files!File
<1> QED
  BY <1>1, <1>2, <1>3 DEF Sole, Undisturbed, Lent, Idle

\* A step of p other than a rename leaves the files alone.
LEMMA OnlyRenames ==
  ASSUME NEW p, Process = {p}, Sole(p), [Next]_vars
  PROVE  Rename(p) \/ content' = content
<1>1. ~(Write(p) /\ local[p].writes # "staging")
  BY DEF Write, Sole, Undisturbed
<1>2. Write(p) => content' = content
  BY <1>1 DEF Write
<1> QED
  BY <1>2 DEF Next, Progress, vars, Start, Reclaim, Read, Open, Fail, Spawn,
             SpawnFails, Exit, Kill

\* A rename makes p's edit the file's new content.
LEMMA RenameEdits ==
  ASSUME NEW p, Process = {p}, Sole(p), Rename(p)
  PROVE  /\ local[p].step \in
              {"register", "trust", "unregister", "distrust", "select", "restore"}
         /\ content' = [content EXCEPT
              ![FileOf(p)] = Edited(local[p], content[FileOf(p)])]
         /\ local'[p] = Advanced(local[p])
         /\ local[p].session \in Session
         /\ local[p] \in Local
<1>1. local[p] \in Local /\ local[p].session \in Session
  BY DEF Sole, Typed, TypeOK, Scoped, Rename, Editing
<1>2. local[p].step \in
              {"register", "trust", "unregister", "distrust", "select", "restore"}
  BY <1>1 DEF Sole, Undisturbed, Rename, Editing, Local, After
<1> QED
  BY <1>1, <1>2 DEF Rename, Sole, Undisturbed

LEMMA SoleNext ==
  ASSUME NEW p, Process = {p}, Sole(p), [Next]_vars
  PROVE  Sole(p)'
<1> USE DEF Sole
<1>1. Typed'
  BY NextTyped
<1>2. local[p] \in Local /\ local'[p] \in Local
  BY <1>1 DEF Typed, TypeOK
<1> SUFFICES Undisturbed(p)' /\ Lent(p)'
  BY <1>1
<1>3. CASE UNCHANGED vars
  BY <1>3 DEF vars, Undisturbed, Lent, Editing, FileOf
<1>4. CASE \E s \in Session : Start(p, s) \/ Reclaim(p, s)
  <2>1. local'[p].step \in {"register", "unregister"} /\ local'[p].phase = "read"
        /\ content' = content
    BY ZenonT(40), <1>4, <1>2 DEF Start, Reclaim, Typed, TypeOK, Idle
  <2> QED
    BY <2>1 DEF Undisturbed, Lent
<1>5. CASE Read(p)
  <2>1. content' = content /\ staging' = staging
    BY <1>5 DEF Read
  <2>2. CASE local[p].step = "selected"
    <3>1. /\ local'[p].step = "select" /\ local'[p].phase = "read"
          /\ local'[p].session = local[p].session
      <4>1. PICK v : local' = [local EXCEPT ![p] = [Advanced(@) EXCEPT !.previous = v]]
        BY <1>5, <2>2 DEF Read
      <4>2. local'[p] = [Advanced(local[p]) EXCEPT !.previous = v]
        BY <4>1 DEF Typed, TypeOK
      <4>3. Advanced(local[p]) \in Local
        BY <1>2, <2>2, AdvancedIsLocal DEF Typed, Scoped
      <4> QED
        BY <1>2, <2>2, <4>2, <4>3, AdvancedSteps, Order DEF Local
    <3> QED
      BY <2>1, <2>2, <3>1 DEF Undisturbed, Lent
  <2>3. CASE local[p].step # "selected" /\ NothingToDo(local[p], content[FileOf(p)])
    <3>1. local'[p].step \in {"idle", "distrust"} /\ local'[p].phase = "read"
      <4>1. local'[p] = Advanced(local[p])
        BY <1>5, <2>3 DEF Read, Advance, Typed, TypeOK
      <4> QED
        BY <1>2, <2>3, <4>1, AdvancedSteps, Order DEF NothingToDo, Idle
    <3> QED
      BY <2>1, <3>1 DEF Undisturbed, Lent
  <2>4. CASE local[p].step # "selected" /\ ~NothingToDo(local[p], content[FileOf(p)])
    <3>1. /\ local'[p].step = local[p].step /\ local'[p].phase = "open"
          /\ local'[p].session = local[p].session
          /\ local'[p].previous = local[p].previous
          /\ local'[p].document = Edited(local[p], content[FileOf(p)])
      BY <1>5, <1>2, <2>4 DEF Read, Typed, TypeOK, Local
    <3>2. FileOf(p)' = FileOf(p)
      BY <3>1 DEF FileOf
    <3>3. Edited(local'[p], content[FileOf(p)]) = Edited(local[p], content[FileOf(p)])
      BY <1>2, <3>1, SameEdit
    <3> QED
      BY <1>5, <2>1, <2>4, <3>1, <3>2, <3>3 DEF Read, Undisturbed, Lent, Editing
  <2> QED
    BY <2>2, <2>3, <2>4
<1>6. CASE Open(p)
  <2>1. /\ local'[p].step = local[p].step /\ local'[p].phase = "write"
        /\ local'[p].session = local[p].session
        /\ local'[p].previous = local[p].previous
        /\ local'[p].document = local[p].document
        /\ local'[p].writes = "staging"
        /\ content' = content
    BY <1>6, <1>2 DEF Open, Typed, TypeOK, Local
  <2>2. staging'[FileOf(p)] = Files!Blank
    BY <1>6 DEF Open, Typed, TypeOK, FileOf, Files!File
  <2>3. FileOf(p)' = FileOf(p)
    BY <2>1 DEF FileOf
  <2>4. Edited(local'[p], content[FileOf(p)]) = Edited(local[p], content[FileOf(p)])
    BY <1>2, <2>1, SameEdit
  <2> QED
    BY <1>6, <2>1, <2>2, <2>3, <2>4 DEF Open, Undisturbed, Lent, Editing
<1>7. CASE Write(p)
  <2>1. /\ local'[p].step = local[p].step /\ local'[p].phase = "rename"
        /\ local'[p].session = local[p].session
        /\ local'[p].previous = local[p].previous
    BY <1>7, <1>2 DEF Write, Typed, TypeOK, Local
  <2>2. content' = content
    BY <1>7 DEF Write, Undisturbed
  <2>3. staging'[FileOf(p)] = local[p].document
    BY <1>7 DEF Write, Undisturbed, Overwritten, Typed, TypeOK, FileOf, Files!File
  <2>4. FileOf(p)' = FileOf(p)
    BY <2>1 DEF FileOf
  <2>5. Edited(local'[p], content[FileOf(p)]) = Edited(local[p], content[FileOf(p)])
    BY <1>2, <2>1, SameEdit
  <2> QED
    BY <1>7, <2>1, <2>2, <2>3, <2>4, <2>5 DEF Write, Undisturbed, Lent, Editing
<1>8. CASE Rename(p)
  <2>1. local'[p].phase = "read"
    BY <1>8, RenameEdits, AdvancedSteps
  <2>2. \A f \in Files!File : content'[f] \in Files!Document
    <3>1. Edited(local[p], content[FileOf(p)]) \in Files!Document
      BY <1>8, RenameEdits, EditedIsDocument DEF Rename, Undisturbed, FileOf, Files!File
    <3> QED
      BY <1>8, <3>1, RenameEdits DEF Undisturbed, Typed, TypeOK, Contents
  <2>3. Lent(p)'
    <3>1. /\ local'[p].step =
               IF local[p].step = "distrust" THEN "idle" ELSE After[local[p].step]
          /\ local[p].step # "distrust" => local'[p].session = local[p].session
      BY <1>8, RenameEdits, AdvancedSteps DEF Idle
    <3>2. \A f \in Files!File : content[f] \in Files!Document /\ f \in DOMAIN content
      BY DEF Undisturbed, Typed, TypeOK, Contents
    <3>3. CASE local[p].step = "register"
      <4> DEFINE f == FileOf(p)
      <4>1. content' = [content EXCEPT ![f] = Files!Adding(content[f], local[p].session)]
        BY <1>8, <3>3, RenameEdits, EditedAt
      <4>2. f = "environments"
        BY <3>3 DEF FileOf
      <4> QED
        BY <3>1, <3>2, <3>3, <4>1, <4>2, Order
        DEF Lent, Files!Adding, Files!Document, Files!File
    <3>4. CASE local[p].step = "trust"
      <4> DEFINE f == FileOf(p)
      <4>1. content' = [content EXCEPT ![f] = Files!Adding(content[f], local[p].session)]
        BY <1>8, <3>4, RenameEdits, EditedAt
      <4>2. f = "config"
        BY <3>4 DEF FileOf
      <4> QED
        BY <3>1, <3>2, <3>4, <4>1, <4>2, Order
        DEF Lent, Files!Adding, Files!Document, Files!File
    <3>5. CASE local[p].step = "select"
      <4> DEFINE f == FileOf(p)
      <4>1. content' = [content EXCEPT ![f] = Files!Selecting(content[f], local[p].session)]
        BY <1>8, <3>5, RenameEdits, EditedAt
      <4>2. f = "environments"
        BY <3>5 DEF FileOf
      <4> QED
        BY <3>1, <3>2, <3>5, <4>1, <4>2, Order
        DEF Lent, Files!Selecting, Files!Document, Files!File
    <3>6. CASE local[p].step \in {"restore", "unregister", "distrust"}
      <4>1. local'[p].step \in {"unregister", "distrust", "idle"}
        BY <3>1, <3>6, Order
      <4> QED
        BY <4>1 DEF Lent
    <3> QED
      BY <1>8, <3>3, <3>4, <3>5, <3>6, RenameEdits
  <2> QED
    BY <2>1, <2>2, <2>3 DEF Undisturbed
<1>9. CASE Fail(p) \/ Kill(p)
  <2>1. local'[p] = Idle /\ content' = content
    BY <1>9 DEF Fail, Kill, Return, Typed, TypeOK
  <2> QED
    BY <2>1 DEF Undisturbed, Lent, Idle
<1>10. CASE Spawn(p) \/ Exit(p) \/ SpawnFails(p)
  <2>1. /\ local'[p].step \in {"codex", "restore"} /\ local'[p].phase = "read"
        /\ local'[p].session = local[p].session
        /\ content' = content
        /\ local[p].step \in {"spawn", "codex"}
        /\ local'[p].step = "codex" => local[p].step = "spawn"
    <3>1. CASE Spawn(p) \/ Exit(p)
      <4>1. local'[p] = Advanced(local[p]) /\ local[p].step \in {"spawn", "codex"}
            /\ content' = content
        BY <3>1 DEF Spawn, Exit, Advance, Typed, TypeOK
      <4> QED
        BY <1>2, <4>1, AdvancedSteps, Order
    <3>2. CASE SpawnFails(p)
      BY <1>2, <3>2 DEF SpawnFails, Typed, TypeOK, Local, Undisturbed, Editing
    <3> QED
      BY <1>10, <3>1, <3>2
  <2> QED
    BY <2>1 DEF Undisturbed, Lent
<1> QED
  BY <1>3, <1>4, <1>5, <1>6, <1>7, <1>8, <1>9, <1>10 DEF Next, Progress

LEMMA AlwaysSole ==
  ASSUME NEW CONSTANT p, Process = {p}
  PROVE  Spec => []Sole(p)
<1>1. Init => Sole(p)
  BY SoleInit
<1>2. Sole(p) /\ [Next]_vars => Sole(p)'
  BY SoleNext
<1> QED
  BY <1>1, <1>2, PTL DEF Spec

\* Invocations that run one at a time, killed anywhere, change a file only by
\* whole edits of what it holds: they implement CodexEdits.
THEOREM OneAtATimeImplementsEdits ==
  ASSUME NEW CONSTANT p, Process = {p}
  PROVE  Spec => ImplementsEdits
<1>1. Init => Files!Init
  BY DEF Init
<1>2. ASSUME Sole(p), [Next]_vars
      PROVE  [Files!Next]_content
  <2> SUFFICES ASSUME Rename(p) PROVE Files!Next
    BY <1>2, OnlyRenames
  <2> DEFINE f == FileOf(p)
             s == local[p].session
  <2>1. f \in Files!File /\ (local[p].step \in {"select", "restore"} => f = "environments")
    BY DEF FileOf, Files!File
  <2>2. /\ local[p].step \in
              {"register", "trust", "unregister", "distrust", "select", "restore"}
        /\ content' = [content EXCEPT ![f] = Edited(local[p], content[f])]
        /\ s \in Session /\ local[p].previous \in Session \cup {Own, None}
    BY <1>2, RenameEdits DEF Local
  <2>3. CASE local[p].step \in {"register", "trust"}
    <3>1. content' = [content EXCEPT ![f] = Files!Adding(@, s)]
      BY <2>2, <2>3, EditedAt
    <3> QED
      BY <2>1, <2>2, <3>1 DEF Files!Next, Files!Edit
  <2>4. CASE local[p].step \in {"unregister", "distrust"}
    <3>1. content' = [content EXCEPT ![f] = Files!Dropping(@, s)]
      BY <2>2, <2>4, EditedAt
    <3> QED
      BY <2>1, <2>2, <3>1 DEF Files!Next, Files!Edit
  <2>5. CASE local[p].step \in {"select", "restore"}
    <3>1. PICK v \in Session \cup {Own, None} :
            Edited(local[p], content[f]) = Files!Selecting(content[f], v)
      BY <2>2, <2>5, EditedAt
    <3> QED
      BY <2>1, <2>2, <2>5, <3>1 DEF Files!Next, Files!Edit
  <2> QED
    BY <2>2, <2>3, <2>4, <2>5
<1>3. Sole(p) /\ [Next]_vars => [Files!Next]_content
  BY <1>2
<1> QED
  BY <1>1, <1>3, AlwaysSole, PTL DEF Spec, ImplementsEdits, Files!Spec

\* One at a time, no invocation ever meets a file it cannot read or a staging
\* file that is gone, whatever earlier ones were killed in the middle of.
THEOREM OneAtATimeNeverWedges ==
  ASSUME NEW CONSTANT p, Process = {p}
  PROVE  Spec => []KillsDoNotWedge
<1>1. ASSUME Sole(p)
      PROVE  ~Fails(p)
  <2>1. FileOf(p) \in Files!File
    BY DEF FileOf, Files!File
  <2>2. content[FileOf(p)] # Garbled
    BY <1>1, <2>1, CodexAssumption DEF Sole, Undisturbed
  <2>3. ASSUME Editing(p), local[p].phase = "rename"
        PROVE  staging[FileOf(p)] # None
    <3>1. Edited(local[p], content[FileOf(p)]) \in Files!Document
      BY <1>1, <2>1, <2>3, EditedIsDocument DEF Sole, Undisturbed
    <3> QED
      BY <1>1, <2>3, <3>1, CodexAssumption DEF Sole, Undisturbed
  <2> QED
    BY <2>2, <2>3 DEF Fails
<1>2. Sole(p) => KillsDoNotWedge
  BY <1>1 DEF KillsDoNotWedge
<1> QED
  BY <1>2, AlwaysSole, PTL

\* One at a time, Codex starts with its session registered, trusted and
\* preselected (command/codex.rs run).
THEOREM OneAtATimeOpensOnItsSession ==
  ASSUME NEW CONSTANT one, Process = {one}
  PROVE  Spec => OpensOnItsSession
<1> DEFINE Opens == \A p \in Process : Spawn(p) =>
             Offers(local[p].session)
<1>1. Sole(one) => Opens
  BY CodexAssumption DEF Sole, Undisturbed, Lent, Offers, Spawn, Files!File
<1>2. Sole(one) /\ [Next]_vars => [Opens]_vars
  BY <1>1
<1>3. Init => Sole(one)
  BY SoleInit
<1>4. Sole(one) /\ [Next]_vars => Sole(one)'
  BY SoleNext
<1> QED
  BY <1>2, <1>3, <1>4, PTL DEF Spec, OpensOnItsSession
-----------------------------------------------------------------------------
(***************************************************************************)
(* What a run that is not killed hands back.                               *)
(***************************************************************************)
\* The default that a run puts back.
Before ==
  LET d == found["environments"].default IN
    IF d \in Session THEN None ELSE d

\* How the files differ from what they were when p, a run, began: by what
\* its steps up to now have done to them.
Borrowed(p) ==
  LET l == local[p]
      was == found["environments"]
      is == content["environments"]
  IN (l.step # "idle" /\ ~l.removal) =>
       /\ \A f \in Files!File : found[f] \in Files!Document
       /\ l.step = "register" => is.entries = was.entries
       /\ l.step \notin {"register", "distrust"} =>
            is.entries = was.entries \cup {l.session}
       /\ l.step = "distrust" => is.entries = was.entries \ {l.session}
       /\ l.step \in {"register", "trust", "selected", "select"} =>
            is.default = was.default
       /\ l.step \in {"select", "spawn", "codex", "restore"} =>
            l.previous = Before
       /\ l.step \in {"unregister", "distrust"} => is.default = Before
       /\ content["config"].default = found["config"].default
       /\ content["config"].entries =
            IF l.step \in {"register", "trust"}
              THEN found["config"].entries
              ELSE found["config"].entries \cup {l.session}

LEMMA EditFields ==
  ASSUME NEW d \in Files!Document
  PROVE  /\ \A s : /\ Files!Adding(d, s).entries = d.entries \cup {s}
                   /\ Files!Adding(d, s).default = d.default
         /\ \A s : /\ Files!Dropping(d, s).entries = d.entries \ {s}
                   /\ Files!Dropping(d, s).default = d.default
         /\ \A v : /\ Files!Selecting(d, v).entries = d.entries
                   /\ Files!Selecting(d, v).default = v
BY DEF Files!Document, Files!Adding, Files!Dropping, Files!Selecting

\* A run whose files are as they were, and who is where it was.
LEMMA BorrowedStays ==
  ASSUME NEW p, Borrowed(p), content' = content, found' = found,
         local'[p].step = local[p].step,
         local'[p].session = local[p].session,
         local'[p].previous = local[p].previous,
         local'[p].removal = local[p].removal
  PROVE  Borrowed(p)'
<1>1. Before' = Before
  BY DEF Before
<1> QED
  BY <1>1 DEF Borrowed

\* What a rename does to the two files, by step.
LEMMA RenameFields ==
  ASSUME NEW p, Process = {p}, Sole(p), Rename(p)
  PROVE  LET s == local[p].session
             e == content["environments"]
             c == content["config"]
         IN /\ local[p].step = "register" =>
                 /\ content'["config"] = c
                 /\ content'["environments"].entries = e.entries \cup {s}
                 /\ content'["environments"].default = e.default
            /\ local[p].step = "trust" =>
                 /\ content'["environments"] = e
                 /\ content'["config"].entries = c.entries \cup {s}
                 /\ content'["config"].default = c.default
            /\ local[p].step = "select" =>
                 /\ content'["config"] = c
                 /\ content'["environments"].entries = e.entries
            /\ local[p].step = "restore" =>
                 /\ content'["config"] = c
                 /\ content'["environments"].entries = e.entries
                 /\ content'["environments"].default = local[p].previous
            /\ local[p].step = "unregister" =>
                 /\ content'["config"] = c
                 /\ content'["environments"].entries = e.entries \ {s}
                 /\ content'["environments"].default = e.default
            /\ local[p].step = "distrust" =>
                 /\ content'["environments"] = e
                 /\ content'["config"] = Files!Dropping(c, s)
<1> DEFINE s == local[p].session
           f == FileOf(p)
           d == content[f]
<1>1. /\ \A g \in Files!File : content[g] \in Files!Document
      /\ DOMAIN content = Files!File
  BY DEF Sole, Undisturbed, Typed, TypeOK, Contents
<1>2. f \in Files!File /\ {"environments", "config"} = Files!File
  BY DEF FileOf, Files!File
<1>3. d \in Files!Document
  BY <1>1, <1>2
<1>4. /\ content'[f] = Edited(local[p], d)
      /\ \A g \in Files!File : g # f => content'[g] = content[g]
  BY <1>1, <1>2, RenameEdits
<1>5. f = IF local[p].step \in {"trust", "distrust"} THEN "config"
          ELSE "environments"
  BY DEF FileOf
<1> HIDE DEF f
<1>6. CASE local[p].step \in {"register", "trust"}
  <2>1. content'[f] = Files!Adding(d, s)
    BY <1>4, <1>6, EditedAt
  <2>2. /\ content'[f].entries = d.entries \cup {s}
        /\ content'[f].default = d.default
    BY <1>3, <2>1, EditFields
  <2> QED
    BY <1>2, <1>4, <1>5, <1>6, <2>2
<1>7. CASE local[p].step \in {"unregister", "distrust"}
  <2>1. content'[f] = Files!Dropping(d, s)
    BY <1>4, <1>7, EditedAt
  <2>2. /\ content'[f].entries = d.entries \ {s}
        /\ content'[f].default = d.default
    BY <1>3, <2>1, EditFields
  <2> QED
    BY <1>2, <1>4, <1>5, <1>7, <2>1, <2>2
<1>8. CASE local[p].step \in {"select", "restore"}
  <2>1. PICK v : /\ content'[f] = Files!Selecting(d, v)
                 /\ local[p].step = "restore" => v = local[p].previous
    BY <1>4, <1>8, EditedAt
  <2>2. content'[f].entries = d.entries /\ content'[f].default = v
    BY <1>3, <2>1, EditFields
  <2> QED
    BY <1>2, <1>4, <1>5, <1>8, <2>1, <2>2
<1> QED
  BY <1>6, <1>7, <1>8, RenameEdits

LEMMA BorrowedNext ==
  ASSUME NEW p, Process = {p}, Recall = TRUE, Sole(p), Borrowed(p),
         [Next]_vars
  PROVE  Borrowed(p)'
<1>1. local[p] \in Local /\ local'[p] \in Local /\ Typed
  BY NextTyped DEF Sole, Typed, TypeOK
<1>2. \A f \in Files!File : content[f] \in Files!Document
  BY DEF Sole, Undisturbed
<1>3. CASE UNCHANGED vars
  BY <1>3, BorrowedStays DEF vars
<1>4. CASE \E s \in Session : Start(p, s)
  <2>1. local'[p].step = "register" /\ content' = content /\ found' = content
    BY <1>1, <1>4
    DEF Start, Remember, AllIdle, Typed, TypeOK, Idle
  <2> QED
    BY <1>2, <2>1 DEF Borrowed
<1>5. CASE \E s \in Session : Reclaim(p, s)
  <2>1. local'[p].removal = TRUE
    BY <1>1, <1>5 DEF Reclaim, Typed, TypeOK, Idle
  <2> QED
    BY <2>1 DEF Borrowed
<1>6. CASE Read(p)
  <2>1. content' = content /\ found' = found
    BY <1>6 DEF Read
  <2>2. Before' = Before
    BY <2>1 DEF Before
  <2>3. CASE local[p].step = "selected"
    <3> DEFINE d == content["environments"]
               v == IF d.default \in Session THEN None ELSE d.default
    <3>1. local' = [local EXCEPT ![p] = [Advanced(@) EXCEPT !.previous = v]]
      BY <1>6, <2>3 DEF Read, FileOf
    <3>2. local'[p] = [Advanced(local[p]) EXCEPT !.previous = v]
      BY <1>1, <3>1 DEF Typed, TypeOK
    <3>3. Advanced(local[p]) \in Local
      BY <1>1, <2>3, AdvancedIsLocal DEF Typed, Scoped
    <3> HIDE DEF v
    <3>4. /\ local'[p].step = "select" /\ local'[p].previous = v
          /\ local'[p].session = local[p].session
          /\ local'[p].removal = local[p].removal
      BY <1>1, <2>3, <3>2, <3>3, AdvancedSteps, Order DEF Local
    <3>5. ~local[p].removal => d.default = found["environments"].default
      BY <2>3 DEF Borrowed
    <3>6. ~local[p].removal => v = Before
      BY <3>5 DEF v, Before
    <3> QED
      BY <2>1, <2>2, <2>3, <3>4, <3>6 DEF Borrowed
  <2>4. CASE local[p].step # "selected" /\ NothingToDo(local[p], content[FileOf(p)])
    <3>1. /\ local[p].step \in {"unregister", "distrust"}
          /\ local[p].session \notin content[FileOf(p)].entries
      BY <2>4 DEF NothingToDo
    <3>2. local[p].removal
      BY <3>1 DEF Borrowed, FileOf
    <3>3. local'[p] = Advanced(local[p])
      BY <1>1, <1>6, <2>4 DEF Read, Advance, Typed, TypeOK
    <3>4. local'[p].step = "idle" \/ local'[p].removal
      BY <1>1, <3>1, <3>2, <3>3, AdvancedSteps DEF Idle
    <3> QED
      BY <3>4 DEF Borrowed
  <2>5. CASE local[p].step # "selected" /\ ~NothingToDo(local[p], content[FileOf(p)])
    <3>1. /\ local'[p].step = local[p].step
          /\ local'[p].session = local[p].session
          /\ local'[p].previous = local[p].previous
          /\ local'[p].removal = local[p].removal
      BY <1>1, <1>6, <2>5 DEF Read, Typed, TypeOK, Local
    <3> QED
      BY <2>1, <3>1, BorrowedStays
  <2> QED
    BY <2>3, <2>4, <2>5
<1>7. CASE Open(p) \/ Write(p)
  <2>1. content' = content
    BY <1>7, OnlyRenames DEF Open, Write, Sole, Undisturbed
  <2>2. /\ local'[p].step = local[p].step
        /\ local'[p].session = local[p].session
        /\ local'[p].previous = local[p].previous
        /\ local'[p].removal = local[p].removal
    <3>1. CASE Open(p)
      BY <1>1, <3>1 DEF Open, Typed, TypeOK, Local
    <3>2. CASE Write(p)
      BY <1>1, <3>2 DEF Write, Typed, TypeOK, Local
    <3> QED
      BY <1>7, <3>1, <3>2
  <2>3. found' = found
    BY <1>7 DEF Open, Write
  <2> QED
    BY <2>1, <2>2, <2>3, BorrowedStays
<1>8. CASE Rename(p)
  <2>1. /\ local'[p] = Advanced(local[p]) /\ found' = found
        /\ local[p].step \in
              {"register", "trust", "unregister", "distrust", "select", "restore"}
    BY <1>8, RenameEdits DEF Rename
  <2>2. Before' = Before
    BY <2>1 DEF Before
  <2>3. local[p].step # "distrust" =>
          /\ local'[p].step = After[local[p].step]
          /\ local'[p].session = local[p].session
          /\ local'[p].removal = local[p].removal
          /\ local[p].step # "restore" => local'[p].previous = local[p].previous
    BY <1>1, <2>1, AdvancedSteps
  <2>4. CASE local[p].step = "register"
    <3>1. local'[p].step = "trust"
      BY <2>3, <2>4, Order
    <3> QED
      BY <1>8, <2>1, <2>3, <2>4, <3>1, RenameFields DEF Borrowed
  <2>5. CASE local[p].step = "trust"
    <3>1. local'[p].step = "selected"
      BY <2>3, <2>5, Order
    <3> QED
      BY <1>8, <2>1, <2>3, <2>5, <3>1, RenameFields DEF Borrowed
  <2>6. CASE local[p].step = "select"
    <3>1. local'[p].step = "spawn"
      BY <2>3, <2>6, Order
    <3> QED
      BY <1>8, <2>1, <2>2, <2>3, <2>6, <3>1, RenameFields DEF Borrowed
  <2>7. CASE local[p].step = "restore"
    <3>1. local'[p].step = "unregister"
      BY <2>3, <2>7, Order
    <3> QED
      BY <1>8, <2>1, <2>2, <2>3, <2>7, <3>1, RenameFields DEF Borrowed
  <2>8. CASE local[p].step = "unregister"
    <3>1. local'[p].step = "distrust"
      BY <2>3, <2>8, Order
    <3>2. ~local[p].removal =>
            (found["environments"].entries \cup {local[p].session})
              \ {local[p].session}
              = found["environments"].entries \ {local[p].session}
      OBVIOUS
    <3> QED
      BY <1>8, <2>1, <2>2, <2>3, <2>8, <3>1, <3>2, RenameFields DEF Borrowed
  <2>9. CASE local[p].step = "distrust"
    <3>1. local'[p].step = "idle"
      BY <1>1, <2>1, <2>9, AdvancedSteps DEF Idle
    <3> QED
      BY <3>1 DEF Borrowed
  <2> QED
    BY <2>1, <2>4, <2>5, <2>6, <2>7, <2>8, <2>9
<1>9. CASE Fail(p) \/ Kill(p)
  <2>1. local'[p].step = "idle"
    BY <1>9 DEF Fail, Kill, Return, Typed, TypeOK, Sole, Idle
  <2> QED
    BY <2>1 DEF Borrowed
<1>10. CASE Spawn(p) \/ Exit(p) \/ SpawnFails(p)
  <2>1. /\ local'[p].step \in {"codex", "restore"}
        /\ local'[p].session = local[p].session
        /\ local'[p].previous = local[p].previous
        /\ local'[p].removal = local[p].removal
        /\ local[p].step \in {"spawn", "codex"}
        /\ content' = content /\ found' = found
    <3>1. CASE Spawn(p) \/ Exit(p)
      <4>1. /\ local'[p] = Advanced(local[p])
            /\ local[p].step \in {"spawn", "codex"}
            /\ content' = content /\ found' = found
        BY <1>1, <3>1 DEF Spawn, Exit, Advance, Typed, TypeOK
      <4> QED
        BY <1>1, <4>1, AdvancedSteps, Order
    <3>2. CASE SpawnFails(p)
      BY <1>1, <3>2 DEF SpawnFails, Typed, TypeOK, Local
    <3> QED
      BY <1>10, <3>1, <3>2
  <2>2. Before' = Before
    BY <2>1 DEF Before
  <2> QED
    BY <2>1, <2>2 DEF Borrowed
<1> QED
  BY <1>3, <1>4, <1>5, <1>6, <1>7, <1>8, <1>9, <1>10 DEF Next, Progress

\* The last edit of a run: both files are then what they were, but for the
\* session and a default that was one's.
LEMMA FinishHandsBack ==
  ASSUME NEW p, Process = {p}, Sole(p), Borrowed(p), Finishes(p),
         ~local[p].removal
  PROVE  content' = Without(found, local[p].session)
<1> DEFINE s == local[p].session
           was == found["environments"]
<1>1. /\ local[p] \in Local
      /\ content \in [Files!File -> Content]
      /\ \A f \in Files!File : content[f] \in Files!Document
  BY DEF Sole, Typed, TypeOK, Contents, Undisturbed
<1>2. Files!File = {"environments", "config"}
  BY DEF Files!File
<1>3. local[p].step = "distrust"
  BY DEF Finishes
<1>4. /\ found["config"] \in Files!Document
      /\ content["environments"].entries = was.entries \ {s}
      /\ content["environments"].default = Before
      /\ content["config"].default = found["config"].default
      /\ content["config"].entries = found["config"].entries \cup {s}
  BY <1>2, <1>3 DEF Borrowed
<1>5. Rename(p)
  <2> SUFFICES ASSUME Read(p) PROVE FALSE
    BY DEF Finishes
  <2>1. local'[p].step = "distrust"
    <3>1. ~NothingToDo(local[p], content[FileOf(p)])
      BY <1>3, <1>4 DEF NothingToDo, FileOf
    <3> QED
      BY <1>1, <1>3, <3>1 DEF Read, Sole, Typed, TypeOK, Local
  <2> QED
    BY <2>1 DEF Finishes
<1>6. /\ content'["environments"] = content["environments"]
      /\ content'["config"] = Files!Dropping(content["config"], s)
  BY <1>3, <1>5, RenameFields
<1>7. content["environments"] = [default |-> Before, entries |-> was.entries \ {s}]
  BY <1>1, <1>2, <1>4 DEF Files!Document
<1>8. Files!Dropping(content["config"], s) = Files!Dropping(found["config"], s)
  <2>1. content["config"] \in Files!Document
    BY <1>1, <1>2
  <2>2. (found["config"].entries \cup {s}) \ {s} = found["config"].entries \ {s}
    OBVIOUS
  <2> QED
    BY <1>4, <2>1, <2>2 DEF Files!Dropping, Files!Document
<1>9. content' = [content EXCEPT
        !["config"] = Files!Dropping(content["config"], s)]
  <2>1. FileOf(p) = "config"
    BY <1>3 DEF FileOf
  <2>2. content' = [content EXCEPT
          !["config"] = Edited(local[p], content["config"])]
    BY <1>5, <2>1, RenameEdits
  <2> QED
    BY <1>3, <2>2, EditedAt
<1>10. content' = [environments |-> content["environments"],
                   config |-> Files!Dropping(content["config"], s)]
  BY <1>1, <1>2, <1>9
<1> QED
  BY <1>7, <1>8, <1>10 DEF Without, Before

\* One at a time, a run that ends of itself leaves both files as it found
\* them, but for its session and a default that an earlier run had left
\* behind: whatever edits were killed half way before it, and whether or not
\* Codex could be started.  (command/codex.rs restore.)
THEOREM OneAtATimeHandsBack ==
  ASSUME NEW CONSTANT one, Process = {one}, Recall = TRUE
  PROVE  Spec => HandedBackAsFound
<1> DEFINE HandsBack == \A p \in Process :
             (Finishes(p) /\ ~local[p].removal) =>
               content' = Without(found, local[p].session)
           Inv == Sole(one) /\ Borrowed(one)
<1>1. Init => Inv
  <2>1. Init => local[one].step = "idle"
    BY DEF Init, Idle
  <2> QED
    BY <2>1, SoleInit DEF Borrowed
<1>2. Inv /\ [Next]_vars => Inv'
  BY SoleNext, BorrowedNext
<1>3. Inv => HandsBack
  BY FinishHandsBack
<1>4. Inv /\ [Next]_vars => [HandsBack]_vars
  BY <1>3
<1> QED
  BY <1>1, <1>2, <1>4, PTL DEF Spec, HandedBackAsFound
=============================================================================
