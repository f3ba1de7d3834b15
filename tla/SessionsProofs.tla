--------------------------- MODULE SessionsProofs ---------------------------
(***************************************************************************)
(* What TLAPS proves of Sessions, for any number of invocations,           *)
(* identifiers and images, any clock and any idle limit.                   *)
(***************************************************************************)
EXTENDS Sessions, TLAPS

\* The steps that only look, decide or return, and those on images alone.
Looking(p) ==
  \/ Start(p) \/ Reclaim(p) \/ Refuse(p) \/ Close(p) \/ Interrupt(p)
  \/ Reserve(p) \/ EnsureImage(p) \/ Build(p) \/ CheckExisting(p) \/ Reachable(p)

\* The steps that make, change or remove a session.
Acting(p) ==
  \/ Allocate(p) \/ LoadKey(p) \/ WriteKey(p) \/ RunDetached(p) \/ Restart(p)
  \/ TruncateRecord(p) \/ WriteRecord(p) \/ OpenShell(p) \/ OpenCodex(p)
  \/ Remove(p)

\* A step of p that leaves the sessions themselves alone: it changes only
\* what p holds, enters none of the stretches the invariant speaks of, and
\* takes up no session that has no record.
Quiet(p) ==
  /\ UNCHANGED <<record, key, machine, drawn, hostKey>>
  /\ \A q \in Invocation \ {p} : local'[q] = local[q]
  /\ local'[p].pc \notin Making \cup MachineGone \cup {"write", "open"}
  /\ \A s \in Id : Mentions(p, s)' => Mentions(p, s) \/ record[s] # Absent

LEMMA IdleIsLocal == Idle \in Local
  BY SessionsAssumption DEF Idle, Local, Labels, Time

LEMMA InitInductive == Init => Inductive
<1> SUFFICES ASSUME Init PROVE Inductive
  OBVIOUS
<1>1. TypeOK
  BY IdleIsLocal, SessionsAssumption DEF Init, TypeOK, Time
<1>2. \A p \in Invocation :
        local[p].pc = "idle" /\ \A s \in Id : ~Mentions(p, s)
  BY SessionsAssumption DEF Init, Idle, Mentions
<1>3. InScope
  BY <1>2 DEF InScope, Scoped, Holding, Removing, MachineGone, Making
<1>4. UndrawnIsUnknown
  BY <1>2 DEF Init, UndrawnIsUnknown
<1>5. CreatorAlone /\ RemovalInOrder /\ OpenedIsRecorded
  BY <1>2 DEF CreatorAlone, RemovalInOrder, OpenedIsRecorded, At, Making,
              MachineGone, KeyGone
<1>6. MachineHasIdentity /\ HostKeyHasRecord /\ OpenIsThere
  BY DEF Init, MachineHasIdentity, HostKeyHasRecord, OpenIsThere, Exists
<1> QED
  BY <1>1, <1>3, <1>4, <1>5, <1>6 DEF Inductive

\* Whatever p does of its own accord, it goes on holding proper values, and
\* what the others hold is theirs.
LEMMA OwnStep ==
  ASSUME TypeOK, InScope, NEW p \in Invocation,
         Start(p) \/ Progress(p) \/ Close(p) \/ Interrupt(p)
  PROVE  /\ local' \in [Invocation -> Local]
         /\ Scoped(local'[p])
         /\ \A q \in Invocation \ {p} : local'[q] = local[q]
<1> DEFINE Own == /\ local' \in [Invocation -> Local]
                  /\ Scoped(local'[p])
                  /\ \A q \in Invocation \ {p} : local'[q] = local[q]
<1> SUFFICES Own
  OBVIOUS
<1>t. /\ local \in [Invocation -> Local]
      /\ local[p] \in Local
      /\ Scoped(local[p])
      /\ now \in Time
  BY DEF TypeOK, InScope
<1>r. ASSUME Return(p) PROVE Own
  BY <1>r, <1>t, IdleIsLocal
  DEF Return, Scoped, Idle, Holding, Making, Removing, MachineGone
<1>b. ASSUME NEW s \in Id, NEW back \in {"stale", "room", "idle"},
             BeginRemoval(p, s, back), local[p].pc # "idle"
      PROVE  Own
  <2>1. [local[p] EXCEPT !.pc = "rm list", !.victim = s, !.back = back] \in Local
    BY <1>t DEF Local, Labels
  <2> QED
    BY ZenonT(40), <1>t, <1>b, <2>1
    DEF BeginRemoval, Scoped, Local, Removing, Holding, Making
<1>1. CASE \E i \in Image : Create(p, i)
  <2>1. PICK i \in Image :
          local' = [local EXCEPT ![p].pc = "list", ![p].image = i]
    BY <1>1 DEF Create
  <2>2. [local[p] EXCEPT !.pc = "list", !.image = i] \in Local
    BY <1>t DEF Local, Labels
  <2> QED
    BY ZenonT(40), <1>t, <2>1, <2>2 DEF Scoped, Local, Holding, Making, Removing,
                            MachineGone
<1>2. CASE ListLive(p)
  <2>1. [local[p] EXCEPT !.pc = "sessions", !.live = {s \in Id : Running(s)},
                         !.asof = now] \in Local
    BY <1>t DEF Local, Labels
  <2> QED
    BY ZenonT(40), <1>t, <1>2, <2>1 DEF ListLive, Scoped, Local, Holding, Making, Removing,
                            MachineGone, At
<1>3. CASE ReadSessions(p)
  <2> DEFINE C == {[id |-> s, used |-> record[s].used] :
                     s \in Recorded \ local[p].live}
  <2>1. C \subseteq Candidate
    BY <1>3 DEF ReadSessions, Readable, Unreadable, Recorded, TypeOK, Record,
                Candidate
  <2>2. [local[p] EXCEPT !.pc = "stale", !.live = {}, !.todo = C] \in Local
    BY <1>t, <2>1 DEF Local, Labels
  <2> QED
    BY ZenonT(40), <1>t, <1>3, <2>2 DEF ReadSessions, Scoped, Local, Holding, Making,
                            Removing, MachineGone, At
<1>4. CASE RemoveStale(p)
  <2>1. PICK c \in local[p].todo : BeginRemoval(p, c.id, "stale")
    BY <1>4 DEF RemoveStale, Oldest, StaleOf
  <2>2. c.id \in Id
    BY <1>t DEF Local, Candidate
  <2> QED
    BY <1>b, <1>4, <2>1, <2>2 DEF RemoveStale, At
<1>5. CASE NoneStale(p)
  BY ZenonT(40), <1>t, <1>5
  DEF Local, Labels, Scoped, Holding, Making, Removing, MachineGone, At,
      NoneStale, Goto
<1>6. CASE ListImages(p)
  <2>1. [local[p] EXCEPT !.pc = "refs", !.doomed = images \ {local[p].image}]
          \in Local
    BY <1>t DEF TypeOK, Local, Labels
  <2> QED
    BY <1>t, <1>6, <2>1 DEF ListImages, Scoped, Local, Holding, Making,
                            Removing, MachineGone, At
<1>7. CASE Unreferenced(p)
  <2> DEFINE D == {i \in local[p].doomed :
                     \A s \in Recorded : record[s].image # i}
  <2>1. [local[p] EXCEPT !.pc = "prune", !.doomed = D] \in Local
    BY <1>t DEF Local, Labels
  <2> QED
    BY ZenonT(40), <1>t, <1>7, <2>1 DEF Unreferenced, Scoped, Local, Holding, Making,
                            Removing, MachineGone, At
<1>8. CASE PruneImage(p)
  <2>1. PICK i \in local[p].doomed : local' = [local EXCEPT ![p].doomed = @ \ {i}]
    BY <1>8 DEF PruneImage
  <2>2. [local[p] EXCEPT !.doomed = local[p].doomed \ {i}] \in Local
    BY <1>t DEF Local, Labels
  <2> QED
    BY <1>t, <2>1, <2>2 DEF Scoped, Local
<1>9. CASE NonePrunable(p)
  BY ZenonT(40), <1>t, <1>9
  DEF Local, Labels, Scoped, Holding, Making, Removing, MachineGone, At,
      NonePrunable, Goto
<1>10. CASE MakeRoom(p)
  <2>1. PICK c \in local[p].todo : BeginRemoval(p, c.id, "room")
    BY <1>10 DEF MakeRoom, Oldest
  <2>2. c.id \in Id
    BY <1>t DEF Local, Candidate
  <2> QED
    BY <1>b, <1>10, <2>1, <2>2 DEF MakeRoom, At
<1>11. CASE RoomEnough(p)
  <2>1. [Idle EXCEPT !.pc = "reserve", !.image = local[p].image] \in Local
    BY ZenonT(40), <1>t, <1>11, IdleIsLocal DEF Local, Labels
  <2> QED
    BY <1>t, <1>11, <2>1 DEF RoomEnough, Idle, Scoped, Local, Holding, Making,
                            Removing, MachineGone, At
<1>12. CASE RmList(p)
  BY ZenonT(40), <1>t, <1>12
  DEF Local, Labels, Scoped, Holding, Making, Removing, MachineGone, At,
      RmList, Goto
<1>13. CASE RmMachine(p)
  BY ZenonT(40), <1>t, <1>13
  DEF Local, Labels, Scoped, Holding, Making, Removing, MachineGone, At,
      RmMachine, Goto
<1>14. CASE RmEntry(p)
  BY ZenonT(40), <1>t, <1>14
  DEF Local, Labels, Scoped, Holding, Making, Removing, MachineGone, At,
      RmEntry, Goto
<1>15. CASE RmKey(p)
  BY ZenonT(40), <1>t, <1>15
  DEF Local, Labels, Scoped, Holding, Making, Removing, MachineGone, At,
      RmKey, Goto
<1>16. CASE RmHostKey(p)
  BY <1>t, <1>16
  DEF Local, Labels, Scoped, Holding, Making, Removing, MachineGone, At,
      RmHostKey, Goto
<1>17. CASE RmRecord(p)
  <2>1. CASE local[p].back = "idle"
    BY <1>r, <1>17, <2>1 DEF RmRecord
  <2>2. CASE local[p].back # "idle"
    <3> DEFINE T == {c \in local[p].todo : c.id # local[p].victim}
    <3>1. local' = [local EXCEPT ![p] =
            [local[p] EXCEPT !.pc = local[p].back, !.victim = Absent, !.back = "idle",
                             !.todo = T]]
      BY <1>17, <2>2 DEF RmRecord
    <3>2. local[p].back \in {"stale", "room"}
      BY <1>t, <2>2 DEF Local
    <3>3. [local[p] EXCEPT !.pc = local[p].back, !.victim = Absent, !.back = "idle",
                           !.todo = T] \in Local
      BY <1>t, <3>2 DEF Local, Labels
    <3> QED
      BY <1>t, <1>17, <3>1, <3>2, <3>3 DEF RmRecord, Scoped, Local, Holding,
                              Making, Removing, MachineGone, At
  <2> QED
    BY <2>1, <2>2
<1>18. CASE Reserve(p)
  BY ZenonT(40), <1>t, <1>18
  DEF Local, Labels, Scoped, Holding, Making, Removing, MachineGone, At,
      Reserve, Goto
<1>19. CASE EnsureImage(p)
  BY ZenonT(40), <1>t, <1>19
  DEF Local, Labels, Scoped, Holding, Making, Removing, MachineGone, At,
      EnsureImage, Goto
<1>20. CASE Build(p)
  BY ZenonT(40), <1>t, <1>20
  DEF Local, Labels, Scoped, Holding, Making, Removing, MachineGone, At,
      Build, Goto
<1>21. CASE Allocate(p)
  <2>1. PICK s \in Drawable : local' = [local EXCEPT ![p].pc = "key", ![p].id = s]
    BY <1>21 DEF Allocate
  <2>2. s \in Id
    BY DEF Drawable, Free
  <2>3. [local[p] EXCEPT !.pc = "key", !.id = s] \in Local
    BY <1>t, <2>2 DEF Local, Labels
  <2> QED
    BY <1>t, <1>21, <2>1, <2>2, <2>3 DEF Allocate, Scoped, Local, Holding,
                            Making, Removing, MachineGone, At
<1>22. CASE LoadKey(p)
  <2>1. local[p].id \in Id
    BY <1>t, <1>22 DEF LoadKey, At, Scoped, Holding, Making
  <2>2. CASE key[local[p].id] # Absent
    <3>1. key[local[p].id] \in Invocation
      BY <2>1, <2>2 DEF TypeOK
    <3>2. [local[p] EXCEPT !.pc = "run", !.key = key[local[p].id]] \in Local
      BY <1>t, <3>1 DEF Local, Labels
    <3>3. local' = [local EXCEPT ![p] =
                      [local[p] EXCEPT !.pc = "run", !.key = key[local[p].id]]]
      BY <1>22, <2>2 DEF LoadKey
    <3> QED
      BY <1>t, <1>22, <2>1, <3>1, <3>2, <3>3 DEF Scoped, Local, Removing,
                              MachineGone, LoadKey, At
  <2>3. CASE key[local[p].id] = Absent
    <3>1. local' = [local EXCEPT ![p] = [local[p] EXCEPT !.pc = "new key"]]
      BY <1>22, <2>3 DEF LoadKey, Goto
    <3>2. [local[p] EXCEPT !.pc = "new key"] \in Local
      BY <1>t DEF Local, Labels
    <3> QED
      BY <1>t, <1>22, <2>1, <3>1, <3>2 DEF Scoped, Local, Removing,
                              MachineGone, LoadKey, At
  <2> QED
    BY <2>2, <2>3
<1>23. CASE WriteKey(p)
  BY ZenonT(40), <1>t, <1>23
  DEF Local, Labels, Scoped, Holding, Making, Removing, MachineGone, At,
      WriteKey
<1>24. CASE RunDetached(p)
  BY <1>t, <1>24
  DEF Local, Labels, Scoped, Holding, Making, Removing, MachineGone, At,
      RunDetached, Goto
<1>25. CASE CheckExisting(p)
  <2>1. local[p].id \in Id
    BY <1>t, <1>25 DEF CheckExisting, At, Scoped, Holding
  <2>2. CASE ~Exists(local[p].id)
    <3>1. BeginRemoval(p, local[p].id, "idle")
      BY <1>25, <2>2 DEF CheckExisting, Running
    <3> QED
      BY <1>b, <1>25, <2>1, <3>1 DEF CheckExisting, At
  <2>3. CASE Exists(local[p].id)
    <3>1. At(p, "existing") /\ \E label \in {"wait", "restart"} : Goto(p, label)
      BY <1>25, <2>3 DEF CheckExisting, Running
    <3>2. PICK label \in {"wait", "restart"} : Goto(p, label)
      BY <3>1
    <3>3. [local[p] EXCEPT !.pc = label] \in Local
      BY <1>t DEF Local, Labels
    <3> QED
      BY <1>t, <2>1, <3>1, <3>2, <3>3 DEF Scoped, Local, Removing,
                              MachineGone, At, Goto
  <2> QED
    BY <2>2, <2>3
<1>26. CASE Restart(p)
  BY <1>t, <1>26
  DEF Local, Labels, Scoped, Holding, Making, Removing, MachineGone, At,
      Restart, Goto
<1>27. CASE Reachable(p)
  BY ZenonT(40), <1>t, <1>27
  DEF Local, Labels, Scoped, Holding, Making, Removing, MachineGone, At,
      Reachable
<1>28. CASE TruncateRecord(p)
  BY <1>t, <1>28
  DEF Local, Labels, Scoped, Holding, Making, Removing, MachineGone, At,
      TruncateRecord, Goto
<1>29. CASE WriteRecord(p)
  BY <1>t, <1>29
  DEF Local, Labels, Scoped, Holding, Making, Removing, MachineGone, At,
      WriteRecord, Goto
<1>30. CASE OpenShell(p)
  BY <1>t, <1>30
  DEF Local, Labels, Scoped, Holding, Making, Removing, MachineGone, At,
      OpenShell, Goto
<1>31. CASE OpenCodex(p)
  BY <1>t, <1>31
  DEF Local, Labels, Scoped, Holding, Making, Removing, MachineGone, At,
      OpenCodex, Goto
<1>32. CASE \E s \in Id : Resume(p, s)
  <2>1. PICK s \in Id : Resume(p, s)
    BY <1>32
  <2>2. record[s].image \in Image
    BY <2>1 DEF Resume, Unreadable, TypeOK, Record
  <2>3. [local[p] EXCEPT !.pc = "existing", !.id = s, !.image = record[s].image]
          \in Local
    BY <1>t, <2>2 DEF Local, Labels
  <2> QED
    BY ZenonT(40), <1>t, <2>1, <2>2, <2>3 DEF Resume, Scoped, Local, Holding, Making,
                            Removing, MachineGone
<1>33. CASE Refuse(p)
  BY <1>r, <1>33 DEF Refuse
<1>34. CASE Close(p)
  BY <1>r, <1>34 DEF Close
<1>35. CASE Interrupt(p)
  BY <1>r, <1>35 DEF Interrupt
<1> QED
  BY <1>1, <1>2, <1>3, <1>4, <1>5, <1>6, <1>7, <1>8, <1>9, <1>10, <1>11,
     <1>12, <1>13, <1>14, <1>15, <1>16, <1>17, <1>18, <1>19, <1>20,
     <1>21, <1>22, <1>23, <1>24, <1>25, <1>26, <1>27, <1>28, <1>29,
     <1>30, <1>31, <1>32, <1>33, <1>34, <1>35
  DEF Start, Progress, Reclaim, Remove, Provision

\* What a write leaves of the record it stores is something: a record, or
\* one with the end of another.
LEMMA WriteEffect ==
  ASSUME TypeOK, InScope, NEW p \in Invocation, WriteRecord(p)
  PROVE  \/ UNCHANGED <<record, opened>> /\ p \notin opened[local[p].id]
         \/ \E c \in Record \cup {Garbled} :
              /\ p \in opened[local[p].id]
              /\ local[p].id \in Id
              /\ c = Garbled => record[local[p].id] # Torn
              /\ record' = [record EXCEPT ![local[p].id] = c]
              /\ opened' = [opened EXCEPT ![local[p].id] =
                                StillOpen(p, local[p].id, c)]
              /\ StillOpen(p, local[p].id, c) \in SUBSET Invocation
<1> DEFINE s == local[p].id
           r == [image |-> local[p].image, used |-> local[p].asof]
<1>1. local[p] \in Local /\ local[p].image \in Image /\ s \in Id
  BY DEF WriteRecord, TypeOK, InScope, Scoped, At, Holding
<1>2. r \in Record
  BY <1>1 DEF Local, Record
<1>3. CASE p \notin opened[s]
  BY <1>3 DEF WriteRecord
<1>4. CASE p \in opened[s]
  <2>1. PICK c \in Overwritten(record[s], r) :
          /\ record' = [record EXCEPT ![s] = c]
          /\ opened' = [opened EXCEPT ![s] = StillOpen(p, s, c)]
    BY <1>4 DEF WriteRecord
  <2>2. c \in Record \cup {Garbled}
    BY <1>2, <2>1 DEF Overwritten
  <2>3. c = Garbled => record[s] # Torn
    BY <1>2, <2>1, AbsentIsNoRecordOrMachine DEF Overwritten
  <2>4. StillOpen(p, s, c) \in SUBSET Invocation
    BY <1>1 DEF StillOpen, TypeOK
  <2> HIDE DEF r
  <2> QED
    BY <1>1, <1>4, <2>1, <2>2, <2>3, <2>4
<1> QED
  BY <1>3, <1>4

\* No step of the specification leaves the types.
LEMMA TypesKept ==
  ASSUME TypeOK, InScope, [Next]_vars
  PROVE  TypeOK' /\ InScope'
<1> USE DEF disk, runtime
<1>1. CASE UNCHANGED vars
  BY <1>1 DEF vars, TypeOK, InScope, Scoped
<1>2. CASE Environment
  <2>1. CASE Tick
    BY <2>1, SessionsAssumption DEF Tick, TypeOK, InScope, Time
  <2>2. ASSUME NEW s \in Id, MachineStops(s)
        PROVE  TypeOK' /\ InScope'
    <3>1. machine[s] \in Machine
      BY <2>2 DEF MachineStops, Running, Exists, TypeOK
    <3>2. [machine[s] EXCEPT !.state = "stopped"] \in Machine
      BY <3>1 DEF Machine
    <3> QED
      BY <2>2, <3>2 DEF MachineStops, TypeOK, InScope
  <2>3. ASSUME NEW s \in Id, MachineLost(s)
        PROVE  TypeOK' /\ InScope'
    BY <2>3 DEF MachineLost, TypeOK, InScope
  <2> QED
    BY <1>2, <2>1, <2>2, <2>3 DEF Environment
<1>3. ASSUME NEW p \in Invocation,
             Start(p) \/ Progress(p) \/ Close(p) \/ Interrupt(p)
      PROVE  TypeOK' /\ InScope'
  <2>1. local' \in [Invocation -> Local] /\ InScope'
    BY <1>3, OwnStep DEF InScope
  <2>t. /\ local[p] \in Local
        /\ Scoped(local[p])
    BY DEF TypeOK, InScope
  \* Most steps change only what p holds.
  <2>2. CASE UNCHANGED <<disk, runtime, now, drawn>>
    BY <2>1, <2>2 DEF TypeOK
  <2>3. CASE TruncateRecord(p)
    BY <2>1, <2>t, <2>3 DEF TruncateRecord, TypeOK
  <2>4. CASE RmRecord(p)
    BY <2>1, <2>t, <2>4 DEF RmRecord, TypeOK
  <2>5. CASE WriteKey(p)
    BY <2>1, <2>t, <2>5 DEF WriteKey, TypeOK
  <2>6. CASE RmKey(p)
    BY <2>1, <2>t, <2>6 DEF RmKey, TypeOK
  <2>7. CASE RmHostKey(p)
    BY <2>1, <2>t, <2>7 DEF RmHostKey, TypeOK
  <2>8. CASE RmEntry(p)
    BY <2>1, <2>t, <2>8 DEF RmEntry, TypeOK
  <2>9. CASE Close(p)
    BY <2>1, <2>t, <2>9 DEF Close, TypeOK
  <2>10. CASE RmMachine(p)
    BY <2>1, <2>t, <2>10 DEF RmMachine, TypeOK
  <2>11. CASE PruneImage(p)
    BY <2>1, <2>t, <2>11 DEF PruneImage, TypeOK
  <2>12. CASE Build(p)
    BY <2>1, <2>t, <2>12 DEF Build, TypeOK, At, Scoped
  <2>13. CASE OpenShell(p)
    BY <2>1, <2>t, <2>13 DEF OpenShell, TypeOK, At, Scoped, Holding
  <2>14. CASE OpenCodex(p)
    BY <2>1, <2>t, <2>14 DEF OpenCodex, TypeOK, At, Scoped, Holding
  <2>15. CASE RunDetached(p)
    BY <2>1, <2>t, <2>15
    DEF RunDetached, TypeOK, Machine, At, Scoped, Holding, Making
  <2>16. CASE Restart(p)
    <3>1. machine[local[p].id] \in Machine
      BY <2>16, <2>t DEF Restart, Exists, TypeOK, At, Scoped, Holding
    <3>2. [machine[local[p].id] EXCEPT !.state = "running"] \in Machine
      BY <3>1 DEF Machine
    <3> QED
      BY <2>16, <2>1, <3>2 DEF Restart, TypeOK
  <2>17. CASE WriteRecord(p)
    <3>1. /\ record' \in [Id -> Record \cup {Absent, Torn, Garbled}]
          /\ opened' \in [Id -> SUBSET Invocation]
      <4>1. CASE UNCHANGED <<record, opened>>
        BY <4>1 DEF TypeOK
      <4>2. ASSUME NEW c \in Record \cup {Garbled}, NEW o \in SUBSET Invocation,
                   record' = [record EXCEPT ![local[p].id] = c],
                   opened' = [opened EXCEPT ![local[p].id] = o]
            PROVE  /\ record' \in [Id -> Record \cup {Absent, Torn, Garbled}]
                   /\ opened' \in [Id -> SUBSET Invocation]
        BY <4>2 DEF TypeOK
      <4> QED
        BY <2>17, <4>1, <4>2, WriteEffect
    <3> QED
      BY <2>17, <2>1, <3>1 DEF WriteRecord, TypeOK
  <2>18. CASE Allocate(p)
    <3>1. PICK s \in Drawable : drawn' = drawn \cup {s}
      BY <2>18 DEF Allocate
    <3> QED
      BY <2>18, <2>1, <3>1 DEF Allocate, TypeOK, Drawable, Free
  <2>19. CASE Interrupt(p)
    BY <2>1, <2>19 DEF Interrupt, TypeOK
  <2> QED
    BY <1>3, <2>2, <2>3, <2>4, <2>5, <2>6, <2>7, <2>8, <2>9, <2>10,
       <2>11, <2>12, <2>13, <2>14, <2>15, <2>16, <2>17, <2>18, <2>19
    DEF Start, Create, Resume, Progress, Reclaim, ListLive, ReadSessions,
        RemoveStale, NoneStale, ListImages, Unreferenced, NonePrunable,
        MakeRoom, RoomEnough, Remove, RmList, Provision, Reserve, EnsureImage,
        LoadKey, CheckExisting, Reachable, Refuse
<1> QED
  BY <1>1, <1>2, <1>3 DEF Next

\* Four steps change a record or who opened it.
LEMMA FileSteps ==
  ASSUME NEW p \in Invocation,
         Start(p) \/ Progress(p) \/ Close(p) \/ Interrupt(p)
  PROVE  \/ TruncateRecord(p) \/ WriteRecord(p) \/ RmRecord(p) \/ Interrupt(p)
         \/ UNCHANGED <<record, opened>>
<1> USE DEF disk
<1>1. Start(p) \/ Refuse(p) \/ Close(p) => UNCHANGED <<record, opened>>
  BY DEF Start, Create, Resume, Refuse, Close
<1>2. Reclaim(p) => UNCHANGED <<record, opened>>
  BY DEF Reclaim, ListLive, ReadSessions, RemoveStale, NoneStale, ListImages,
         Unreferenced, PruneImage, NonePrunable, MakeRoom, RoomEnough
<1>3. Remove(p) => RmRecord(p) \/ UNCHANGED <<record, opened>>
  BY DEF Remove, RmList, RmMachine, RmEntry, RmKey, RmHostKey
<1>4. Provision(p) => TruncateRecord(p) \/ WriteRecord(p)
                      \/ UNCHANGED <<record, opened>>
  BY DEF Provision, Reserve, EnsureImage, Build, Allocate, LoadKey, WriteKey,
         RunDetached, CheckExisting, Restart, Reachable, OpenShell, OpenCodex
<1> QED
  BY <1>1, <1>2, <1>3, <1>4 DEF Progress

\* No step leaves somebody with an open file that has no name.
LEMMA OpenStep ==
  ASSUME TypeOK, InScope, OpenIsThere, [Next]_vars
  PROVE  OpenIsThere'
<1> USE DEF OpenIsThere
<1>1. CASE UNCHANGED <<record, opened>>
  BY <1>1
<1>2. ASSUME NEW p \in Invocation, TruncateRecord(p)
      PROVE  OpenIsThere'
  BY <1>2, SessionsAssumption DEF TruncateRecord, TypeOK
<1>3. ASSUME NEW p \in Invocation, RmRecord(p)
      PROVE  OpenIsThere'
  BY <1>3 DEF RmRecord, TypeOK
<1>4. ASSUME NEW p \in Invocation, WriteRecord(p)
      PROVE  OpenIsThere'
  <2> SUFFICES ASSUME NEW c \in Record \cup {Garbled}, local[p].id \in Id,
                      record' = [record EXCEPT ![local[p].id] = c],
                      \A s \in Id \ {local[p].id} : opened'[s] = opened[s]
               PROVE  OpenIsThere'
    BY <1>1, <1>4, WriteEffect DEF TypeOK
  <2>1. c # Absent
    BY AbsentIsNoRecordOrMachine, SessionsAssumption
  <2> QED
    BY <2>1 DEF TypeOK
<1>5. ASSUME NEW p \in Invocation, Interrupt(p)
      PROVE  OpenIsThere'
  BY <1>5 DEF Interrupt
<1>6. CASE Environment \/ UNCHANGED vars
  BY <1>1, <1>6 DEF Environment, Tick, MachineStops, MachineLost, vars, disk
<1> QED
  BY <1>1, <1>2, <1>3, <1>4, <1>5, <1>6, FileSteps DEF Next

\* Looking, deciding and returning are quiet.
LEMMA LookingIsQuiet ==
  ASSUME TypeOK, InScope, NEW p \in Invocation, Looking(p)
  PROVE  Quiet(p)
<1> USE DEF disk, runtime
<1>t. /\ local \in [Invocation -> Local]
      /\ local[p] \in Local
      /\ \A q \in Invocation \ {p} : local'[q] = local[q]
  BY OwnStep DEF TypeOK, Looking, Progress, Provision
<1>r. ASSUME Return(p), UNCHANGED <<record, key, hostKey, machine, drawn>>
      PROVE  Quiet(p)
  BY <1>r, <1>t, SessionsAssumption
  DEF Return, Quiet, Mentions, Idle, Making, MachineGone
<1>b. ASSUME NEW s \in Id, NEW back \in {"stale", "room", "idle"},
             BeginRemoval(p, s, back), Mentions(p, s),
             UNCHANGED <<record, key, hostKey, machine, drawn>>
      PROVE  Quiet(p)
  BY <1>b, <1>t DEF BeginRemoval, Quiet, Mentions, Local, Making, MachineGone
<1>1. CASE \E i \in Image : Create(p, i)
  BY <1>t, <1>1
  DEF Create, Quiet, Mentions, Local, Making, MachineGone
<1>2. CASE ListLive(p)
  BY <1>t, <1>2
  DEF ListLive, Quiet, Mentions, Local, Making, MachineGone
<1>3. CASE ReadSessions(p)
  BY <1>t, <1>3 DEF ReadSessions, Recorded, Quiet, Mentions, Local, Making,
     MachineGone
<1>4. CASE RemoveStale(p)
  <2>1. PICK c \in local[p].todo : BeginRemoval(p, c.id, "stale")
    BY <1>4 DEF RemoveStale, Oldest, StaleOf
  <2>2. c.id \in Id /\ Mentions(p, c.id)
    BY <1>t DEF Local, Candidate, Mentions
  <2> QED
    BY <1>b, <1>4, <2>1, <2>2 DEF RemoveStale
<1>5. CASE NoneStale(p)
  BY <1>t, <1>5
  DEF NoneStale, Goto, Quiet, Mentions, Local, Making, MachineGone
<1>6. CASE ListImages(p)
  BY <1>t, <1>6
  DEF ListImages, Quiet, Mentions, Local, Making, MachineGone
<1>7. CASE Unreferenced(p)
  BY <1>t, <1>7
  DEF Unreferenced, Quiet, Mentions, Local, Making, MachineGone
<1>8. CASE PruneImage(p)
  <2>1. PICK i \in local[p].doomed : local' = [local EXCEPT ![p].doomed = @ \ {i}]
    BY <1>8 DEF PruneImage
  <2> QED
    BY <1>t, <1>8, <2>1 DEF PruneImage, Quiet, Mentions, Local, At, Making,
       MachineGone
<1>9. CASE NonePrunable(p)
  BY <1>t, <1>9
  DEF NonePrunable, Goto, Quiet, Mentions, Local, Making, MachineGone
<1>10. CASE MakeRoom(p)
  <2>1. PICK c \in local[p].todo : BeginRemoval(p, c.id, "room")
    BY <1>10 DEF MakeRoom, Oldest
  <2>2. c.id \in Id /\ Mentions(p, c.id)
    BY <1>t DEF Local, Candidate, Mentions
  <2> QED
    BY <1>b, <1>10, <2>1, <2>2 DEF MakeRoom
<1>11. CASE RoomEnough(p)
  BY <1>t, <1>11, SessionsAssumption
  DEF RoomEnough, Idle, Quiet, Mentions, Local, Making, MachineGone
<1>12. CASE Reserve(p)
  BY <1>t, <1>12
  DEF Reserve, Goto, Quiet, Mentions, Local, Making, MachineGone
<1>13. CASE EnsureImage(p)
  BY <1>t, <1>13
  DEF EnsureImage, Goto, Quiet, Mentions, Local, Making, MachineGone
<1>14. CASE Build(p)
  BY <1>t, <1>14
  DEF Build, Goto, Quiet, Mentions, Local, Making, MachineGone
<1>15. CASE \E s \in Id : Resume(p, s)
  BY <1>t, <1>15
  DEF Resume, Quiet, Mentions, Local, Making, MachineGone
<1>16. CASE CheckExisting(p)
  <2>1. local[p].id \in Id /\ Mentions(p, local[p].id)
    BY <1>16 DEF CheckExisting, At, InScope, Scoped, Holding, Mentions
  <2>2. CASE BeginRemoval(p, local[p].id, "idle")
    BY <1>b, <1>16, <2>1, <2>2 DEF CheckExisting
  <2>3. ASSUME NEW label \in {"wait", "restart"}, Goto(p, label)
        PROVE  Quiet(p)
    BY <1>t, <1>16, <2>3 DEF CheckExisting, Goto, Quiet, Mentions, Local,
       Making, MachineGone
  <2> QED
    BY <1>16, <2>2, <2>3 DEF CheckExisting, Running
<1>17. CASE Reachable(p)
  BY <1>t, <1>17
  DEF Reachable, Quiet, Mentions, Local, Making, MachineGone
<1>18. CASE Refuse(p)
  BY <1>r, <1>18 DEF Refuse
<1>19. CASE Close(p)
  BY <1>r, <1>19 DEF Close
<1>20. CASE Interrupt(p)
  BY <1>r, <1>20 DEF Interrupt
<1> QED
  BY <1>1, <1>2, <1>3, <1>4, <1>5, <1>6, <1>7, <1>8, <1>9, <1>10,
     <1>11, <1>12, <1>13, <1>14, <1>15, <1>16, <1>17, <1>18, <1>19,
     <1>20
  DEF Looking, Start, Reclaim

\* A quiet step keeps every part of the invariant but the types.
LEMMA QuietKeeps ==
  ASSUME Inductive, NEW p \in Invocation, Quiet(p), TypeOK', InScope',
         OpenIsThere'
  PROVE  Inductive'
<1> USE DEF Inductive, Quiet
<1>1. UndrawnIsUnknown'
  BY DEF UndrawnIsUnknown, Mentions
<1>2. CreatorAlone'
  <2> SUFFICES ASSUME NEW q \in Invocation, (local[q].pc \in Making)'
               PROVE  /\ (record[local[q].id] = Absent)'
                      /\ (machine[local[q].id] = Absent)'
                      /\ \A r \in Invocation \ {q} : ~Mentions(r, local[q].id)'
                      /\ (At(q, "run") => key[local[q].id] = local[q].key)'
    BY DEF CreatorAlone
  <2>1. q # p /\ local'[q] = local[q]
    OBVIOUS
  <2>2. local[q].id \in Id
    BY <2>1 DEF InScope, Scoped, Holding
  <2>3. \A r \in Invocation \ {q} : ~Mentions(r, local[q].id)'
    <3> SUFFICES ASSUME NEW r \in Invocation \ {q}
                 PROVE  ~Mentions(r, local[q].id)'
      OBVIOUS
    <3>1. ~Mentions(r, local[q].id) /\ record[local[q].id] = Absent
      BY <2>1 DEF CreatorAlone
    <3>2. CASE r = p
      BY <2>1, <2>2, <3>1, <3>2 DEF Mentions
    <3>3. CASE r # p
      BY <2>1, <3>1, <3>3 DEF Mentions
    <3> QED
      BY <3>2, <3>3
  <2> QED
    BY <2>1, <2>3 DEF CreatorAlone, At
<1>3. RemovalInOrder'
  BY DEF RemovalInOrder, At, MachineGone, KeyGone
<1>4. OpenedIsRecorded'
  BY DEF OpenedIsRecorded, Exists
<1>5. MachineHasIdentity' /\ HostKeyHasRecord'
  BY DEF MachineHasIdentity, HostKeyHasRecord, Exists
<1> QED
  BY <1>1, <1>2, <1>3, <1>4, <1>5

\* What a step of p can do to the record of one session.
LEMMA RecordEffect ==
  ASSUME TypeOK, InScope, OpenIsThere, NEW p \in Invocation, Acting(p),
         NEW s \in Id
  PROVE  \/ record'[s] = record[s]
         \/ /\ At(p, "store") /\ local[p].id = s /\ record'[s] # Absent
         \/ /\ At(p, "write") /\ local[p].id = s
            /\ record[s] # Absent /\ record'[s] # Absent
         \/ /\ At(p, "rm record") /\ local[p].victim = s
<1> USE DEF disk, runtime
<1>1. CASE TruncateRecord(p)
  BY <1>1, SessionsAssumption DEF TruncateRecord, TypeOK
<1>2. CASE WriteRecord(p)
  <2>1. At(p, "write")
    BY <1>2 DEF WriteRecord
  <2>2. CASE UNCHANGED <<record, opened>>
    BY <2>2
  <2>3. ASSUME NEW c \in Record \cup {Garbled}, local[p].id \in Id,
               p \in opened[local[p].id],
               record' = [record EXCEPT ![local[p].id] = c]
        PROVE  \/ record'[s] = record[s]
               \/ /\ local[p].id = s
                  /\ record[s] # Absent /\ record'[s] # Absent
    <3>1. c # Absent
      BY AbsentIsNoRecordOrMachine, SessionsAssumption
    <3> QED
      BY <2>3, <3>1 DEF TypeOK, OpenIsThere
  <2> QED
    BY <1>2, <2>1, <2>2, <2>3, WriteEffect
<1>3. CASE RmRecord(p)
  BY <1>3 DEF RmRecord, TypeOK
<1>4. CASE UNCHANGED record
  BY <1>4
<1> QED
  BY <1>1, <1>2, <1>3, <1>4
  DEF Acting, Remove, Allocate, LoadKey, WriteKey, RunDetached, Restart,
      OpenShell, OpenCodex, RmList, RmMachine, RmEntry, RmKey, RmHostKey

\* What it can do to the identity of one session.
LEMMA KeyEffect ==
  ASSUME TypeOK, NEW p \in Invocation, Acting(p), NEW s \in Id
  PROVE  \/ key'[s] = key[s]
         \/ At(p, "new key") /\ local[p].id = s
         \/ At(p, "rm key") /\ local[p].victim = s /\ key'[s] = Absent
<1> USE DEF disk, runtime
<1>1. CASE WriteKey(p)
  BY <1>1 DEF WriteKey, TypeOK
<1>2. CASE RmKey(p)
  BY <1>2 DEF RmKey, TypeOK
<1>3. CASE UNCHANGED key
  BY <1>3
<1> QED
  BY <1>1, <1>2, <1>3
  DEF Acting, Remove, Allocate, LoadKey, RunDetached, Restart, TruncateRecord,
      WriteRecord, OpenShell, OpenCodex, RmList, RmMachine, RmEntry, RmHostKey,
      RmRecord

\* What it can do to the machine of one session.
LEMMA MachineEffect ==
  ASSUME TypeOK, InScope, NEW p \in Invocation, Acting(p), NEW s \in Id
  PROVE  \/ machine'[s] = machine[s]
         \/ machine'[s] = Absent
         \/ /\ At(p, "run") /\ local[p].id = s
            /\ machine'[s].authorised = local[p].key
         \/ /\ machine[s] # Absent
            /\ machine'[s].authorised = machine[s].authorised
<1> USE DEF disk, runtime
<1>1. CASE RunDetached(p)
  BY <1>1 DEF RunDetached, TypeOK
<1>2. CASE Restart(p)
  <2>1. machine[local[p].id] \in Machine \/ local[p].id # s
    BY <1>2 DEF Restart, Exists, TypeOK
  <2> QED
    BY <1>2, <2>1 DEF Restart, Exists, TypeOK, Machine
<1>3. CASE RmMachine(p)
  BY <1>3 DEF RmMachine, TypeOK
<1>4. CASE UNCHANGED machine
  BY <1>4
<1> QED
  BY <1>1, <1>2, <1>3, <1>4
  DEF Acting, Remove, Allocate, LoadKey, WriteKey, TruncateRecord,
      WriteRecord, OpenShell, OpenCodex, RmList, RmEntry, RmKey, RmHostKey,
      RmRecord

\* What it can do to the remembered host keys.
LEMMA HostKeyEffect ==
  ASSUME NEW p \in Invocation, Acting(p), NEW s \in hostKey' \ hostKey
  PROVE  At(p, "open") /\ local[p].id = s /\ Running(s)
<1> USE DEF disk, runtime
<1>1. CASE OpenShell(p)
  BY <1>1 DEF OpenShell
<1>2. CASE OpenCodex(p)
  BY <1>2 DEF OpenCodex
<1>3. CASE RmHostKey(p)
  BY <1>3 DEF RmHostKey
<1> QED
  BY <1>1, <1>2, <1>3
  DEF Acting, Remove, Allocate, LoadKey, WriteKey, RunDetached, Restart,
      TruncateRecord, WriteRecord, RmList, RmMachine, RmEntry, RmKey, RmRecord

\* Where it takes p, and what p has done by then.
LEMMA ControlEffect ==
  ASSUME TypeOK, InScope, DrawsRepeat = FALSE, NEW p \in Invocation, Acting(p)
  PROVE  /\ drawn \subseteq drawn'
         /\ \A s \in Id : Mentions(p, s)' => Mentions(p, s) \/ s \in drawn' \ drawn
         /\ local'[p].pc \in Making =>
              \/ local[p].pc \in Making \ {"run"} /\ local'[p].id = local[p].id
              \/ /\ At(p, "allocate") /\ local'[p].pc = "key"
                 /\ local'[p].id \in Id \ drawn
         /\ local'[p].pc = "run" => key'[local[p].id] = local'[p].key
         /\ At(p, "run") => local'[p].pc = "wait"
         /\ local'[p].pc \in MachineGone =>
              /\ local'[p].victim = local[p].victim
              /\ local[p].pc \in MachineGone \/ machine'[local[p].victim] = Absent
         /\ local'[p].pc \in KeyGone =>
              local[p].pc \in KeyGone \/ key'[local[p].victim] = Absent
         /\ local'[p].pc = "rm record" => local[p].victim \notin hostKey'
         /\ local'[p].pc \in {"write", "open"} =>
              /\ local'[p].id = local[p].id
              /\ local[p].pc = "write" \/ record'[local[p].id] # Absent
<1> USE DEF disk, runtime
<1>t. /\ local \in [Invocation -> Local]
      /\ local[p] \in Local
      /\ Scoped(local[p])
  BY DEF TypeOK, InScope
<1>1. CASE Allocate(p)
  <2>1. PICK s \in Id \ drawn :
          /\ drawn' = drawn \cup {s}
          /\ local' = [local EXCEPT ![p].pc = "key", ![p].id = s]
    BY <1>1 DEF Allocate, Drawable, Free
  <2> QED
    BY <1>t, <1>1, <2>1 DEF Allocate, At, Mentions, Local, Making, MachineGone,
       KeyGone
<1>2. CASE LoadKey(p)
  <2>1. CASE key[local[p].id] # Absent
    <3>1. local' = [local EXCEPT ![p].pc = "run", ![p].key = key[local[p].id]]
      BY <1>2, <2>1 DEF LoadKey
    <3> QED
      BY <1>t, <1>2, <3>1 DEF LoadKey, At, Mentions, Local, Making,
         MachineGone, KeyGone
  <2>2. CASE key[local[p].id] = Absent
    <3>1. local' = [local EXCEPT ![p].pc = "new key"]
      BY <1>2, <2>2 DEF LoadKey, Goto
    <3> QED
      BY <1>t, <1>2, <3>1 DEF LoadKey, At, Mentions, Local, Making,
         MachineGone, KeyGone
  <2> QED
    BY <2>1, <2>2
<1>3. CASE WriteKey(p)
  <2>1. /\ local[p].pc = "new key" /\ local'[p].pc = "run"
        /\ local'[p].id = local[p].id /\ local'[p].victim = local[p].victim
        /\ local'[p].todo = local[p].todo /\ local[p].id \in Id
    BY <1>t, <1>3 DEF Local, Scoped, Holding, Making, Removing, MachineGone, At,
       WriteKey
  <2>2. key'[local[p].id] = local'[p].key
    BY <1>t, <1>3, <2>1 DEF WriteKey, TypeOK, Local
  <2> QED
    BY <1>3, <2>1, <2>2 DEF WriteKey, At, Mentions, Making, MachineGone, KeyGone
<1>4. CASE RunDetached(p)
  <2>1. /\ local[p].pc = "run" /\ local'[p].pc = "wait"
        /\ local'[p].id = local[p].id /\ local'[p].victim = local[p].victim
        /\ local'[p].todo = local[p].todo /\ local[p].id \in Id
    BY <1>t, <1>4 DEF Local, Scoped, Holding, Making, Removing, MachineGone, At,
       RunDetached, Goto
  <2> QED
    BY <1>4, <2>1 DEF RunDetached, At, Mentions, Making, MachineGone, KeyGone
<1>5. CASE Restart(p)
  <2>1. /\ local[p].pc = "restart" /\ local'[p].pc = "wait"
        /\ local'[p].id = local[p].id /\ local'[p].victim = local[p].victim
        /\ local'[p].todo = local[p].todo /\ local[p].id \in Id
    BY <1>t, <1>5 DEF Local, Scoped, Holding, Making, Removing, MachineGone, At,
       Restart, Goto
  <2> QED
    BY <1>5, <2>1 DEF Restart, At, Mentions, Making, MachineGone, KeyGone
<1>6. CASE TruncateRecord(p)
  <2>1. /\ local[p].pc = "store" /\ local'[p].pc = "write"
        /\ local'[p].id = local[p].id /\ local'[p].victim = local[p].victim
        /\ local'[p].todo = local[p].todo /\ local[p].id \in Id
    BY <1>t, <1>6 DEF Local, Scoped, Holding, Making, Removing, MachineGone, At,
       TruncateRecord, Goto
  <2>2. record'[local[p].id] # Absent
    BY <1>6, <2>1, SessionsAssumption DEF TruncateRecord, TypeOK
  <2> QED
    BY <1>6, <2>1, <2>2
    DEF TruncateRecord, At, Mentions, Making, MachineGone, KeyGone
<1>7. CASE WriteRecord(p)
  <2>1. /\ local[p].pc = "write" /\ local'[p].pc = "open"
        /\ local'[p].id = local[p].id /\ local'[p].victim = local[p].victim
        /\ local'[p].todo = local[p].todo /\ local[p].id \in Id
    BY <1>t, <1>7 DEF Local, Scoped, Holding, Making, Removing, MachineGone, At,
       WriteRecord, Goto
  <2> QED
    BY <1>7, <2>1 DEF WriteRecord, At, Mentions, Making, MachineGone, KeyGone
<1>8. CASE OpenShell(p)
  <2>1. /\ local[p].pc = "open" /\ local'[p].pc = "shell"
        /\ local'[p].id = local[p].id /\ local'[p].victim = local[p].victim
        /\ local'[p].todo = local[p].todo /\ local[p].id \in Id
    BY <1>t, <1>8 DEF Local, Scoped, Holding, Making, Removing, MachineGone, At,
       OpenShell, Goto
  <2> QED
    BY <1>8, <2>1 DEF OpenShell, At, Mentions, Making, MachineGone, KeyGone
<1>9. CASE OpenCodex(p)
  <2>1. /\ local[p].pc = "open" /\ local'[p].pc = "codex"
        /\ local'[p].id = local[p].id /\ local'[p].victim = local[p].victim
        /\ local'[p].todo = local[p].todo /\ local[p].id \in Id
    BY <1>t, <1>9 DEF Local, Scoped, Holding, Making, Removing, MachineGone, At,
       OpenCodex, Goto
  <2> QED
    BY <1>9, <2>1 DEF OpenCodex, At, Mentions, Making, MachineGone, KeyGone
<1>10. CASE RmList(p)
  <2>1. /\ local'[p].id = local[p].id /\ local'[p].victim = local[p].victim
        /\ local'[p].todo = local[p].todo
        /\ local[p].pc = "rm list" /\ local'[p].pc \in {"rm machine", "rm entry"}
        /\ local'[p].pc = "rm entry" => machine[local[p].victim] = Absent
    BY <1>t, <1>10 DEF RmList, Goto, Local, At, Exists
  <2> QED
    BY <1>10, <2>1 DEF RmList, At, Mentions, Making, MachineGone, KeyGone
<1>11. CASE RmMachine(p)
  <2>1. /\ local[p].pc = "rm machine" /\ local'[p].pc = "rm entry"
        /\ local'[p].id = local[p].id /\ local'[p].victim = local[p].victim
        /\ local'[p].todo = local[p].todo /\ local[p].victim \in Id
    BY <1>t, <1>11
    DEF Local, Scoped, Holding, Making, Removing, MachineGone, At,
       RmMachine, Goto
  <2>2. machine'[local[p].victim] = Absent
    BY <1>11, <2>1 DEF RmMachine, TypeOK
  <2> QED
    BY <1>11, <2>1, <2>2
    DEF RmMachine, At, Mentions, Making, MachineGone, KeyGone
<1>12. CASE RmEntry(p)
  <2>1. /\ local[p].pc = "rm entry" /\ local'[p].pc = "rm key"
        /\ local'[p].id = local[p].id /\ local'[p].victim = local[p].victim
        /\ local'[p].todo = local[p].todo /\ local[p].victim \in Id
    BY <1>t, <1>12
    DEF Local, Scoped, Holding, Making, Removing, MachineGone, At,
       RmEntry, Goto
  <2> QED
    BY <1>12, <2>1 DEF RmEntry, At, Mentions, Making, MachineGone, KeyGone
<1>13. CASE RmKey(p)
  <2>1. /\ local[p].pc = "rm key" /\ local'[p].pc = "rm host key"
        /\ local'[p].id = local[p].id /\ local'[p].victim = local[p].victim
        /\ local'[p].todo = local[p].todo /\ local[p].victim \in Id
    BY <1>t, <1>13
    DEF Local, Scoped, Holding, Making, Removing, MachineGone, At,
       RmKey, Goto
  <2>2. key'[local[p].victim] = Absent
    BY <1>13, <2>1 DEF RmKey, TypeOK
  <2> QED
    BY <1>13, <2>1, <2>2 DEF RmKey, At, Mentions, Making, MachineGone, KeyGone
<1>14. CASE RmHostKey(p)
  <2>1. /\ local[p].pc = "rm host key" /\ local'[p].pc = "rm record"
        /\ local'[p].id = local[p].id /\ local'[p].victim = local[p].victim
        /\ local'[p].todo = local[p].todo /\ local[p].victim \in Id
    BY <1>t, <1>14
    DEF Local, Scoped, Holding, Making, Removing, MachineGone, At,
       RmHostKey, Goto
  <2>2. local[p].victim \notin hostKey'
    BY <1>14 DEF RmHostKey
  <2> QED
    BY <1>14, <2>1, <2>2
    DEF RmHostKey, At, Mentions, Making, MachineGone, KeyGone
<1>15. CASE RmRecord(p)
  <2>1. CASE local[p].back = "idle"
    <3>1. local' = [local EXCEPT ![p] = Idle]
      BY <1>15, <2>1 DEF RmRecord, Return
    <3> QED
      BY <1>t, <1>15, <3>1, SessionsAssumption DEF RmRecord, At, Mentions, Idle,
         Making, MachineGone, KeyGone
  <2>2. CASE local[p].back # "idle"
    <3> DEFINE T == {c \in local[p].todo : c.id # local[p].victim}
    <3>1. local' = [local EXCEPT ![p] =
            [local[p] EXCEPT !.pc = local[p].back, !.victim = Absent, !.back = "idle",
                             !.todo = T]]
      BY <1>15, <2>2 DEF RmRecord
    <3>2. local[p].back \in {"stale", "room"}
      BY <1>t, <2>2 DEF Local
    <3> QED
      BY <1>t, <1>15, <3>1, <3>2, SessionsAssumption DEF RmRecord, At, Mentions,
         Local, Making, MachineGone, KeyGone
  <2> QED
    BY <2>1, <2>2
<1> QED
  BY <1>1, <1>2, <1>3, <1>4, <1>5, <1>6, <1>7, <1>8, <1>9, <1>10,
     <1>11, <1>12, <1>13, <1>14, <1>15
  DEF Acting, Remove

\* An acting step keeps the invariant.
LEMMA ActingKeeps ==
  ASSUME Inductive, DrawsRepeat = FALSE, NEW p \in Invocation, Acting(p),
         TypeOK', InScope', OpenIsThere'
  PROVE  Inductive'
<1>i. /\ TypeOK /\ InScope /\ OpenIsThere
      /\ UndrawnIsUnknown /\ CreatorAlone /\ RemovalInOrder
      /\ OpenedIsRecorded /\ MachineHasIdentity /\ HostKeyHasRecord
  BY DEF Inductive
<1>o. \A q \in Invocation \ {p} : local'[q] = local[q]
  BY <1>i, OwnStep DEF Acting, Progress, Provision
<1>n. \A q \in Invocation : Mentions(q, local[q].id) /\ Mentions(q, local[q].victim)
  BY DEF Mentions
<1>s. \A q \in Invocation :
        /\ local[q].pc \in Making \cup {"write", "open"} => local[q].id \in Id
        /\ local[q].pc \in MachineGone => local[q].victim \in Id
  BY <1>i DEF InScope, Scoped, Holding, Removing
<1>p. \A q \in Invocation :
        /\ (local[q].pc \in Making \cup {"write", "open"})' => local'[q].id \in Id
        /\ (local[q].pc \in MachineGone)' => local'[q].victim \in Id
  BY DEF InScope, Scoped, Holding, Removing
\* A session another invocation is making is out of p's reach.
<1>a. ASSUME NEW q \in Invocation \ {p}, NEW s \in Id,
             local[q].pc \in Making, local[q].id = s
      PROVE  /\ record'[s] = record[s] /\ machine'[s] = machine[s]
             /\ key'[s] = key[s] /\ ~Mentions(p, s)'
  <2>1. ~Mentions(p, s) /\ record[s] = Absent /\ machine[s] = Absent
    BY <1>i, <1>a DEF CreatorAlone
  <2>2. s \in drawn
    BY <1>i, <1>a, <1>n DEF UndrawnIsUnknown
  <2>3. local[p].id # s /\ local[p].victim # s
    BY <2>1 DEF Mentions
  <2>4. record'[s] = record[s] /\ key'[s] = key[s]
    BY <1>i, <2>3, RecordEffect, KeyEffect
  <2>5. machine'[s] = machine[s]
    BY <1>i, <2>1, <2>3, MachineEffect
  <2> QED
    BY <1>i, <2>1, <2>2, <2>4, <2>5, ControlEffect
\* A session p is making is out of the others' reach.
<1>c. ASSUME NEW q \in Invocation \ {p}, NEW s \in Id, Mentions(q, s)
      PROVE  ~(local[p].pc \in Making /\ local[p].id = s)
  BY <1>i, <1>c DEF CreatorAlone
<1>1. UndrawnIsUnknown'
  <2> SUFFICES ASSUME NEW s \in Id \ drawn'
               PROVE  /\ record'[s] = Absent /\ machine'[s] = Absent
                      /\ \A q \in Invocation : ~Mentions(q, s)'
    BY DEF UndrawnIsUnknown
  <2>1. /\ s \notin drawn /\ record[s] = Absent /\ machine[s] = Absent
        /\ \A q \in Invocation : ~Mentions(q, s)
    BY <1>i, ControlEffect DEF UndrawnIsUnknown
  <2>2. local[p].id # s /\ local[p].victim # s
    BY <2>1 DEF Mentions
  <2>3. record'[s] = Absent /\ machine'[s] = Absent
    BY <1>i, <2>1, <2>2, RecordEffect, MachineEffect
  <2>4. ~Mentions(p, s)'
    BY <1>i, <2>1, ControlEffect
  <2>5. \A q \in Invocation \ {p} : ~Mentions(q, s)'
    BY <1>o, <2>1 DEF Mentions
  <2> QED
    BY <2>3, <2>4, <2>5
<1>2. CreatorAlone'
  <2> SUFFICES ASSUME NEW q \in Invocation, (local[q].pc \in Making)'
               PROVE  /\ (record[local[q].id] = Absent)'
                      /\ (machine[local[q].id] = Absent)'
                      /\ \A r \in Invocation \ {q} : ~Mentions(r, local[q].id)'
                      /\ (local[q].pc = "run" => key[local[q].id] = local[q].key)'
    BY DEF CreatorAlone, At
  <2>1. CASE q # p
    <3>1. local'[q] = local[q] /\ local[q].pc \in Making /\ local[q].id \in Id
      BY <1>o, <1>s, <2>1
    <3>2. /\ record[local[q].id] = Absent /\ machine[local[q].id] = Absent
          /\ \A r \in Invocation \ {q} : ~Mentions(r, local[q].id)
          /\ local[q].pc = "run" => key[local[q].id] = local[q].key
      BY <1>i, <3>1 DEF CreatorAlone, At
    <3>3. \A r \in Invocation \ {p, q} : ~Mentions(r, local[q].id)'
      BY <1>o, <3>1, <3>2 DEF Mentions
    <3> QED
      BY <1>a, <2>1, <3>1, <3>2, <3>3
  <2>2. CASE q = p /\ local[p].pc \in Making \ {"run"} /\ local'[p].id = local[p].id
    <3>s. PICK s \in Id : s = local[p].id
      BY <1>s, <2>2
    <3>1. /\ record[s] = Absent /\ machine[s] = Absent
          /\ \A r \in Invocation \ {p} : ~Mentions(r, s)
      BY <1>i, <2>2, <3>s DEF CreatorAlone
    <3>2. record'[s] = Absent /\ machine'[s] = Absent
      BY <1>i, <2>2, <3>s, <3>1, RecordEffect, MachineEffect DEF At, Making
    <3>3. \A r \in Invocation \ {p} : ~Mentions(r, s)'
      BY <1>o, <3>1 DEF Mentions
    <3>4. local'[p].pc = "run" => key'[s] = local'[p].key
      BY <1>i, <3>s, ControlEffect
    <3> QED
      BY <2>2, <3>s, <3>2, <3>3, <3>4
  <2>3. CASE /\ q = p /\ At(p, "allocate") /\ local'[p].pc = "key"
             /\ local'[p].id \in Id \ drawn
    <3>s. PICK s \in Id \ drawn : s = local'[p].id
      BY <2>3
    <3>1. /\ record[s] = Absent /\ machine[s] = Absent
          /\ \A r \in Invocation : ~Mentions(r, s)
      BY <1>i DEF UndrawnIsUnknown
    <3>2. record'[s] = Absent /\ machine'[s] = Absent
      BY <1>i, <2>3, <3>1, RecordEffect, MachineEffect DEF At
    <3>3. \A r \in Invocation \ {p} : ~Mentions(r, s)'
      BY <1>o, <3>1 DEF Mentions
    <3> QED
      BY <2>3, <3>s, <3>2, <3>3
  <2> QED
    BY <1>i, <2>1, <2>2, <2>3, ControlEffect
<1>3. RemovalInOrder'
  <2> SUFFICES ASSUME NEW q \in Invocation, (local[q].pc \in MachineGone)'
               PROVE  /\ (machine[local[q].victim] = Absent)'
                      /\ (local[q].pc \in KeyGone => key[local[q].victim] = Absent)'
                      /\ (local[q].pc = "rm record" => local[q].victim \notin hostKey)'
    BY DEF RemovalInOrder, At, KeyGone, MachineGone
  <2> DEFINE v == local'[q].victim
  <2>1. v \in Id
    BY <1>p
  \* What is gone stays gone, unless p is the maker of v.
  <2>2. ASSUME machine[v] = Absent, ~(local[p].pc \in Making /\ local[p].id = v)
        PROVE  /\ machine'[v] = Absent
               /\ key[v] = Absent => key'[v] = Absent
               /\ v \notin hostKey => v \notin hostKey'
    <3>1. machine'[v] = Absent
      BY <1>i, <2>1, <2>2, MachineEffect DEF At, Making
    <3>2. key[v] = Absent => key'[v] = Absent
      BY <1>i, <2>1, <2>2, KeyEffect DEF At, Making
    <3>3. v \notin hostKey => v \notin hostKey'
      BY <2>1, <2>2, HostKeyEffect DEF Running, Exists
    <3> QED
      BY <3>1, <3>2, <3>3
  <2>3. CASE q # p
    <3>1. local'[q] = local[q]
      BY <1>o, <2>3
    <3>2. /\ machine[v] = Absent
          /\ local[q].pc \in KeyGone => key[v] = Absent
          /\ local[q].pc = "rm record" => v \notin hostKey
      BY <1>i, <3>1 DEF RemovalInOrder, At, KeyGone, MachineGone
    <3>3. ~(local[p].pc \in Making /\ local[p].id = v)
      BY <1>c, <1>n, <2>1, <2>3, <3>1
    <3> QED
      BY <2>2, <3>1, <3>2, <3>3
  <2>4. CASE q = p
    <3>1. /\ local'[p].victim = local[p].victim
          /\ local[p].pc \in MachineGone \/ machine'[v] = Absent
          /\ local'[p].pc \in KeyGone => local[p].pc \in KeyGone \/ key'[v] = Absent
          /\ local'[p].pc = "rm record" => v \notin hostKey'
      BY <1>i, <2>4, ControlEffect
    <3>2. CASE local[p].pc \in MachineGone
      <4>1. machine[v] = Absent /\ local[p].pc \notin Making
        BY <1>i, <2>4, <3>1, <3>2 DEF RemovalInOrder, MachineGone, Making
      <4>2. local[p].pc \in KeyGone => key[v] = Absent
        BY <1>i, <2>4, <3>1 DEF RemovalInOrder
      <4> QED
        BY <2>2, <2>4, <3>1, <4>1, <4>2
    <3>3. CASE local[p].pc \notin MachineGone
      BY <2>4, <3>1, <3>3 DEF KeyGone, MachineGone
    <3> QED
      BY <3>2, <3>3
  <2> QED
    BY <2>3, <2>4
<1>4. OpenedIsRecorded'
  <2> SUFFICES ASSUME NEW q \in Invocation, (local[q].pc \in {"write", "open"})',
                      machine'[local'[q].id] # Absent
               PROVE  record'[local'[q].id] # Absent
    BY DEF OpenedIsRecorded, Exists
  <2> DEFINE s == local'[q].id
  <2>1. s \in Id
    BY <1>p
  \* The record goes only when the machine is gone.
  <2>2. ASSUME machine[s] # Absent => record[s] # Absent,
               ~(local[p].pc \in Making /\ local[p].id = s)
        PROVE  record'[s] # Absent
    <3>1. machine[s] # Absent
      BY <1>i, <2>1, <2>2, MachineEffect DEF At, Making
    <3>2. ~(At(p, "rm record") /\ local[p].victim = s)
      BY <1>i, <3>1 DEF RemovalInOrder, MachineGone, At
    <3> QED
      BY <1>i, <2>1, <2>2, <3>1, <3>2, RecordEffect
  <2>3. CASE q # p
    <3>1. local'[q] = local[q]
      BY <1>o, <2>3
    <3> QED
      BY <1>c, <1>i, <1>n, <2>1, <2>2, <2>3, <3>1 DEF OpenedIsRecorded, Exists
  <2>4. CASE q = p
    <3>1. local'[p].id = local[p].id /\ (local[p].pc = "write" \/ record'[s] # Absent)
      BY <1>i, <2>4, ControlEffect
    <3> QED
      BY <1>i, <2>2, <2>4, <3>1 DEF OpenedIsRecorded, Exists, Making
  <2> QED
    BY <2>3, <2>4
<1>5. MachineHasIdentity'
  <2> SUFFICES ASSUME NEW s \in Id, machine'[s] # Absent
               PROVE  key'[s] = machine'[s].authorised
    BY DEF MachineHasIdentity, Exists
  <2>1. CASE At(p, "run") /\ local[p].id = s /\ machine'[s].authorised = local[p].key
    <3>1. key[s] = local[p].key
      BY <1>i, <2>1 DEF CreatorAlone, At, Making
    <3> QED
      BY <1>i, <2>1, <3>1, KeyEffect DEF At
  <2>2. CASE machine[s] # Absent /\ machine'[s].authorised = machine[s].authorised
    <3>1. key[s] = machine[s].authorised
      BY <1>i, <2>2 DEF MachineHasIdentity, Exists
    <3>2. ~(At(p, "new key") /\ local[p].id = s)
      BY <1>i, <2>2 DEF CreatorAlone, At, Making
    <3>3. ~(At(p, "rm key") /\ local[p].victim = s)
      BY <1>i, <2>2 DEF RemovalInOrder, At, MachineGone
    <3> QED
      BY <1>i, <2>2, <3>1, <3>2, <3>3, KeyEffect
  <2> QED
    BY <1>i, <2>1, <2>2, MachineEffect
<1>6. HostKeyHasRecord'
  <2> SUFFICES ASSUME NEW s \in hostKey' PROVE record'[s] # Absent
    BY DEF HostKeyHasRecord
  <2>1. s \in Id
    BY DEF TypeOK
  <2>2. ~(At(p, "rm record") /\ local[p].victim = s)
    <3>1. CASE s \in hostKey
      BY <1>i, <3>1 DEF RemovalInOrder
    <3>2. CASE s \notin hostKey
      BY <2>1, <3>2, HostKeyEffect DEF At
    <3> QED
      BY <3>1, <3>2
  <2>3. record[s] # Absent
    <3>1. CASE s \in hostKey
      BY <1>i, <3>1 DEF HostKeyHasRecord
    <3>2. CASE s \notin hostKey
      BY <1>i, <2>1, <3>2, HostKeyEffect DEF OpenedIsRecorded, At, Running
    <3> QED
      BY <3>1, <3>2
  <2> QED
    BY <1>i, <2>1, <2>2, <2>3, RecordEffect
<1> QED
  BY <1>i, <1>1, <1>2, <1>3, <1>4, <1>5, <1>6 DEF Inductive

\* Nothing that happens to a machine from outside disturbs it.
LEMMA EnvironmentKeeps ==
  ASSUME Inductive, Environment \/ UNCHANGED vars, TypeOK', InScope',
         OpenIsThere'
  PROVE  Inductive'
<1> USE DEF disk, runtime
<1>1. UNCHANGED <<record, key, hostKey, drawn, local>>
  BY DEF Environment, Tick, MachineStops, MachineLost, vars
<1>2. ASSUME NEW s \in Id
      PROVE  \/ machine'[s] = machine[s]
             \/ machine'[s] = Absent
             \/ /\ machine[s] # Absent
                /\ machine'[s].authorised = machine[s].authorised
  <2>1. CASE Tick \/ UNCHANGED vars
    BY <2>1 DEF Tick, vars
  <2>2. ASSUME NEW t \in Id, MachineStops(t)
        PROVE  \/ machine'[s] = machine[s]
               \/ /\ machine[s] # Absent
                  /\ machine'[s].authorised = machine[s].authorised
    BY <2>2 DEF MachineStops, Running, Exists, Inductive, TypeOK, Machine
  <2>3. ASSUME NEW t \in Id, MachineLost(t)
        PROVE  machine'[s] = machine[s] \/ machine'[s] = Absent
    BY <2>3 DEF MachineLost, Inductive, TypeOK
  <2> QED
    BY <2>1, <2>2, <2>3 DEF Environment
<1>3. UndrawnIsUnknown'
  BY <1>1, <1>2 DEF Inductive, UndrawnIsUnknown, Mentions
<1>4. CreatorAlone'
  BY <1>1, <1>2
  DEF Inductive, CreatorAlone, Mentions, At, InScope, Scoped, Holding
<1>5. RemovalInOrder'
  BY <1>1, <1>2
  DEF Inductive, RemovalInOrder, At, InScope, Scoped, Removing
<1>6. OpenedIsRecorded'
  BY <1>1, <1>2
  DEF Inductive, OpenedIsRecorded, Exists, InScope, Scoped, Holding
<1>7. MachineHasIdentity' /\ HostKeyHasRecord'
  BY <1>1, <1>2 DEF Inductive, MachineHasIdentity, HostKeyHasRecord, Exists
<1> QED
  BY <1>3, <1>4, <1>5, <1>6, <1>7 DEF Inductive

\* The invariant is inductive as long as no identifier is drawn twice.
LEMMA InductiveStep ==
  ASSUME Inductive, [Next]_vars, DrawsRepeat = FALSE
  PROVE  Inductive'
<1>t. TypeOK' /\ InScope' /\ OpenIsThere'
  BY TypesKept, OpenStep DEF Inductive
<1>1. CASE UNCHANGED vars
  BY <1>1, <1>t, EnvironmentKeeps
<1>2. CASE Environment
  BY <1>2, <1>t, EnvironmentKeeps
<1>3. ASSUME NEW p \in Invocation, Looking(p)
      PROVE  Inductive'
  BY <1>3, <1>t, LookingIsQuiet, QuietKeeps DEF Inductive
<1>4. ASSUME NEW p \in Invocation, Acting(p)
      PROVE  Inductive'
  BY <1>4, <1>t, ActingKeeps
<1> QED
  BY <1>1, <1>2, <1>3, <1>4
  DEF Next, Looking, Acting, Start, Progress, Provision

-----------------------------------------------------------------------------
\* The types, whatever the entropy source does.
THEOREM TypeCorrect == Spec => []TypeOK
<1>1. Init => TypeOK /\ InScope
  BY InitInductive DEF Inductive
<1>2. TypeOK /\ InScope /\ [Next]_vars => (TypeOK /\ InScope)'
  BY TypesKept
<1> QED
  BY <1>1, <1>2, PTL DEF Spec

\* As long as no identifier is drawn twice, nobody takes what a creation is
\* making or brings back what a removal has passed, wherever any of the
\* invocations is, is killed or fails (provision.rs, reclaim.rs).
THEOREM AlwaysInductive ==
  ASSUME DrawsRepeat = FALSE
  PROVE  Spec => []Inductive
<1>1. Inductive /\ [Next]_vars => Inductive'
  BY InductiveStep
<1> QED
  BY <1>1, InitInductive, PTL DEF Spec

\* As long as no identifier is drawn twice, every machine authorises the
\* identity that is kept for it, through every interleaving of creations,
\* removals, kills and failures (keys.rs, provision.rs, reclaim.rs).
THEOREM IdentityKept ==
  ASSUME DrawsRepeat = FALSE
  PROVE  Spec => []MachineHasIdentity
<1>1. Inductive => MachineHasIdentity
  BY DEF Inductive
<1> QED
  BY <1>1, AlwaysInductive, PTL

\* A remembered host key always belongs to a recorded session.
THEOREM HostKeysRecorded ==
  ASSUME DrawsRepeat = FALSE
  PROVE  Spec => []HostKeyHasRecord
<1>1. Inductive => HostKeyHasRecord
  BY DEF Inductive
<1> QED
  BY <1>1, AlwaysInductive, PTL

\* A record is the last part of its session to go (reclaim.rs remove).
THEOREM RecordGoesLast ==
  ASSUME DrawsRepeat = FALSE
  PROVE  Spec => RecordOutlivesTheRest
<1> DEFINE Outlives == \A s \in Id :
             record[s] # Absent /\ record'[s] = Absent
               => ~Exists(s) /\ key[s] = Absent /\ s \notin hostKey
<1>1. ASSUME Inductive, [Next]_vars
      PROVE  [Outlives]_vars
  <2>1. CASE UNCHANGED <<record>>
    BY <2>1
  <2>2. ASSUME NEW p \in Invocation, Acting(p)
        PROVE  Outlives
    BY <1>1, <2>2, RecordEffect
    DEF Inductive, RemovalInOrder, At, MachineGone, KeyGone, Exists
  <2>3. ASSUME NEW p \in Invocation, Looking(p)
        PROVE  Outlives
    BY <1>1, <2>3, LookingIsQuiet DEF Inductive, Quiet
  <2>4. CASE Environment
    BY <2>4 DEF Environment, Tick, MachineStops, MachineLost, disk
  <2> QED
    BY <1>1, <2>1, <2>2, <2>3, <2>4
    DEF Next, Looking, Acting, Start, Progress, Provision, vars, disk
<1>2. Inductive /\ [Next]_vars => [Outlives]_vars
  BY <1>1
<1> QED
  BY <1>2, AlwaysInductive, PTL DEF Spec, RecordOutlivesTheRest

-----------------------------------------------------------------------------
(***************************************************************************)
(* Records that do not parse.                                              *)
(***************************************************************************)
\* What makes them so: a truncated record is being stored, and a record that
\* is whole or garbled while somebody stores it was opened by two.
Stored(s) ==
  /\ record[s] = Torn => \E p \in Invocation : Storing(p, s)
  /\ record[s] = Garbled => StoredTwice(s)
  /\ record[s] # Torn /\ (\E p \in Invocation : Storing(p, s)) => StoredTwice(s)

Stores == OpenIsThere /\ \A s \in Id : Stored(s)

\* Only the step that writes follows the one that truncates.
LEMMA WritingOnlyWrites ==
  ASSUME NEW p \in Invocation, At(p, "write"), Interrupts = FALSE,
         Start(p) \/ Progress(p) \/ Close(p) \/ Interrupt(p)
  PROVE  WriteRecord(p)
<1> USE DEF At
<1>1. ~Start(p) /\ ~Close(p) /\ ~Interrupt(p)
  BY DEF Start, Create, Resume, Close, Interrupt
<1>2. ~Reclaim(p)
  BY DEF Reclaim, ListLive, ReadSessions, RemoveStale, NoneStale, ListImages,
         Unreferenced, PruneImage, NonePrunable, MakeRoom, RoomEnough
<1>3. ~Remove(p)
  BY DEF Remove, RmList, RmMachine, RmEntry, RmKey, RmHostKey, RmRecord
<1>4. ~Refuse(p)
  BY DEF Refuse, Refused
<1>5. Provision(p) => WriteRecord(p)
  BY DEF Provision, Reserve, EnsureImage, Build, Allocate, LoadKey, WriteKey,
         RunDetached, CheckExisting, Restart, Reachable, TruncateRecord,
         OpenShell, OpenCodex
<1> QED
  BY <1>1, <1>2, <1>3, <1>4, <1>5 DEF Progress

\* And it is the one that truncates that leads to it.
LEMMA TruncatingFirst ==
  ASSUME TypeOK, InScope, NEW p \in Invocation,
         Start(p) \/ Progress(p) \/ Close(p) \/ Interrupt(p), At(p, "write")'
  PROVE  TruncateRecord(p)
<1> USE DEF At
<1>t. local \in [Invocation -> Local] /\ local[p] \in Local
  BY DEF TypeOK
<1>1. CASE Looking(p)
  BY <1>1, LookingIsQuiet DEF Quiet
<1>2. CASE \/ Restart(p) \/ WriteRecord(p) \/ OpenShell(p) \/ OpenCodex(p)
           \/ RmList(p) \/ RmMachine(p) \/ RmEntry(p) \/ RmKey(p) \/ RmHostKey(p)
  <2>1. PICK label \in Labels \ {"write"} : Goto(p, label)
    BY <1>2 DEF Restart, WriteRecord, OpenShell, OpenCodex, RmList, RmMachine,
                RmEntry, RmKey, RmHostKey, Labels
  <2> QED
    BY <1>t, <2>1 DEF Goto, Local
<1>3. CASE Allocate(p)
  <2>1. PICK s \in Drawable : local' = [local EXCEPT ![p].pc = "key", ![p].id = s]
    BY <1>3 DEF Allocate
  <2> QED
    BY <1>t, <2>1 DEF Local
<1>4. CASE LoadKey(p)
  <2>1. CASE key[local[p].id] # Absent
    BY <1>t, <1>4, <2>1 DEF LoadKey, Local
  <2>2. CASE key[local[p].id] = Absent
    BY <1>t, <1>4, <2>2 DEF LoadKey, Goto, Local
  <2> QED
    BY <2>1, <2>2
<1>5. CASE WriteKey(p) \/ RunDetached(p)
  <2>1. CASE WriteKey(p)
    BY <1>t, <2>1 DEF WriteKey, Local
  <2>2. CASE RunDetached(p)
    BY <1>t, <2>2 DEF RunDetached, Local
  <2> QED
    BY <1>5, <2>1, <2>2
<1>6. CASE RmRecord(p)
  <2>1. CASE local[p].back = "idle"
    <3>1. Return(p)
      BY <1>6, <2>1 DEF RmRecord
    <3> QED
      BY <1>t, <3>1 DEF Return, Idle
  <2>2. CASE local[p].back # "idle"
    <3> DEFINE T == {c \in local[p].todo : c.id # local[p].victim}
    <3>1. local' = [local EXCEPT ![p] =
            [local[p] EXCEPT !.pc = local[p].back, !.victim = Absent, !.back = "idle",
                             !.todo = T]]
      BY <1>6, <2>2 DEF RmRecord
    <3> HIDE DEF T
    <3>2. local'[p].pc = local[p].back
      BY <1>t, <3>1 DEF Local
    <3> QED
      BY <1>t, <3>2 DEF Local
  <2> QED
    BY <2>1, <2>2
<1> QED
  BY <1>1, <1>2, <1>3, <1>4, <1>5, <1>6
  DEF Looking, Progress, Provision, Remove

LEMMA StoresStep ==
  ASSUME TypeOK, InScope, Stores, Interrupts = FALSE, [Next]_vars
  PROVE  Stores'
<1> SUFFICES ASSUME NEW s \in Id  PROVE Stored(s)'
  BY OpenStep DEF Stores
<1>s. Stored(s)
  BY DEF Stores
<1>1. CASE UNCHANGED vars \/ Environment
  <2>1. UNCHANGED <<record, opened, local>>
    BY <1>1 DEF vars, disk, Environment, Tick, MachineStops, MachineLost
  <2> QED BY <1>s, <2>1 DEF Stored, StoredTwice, Storing, At
<1>2. ASSUME NEW p \in Invocation,
             Start(p) \/ Progress(p) \/ Close(p) \/ Interrupt(p)
      PROVE  Stored(s)'
  <2>o. \A q \in Invocation \ {p} : local'[q] = local[q]
    BY <1>2, OwnStep
  \* A step of p that leaves the file of s alone, and is not a write to it.
  <2>q. ASSUME record'[s] = record[s], opened'[s] = opened[s],
               \A q \in Invocation : Storing(q, s)' <=> Storing(q, s)
        PROVE  Stored(s)'
    BY <1>s, <2>q DEF Stored, StoredTwice
  <2>1. CASE TruncateRecord(p)
    <3>1. local[p].id \in Id
      BY <2>1 DEF TruncateRecord, At, InScope, Scoped, Holding
    <3>2. local'[p].pc = "write" /\ local'[p].id = local[p].id /\ ~At(p, "write")
      BY <2>1 DEF TruncateRecord, Goto, At, TypeOK, Local
    <3>3. CASE s = local[p].id
      <4>1. record'[s] = Torn /\ p \in opened'[s]
        BY <2>1, <3>3 DEF TruncateRecord, TypeOK
      <4>2. Storing(p, s)'
        BY <3>2, <3>3, <4>1 DEF Storing, At
      <4> QED
        BY <4>1, <4>2, SessionsAssumption DEF Stored
    <3>4. CASE s # local[p].id
      <4>1. record'[s] = record[s] /\ opened'[s] = opened[s]
        BY <2>1, <3>4 DEF TruncateRecord, TypeOK
      <4>2. ASSUME NEW q \in Invocation
            PROVE  Storing(q, s)' <=> Storing(q, s)
        BY <2>o, <3>2, <3>4, <4>1 DEF Storing, At
      <4> QED
        BY <2>q, <4>1, <4>2
    <3> QED
      BY <3>3, <3>4
  <2>2. CASE WriteRecord(p)
    <3>1. At(p, "write") /\ local'[p].pc = "open" /\ local'[p].id = local[p].id
      BY <2>2 DEF WriteRecord, Goto, At, TypeOK, Local
    <3>2. CASE UNCHANGED <<record, opened>> /\ p \notin opened[local[p].id]
      <4>1. ASSUME NEW q \in Invocation
            PROVE  Storing(q, s)' <=> Storing(q, s)
        BY <2>o, <3>1, <3>2 DEF Storing, At
      <4> QED
        BY <2>q, <3>2, <4>1
    <3>3. ASSUME NEW c \in Record \cup {Garbled},
                 p \in opened[local[p].id], local[p].id \in Id,
                 c = Garbled => record[local[p].id] # Torn,
                 record' = [record EXCEPT ![local[p].id] = c],
                 opened' = [opened EXCEPT ![local[p].id] =
                                StillOpen(p, local[p].id, c)]
          PROVE  Stored(s)'
      <4>1. CASE s # local[p].id
        <5>1. record'[s] = record[s] /\ opened'[s] = opened[s]
          BY <3>3, <4>1
        <5>2. ASSUME NEW q \in Invocation
              PROVE  Storing(q, s)' <=> Storing(q, s)
          BY <2>o, <3>1, <4>1, <5>1 DEF Storing, At
        <5> QED
          BY <2>q, <5>1, <5>2
      <4>2. CASE s = local[p].id
        <5>1. record'[s] = c /\ opened'[s] = StillOpen(p, s, c)
          BY <3>3, <4>2 DEF TypeOK
        <5>2. c # Torn
          BY AbsentIsNoRecordOrMachine, SessionsAssumption
        <5>3. Storing(p, s)
          BY <3>1, <3>3, <4>2 DEF Storing
        <5>4. CASE \E q \in Invocation \ {p} : Storing(q, s)
          <6>1. PICK q \in Invocation \ {p} : Storing(q, s)
            BY <5>4
          <6>2. opened'[s] = opened[s]
            BY <5>1, <6>1 DEF StillOpen
          <6>3. p \in opened'[s] /\ q \in opened'[s] /\ p # q
            BY <5>3, <6>1, <6>2 DEF Storing
          <6>4. StoredTwice(s)'
            BY <6>3 DEF StoredTwice
          <6> QED
            BY <5>1, <5>2, <6>4 DEF Stored
        <5>5. CASE \A q \in Invocation \ {p} : ~Storing(q, s)
          <6>1. CASE c = Garbled
            <7>1. opened'[s] = opened[s]
              BY <5>1, <6>1 DEF StillOpen
            <7>2. StoredTwice(s)
              BY <1>s, <3>3, <4>2, <5>3, <6>1 DEF Stored
            <7>3. StoredTwice(s)'
              BY <7>1, <7>2 DEF StoredTwice
            <7> QED
              BY <5>1, <5>2, <7>3 DEF Stored
          <6>2. CASE c # Garbled
            <7>1. opened'[s] = {}
              BY <5>1, <5>5, <6>2 DEF StillOpen
            <7>2. \A q \in Invocation : ~Storing(q, s)'
              BY <7>1 DEF Storing
            <7> QED
              BY <5>1, <5>2, <6>2, <7>2 DEF Stored
          <6> QED
            BY <6>1, <6>2
        <5> QED
          BY <5>4, <5>5
      <4> QED
        BY <4>1, <4>2
    <3> QED
      BY <2>2, <3>2, <3>3, WriteEffect
  <2>3. CASE RmRecord(p)
    <3>1. CASE s = local[p].victim
      <4>1. record'[s] = Absent /\ opened'[s] = {}
        BY <2>3, <3>1 DEF RmRecord, TypeOK
      <4>2. \A q \in Invocation : ~Storing(q, s)'
        BY <4>1 DEF Storing
      <4> QED
        BY <4>1, <4>2, SessionsAssumption DEF Stored
    <3>2. CASE s # local[p].victim
      <4>1. record'[s] = record[s] /\ opened'[s] = opened[s]
        BY <2>3, <3>2 DEF RmRecord, TypeOK
      <4>2. ~At(p, "write")
        BY <2>3 DEF RmRecord, At
      <4>3. ~At(p, "write")'
        <5>1. ~TruncateRecord(p)
          BY <2>3 DEF RmRecord, TruncateRecord, At
        <5> QED
          BY <1>2, <5>1, TruncatingFirst
      <4>4. ASSUME NEW q \in Invocation
            PROVE  Storing(q, s)' <=> Storing(q, s)
        BY <2>o, <4>1, <4>2, <4>3 DEF Storing, At
      <4> QED
        BY <2>q, <4>1, <4>4
    <3> QED
      BY <3>1, <3>2
  <2>4. CASE UNCHANGED <<record, opened>> /\ ~WriteRecord(p) /\ ~TruncateRecord(p)
    <3>1. ~At(p, "write")
      BY <1>2, <2>4, WritingOnlyWrites
    <3>2. ~At(p, "write")'
      BY <1>2, <2>4, TruncatingFirst
    <3>3. ASSUME NEW q \in Invocation
          PROVE  Storing(q, s)' <=> Storing(q, s)
      BY <2>o, <2>4, <3>1, <3>2 DEF Storing, At
    <3> QED
      BY <2>q, <2>4, <3>3
  <2>5. ~Interrupt(p)
    BY DEF Interrupt
  <2> QED
    BY <1>2, <2>1, <2>2, <2>3, <2>4, <2>5, FileSteps
<1> QED
  BY <1>1, <1>2 DEF Next

\* Unless an invocation is killed, a record that does not parse is one that
\* somebody is in the middle of storing or that two stored at one time,
\* however many store and remove the same one (host.rs store and forget).
THEOREM UnreadableIsPassing ==
  ASSUME Interrupts = FALSE
  PROVE  Spec => []UnreadableOnlyMidStore
<1>1. Init => Stores
  BY SessionsAssumption DEF Init, Stores, Stored, OpenIsThere, Storing
<1>2. Init => TypeOK /\ InScope
  BY InitInductive DEF Inductive
<1>3. TypeOK /\ InScope /\ Stores /\ [Next]_vars => (TypeOK /\ InScope /\ Stores)'
  BY TypesKept, StoresStep
<1>4. Stores => UnreadableOnlyMidStore
  BY DEF Stores, Stored, UnreadableOnlyMidStore, Unreadable
<1> QED
  BY <1>1, <1>2, <1>3, <1>4, PTL DEF Spec

=============================================================================
