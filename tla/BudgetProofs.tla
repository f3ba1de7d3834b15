---------------------------- MODULE BudgetProofs ----------------------------
(***************************************************************************)
(* What holds of machines and the shared builder, for any invocations,     *)
(* sessions, sizes and hosts.                                              *)
(***************************************************************************)
EXTENDS HostBudget, FiniteSetTheorems, TLAPS

LEMMA Names == Builder \notin Session /\ Builder \notin Foreign
BY BudgetAssumption

LEMMA ForeignSizes == ForeignSize \subseteq Size
BY BudgetAssumption

LEMMA Marks ==
  /\ Absent \notin Machine
  /\ None \notin Size
  /\ None \notin Session
BY ModelValuesAssumption DEF Machine

\* A suggestion that is granted is a size.
LEMMA SuggestedIsSize ==
  ASSUME NEW w, NEW m, NEW free, CanSuggest(w, m, free)
  PROVE  Suggestion(w, m) \in Size
<1>1. Suggestion(w, m) \in NonZeroSize
  BY DEF CanSuggest
<1> QED BY <1>1 DEF NonZeroSize, Size

-----------------------------------------------------------------------------
(***************************************************************************)
(* Types.                                                                  *)
(***************************************************************************)

\* Each step leaves one invocation somewhere, the rest where they were.
LEMMA LocalStays ==
  ASSUME TypeOK, NEW p \in Invocation, NEW l \in Local, Holds(l),
         local' = [local EXCEPT ![p] = l]
  PROVE  /\ local' \in [Invocation -> Local]
         /\ \A q \in Invocation : Holds(local'[q])
<1>1. \A q \in Invocation : local'[q] = IF q = p THEN l ELSE local[q]
  BY DEF TypeOK
<1>2. \A q \in Invocation : local'[q] \in Local /\ Holds(local'[q])
  BY <1>1 DEF TypeOK
<1>3. local' \in [Invocation -> Local]
  BY DEF TypeOK
<1> QED BY <1>2, <1>3

LEMMA IdleTypes == Nowhere \in Local /\ Holds(Nowhere)
BY DEF Nowhere, Local, Step, Holds, Building, Starting

LEMMA InitTypes == Init => TypeOK
BY IdleTypes DEF Init, TypeOK

\* Going on without taking or keeping anything.
LEMMA GoesToTypes ==
  ASSUME TypeOK, NEW p \in Invocation, NEW s \in Step, GoesTo(p, s),
         local[p].step # "idle", s # "idle",
         s \in Building <=> local[p].step \in Building,
         s \in Starting <=> local[p].step \in Starting
  PROVE  /\ local' \in [Invocation -> Local]
         /\ \A q \in Invocation : Holds(local'[q])
<1> DEFINE l == [local[p] EXCEPT !.step = s]
<1>1. local[p] \in Local /\ Holds(local[p])
  BY DEF TypeOK
<1>2. l \in Local
  BY <1>1 DEF Local
<1>3. l.step = s /\ l.sandbox = local[p].sandbox /\ l.build = local[p].build
      /\ l.name = local[p].name
  BY <1>1 DEF Local
<1>4. Holds(l)
  BY <1>1, <1>3 DEF Holds
<1>5. local' = [local EXCEPT ![p] = l]
  BY DEF GoesTo
<1> HIDE DEF l
<1> QED BY <1>2, <1>4, <1>5, LocalStays

LEMMA ReturnsTypes ==
  ASSUME TypeOK, NEW p \in Invocation, Returns(p)
  PROVE  TypeOK'
<1>1. /\ local' \in [Invocation -> Local]
      /\ \A q \in Invocation : Holds(local'[q])
  BY IdleTypes, LocalStays DEF Returns
<1> QED BY <1>1 DEF Returns, TypeOK, Measures

LEMMA StartsTypes ==
  ASSUME TypeOK, NEW p \in Invocation, NEW n \in Name, NEW size \in Size,
         Starts(p, n, size)
  PROVE  /\ machines' \in [Name -> Machine \cup {Absent}]
         /\ since' \in [Invocation -> SUBSET Name]
<1>1. [size |-> size, state |-> "starting"] \in Machine
  BY DEF Machine
<1> QED BY <1>1 DEF TypeOK, Starts, StartedBy

LEMMA QuietTypes ==
  ASSUME TypeOK, NEW p \in Invocation,
         FindImage(p) \/ MissImage(p) \/ BuilderIsUp(p)
  PROVE  TypeOK'
<1>1. PICK s \in {"allocate", "size build", "build"} :
        /\ Quietly(p, s)
        /\ s = "build" => local[p].step = "builder up"
        /\ s # "build" => local[p].step = "image"
  BY DEF FindImage, MissImage, BuilderIsUp
<1>2. s \in Step /\ s # "idle" /\ local[p].step # "idle"
      /\ (s \in Building <=> local[p].step \in Building)
      /\ (s \in Starting <=> local[p].step \in Starting)
  BY <1>1 DEF Step, Building, Starting
<1>3. GoesTo(p, s) /\ UNCHANGED <<machines, since, disturbed>>
  BY <1>1 DEF Quietly
<1>4. /\ local' \in [Invocation -> Local]
      /\ \A q \in Invocation : Holds(local'[q])
  BY <1>2, <1>3, GoesToTypes
<1> QED BY <1>3, <1>4 DEF TypeOK

LEMMA SizeSandboxTypes ==
  ASSUME TypeOK, NEW p \in Invocation, SizeSandbox(p)
  PROVE  TypeOK'
<1> DEFINE l == [local[p] EXCEPT !.step = "image",
                                 !.sandbox = Suggestion("sandbox", machines)]
<1>1. local[p] \in Local /\ local[p] = Nowhere
  BY DEF TypeOK, Holds, SizeSandbox
<1>2. Suggestion("sandbox", machines) \in Size
  BY SuggestedIsSize DEF SizeSandbox
<1>3. /\ l.step = "image" /\ l.sandbox = Suggestion("sandbox", machines)
      /\ l.build = None /\ l.name = None
  BY <1>1 DEF Nowhere
<1>4. l \in Local
  BY <1>1, <1>2 DEF Local, Step
<1>5. Holds(l)
  BY <1>2, <1>3, Marks DEF Holds, Building, Starting
<1>6. local' = [local EXCEPT ![p] = l]
  BY DEF SizeSandbox
<1> HIDE DEF l
<1>7. /\ local' \in [Invocation -> Local]
      /\ \A q \in Invocation : Holds(local'[q])
  BY <1>4, <1>5, <1>6, LocalStays
<1> QED BY <1>7 DEF SizeSandbox, TypeOK, Measures

LEMMA SizeBuildTypes ==
  ASSUME TypeOK, NEW p \in Invocation, SizeBuild(p)
  PROVE  TypeOK'
<1> DEFINE l == [local[p] EXCEPT !.step = "builder",
                                 !.build = Suggestion("build", machines)]
<1>1. local[p] \in Local /\ Holds(local[p]) /\ local[p].step = "size build"
  BY DEF TypeOK, SizeBuild
<1>2. Suggestion("build", machines) \in Size
  BY SuggestedIsSize DEF SizeBuild
<1>3. /\ l.step = "builder" /\ l.sandbox = local[p].sandbox
      /\ l.build = Suggestion("build", machines) /\ l.name = local[p].name
  BY <1>1 DEF Local
<1>4. l \in Local
  BY <1>1, <1>2 DEF Local, Step
<1>5. Holds(l)
  BY <1>1, <1>2, <1>3, Marks DEF Holds, Building, Starting
<1>6. local' = [local EXCEPT ![p] = l]
  BY DEF SizeBuild
<1> HIDE DEF l
<1>7. /\ local' \in [Invocation -> Local]
      /\ \A q \in Invocation : Holds(local'[q])
  BY <1>4, <1>5, <1>6, LocalStays
<1> QED BY <1>7 DEF SizeBuild, TypeOK

LEMMA BuildTypes ==
  ASSUME TypeOK, NEW p \in Invocation, Build(p)
  PROVE  TypeOK'
<1> DEFINE l == [local[p] EXCEPT !.step = "allocate", !.build = None]
<1>1. local[p] \in Local /\ Holds(local[p]) /\ local[p].step = "build"
  BY DEF TypeOK, Build
<1>2. /\ l.step = "allocate" /\ l.sandbox = local[p].sandbox
      /\ l.build = None /\ l.name = local[p].name
  BY <1>1 DEF Local
<1>3. l \in Local
  BY <1>1 DEF Local, Step
<1>4. Holds(l)
  BY <1>1, <1>2 DEF Holds, Building, Starting
<1>5. local' = [local EXCEPT ![p] = l]
  BY DEF Build
<1> HIDE DEF l
<1>6. /\ local' \in [Invocation -> Local]
      /\ \A q \in Invocation : Holds(local'[q])
  BY <1>3, <1>4, <1>5, LocalStays
<1> QED BY <1>6 DEF Build, TypeOK

LEMMA AllocateTypes ==
  ASSUME TypeOK, NEW p \in Invocation, Allocate(p)
  PROVE  TypeOK'
<1>1. PICK n \in Session :
        local' = [local EXCEPT ![p].step = "run", ![p].name = n]
  BY DEF Allocate
<1> DEFINE l == [local[p] EXCEPT !.step = "run", !.name = n]
<1>2. local[p] \in Local /\ Holds(local[p]) /\ local[p].step = "allocate"
  BY DEF TypeOK, Allocate
<1>3. /\ l.step = "run" /\ l.sandbox = local[p].sandbox
      /\ l.build = local[p].build /\ l.name = n
  BY <1>2 DEF Local
<1>4. l \in Local
  BY <1>2 DEF Local, Step
<1>5. Holds(l)
  BY <1>2, <1>3, Marks DEF Holds, Building, Starting
<1>6. local' = [local EXCEPT ![p] = l]
  BY <1>1
<1> HIDE DEF l
<1>7. /\ local' \in [Invocation -> Local]
      /\ \A q \in Invocation : Holds(local'[q])
  BY <1>4, <1>5, <1>6, LocalStays
<1> QED BY <1>7 DEF Allocate, TypeOK

LEMMA ResumeTypes ==
  ASSUME TypeOK, NEW p \in Invocation, Resume(p)
  PROVE  TypeOK'
<1>1. PICK n \in Session :
        /\ Exists(machines, n)
        /\ local' = [local EXCEPT ![p].step = "reserve", ![p].name = n,
                                  ![p].sandbox = machines[n].size]
  BY DEF Resume
<1> DEFINE l == [local[p] EXCEPT !.step = "reserve", !.name = n,
                                 !.sandbox = machines[n].size]
<1>2. local[p] \in Local /\ local[p] = Nowhere
  BY DEF TypeOK, Holds, Resume
<1>3. machines[n].size \in Size
  BY <1>1 DEF TypeOK, Exists, Name, Machine
<1>4. /\ l.step = "reserve" /\ l.sandbox = machines[n].size
      /\ l.build = None /\ l.name = n
  BY <1>2 DEF Nowhere
<1>5. l \in Local
  BY <1>2, <1>3 DEF Local, Step
<1>6. Holds(l)
  BY <1>3, <1>4, Marks DEF Holds, Building, Starting
<1>7. local' = [local EXCEPT ![p] = l]
  BY <1>1
<1> HIDE DEF l
<1>8. /\ local' \in [Invocation -> Local]
      /\ \A q \in Invocation : Holds(local'[q])
  BY <1>5, <1>6, <1>7, LocalStays
<1> QED BY <1>8 DEF Resume, TypeOK

LEMMA FindBuilderTypes ==
  ASSUME TypeOK, NEW p \in Invocation, FindBuilder(p)
  PROVE  TypeOK'
<1>1. PICK s \in {"start builder", "delete", "build"} : GoesTo(p, s)
  BY DEF FindBuilder
<1>2. local[p].step = "builder"
  BY DEF FindBuilder
<1>3. s \in Step /\ s # "idle" /\ local[p].step # "idle"
      /\ (s \in Building <=> local[p].step \in Building)
      /\ (s \in Starting <=> local[p].step \in Starting)
  BY <1>2 DEF Step, Building, Starting
<1>4. /\ local' \in [Invocation -> Local]
      /\ \A q \in Invocation : Holds(local'[q])
  BY <1>1, <1>3, GoesToTypes
<1> QED BY <1>4 DEF FindBuilder, TypeOK

LEMMA DeleteBuilderTypes ==
  ASSUME TypeOK, NEW p \in Invocation, DeleteBuilder(p)
  PROVE  TypeOK'
<1>1. GoesTo(p, "start builder") /\ local[p].step = "delete"
  BY DEF DeleteBuilder
<1>2. /\ local' \in [Invocation -> Local]
      /\ \A q \in Invocation : Holds(local'[q])
  BY <1>1, GoesToTypes DEF Step, Building, Starting
<1> QED BY <1>2 DEF DeleteBuilder, TypeOK, AtBuilder, Released

LEMMA StartBuilderTypes ==
  ASSUME TypeOK, NEW p \in Invocation, StartBuilder(p)
  PROVE  TypeOK'
<1>1. GoesTo(p, "builder up") /\ local[p].step = "start builder"
  BY DEF StartBuilder
<1>2. /\ local' \in [Invocation -> Local]
      /\ \A q \in Invocation : Holds(local'[q])
  BY <1>1, GoesToTypes DEF Step, Building, Starting
<1>3. local[p].build \in Size
  <2>1. local[p] \in Local /\ Holds(local[p])
    BY DEF TypeOK
  <2>2. local[p].build # None
    BY <1>1, <2>1 DEF Holds, Building
  <2> QED BY <2>1, <2>2 DEF Local
<1>4. CASE Starts(p, Builder, local[p].build)
           /\ disturbed' = disturbed \cup (AtBuilder \ {p})
  <2>1. /\ machines' \in [Name -> Machine \cup {Absent}]
        /\ since' \in [Invocation -> SUBSET Name]
    BY <1>3, <1>4, StartsTypes DEF Name
  <2> QED BY <1>2, <1>4, <2>1 DEF TypeOK, AtBuilder
<1>5. CASE UNCHANGED <<machines, since, disturbed>>
  BY <1>2, <1>5 DEF TypeOK
<1> QED BY <1>4, <1>5 DEF StartBuilder

LEMMA SandboxStartsTypes ==
  ASSUME TypeOK, NEW p \in Invocation, Run(p) \/ Reserve(p) \/ Start(p)
  PROVE  TypeOK'
<1>1. PICK s \in {"start", "wait"} : GoesTo(p, s)
  BY DEF Run, Reserve, Start
<1>2. local[p].step \in {"run", "reserve", "start"}
  BY DEF Run, Reserve, Start
<1>3. s \in Step /\ s # "idle" /\ local[p].step # "idle"
      /\ (s \in Building <=> local[p].step \in Building)
      /\ (s \in Starting <=> local[p].step \in Starting)
  BY <1>2 DEF Step, Building, Starting
<1>4. /\ local' \in [Invocation -> Local]
      /\ \A q \in Invocation : Holds(local'[q])
  BY <1>1, <1>3, GoesToTypes
<1>5. local[p].name \in Session /\ local[p].sandbox \in Size
  <2>1. local[p] \in Local /\ Holds(local[p])
    BY DEF TypeOK
  <2>2. local[p].name # None /\ local[p].sandbox # None
    BY <1>2, <2>1 DEF Holds, Starting
  <2> QED BY <2>1, <2>2 DEF Local
<1>6. CASE Starts(p, local[p].name, local[p].sandbox) /\ UNCHANGED disturbed
  <2>1. /\ machines' \in [Name -> Machine \cup {Absent}]
        /\ since' \in [Invocation -> SUBSET Name]
    BY <1>5, <1>6, StartsTypes DEF Name
  <2> QED BY <1>4, <1>6, <2>1 DEF TypeOK
<1>7. CASE UNCHANGED <<machines, disturbed>> /\ (Measures(p) \/ since' = since)
  BY <1>4, <1>7 DEF TypeOK, Measures
<1> QED BY <1>6, <1>7 DEF Run, Reserve, Start

LEMMA RuntimeTypes ==
  ASSUME TypeOK, NEW n \in Name, Runtime(n)
  PROVE  TypeOK'
<1>1. machines' \in [Name -> Machine \cup {Absent}]
  <2>1. CASE ComeUp(n)
    <3>1. [machines[n] EXCEPT !.state = "running"] \in Machine
      BY <2>1 DEF ComeUp, Exists, TypeOK, Machine
    <3>2. machines' = [machines EXCEPT ![n] = [machines[n] EXCEPT !.state = "running"]]
      BY <2>1 DEF ComeUp
    <3> QED BY <3>1, <3>2 DEF TypeOK
  <2>2. CASE GoDown(n)
    <3>1. [machines[n] EXCEPT !.state = "stopping"] \in Machine
      BY <2>2 DEF GoDown, IsUp, Exists, TypeOK, Machine
    <3>2. machines' = [machines EXCEPT ![n] = [machines[n] EXCEPT !.state = "stopping"]]
      BY <2>2 DEF GoDown
    <3> QED BY <3>1, <3>2 DEF TypeOK
  <2>3. CASE Vanish(n)
    BY <2>3 DEF Vanish, TypeOK
  <2>4. CASE StartForeign(n)
    <3>1. PICK size \in ForeignSize :
            machines' = [machines EXCEPT ![n] = [size |-> size, state |-> "running"]]
      BY <2>4 DEF StartForeign
    <3>2. [size |-> size, state |-> "running"] \in Machine
      BY ForeignSizes DEF Machine
    <3> QED BY <3>1, <3>2 DEF TypeOK
  <2>5. CASE BeDown(n)
    <3>1. [machines[n] EXCEPT !.state = "stopped"] \in Machine
      BY <2>5 DEF BeDown, Exists, TypeOK, Machine
    <3>2. machines' = [machines EXCEPT ![n] = [machines[n] EXCEPT !.state = "stopped"]]
      BY <2>5 DEF BeDown
    <3> QED BY <3>1, <3>2 DEF TypeOK
  <2> QED BY <2>1, <2>2, <2>3, <2>4, <2>5 DEF Runtime
<1>2. local' = local /\ disturbed' \subseteq Invocation
  BY DEF TypeOK, Runtime, ComeUp, GoDown, BeDown, Vanish, StartForeign, Touched,
         AtBuilder
<1>3. since' \in [Invocation -> SUBSET Name]
  <2>1. CASE since' = since
    BY <2>1 DEF TypeOK
  <2>2. CASE Released(n)
    BY <2>2 DEF Released, TypeOK
  <2>3. CASE StartedBy(None, n)
    BY <2>3 DEF StartedBy, TypeOK
  <2> QED BY <2>1, <2>2, <2>3
      DEF Runtime, ComeUp, GoDown, BeDown, Vanish, StartForeign
<1> QED BY <1>1, <1>2, <1>3 DEF TypeOK

LEMMA NextTypes == TypeOK /\ [Next]_vars => TypeOK'
<1> SUFFICES ASSUME TypeOK, [Next]_vars PROVE TypeOK'
  OBVIOUS
<1>1. CASE UNCHANGED vars
  BY <1>1 DEF vars, TypeOK
<1>2. ASSUME NEW p \in Invocation, Invoke(p) PROVE TypeOK'
  <2>1. CASE Reach(p) \/ Leave(p)
    BY <2>1, ReturnsTypes DEF Reach, Leave
  <2> QED BY <1>2, <2>1, QuietTypes, SizeSandboxTypes, SizeBuildTypes, BuildTypes,
             AllocateTypes, ResumeTypes, FindBuilderTypes, DeleteBuilderTypes,
             StartBuilderTypes, SandboxStartsTypes DEF Invoke
<1> QED BY <1>1, <1>2, RuntimeTypes DEF Next

-----------------------------------------------------------------------------
(***************************************************************************)
(* The builder an invocation found or made is there while nobody disturbs  *)
(* it.                                                                     *)
(***************************************************************************)
Inv == TypeOK /\ \A p \in Invocation : Found(p)

\* A step that leaves the builder and what is disturbed alone.
LEMMA Untouched ==
  ASSUME NEW q, Found(q), machines'[Builder] = machines[Builder],
         local'[q] = local[q], q \in disturbed => q \in disturbed'
  PROVE  Found(q)'
BY DEF Found, IsUp, Exists

\* A step that disturbs everybody who relies on the builder.
LEMMA Disturbs ==
  ASSUME NEW q \in Invocation, local'[q] = local[q],
         q \in AtBuilder => q \in disturbed'
  PROVE  Found(q)'
BY DEF Found, AtBuilder, Building

\* A step into a place where nothing is said of the builder.
LEMMA Elsewhere ==
  ASSUME NEW q, local'[q].step \notin {"start builder", "builder up", "build"}
  PROVE  Found(q)'
BY DEF Found

LEMMA BuilderIsNoSandbox ==
  ASSUME TypeOK, NEW p \in Invocation, NEW n \in Session, NEW size,
         Starts(p, n, size)
  PROVE  machines'[Builder] = machines[Builder]
BY Names DEF Starts, TypeOK, Name

\* What becomes of the others while p takes a step.
LEMMA OthersFound ==
  ASSUME Inv, NEW p \in Invocation, Invoke(p), NEW q \in Invocation, q # p
  PROVE  Found(q)'
<1>1. local'[q] = local[q]
  <2>1. PICK l : local' = [local EXCEPT ![p] = l]
    BY DEF Invoke, SizeSandbox, FindImage, MissImage, SizeBuild, FindBuilder,
         DeleteBuilder, StartBuilder, BuilderIsUp, Build, Allocate, Run, Resume,
         Reserve, Start, Reach, Leave, Returns, Quietly, GoesTo
  <2> QED BY <2>1 DEF Inv, TypeOK
<1>2. Found(q) /\ TypeOK
  BY DEF Inv
<1>3. CASE DeleteBuilder(p)
  BY <1>1, <1>3, Disturbs DEF DeleteBuilder
<1>4. CASE StartBuilder(p)
  <2>1. CASE disturbed' = disturbed \cup (AtBuilder \ {p})
    BY <1>1, <2>1, Disturbs
  <2>2. CASE UNCHANGED <<machines, since, disturbed>>
    BY <1>1, <1>2, <2>2, Untouched
  <2> QED BY <1>4, <2>1, <2>2 DEF StartBuilder
<1>5. CASE Run(p) \/ Start(p)
  <2>1. local[p].name \in Session
    <3>1. local[p] \in Local /\ Holds(local[p]) /\ local[p].step \in {"run", "start"}
      BY <1>2, <1>5 DEF TypeOK, Run, Start
    <3>2. local[p].name # None
      BY <3>1 DEF Holds, Starting
    <3> QED BY <3>1, <3>2 DEF Local
  <2>2. machines'[Builder] = machines[Builder]
    <3>1. ASSUME Starts(p, local[p].name, local[p].sandbox)
          PROVE  machines'[Builder] = machines[Builder]
      BY <1>2, <2>1, <3>1, BuilderIsNoSandbox
    <3> QED BY <1>5, <3>1 DEF Run, Start
  <2>3. machines'[Builder] = machines[Builder] /\ disturbed' = disturbed
    BY <1>5, <2>2 DEF Run, Start
  <2> QED BY <1>1, <1>2, <2>3, Untouched
<1>6. CASE ~ (DeleteBuilder(p) \/ StartBuilder(p) \/ Run(p) \/ Start(p))
  <2>1. machines' = machines /\ disturbed \subseteq disturbed' \cup {p}
    BY <1>6 DEF Invoke, SizeSandbox, FindImage, MissImage, SizeBuild, FindBuilder,
         BuilderIsUp, Build, Allocate, Resume, Reserve, Reach, Leave, Returns, Quietly
  <2> QED BY <1>1, <1>2, <2>1, Untouched
<1> QED BY <1>3, <1>4, <1>5, <1>6

\* Where a step takes p itself.
LEMMA ItselfFound ==
  ASSUME Inv, NEW p \in Invocation, Invoke(p)
  PROVE  Found(p)'
<1>1. TypeOK /\ Found(p) /\ local[p] \in Local
  BY DEF Inv, TypeOK
<1>2. ASSUME NEW s, GoesTo(p, s)
      PROVE  local'[p].step = s /\ local'[p].build = local[p].build
  BY <1>1, <1>2 DEF GoesTo, TypeOK, Local
<1>3. CASE FindBuilder(p)
  <2>1. UNCHANGED machines
    BY <1>3 DEF FindBuilder
  <2>2. CASE machines[Builder] = Absent
    <3>1. local'[p].step = "start builder"
      BY <1>2, <1>3, <2>2 DEF FindBuilder
    <3> QED BY <2>1, <2>2, <3>1 DEF Found, Exists
  <2>3. CASE machines[Builder] # Absent /\ ~ Matches(machines[Builder].size, local[p].build)
    <3>1. local'[p].step = "delete"
      BY <1>2, <1>3, <2>3 DEF FindBuilder
    <3> QED BY <3>1, Elsewhere
  <2>4. CASE machines[Builder] # Absent /\ Matches(machines[Builder].size, local[p].build)
    <3>1. machines[Builder].size = local[p].build
      BY <2>4 DEF Matches
    <3>2. CASE machines[Builder].state = "running"
      <4>1. local'[p].step = "build" /\ local'[p].build = local[p].build
        BY <1>2, <1>3, <2>4, <3>2 DEF FindBuilder
      <4> QED BY <2>1, <2>4, <3>1, <3>2, <4>1 DEF Found, IsUp, Exists
    <3>3. CASE machines[Builder].state # "running"
      <4>1. local'[p].step = "start builder" /\ local'[p].build = local[p].build
        BY <1>2, <1>3, <2>4, <3>3 DEF FindBuilder
      <4> QED BY <2>1, <3>1, <4>1 DEF Found
    <3> QED BY <3>2, <3>3
  <2> QED BY <2>2, <2>3, <2>4
<1>4. CASE DeleteBuilder(p)
  <2>1. machines'[Builder] = Absent
    BY <1>1, <1>4 DEF DeleteBuilder, TypeOK, Name
  <2>2. local'[p].step = "start builder"
    BY <1>2, <1>4 DEF DeleteBuilder
  <2> QED BY <2>1, <2>2 DEF Found, Exists
<1>5. CASE StartBuilder(p)
  <2>1. local[p].step = "start builder" /\ local'[p].step = "builder up"
        /\ local'[p].build = local[p].build
    BY <1>2, <1>5 DEF StartBuilder
  <2>2. CASE Starts(p, Builder, local[p].build)
    <3>1. local[p].build \in Size
      BY <1>1, <2>1 DEF TypeOK, Holds, Building, Local
    <3>2. machines'[Builder] = [size |-> local[p].build, state |-> "starting"]
      BY <1>1, <2>2 DEF Starts, TypeOK, Name
    <3>3. machines'[Builder] # Absent
      BY <3>1, <3>2, Marks DEF Machine
    <3>4. machines'[Builder].size = local'[p].build
      <4>1. machines'[Builder].size = local[p].build
        BY <3>2
      <4> QED BY <2>1, <4>1
    <3>5. machines'[Builder].state = "starting"
      BY <3>2
    <3> QED BY <2>1, <3>3, <3>4, <3>5 DEF Found, IsUp, Exists
  <2>3. CASE IsUp(machines, Builder) /\ UNCHANGED <<machines, since, disturbed>>
    <3>1. machines[Builder].size = local[p].build \/ p \in disturbed
      BY <1>1, <2>1, <2>3 DEF Found, IsUp
    <3> QED BY <2>1, <2>3, <3>1 DEF Found, IsUp, Exists
  <2> QED BY <1>5, <2>2, <2>3 DEF StartBuilder
<1>6. CASE BuilderIsUp(p)
  <2>1. local[p].step = "builder up" /\ local'[p].step = "build"
        /\ local'[p].build = local[p].build
        /\ machines' = machines /\ disturbed' = disturbed
    BY <1>2, <1>6 DEF BuilderIsUp, Quietly
  <2> QED BY <1>1, <2>1 DEF Found, IsUp, Exists
<1>7. CASE ~ (FindBuilder(p) \/ DeleteBuilder(p) \/ StartBuilder(p) \/ BuilderIsUp(p))
  <2>1. local'[p].step \in {"image", "allocate", "size build", "builder", "run",
                           "wait", "reserve", "start", "idle"}
    <3>1. CASE FindImage(p) \/ MissImage(p) \/ Run(p) \/ Reserve(p) \/ Start(p)
      BY <1>2, <3>1 DEF FindImage, MissImage, Run, Reserve, Start, Quietly
    <3>2. CASE Reach(p) \/ Leave(p)
      <4>1. local'[p] = Nowhere
        BY <1>1, <3>2 DEF Reach, Leave, Returns, TypeOK
      <4> QED BY <4>1 DEF Nowhere
    <3>3. CASE SizeSandbox(p)
      BY <1>1, <3>3 DEF SizeSandbox, TypeOK, Local
    <3>4. CASE SizeBuild(p)
      BY <1>1, <3>4 DEF SizeBuild, TypeOK, Local
    <3>5. CASE Build(p)
      BY <1>1, <3>5 DEF Build, TypeOK, Local
    <3>6. CASE Allocate(p)
      BY <1>1, <3>6 DEF Allocate, TypeOK, Local
    <3>7. CASE Resume(p)
      BY <1>1, <3>7 DEF Resume, TypeOK, Local
    <3> QED BY <1>7, <3>1, <3>2, <3>3, <3>4, <3>5, <3>6, <3>7 DEF Invoke
  <2> QED BY <2>1, Elsewhere
<1> QED BY <1>3, <1>4, <1>5, <1>6, <1>7

LEMMA RuntimeFound ==
  ASSUME Inv, NEW n \in Name, Runtime(n), NEW q \in Invocation
  PROVE  Found(q)'
<1>1. TypeOK /\ Found(q) /\ local' = local /\ disturbed \subseteq disturbed'
  BY DEF Inv, Runtime, ComeUp, GoDown, BeDown, Vanish, StartForeign, Touched
<1>2. CASE n # Builder
  <2>1. machines'[Builder] = machines[Builder]
    BY <1>1, <1>2 DEF Runtime, ComeUp, GoDown, BeDown, Vanish, StartForeign, TypeOK, Name
  <2> QED BY <1>1, <2>1, Untouched
<1>3. CASE n = Builder /\ ComeUp(n)
  <2>1. machines[Builder] \in Machine
    BY <1>1, <1>3 DEF ComeUp, Exists, TypeOK
  <2>2. machines'[Builder] = [machines[Builder] EXCEPT !.state = "running"]
    BY <1>1, <1>3 DEF ComeUp, TypeOK
  <2>3. machines'[Builder].size = machines[Builder].size
        /\ machines'[Builder].state = "running" /\ machines'[Builder] \in Machine
    BY <2>1, <2>2 DEF Machine
  <2>4. IsUp(machines, Builder) /\ Exists(machines, Builder)
    BY <1>3 DEF ComeUp, IsUp, Exists
  <2>5. IsUp(machines, Builder)'
    BY <2>3, Marks DEF IsUp, Exists
  <2> QED BY <1>1, <2>3, <2>4, <2>5 DEF Found
<1>4. CASE n = Builder /\ (GoDown(n) \/ BeDown(n) \/ Vanish(n))
  BY <1>1, <1>4, Disturbs DEF GoDown, BeDown, Vanish, Touched
<1> QED BY <1>2, <1>3, <1>4, Names DEF Runtime, StartForeign

LEMMA FoundIsKept == Spec => []Inv
<1>1. Init => Inv
  <2>1. Init => \A p \in Invocation : Found(p)
    <3> SUFFICES ASSUME Init, NEW p \in Invocation PROVE Found(p)
      OBVIOUS
    <3>1. local[p].step = "idle"
      BY DEF Init, Nowhere
    <3> QED BY <3>1 DEF Found
  <2> QED BY <2>1, InitTypes DEF Inv
<1>2. Inv /\ [Next]_vars => Inv'
  <2> SUFFICES ASSUME Inv, [Next]_vars PROVE Inv'
    OBVIOUS
  <2>1. TypeOK'
    BY NextTypes DEF Inv
  <2>2. ASSUME NEW q \in Invocation PROVE Found(q)'
    <3>1. CASE UNCHANGED vars
      BY <3>1, Untouched DEF vars, Inv
    <3>2. ASSUME NEW p \in Invocation, Invoke(p) PROVE Found(q)'
      BY <3>2, OthersFound, ItselfFound
    <3> QED BY <3>1, <3>2, RuntimeFound DEF Next
  <2> QED BY <2>1, <2>2 DEF Inv
<1> QED BY <1>1, <1>2, PTL DEF Spec

\* Every variable keeps its type, and every invocation has in memory what it
\* needs where it is: no reservation survives the call it was made for.
THEOREM TypeCorrect == Spec => []TypeOK
<1>1. Inv => TypeOK
  BY DEF Inv
<1> QED BY <1>1, FoundIsKept, PTL

\* A build begins on a builder of the size that was reserved for it, unless
\* somebody started, stopped or deleted it in between (apple.rs:497-504).
THEOREM BuildsAsReserved == Spec => []BuilderAsReserved
<1>1. Inv => BuilderAsReserved
  BY DEF Inv, Found, BuilderAsReserved
<1> QED BY <1>1, FoundIsKept, PTL

-----------------------------------------------------------------------------
(***************************************************************************)
(* Sums, and folds at large.  What a fold comes to is found step by step:  *)
(* a set of numbers that is not empty has a smallest, a finite set's       *)
(* subsets are well-founded, and so a recursion over either has a value.   *)
(***************************************************************************)

\* Every set of natural numbers that is not empty has a smallest.
LEMMA Smallest ==
  ASSUME NEW T \in SUBSET Nat, T # {}
  PROVE  \E m \in T : \A k \in T : m <= k
<1> DEFINE R == {ss \in Nat \X Nat : ss[1] < ss[2]}
<1>1. IsWellFoundedOn(R, Nat)
  BY NatLessThanWellFounded DEF OpToRel
<1> HIDE DEF R
<1>2. PICK m \in T : \A k \in T : ~ (<<k, m>> \in R)
  BY <1>1, WFMin
<1>3. \A k \in T : <<k, m>> \in R <=> k < m
  BY DEF R
<1>4. \A k \in T : k \in Nat /\ m \in Nat /\ ~ (k < m)
  BY <1>2, <1>3
<1>5. \A k \in T : m <= k
  BY <1>4
<1> QED BY <1>5

\* A set of numbers with 0 and each next one has them all.
LEMMA NaturalsByStep ==
  ASSUME NEW G \in SUBSET Nat, 0 \in G, \A n \in G : n + 1 \in G
  PROVE  G = Nat
<1> DEFINE T == Nat \ G
<1> SUFFICES ASSUME T # {} PROVE FALSE
  OBVIOUS
<1>1. PICK m \in T : \A k \in T : m <= k
  BY Smallest
<1>2. m \in Nat /\ m # 0 /\ m - 1 \in Nat /\ ~ (m <= m - 1)
  BY <1>1
<1>3. m - 1 \in G
  BY <1>1, <1>2
<1>4. m - 1 + 1 = m
  BY <1>2
<1> QED BY <1>1, <1>3, <1>4

\* A set of subsets that has each one whose smaller ones it has, has them all.
LEMMA SubsetsByStep ==
  ASSUME NEW S, IsFiniteSet(S), NEW G \in SUBSET SUBSET S,
         \A T \in SUBSET S : (\A U \in SUBSET T : U # T => U \in G) => T \in G
  PROVE  G = SUBSET S
<1> DEFINE B == (SUBSET S) \ G
           R == StrictSubsetOrdering(S)
<1> SUFFICES ASSUME B # {} PROVE FALSE
  OBVIOUS
<1>1. IsWellFoundedOn(R, SUBSET S)
  <2>1. IsWellFoundedOn(StrictSubsetOrdering(S), FiniteSubsetsOf(S))
    BY FS_StrictSubsetOrderingWellFounded
  <2>2. FiniteSubsetsOf(S) = SUBSET S
    BY FS_FiniteSubsetsOfFinite
  <2> QED BY <2>1, <2>2
<1>2. PICK T \in B : \A U \in B : ~ (<<U, T>> \in R)
  <2>1. B \subseteq SUBSET S
    OBVIOUS
  <2> HIDE DEF R, B
  <2> QED BY <1>1, <2>1, WFMin
<1>3. \A U \in SUBSET T : U # T => U \in G
  BY <1>2 DEF StrictSubsetOrdering
<1> QED BY <1>2, <1>3

\* What the community modules mean by a sum.
LEMMA SumIs ==
  ASSUME NEW f
  PROVE  SumFunction(f) =
           LET iter[s \in SUBSET DOMAIN f] ==
                 IF s = {} THEN 0
                 ELSE f[CHOOSE x \in s : TRUE] + iter[s \ {CHOOSE x \in s : TRUE}]
           IN  iter[DOMAIN f]
BY DEF SumFunction, SumFunctionOnSet, FoldFunctionOnSet, MapThenFoldSet

\* What CHOOSE takes from a set, and what it leaves.
First(s) == CHOOSE x \in s : TRUE
Rest(s) == s \ {First(s)}

LEMMA FirstIsIn == \A s : s # {} => First(s) \in s
BY DEF First

\* g is what the recursion of a fold says.
Folds(g, S, base, op) ==
  g = [s \in SUBSET S |-> IF s = {} THEN base ELSE op[First(s)][g[Rest(s)]]]

\* Over a finite set there is such a g.
LEMMA FoldExists ==
  ASSUME NEW S, IsFiniteSet(S), NEW V, NEW base \in V, NEW op \in [S -> [V -> V]]
  PROVE  \E g \in [SUBSET S -> V] : Folds(g, S, base, op)
<1> DEFINE F(g) == [s \in SUBSET S |->
                      IF s = {} THEN base ELSE op[First(s)][g[Rest(s)]]]
           G == {n \in Nat : \E g \in [SUBSET S -> V] :
                   \A s \in SUBSET S : Cardinality(s) <= n => g[s] = F(g)[s]}
<1>1. ASSUME NEW s \in SUBSET S
      PROVE  /\ IsFiniteSet(s) /\ Cardinality(s) \in Nat
             /\ Cardinality(s) <= Cardinality(S)
             /\ Cardinality(s) = 0 <=> s = {}
             /\ s # {} =>
                  /\ First(s) \in S /\ Rest(s) \in SUBSET S
                  /\ Cardinality(Rest(s)) = Cardinality(s) - 1
  <2>1. IsFiniteSet(s) /\ Cardinality(s) <= Cardinality(S)
    BY FS_Subset
  <2>2. Cardinality(s) \in Nat
    BY <2>1, FS_CardinalityType
  <2>3. Cardinality(s) = 0 <=> s = {}
    BY <2>1, FS_EmptySet
  <2>4. s # {} => First(s) \in s
    BY FirstIsIn
  <2>5. s # {} => Cardinality(Rest(s)) = Cardinality(s) - 1
    BY <2>1, <2>4, FS_RemoveElement DEF Rest
  <2> QED BY <2>1, <2>2, <2>3, <2>4, <2>5 DEF Rest
<1>2. \A g \in [SUBSET S -> V] : F(g) \in [SUBSET S -> V]
  BY <1>1
<1>3. 0 \in G
  <2> DEFINE g == [s \in SUBSET S |-> base]
  <2>1. g \in [SUBSET S -> V]
    OBVIOUS
  <2>2. \A s \in SUBSET S : Cardinality(s) <= 0 => g[s] = F(g)[s]
    BY <1>1
  <2> HIDE DEF g
  <2> QED BY <2>1, <2>2
<1>4. ASSUME NEW n \in G PROVE n + 1 \in G
  <2>1. PICK g \in [SUBSET S -> V] :
          \A s \in SUBSET S : Cardinality(s) <= n => g[s] = F(g)[s]
    OBVIOUS
  <2> DEFINE h == F(g)
  <2>2. h \in [SUBSET S -> V]
    BY <1>2
  <2>3. ASSUME NEW s \in SUBSET S, Cardinality(s) <= n + 1
        PROVE  h[s] = F(h)[s]
    <3>1. CASE s = {}
      BY <3>1
    <3>2. CASE s # {}
      <4>1. Rest(s) \in SUBSET S /\ Cardinality(Rest(s)) <= n
        BY <1>1, <2>3, <3>2
      <4>2. g[Rest(s)] = h[Rest(s)]
        BY <2>1, <4>1
      <4>3. h[s] = op[First(s)][g[Rest(s)]]
        BY <3>2
      <4>4. F(h)[s] = op[First(s)][h[Rest(s)]]
        BY <3>2
      <4> QED BY <4>2, <4>3, <4>4
    <3> QED BY <3>1, <3>2
  <2> HIDE DEF h
  <2>4. n + 1 \in Nat
    OBVIOUS
  <2> QED BY <2>2, <2>3, <2>4
<1>5. Cardinality(S) \in G
  <2>1. G \in SUBSET Nat
    OBVIOUS
  <2> HIDE DEF G
  <2>2. G = Nat
    BY <1>3, <1>4, <2>1, NaturalsByStep
  <2> QED BY <2>2, FS_CardinalityType
<1>6. PICK g \in [SUBSET S -> V] :
        \A s \in SUBSET S : Cardinality(s) <= Cardinality(S) => g[s] = F(g)[s]
  BY <1>5
<1>7. \A s \in SUBSET S : g[s] = F(g)[s]
  BY <1>1, <1>6
<1>8. g = F(g)
  <2>1. F(g) \in [SUBSET S -> V]
    BY <1>2
  <2> HIDE DEF F
  <2> QED BY <1>7, <2>1
<1> QED BY <1>8 DEF Folds

\* g gives the sum of f over each subset of S, taken in any order.
SumsUp(g, f, S) ==
  /\ g \in [SUBSET S -> Nat]
  /\ g[{}] = 0
  /\ \A s \in SUBSET S : \A x \in s : g[s] = f[x] + g[s \ {x}]

\* A sum is what SumsUp says, and is taken as CHOOSE says.
LEMMA SumsExist ==
  ASSUME NEW S, IsFiniteSet(S), NEW f \in [S -> Nat]
  PROVE  \E g : /\ SumsUp(g, f, S)
                /\ SumFunction(f) = g[S]
                /\ \A s \in SUBSET S : s # {} => g[s] = f[First(s)] + g[Rest(s)]
<1> DEFINE op == [x \in S |-> [v \in Nat |-> f[x] + v]]
           F(g) == [s \in SUBSET S |->
                      IF s = {} THEN 0 ELSE f[First(s)] + g[Rest(s)]]
           g == CHOOSE g : g = F(g)
<1>1. ASSUME NEW s \in SUBSET S, s # {}
      PROVE  First(s) \in s /\ First(s) \in S /\ Rest(s) \in SUBSET S
  BY <1>1, FirstIsIn DEF Rest
<1>2. \E e : e \in [SUBSET S -> Nat] /\ e = F(e)
  <2>1. op \in [S -> [Nat -> Nat]]
    OBVIOUS
  <2>2. PICK e \in [SUBSET S -> Nat] : Folds(e, S, 0, op)
    <3> HIDE DEF op
    <3>1. 0 \in Nat
      OBVIOUS
    <3> QED BY <2>1, <3>1, FoldExists
  <2>3. \A s \in SUBSET S : e[s] = F(e)[s]
    <3>1. ASSUME NEW s \in SUBSET S, s # {}
          PROVE  op[First(s)][e[Rest(s)]] = f[First(s)] + e[Rest(s)]
      BY <1>1, <3>1
    <3> HIDE DEF op
    <3> QED BY <2>2, <3>1 DEF Folds
  <2>4. e = F(e)
    BY <2>2, <2>3 DEF Folds
  <2> QED BY <2>4
<1>3. g = F(g)
  <2> HIDE DEF F
  <2> QED BY <1>2
<1>4. SumFunction(f) = g[S]
  <2>1. DOMAIN f = S
    OBVIOUS
  <2> QED BY <2>1, SumIs DEF First, Rest
<1> HIDE DEF g
<1>5. /\ g[{}] = 0
      /\ \A s \in SUBSET S : s # {} => g[s] = f[First(s)] + g[Rest(s)]
  BY <1>3
<1>9. g \in [SUBSET S -> Nat]
  <2> DEFINE N == {s \in SUBSET S : g[s] \in Nat}
  <2>1. ASSUME NEW s \in SUBSET S, \A u \in SUBSET s : u # s => u \in N
        PROVE  s \in N
    <3>1. CASE s = {}
      BY <1>5, <3>1
    <3>2. CASE s # {}
      <4>1. First(s) \in S /\ Rest(s) \in SUBSET s /\ Rest(s) # s
        BY <1>1, <3>2 DEF Rest
      <4>2. g[Rest(s)] \in Nat /\ f[First(s)] \in Nat
        BY <2>1, <4>1
      <4> QED BY <1>5, <3>2, <4>2
    <3> QED BY <3>1, <3>2
  <2>2. N = SUBSET S
    <3>1. N \in SUBSET SUBSET S
      OBVIOUS
    <3> HIDE DEF N
    <3> QED BY <2>1, <3>1, SubsetsByStep
  <2>3. \A s \in SUBSET S : g[s] \in Nat
    BY <2>2
  <2>4. g = [s \in SUBSET S |-> g[s]]
    BY <1>3
  <2> QED BY <2>3, <2>4
<1> DEFINE G == {s \in SUBSET S : \A x \in s : g[s] = f[x] + g[s \ {x}]}
<1>6. ASSUME NEW s \in SUBSET S, \A u \in SUBSET s : u # s => u \in G
      PROVE  s \in G
  <2> SUFFICES ASSUME NEW x \in s PROVE g[s] = f[x] + g[s \ {x}]
    OBVIOUS
  <2> DEFINE y == First(s)
  <2>1. y \in s /\ g[s] = f[y] + g[s \ {y}]
    BY <1>1, <1>5 DEF Rest
  <2>2. CASE x = y
    BY <2>1, <2>2
  <2>3. CASE x # y
    <3> HIDE DEF y
    <3> DEFINE u == s \ {x, y}
    <3>1. x \in s \ {y} /\ y \in s \ {x} /\ s \ {y} # s /\ s \ {x} # s
      BY <2>1, <2>3
    <3>2. (s \ {y}) \ {x} = u /\ (s \ {x}) \ {y} = u
      OBVIOUS
    <3>3. g[s \ {y}] = f[x] + g[u]
      BY <1>6, <3>1, <3>2
    <3>4. g[s \ {x}] = f[y] + g[u]
      BY <1>6, <3>1, <3>2
    <3>5. f[x] \in Nat /\ f[y] \in Nat /\ g[u] \in Nat
      BY <1>9, <2>1
    <3> HIDE DEF u
    <3> QED BY <2>1, <3>3, <3>4, <3>5
  <2> QED BY <2>2, <2>3
<1>7. G = SUBSET S
  <2>1. G \in SUBSET SUBSET S
    OBVIOUS
  <2> HIDE DEF G
  <2> QED BY <1>6, <2>1, SubsetsByStep
<1>8. SumsUp(g, f, S)
  BY <1>5, <1>7, <1>9 DEF SumsUp
<1> QED BY <1>4, <1>5, <1>8

\* It depends on nothing else.
LEMMA SumsAgree ==
  ASSUME NEW S, IsFiniteSet(S), NEW T \in SUBSET S,
         NEW f \in [S -> Nat], NEW e \in [T -> Nat],
         \A x \in T : e[x] = f[x],
         NEW g, SumsUp(g, f, S), NEW h, SumsUp(h, e, T)
  PROVE  g[T] = h[T]
<1> DEFINE G == {s \in SUBSET T : g[s] = h[s]}
<1>1. ASSUME NEW s \in SUBSET T, \A u \in SUBSET s : u # s => u \in G
      PROVE  s \in G
  <2>1. CASE s = {}
    BY <2>1 DEF SumsUp
  <2>2. CASE s # {}
    <3>1. PICK x \in s : TRUE
      BY <2>2
    <3>2. g[s \ {x}] = h[s \ {x}]
      BY <1>1
    <3>3. g[s] = f[x] + g[s \ {x}]
      BY DEF SumsUp
    <3>4. h[s] = e[x] + h[s \ {x}]
      BY DEF SumsUp
    <3> QED BY <3>2, <3>3, <3>4
  <2> QED BY <2>1, <2>2
<1>2. G \in SUBSET SUBSET T /\ IsFiniteSet(T)
  BY FS_Subset
<1>3. G = SUBSET T
  <2> HIDE DEF G
  <2> QED BY <1>1, <1>2, SubsetsByStep
<1> QED BY <1>3

\* A sum is a number, and one addend more or less makes the difference.
LEMMA SumTakes ==
  ASSUME NEW S, IsFiniteSet(S), NEW f \in [S -> Nat], NEW x \in S
  PROVE  /\ SumFunction(f) \in Nat
         /\ SumFunction([y \in S \ {x} |-> f[y]]) \in Nat
         /\ SumFunction(f) = f[x] + SumFunction([y \in S \ {x} |-> f[y]])
<1> DEFINE T == S \ {x}
           e == [y \in T |-> f[y]]
<1>1. IsFiniteSet(T) /\ T \in SUBSET S
  BY FS_Subset
<1>2. e \in [T -> Nat] /\ \A y \in T : e[y] = f[y]
  OBVIOUS
<1>3. PICK g : SumsUp(g, f, S) /\ SumFunction(f) = g[S]
  BY SumsExist
<1> HIDE DEF e, T
<1>4. PICK h : SumsUp(h, e, T) /\ SumFunction(e) = h[T]
  BY <1>1, <1>2, SumsExist
<1>5. g[T] = h[T]
  BY <1>1, <1>2, <1>3, <1>4, SumsAgree
<1>6. g[S] \in Nat /\ h[T] \in Nat /\ g[S] = f[x] + g[T]
  BY <1>3, <1>4 DEF SumsUp, T
<1> QED BY <1>3, <1>4, <1>5, <1>6 DEF e, T

\* Less is summed up, never more.
LEMMA SumGrows ==
  ASSUME NEW S, IsFiniteSet(S), NEW f \in [S -> Nat], NEW T \in SUBSET S
  PROVE  SumFunction([x \in T |-> f[x]]) <= SumFunction(f)
<1> DEFINE e == [x \in T |-> f[x]]
<1>1. PICK g : SumsUp(g, f, S) /\ SumFunction(f) = g[S]
  BY SumsExist
<1>2. IsFiniteSet(T) /\ e \in [T -> Nat] /\ \A x \in T : e[x] = f[x]
  BY FS_Subset
<1> HIDE DEF e
<1>3. PICK h : SumsUp(h, e, T) /\ SumFunction(e) = h[T]
  BY <1>2, SumsExist
<1>4. g[T] = h[T]
  BY <1>1, <1>2, <1>3, SumsAgree
<1> DEFINE G == {s \in SUBSET S : \A t \in SUBSET s : g[t] <= g[s]}
<1>5. ASSUME NEW s \in SUBSET S, \A u \in SUBSET s : u # s => u \in G
      PROVE  s \in G
  <2> SUFFICES ASSUME NEW t \in SUBSET s PROVE g[t] <= g[s]
    OBVIOUS
  <2>1. g[s] \in Nat
    BY <1>1 DEF SumsUp
  <2>2. CASE t = s
    BY <2>1, <2>2
  <2>3. CASE t # s
    <3>1. PICK x \in s : x \notin t
      BY <2>3
    <3> DEFINE u == s \ {x}
    <3>2. u \in SUBSET s /\ u # s /\ t \in SUBSET u
      BY <3>1
    <3>3. g[t] <= g[u]
      BY <1>5, <3>2
    <3>4. g[s] = f[x] + g[u] /\ f[x] \in Nat /\ g[u] \in Nat /\ g[t] \in Nat
      BY <1>1 DEF SumsUp
    <3> HIDE DEF u
    <3> QED BY <3>3, <3>4
  <2> QED BY <2>2, <2>3
<1>6. G = SUBSET S
  <2>1. G \in SUBSET SUBSET S
    OBVIOUS
  <2> HIDE DEF G
  <2> QED BY <1>5, <2>1, SubsetsByStep
<1>7. g[T] <= g[S]
  BY <1>6
<1> QED BY <1>1, <1>3, <1>4, <1>7 DEF e

-----------------------------------------------------------------------------
(***************************************************************************)
(* What is charged.                                                        *)
(***************************************************************************)
\* The host's own size is no more than a word holds.
LEMMA Words ==
  /\ MaxWord \in Nat
  /\ Host \in Size /\ HostReserve \in Size
  /\ Host.cpus <= MaxWord /\ Host.memory <= MaxWord
BY BudgetAssumption

\* A word that is full stays full.
LEMMA SatAdds ==
  ASSUME NEW a \in Nat, NEW b \in Nat
  PROVE  /\ Sat(a) \in Nat
         /\ Sat(a + Sat(b)) = Sat(a + b)
         /\ Sat(Sat(a) + Sat(b)) = Sat(a + b)
BY Words DEF Sat

\* What the community modules mean by the fold of a charge.
LEMMA ChargedFolds ==
  ASSUME NEW h
  PROVE  Charged(h) =
           LET iter[s \in SUBSET DOMAIN h] ==
                 IF s = {} THEN Nothing ELSE Plus(h[First(s)], iter[Rest(s)])
           IN  iter[DOMAIN h]
BY DEF Charged, FoldFunction, FoldFunctionOnSet, MapThenFoldSet, First, Rest

\* The charge for machines of the sizes z is their sum, as far as a word goes.
LEMMA ChargedIs ==
  ASSUME NEW S, IsFiniteSet(S), NEW z \in [S -> Size]
  PROVE  Charged([x \in S |-> Holding(z[x])]) =
           [cpus |-> Sat(SumFunction([x \in S |-> z[x].cpus])),
            memory |-> Sat(SumFunction([x \in S |-> z[x].memory]))]
<1> DEFINE h == [x \in S |-> Holding(z[x])]
           c == [x \in S |-> z[x].cpus]
           m == [x \in S |-> z[x].memory]
           op == [x \in S |-> [v \in Size |-> Plus(h[x], v)]]
           F(g) == [s \in SUBSET S |->
                      IF s = {} THEN Nothing ELSE Plus(h[First(s)], g[Rest(s)])]
           g == CHOOSE g : g = F(g)
<1>1. \A x \in S : z[x].cpus \in Nat /\ z[x].memory \in Nat
  BY DEF Size
<1>2. c \in [S -> Nat] /\ m \in [S -> Nat]
  BY <1>1
<1>3. \A x \in S : h[x] = [cpus |-> z[x].cpus, memory |-> Sat(z[x].memory)]
  BY DEF Holding
<1>4. op \in [S -> [Size -> Size]]
  <2>1. ASSUME NEW x \in S, NEW v \in Size PROVE Plus(h[x], v) \in Size
    <3>1. h[x].cpus \in Nat /\ h[x].memory \in Nat /\ v.cpus \in Nat /\ v.memory \in Nat
      BY <1>1, <1>3, SatAdds DEF Size
    <3>2. h[x].cpus + v.cpus \in Nat /\ h[x].memory + v.memory \in Nat
      BY <3>1
    <3>3. Sat(h[x].cpus + v.cpus) \in Nat /\ Sat(h[x].memory + v.memory) \in Nat
      BY <3>2, SatAdds
    <3> HIDE DEF h
    <3> QED BY <3>3 DEF Plus, Size
  <2> HIDE DEF h
  <2> QED BY <2>1
<1> HIDE DEF h, c, m
<1>5. \E e : e \in [SUBSET S -> Size] /\ e = F(e)
  <2>1. Nothing \in Size
    BY DEF Nothing, Size
  <2>2. PICK e \in [SUBSET S -> Size] : Folds(e, S, Nothing, op)
    <3> HIDE DEF op
    <3> QED BY <2>1, <1>4, FoldExists
  <2>3. ASSUME NEW s \in SUBSET S, s # {}
        PROVE  op[First(s)][e[Rest(s)]] = Plus(h[First(s)], e[Rest(s)])
    <3>1. First(s) \in S /\ Rest(s) \in SUBSET S
      BY <2>3, FirstIsIn DEF Rest
    <3> QED BY <3>1
  <2>4. e = F(e)
    <3> HIDE DEF op
    <3> QED BY <2>2, <2>3 DEF Folds
  <2> QED BY <2>4
<1>6. g = F(g)
  <2> HIDE DEF F
  <2> QED BY <1>5
<1>7. Charged(h) = g[S]
  <2>1. DOMAIN h = S
    BY DEF h
  <2> QED BY <2>1, ChargedFolds
<1> HIDE DEF g
<1>8. /\ g[{}] = Nothing
      /\ \A s \in SUBSET S : s # {} => g[s] = Plus(h[First(s)], g[Rest(s)])
  BY <1>6
<1>9. PICK a : /\ SumsUp(a, c, S) /\ SumFunction(c) = a[S]
               /\ \A s \in SUBSET S : s # {} => a[s] = c[First(s)] + a[Rest(s)]
  BY <1>2, SumsExist
<1>10. PICK b : /\ SumsUp(b, m, S) /\ SumFunction(m) = b[S]
                /\ \A s \in SUBSET S : s # {} => b[s] = m[First(s)] + b[Rest(s)]
  BY <1>2, SumsExist
<1> DEFINE G == {s \in SUBSET S : g[s] = [cpus |-> Sat(a[s]), memory |-> Sat(b[s])]}
<1>11. ASSUME NEW s \in SUBSET S, \A u \in SUBSET s : u # s => u \in G
       PROVE  s \in G
  <2>1. CASE s = {}
    <3>1. a[s] = 0 /\ b[s] = 0 /\ Sat(0) = 0
      BY <1>9, <1>10, <2>1, Words DEF SumsUp, Sat
    <3> QED BY <1>8, <2>1, <3>1 DEF Nothing
  <2>2. CASE s # {}
    <3> DEFINE x == First(s)
               u == Rest(s)
    <3>1. x \in S /\ u \in SUBSET s /\ u # s /\ u \in SUBSET S
      BY <2>2, FirstIsIn DEF Rest
    <3>2. g[u] = [cpus |-> Sat(a[u]), memory |-> Sat(b[u])]
      BY <1>11, <3>1
    <3>3. g[s] = Plus(h[x], g[u]) /\ a[s] = c[x] + a[u] /\ b[s] = m[x] + b[u]
      BY <1>8, <1>9, <1>10, <2>2
    <3>4. a[u] \in Nat /\ b[u] \in Nat
      BY <1>9, <1>10, <3>1 DEF SumsUp
    <3> HIDE DEF x, u
    <3>5. /\ c[x] = z[x].cpus /\ m[x] = z[x].memory
          /\ c[x] \in Nat /\ m[x] \in Nat
          /\ h[x] = [cpus |-> c[x], memory |-> Sat(m[x])]
      BY <1>1, <1>3, <3>1 DEF c, m
    <3>6. /\ Sat(c[x] + Sat(a[u])) = Sat(a[s])
          /\ Sat(Sat(m[x]) + Sat(b[u])) = Sat(b[s])
      <4> DEFINE p == c[x]
                 q == m[x]
                 v == a[u]
                 w == b[u]
      <4>1. p \in Nat /\ q \in Nat /\ v \in Nat /\ w \in Nat
        BY <3>4, <3>5
      <4>2. a[s] = p + v /\ b[s] = q + w
        BY <3>3
      <4> HIDE DEF p, q, v, w
      <4>3. Sat(p + Sat(v)) = Sat(p + v) /\ Sat(Sat(q) + Sat(w)) = Sat(q + w)
        BY <4>1, SatAdds
      <4> QED BY <4>2, <4>3 DEF p, q, v, w
    <3>7. g[s] = [cpus |-> Sat(a[s]), memory |-> Sat(b[s])]
      BY <3>2, <3>3, <3>5, <3>6 DEF Plus
    <3> QED BY <3>7
  <2> QED BY <2>1, <2>2
<1>12. G = SUBSET S
  <2>1. G \in SUBSET SUBSET S
    OBVIOUS
  <2> HIDE DEF G
  <2> QED BY <1>11, <2>1, SubsetsByStep
<1>13. g[S] = [cpus |-> Sat(a[S]), memory |-> Sat(b[S])]
  BY <1>12
<1> QED BY <1>7, <1>9, <1>10, <1>13 DEF h, c, m

-----------------------------------------------------------------------------
(***************************************************************************)
(* What is held, and what is left.                                         *)
(***************************************************************************)
Runtimes == [Name -> Machine \cup {Absent}]

\* What is up has a size.
LEMMA SizeOf ==
  ASSUME NEW m \in Runtimes, NEW n \in Up(m), NEW r \in Resource
  PROVE  m[n] \in Machine /\ m[n].size \in Size /\ m[n].size[r] \in Nat
<1>1. m[n] \in Machine
  BY DEF Up, IsUp, Exists, Runtimes
<1>2. m[n].size \in Size
  BY <1>1 DEF Machine
<1>3. \A s \in Size : s["cpus"] \in Nat /\ s["memory"] \in Nat
  BY DEF Size
<1> QED BY <1>1, <1>2, <1>3 DEF Resource

LEMMA HeldIsSum ==
  ASSUME NEW m \in Runtimes, NEW S \in SUBSET Up(m), IsFiniteSet(S),
         NEW r \in Resource
  PROVE  /\ [n \in S |-> m[n].size[r]] \in [S -> Nat]
         /\ HeldOf(m, S, r) \in Nat
<1> DEFINE f == [n \in S |-> m[n].size[r]]
<1>1. f \in [S -> Nat]
  BY SizeOf
<1> HIDE DEF f
<1>2. PICK g : SumsUp(g, f, S) /\ SumFunction(f) = g[S]
  BY <1>1, SumsExist
<1>3. SumFunction(f) \in Nat
  BY <1>2 DEF SumsUp
<1> QED BY <1>1, <1>3 DEF HeldOf, f

\* One machine more or less makes its size the difference.
LEMMA HeldTakes ==
  ASSUME NEW m \in Runtimes, NEW S \in SUBSET Up(m), IsFiniteSet(S),
         NEW x \in S, NEW r \in Resource
  PROVE  /\ m[x].size[r] \in Nat
         /\ HeldOf(m, S \ {x}, r) \in Nat
         /\ HeldOf(m, S, r) = m[x].size[r] + HeldOf(m, S \ {x}, r)
<1> DEFINE f == [n \in S |-> m[n].size[r]]
<1>1. f \in [S -> Nat]
  BY HeldIsSum
<1>2. /\ SumFunction([y \in S \ {x} |-> f[y]]) \in Nat
      /\ SumFunction(f) = f[x] + SumFunction([y \in S \ {x} |-> f[y]])
  <2> HIDE DEF f
  <2> QED BY <1>1, SumTakes
<1>3. [y \in S \ {x} |-> f[y]] = [n \in S \ {x} |-> m[n].size[r]]
  OBVIOUS
<1>4. f[x] = m[x].size[r]
  OBVIOUS
<1>5. m[x].size[r] \in Nat
  BY SizeOf
<1> QED BY <1>2, <1>3, <1>4, <1>5 DEF HeldOf

\* Fewer machines hold no more.
LEMMA HeldShrinks ==
  ASSUME NEW m \in Runtimes, NEW S \in SUBSET Up(m), IsFiniteSet(S),
         NEW T \in SUBSET S, NEW r \in Resource
  PROVE  HeldOf(m, T, r) <= HeldOf(m, S, r)
<1> DEFINE f == [n \in S |-> m[n].size[r]]
<1>1. f \in [S -> Nat]
  BY HeldIsSum
<1>2. SumFunction([x \in T |-> f[x]]) <= SumFunction(f)
  <2> HIDE DEF f
  <2> QED BY <1>1, SumGrows
<1>3. [x \in T |-> f[x]] = [n \in T |-> m[n].size[r]]
  OBVIOUS
<1> QED BY <1>2, <1>3 DEF HeldOf

\* The same machines hold the same.
LEMMA HeldSame ==
  ASSUME NEW m, NEW k, NEW S, \A n \in S : k[n].size = m[n].size, NEW r
  PROVE  HeldOf(k, S, r) = HeldOf(m, S, r)
<1>1. [n \in S |-> k[n].size[r]] = [n \in S |-> m[n].size[r]]
  OBVIOUS
<1> QED BY <1>1 DEF HeldOf

\* What is allowed and the reserve are the host, if anything is allowed.
LEMMA AllowedIs ==
  ASSUME NEW r \in Resource
  PROVE  /\ Host[r] \in Nat /\ HostReserve[r] \in Nat /\ Host[r] <= MaxWord
         /\ Allowed(r) \in Nat /\ Allowed(r) <= MaxWord
         /\ Allowed(r) > 0 => Allowed(r) + HostReserve[r] = Host[r]
<1>1. /\ Host["cpus"] \in Nat /\ HostReserve["cpus"] \in Nat
      /\ Host["memory"] \in Nat /\ HostReserve["memory"] \in Nat
      /\ Host["cpus"] <= MaxWord /\ Host["memory"] <= MaxWord
  BY Words DEF Size
<1>2. Host[r] \in Nat /\ HostReserve[r] \in Nat /\ Host[r] <= MaxWord
  BY <1>1 DEF Resource
<1> QED BY <1>2, Words DEF Allowed, Less

\* What is spare is what is allowed less what is held, exactly, however much
\* that is and however short a word.
LEMMA SpareIs ==
  ASSUME NEW m \in Runtimes, IsFiniteSet(Up(m)), NEW w \in Workload,
         NEW r \in Resource
  PROVE  Spare(w, m)[r] = Less(Allowed(r), HeldOf(m, Up(m) \ Replaces(w), r))
<1> DEFINE S == Up(m) \ Replaces(w)
           z == [n \in S |-> m[n].size]
<1>1. S \in SUBSET Up(m) /\ IsFiniteSet(S)
  BY FS_Subset
<1>2. z \in [S -> Size]
  BY SizeOf DEF Resource
<1>3. {k \in Name \ Replaces(w) : IsUp(m, k)} = S
  BY DEF Up
<1>4. [n \in S |-> Holding(m[n].size)] = [n \in S |-> Holding(z[n])]
  OBVIOUS
<1>5. /\ [n \in S |-> z[n].cpus] = [n \in S |-> m[n].size["cpus"]]
      /\ [n \in S |-> z[n].memory] = [n \in S |-> m[n].size["memory"]]
  OBVIOUS
<1>6. Total(w, m) = Charged([n \in S |-> Holding(m[n].size)])
  <2> HIDE DEF S
  <2> QED BY <1>3 DEF Total
<1> HIDE DEF S, z
<1>7. Total(w, m) = [cpus |-> Sat(HeldOf(m, S, "cpus")),
                     memory |-> Sat(HeldOf(m, S, "memory"))]
  <2>1. Charged([n \in S |-> Holding(z[n])]) =
           [cpus |-> Sat(SumFunction([n \in S |-> z[n].cpus])),
            memory |-> Sat(SumFunction([n \in S |-> z[n].memory]))]
    BY <1>1, <1>2, ChargedIs
  <2> QED BY <1>4, <1>5, <1>6, <2>1 DEF HeldOf
<1>8. Total(w, m)[r] = Sat(HeldOf(m, S, r))
  BY <1>7 DEF Resource
<1>9. Spare(w, m)[r] = Less(Allowed(r), Total(w, m)[r])
  BY DEF Spare, Allowed, Resource
<1>10. Less(Allowed(r), Sat(HeldOf(m, S, r))) = Less(Allowed(r), HeldOf(m, S, r))
  <2>1. HeldOf(m, S, r) \in Nat
    BY <1>1, HeldIsSum
  <2> QED BY <2>1, AllowedIs, Words DEF Less, Sat
<1> QED BY <1>8, <1>9, <1>10 DEF S

-----------------------------------------------------------------------------
(***************************************************************************)
(* Room for what an invocation is about to start, found when it measured,  *)
(* is there but for what others have started since.                        *)
(***************************************************************************)

\* The inductive invariant: what is up is finite, so that it can be added up,
\* and but for what others have started since, an invocation has the room it
\* found when it measured.
RoomInv ==
  /\ TypeOK
  /\ IsFiniteSet(Up(machines))
  /\ Positive
  /\ \A p \in Invocation : Room(Without(machines, since[p]), local[p])

\* Leaving machines out leaves the rest as it is.
LEMMA WithoutIs ==
  ASSUME NEW m \in Runtimes, NEW S
  PROVE  /\ Without(m, S) \in Runtimes
         /\ Up(Without(m, S)) = Up(m) \ S
         /\ \A n \in Name \ S : Without(m, S)[n] = m[n]
<1>1. \A n \in Name : Without(m, S)[n] = IF n \in S THEN Absent ELSE m[n]
  BY DEF Without
<1>2. \A n \in Name : IsUp(Without(m, S), n) <=> IsUp(m, n) /\ n \notin S
  BY <1>1 DEF IsUp, Exists
<1>3. Without(m, S) \in Runtimes
  BY DEF Without, Runtimes
<1> QED BY <1>1, <1>2, <1>3 DEF Up

\* Whoever has just measured leaves nothing out.
LEMMA WithoutNothing ==
  ASSUME NEW m \in Runtimes
  PROVE  Without(m, {}) = m
BY DEF Without, Runtimes

\* What p sees is finite, and adds up.
LEMMA Seen ==
  ASSUME RoomInv, NEW p \in Invocation
  PROVE  /\ TypeOK
         /\ Without(machines, since[p]) \in Runtimes
         /\ Up(Without(machines, since[p])) = Up(machines) \ since[p]
         /\ IsFiniteSet(Up(Without(machines, since[p])))
         /\ Room(Without(machines, since[p]), local[p])
<1>1. machines \in Runtimes /\ TypeOK
  BY DEF RoomInv, TypeOK, Runtimes
<1>2. Up(Without(machines, since[p])) = Up(machines) \ since[p]
      /\ Without(machines, since[p]) \in Runtimes
  BY <1>1, WithoutIs
<1>3. IsFiniteSet(Up(machines) \ since[p])
  BY FS_Subset DEF RoomInv
<1> QED BY <1>1, <1>2, <1>3 DEF RoomInv

LEMMA InResource ==
  ASSUME NEW s \in Size, NEW r \in Resource
  PROVE  s[r] \in Nat
BY DEF Size, Resource

\* What an invocation has in memory where it is.
LEMMA HasSizes ==
  ASSUME TypeOK, NEW q \in Invocation
  PROVE  /\ local[q] \in Local
         /\ local[q].step # "idle" => local[q].sandbox \in Size
         /\ local[q].step \in Building => local[q].build \in Size
         /\ local[q].step \in Starting => local[q].name \in Session
<1>1. local[q] \in Local /\ Holds(local[q])
  BY DEF TypeOK
<1> QED BY <1>1 DEF Local, Holds

\* All hold no less than all but the builder.
LEMMA HeldAre ==
  ASSUME NEW m \in Runtimes, IsFiniteSet(Up(m)), NEW r \in Resource
  PROVE  /\ HeldOf(m, Up(m), r) \in Nat
         /\ HeldOf(m, Beside(m), r) \in Nat
         /\ HeldOf(m, Beside(m), r) <= HeldOf(m, Up(m), r)
<1>1. Beside(m) \in SUBSET Up(m) /\ IsFiniteSet(Beside(m))
  BY FS_Subset DEF Beside
<1>2. Up(m) \in SUBSET Up(m)
  OBVIOUS
<1> QED BY <1>1, <1>2, HeldIsSum, HeldShrinks

\* Room stays while nothing comes up.
LEMMA RoomStays ==
  ASSUME NEW m \in Runtimes, NEW k \in Runtimes, IsFiniteSet(Up(m)),
         Up(k) \subseteq Up(m), \A n \in Up(k) : k[n].size = m[n].size,
         NEW l \in Local,
         l.step \in Making \cup {"start"} => l.sandbox \in Size,
         l.step \in Building => l.build \in Size,
         Room(m, l)
  PROVE  IsFiniteSet(Up(k)) /\ Room(k, l)
<1>1. IsFiniteSet(Up(k))
  BY FS_Subset
<1>2. ASSUME NEW r \in Resource
      PROVE  /\ HeldOf(k, Up(k), r) \in Nat
             /\ HeldOf(k, Beside(k), r) \in Nat
             /\ HeldOf(m, Up(m), r) \in Nat
             /\ HeldOf(m, Beside(m), r) \in Nat
             /\ HeldOf(k, Up(k), r) <= HeldOf(m, Up(m), r)
             /\ HeldOf(k, Beside(k), r) <= HeldOf(m, Beside(m), r)
  <2>1. /\ Beside(k) \in SUBSET Beside(m) /\ Beside(k) \in SUBSET Up(k)
        /\ Beside(m) \in SUBSET Up(m) /\ IsFiniteSet(Beside(m))
    BY FS_Subset DEF Beside
  <2>2. /\ HeldOf(k, Up(k), r) = HeldOf(m, Up(k), r)
        /\ HeldOf(k, Beside(k), r) = HeldOf(m, Beside(k), r)
    BY <2>1, HeldSame
  <2>3. HeldOf(m, Up(k), r) <= HeldOf(m, Up(m), r)
    BY HeldShrinks
  <2>4. HeldOf(m, Beside(k), r) <= HeldOf(m, Beside(m), r)
    BY <2>1, HeldShrinks
  <2> QED BY <1>1, <2>2, <2>3, <2>4, HeldAre
<1>3. ASSUME NEW r \in Resource, l.step \in Making \cup {"start"}
      PROVE  HeldOf(k, Up(k), r) + l.sandbox[r] <= Allowed(r)
  <2>1. HeldOf(m, Up(m), r) + l.sandbox[r] <= Allowed(r)
    BY <1>3 DEF Room
  <2>2. l.sandbox[r] \in Nat /\ Allowed(r) \in Nat
    BY <1>3, InResource, AllowedIs
  <2> QED BY <1>2, <2>1, <2>2
<1>4. ASSUME NEW r \in Resource, l.step \in Making
      PROVE  HeldOf(k, Beside(k), r) + 2 * l.sandbox[r] <= Allowed(r)
  <2>1. HeldOf(m, Beside(m), r) + 2 * l.sandbox[r] <= Allowed(r)
    BY <1>4 DEF Room
  <2>2. l.sandbox[r] \in Nat /\ Allowed(r) \in Nat
    BY <1>4, InResource, AllowedIs
  <2> QED BY <1>2, <2>1, <2>2
<1>5. ASSUME NEW r \in Resource, l.step \in Building
      PROVE  HeldOf(k, Beside(k), r) + 2 * l.build[r] <= Allowed(r)
  <2>1. HeldOf(m, Beside(m), r) + 2 * l.build[r] <= Allowed(r)
    BY <1>5 DEF Room
  <2>2. l.build[r] \in Nat /\ Allowed(r) \in Nat
    BY <1>5, InResource, AllowedIs
  <2> QED BY <1>2, <2>1, <2>2
<1> QED BY <1>1, <1>3, <1>4, <1>5 DEF Room

\* k is m, but for the machine n that is up on it.
Adds(m, k, n) ==
  /\ IsUp(k, n)
  /\ \A x \in Name \ {n} : k[x] = m[x]

\* A machine put on the runtime differs in nothing else.
LEMMA Started ==
  ASSUME TypeOK, NEW p \in Invocation, NEW n \in Name, NEW size \in Size,
         Starts(p, n, size)
  PROVE  /\ machines' \in Runtimes
         /\ Adds(machines, machines', n)
         /\ machines'[n].size = size
<1> DEFINE new == [size |-> size, state |-> "starting"]
<1>1. new \in Machine /\ new # Absent /\ new.size = size /\ new.state = "starting"
  BY Marks DEF Machine
<1>2. machines' = [machines EXCEPT ![n] = new]
  BY DEF Starts
<1> HIDE DEF new
<1>3. machines \in Runtimes /\ machines' \in Runtimes /\ machines'[n] = new
      /\ \A x \in Name \ {n} : machines'[x] = machines[x]
  BY <1>1, <1>2 DEF TypeOK, Runtimes
<1> QED BY <1>1, <1>3 DEF Exists, IsUp, Adds

\* What is held after a start: what is started, and the rest as it was.
LEMMA StartHolds ==
  ASSUME NEW m \in Runtimes, IsFiniteSet(Up(m)), NEW k \in Runtimes,
         NEW n \in Name, Adds(m, k, n), NEW r \in Resource
  PROVE  /\ Up(k) = Up(m) \cup {n}
         /\ IsFiniteSet(Up(k))
         /\ HeldOf(k, Up(k), r) = k[n].size[r] + HeldOf(m, Up(m) \ {n}, r)
         /\ HeldOf(m, Up(m) \ {n}, r) \in Nat
         /\ HeldOf(k, Up(k) \ {n}, r) = HeldOf(m, Up(m) \ {n}, r)
<1>1. \A x \in Name \ {n} : IsUp(k, x) <=> IsUp(m, x)
  BY DEF IsUp, Exists, Adds
<1>2. Up(k) = Up(m) \cup {n} /\ Up(k) \ {n} = Up(m) \ {n}
  BY <1>1 DEF Up, Adds
<1>3. IsFiniteSet(Up(k)) /\ IsFiniteSet(Up(m) \ {n})
  BY <1>2, FS_AddElement, FS_Subset
<1> DEFINE S == Up(m) \ {n}
<1>4. HeldOf(k, S, r) = HeldOf(m, S, r)
  <2>1. \A x \in S : k[x].size = m[x].size
    BY DEF Up, Adds
  <2> HIDE DEF S
  <2> QED BY <2>1, HeldSame
<1>5. /\ HeldOf(k, S, r) \in Nat
      /\ HeldOf(k, Up(k), r) = k[n].size[r] + HeldOf(k, S, r)
  <2> DEFINE T == Up(k)
  <2>1. n \in T /\ T \ {n} = S /\ IsFiniteSet(T) /\ T \in SUBSET Up(k)
    BY <1>2, <1>3
  <2> HIDE DEF T, S
  <2>2. /\ HeldOf(k, T \ {n}, r) \in Nat
        /\ HeldOf(k, T, r) = k[n].size[r] + HeldOf(k, T \ {n}, r)
    BY <2>1, HeldTakes
  <2> QED BY <2>1, <2>2 DEF T
<1> QED BY <1>2, <1>3, <1>4, <1>5

\* So for a step that starts one.
LEMMA StartedHolds ==
  ASSUME TypeOK, IsFiniteSet(Up(machines)), NEW p \in Invocation, NEW n \in Name,
         NEW size \in Size, Starts(p, n, size), NEW r \in Resource
  PROVE  /\ Up(machines') = Up(machines) \cup {n}
         /\ IsFiniteSet(Up(machines'))
         /\ HeldOf(machines', Up(machines'), r) =
              size[r] + HeldOf(machines, Up(machines) \ {n}, r)
         /\ HeldOf(machines, Up(machines) \ {n}, r) \in Nat
         /\ HeldOf(machines', Up(machines') \ {n}, r) =
              HeldOf(machines, Up(machines) \ {n}, r)
<1>1. machines \in Runtimes
  BY DEF TypeOK, Runtimes
<1>2. machines' \in Runtimes
  BY Started
<1>3. Adds(machines, machines', n)
  BY Started
<1>4. machines'[n].size = size
  BY Started
<1>5. /\ Up(machines') = Up(machines) \cup {n}
      /\ IsFiniteSet(Up(machines'))
      /\ HeldOf(machines', Up(machines'), r) =
           machines'[n].size[r] + HeldOf(machines, Up(machines) \ {n}, r)
      /\ HeldOf(machines, Up(machines) \ {n}, r) \in Nat
      /\ HeldOf(machines', Up(machines') \ {n}, r) =
           HeldOf(machines, Up(machines) \ {n}, r)
  BY <1>1, <1>2, <1>3, StartHolds
<1> QED BY <1>4, <1>5

-----------------------------------------------------------------------------
(***************************************************************************)
(* What a step does to it.                                                 *)
(***************************************************************************)

\* It is there for the others while nothing comes up that they do not leave
\* out.
LEMMA RoomOfOthers ==
  ASSUME RoomInv, TypeOK', NEW q \in Invocation, local'[q] = local[q],
         \A n \in Up(machines') \ since'[q] :
           n \in Up(machines) \ since[q] /\ machines'[n].size = machines[n].size
  PROVE  Room(Without(machines', since'[q]), local'[q])
<1> DEFINE m == Without(machines, since[q])
           k == Without(machines', since'[q])
<1>1. machines \in Runtimes /\ machines' \in Runtimes /\ TypeOK
  BY DEF RoomInv, TypeOK, Runtimes
<1>2. m \in Runtimes /\ IsFiniteSet(Up(m)) /\ Room(m, local[q])
  BY Seen
<1>3. /\ k \in Runtimes
      /\ Up(k) = Up(machines') \ since'[q] /\ Up(m) = Up(machines) \ since[q]
      /\ \A n \in Name \ since'[q] : k[n] = machines'[n]
      /\ \A n \in Name \ since[q] : m[n] = machines[n]
  BY <1>1, WithoutIs
<1> HIDE DEF m, k
<1>4. Up(k) \subseteq Up(m) /\ \A n \in Up(k) : k[n].size = m[n].size
  BY <1>3 DEF Up
<1>5. /\ local[q] \in Local
      /\ local[q].step \in Making \cup {"start"} => local[q].sandbox \in Size
      /\ local[q].step \in Building => local[q].build \in Size
  <2>1. local[q].step \in Making \cup {"start"} => local[q].step # "idle"
    BY DEF Making, Building
  <2> QED BY <1>1, <2>1, HasSizes
<1>6. Room(k, local[q])
  BY <1>2, <1>3, <1>4, <1>5, RoomStays
<1> QED BY <1>6 DEF k

\* An invocation that goes on with what it has needs no more room.
LEMMA RoomGoesOn ==
  ASSUME NEW m, NEW l, NEW k, Room(m, l),
         k.step \in Making => l.step \in Making,
         k.step \in Building => l.step \in Building /\ k.build = l.build,
         k.step # "start", k.sandbox = l.sandbox
  PROVE  Room(m, k)
<1>1. k.step \in Making \cup {"start"} => l.step \in Making \cup {"start"}
  OBVIOUS
<1> QED BY <1>1 DEF Room

\* So for one that goes on while the runtime stays.
LEMMA RoomOfItself ==
  ASSUME RoomInv, NEW p \in Invocation, NEW s,
         GoesTo(p, s), machines' = machines, since' = since,
         s \in Making => local[p].step \in Making,
         s \in Building => local[p].step \in Building,
         s # "start"
  PROVE  Room(Without(machines', since'[p]), local'[p])
<1>1. local[p] \in Local /\ local'[p] = [local[p] EXCEPT !.step = s]
  BY DEF RoomInv, TypeOK, GoesTo
<1>2. /\ local'[p].step = s /\ local'[p].sandbox = local[p].sandbox
      /\ local'[p].build = local[p].build
  BY <1>1 DEF Local
<1>3. Room(Without(machines, since[p]), local[p])
  BY DEF RoomInv
<1>4. Room(Without(machines, since[p]), local'[p])
  BY <1>2, <1>3, RoomGoesOn
<1> QED BY <1>4

\* What is suggested is half of what is left, and is left.
LEMMA SuggestedFits ==
  ASSUME NEW m \in Runtimes, IsFiniteSet(Up(m)), NEW w \in Workload, NEW free,
         CanSuggest(w, m, free), NEW r \in Resource
  PROVE  /\ Suggestion(w, m) \in NonZeroSize
         /\ Suggestion(w, m)[r] \in Nat
         /\ HeldOf(m, Up(m) \ Replaces(w), r) + 2 * Suggestion(w, m)[r] <= Allowed(r)
<1> DEFINE held == HeldOf(m, Up(m) \ Replaces(w), r)
           spare == Spare(w, m)[r]
           half == Suggestion(w, m)[r]
<1>1. Suggestion(w, m) \in NonZeroSize
  BY DEF CanSuggest
<1>2. half \in Nat /\ half > 0
  BY <1>1 DEF NonZeroSize, Resource
<1>3. half = spare \div 2
  BY DEF Suggestion, Share, Resource
<1>4. spare = Less(Allowed(r), held)
  BY SpareIs
<1>5. held \in Nat
  <2>1. Up(m) \ Replaces(w) \in SUBSET Up(m) /\ IsFiniteSet(Up(m) \ Replaces(w))
    BY FS_Subset
  <2> QED BY <2>1, HeldIsSum
<1>6. Allowed(r) \in Nat
  BY AllowedIs
<1> HIDE DEF held, spare, half
<1>7. held + 2 * half <= Allowed(r)
  <2>1. spare \in Nat
    BY <1>4, <1>5, <1>6 DEF Less
  <2>2. 2 * half <= spare /\ spare > 0
    BY <1>2, <1>3, <2>1
  <2>3. held + spare = Allowed(r)
    BY <1>4, <1>5, <1>6, <2>2 DEF Less
  <2> QED BY <1>2, <1>5, <1>6, <2>1, <2>2, <2>3
<1> QED BY <1>1, <1>2, <1>7 DEF held, half

\* The sandbox's half is taken while another is left.
LEMMA SizeSandboxRoom ==
  ASSUME RoomInv, NEW p \in Invocation, SizeSandbox(p)
  PROVE  /\ Room(Without(machines', since'[p]), local'[p])
         /\ local'[p].sandbox \in NonZeroSize
<1> DEFINE size == Suggestion("sandbox", machines)
           l == local'[p]
<1>1. machines \in Runtimes /\ IsFiniteSet(Up(machines)) /\ machines' = machines
  BY DEF RoomInv, TypeOK, Runtimes, SizeSandbox
<1>2. local[p] \in Local
  BY DEF RoomInv, TypeOK
<1>3. l.step = "image" /\ l.sandbox = size
  BY <1>2 DEF SizeSandbox, RoomInv, TypeOK, Local
<1>4. PICK free \in FreeDisk : CanSuggest("sandbox", machines, free)
  BY DEF SizeSandbox
<1>5. "sandbox" \in Workload /\ Up(machines) \ Replaces("sandbox") = Up(machines)
  BY DEF Workload, Replaces
<1>6. size \in NonZeroSize
  BY <1>4 DEF CanSuggest
<1>7. ASSUME NEW r \in Resource
      PROVE  /\ size[r] \in Nat
             /\ HeldOf(machines, Up(machines), r) + 2 * size[r] <= Allowed(r)
  <2>1. HeldOf(machines, Up(machines) \ Replaces("sandbox"), r) + 2 * size[r] <= Allowed(r)
        /\ size[r] \in Nat
    BY <1>1, <1>4, <1>5, SuggestedFits
  <2> QED BY <1>5, <2>1
<1> HIDE DEF size, l
<1>8. ASSUME NEW r \in Resource
      PROVE  /\ HeldOf(machines, Up(machines), r) + size[r] <= Allowed(r)
             /\ HeldOf(machines, Beside(machines), r) + 2 * size[r] <= Allowed(r)
  <2>1. /\ HeldOf(machines, Up(machines), r) \in Nat
        /\ HeldOf(machines, Beside(machines), r) \in Nat
        /\ HeldOf(machines, Beside(machines), r) <= HeldOf(machines, Up(machines), r)
    BY <1>1, HeldAre
  <2>2. Allowed(r) \in Nat
    BY AllowedIs
  <2> QED BY <1>7, <2>1, <2>2
<1>9. Room(machines, l)
  BY <1>3, <1>8 DEF Room, Building
<1>10. since'[p] = {}
  BY DEF SizeSandbox, Measures, RoomInv, TypeOK
<1> QED BY <1>1, <1>3, <1>6, <1>9, <1>10, WithoutNothing DEF l

\* So is the build's, the builder set aside.
LEMMA SizeBuildRoom ==
  ASSUME RoomInv, NEW p \in Invocation, SizeBuild(p)
  PROVE  /\ Room(Without(machines', since'[p]), local'[p])
         /\ local'[p].sandbox = local[p].sandbox
<1> DEFINE size == Suggestion("build", machines)
           l == local'[p]
           m == Without(machines, since[p])
<1>1. machines \in Runtimes /\ IsFiniteSet(Up(machines)) /\ machines' = machines
  BY DEF RoomInv, TypeOK, Runtimes, SizeBuild
<1>2. local[p] \in Local /\ local[p].step = "size build"
  BY DEF RoomInv, TypeOK, SizeBuild
<1>3. l.step = "builder" /\ l.build = size /\ l.sandbox = local[p].sandbox
  BY <1>2 DEF SizeBuild, RoomInv, TypeOK, Local
<1>4. PICK free \in FreeDisk : CanSuggest("build", machines, free)
  BY DEF SizeBuild
<1>5. "build" \in Workload /\ Up(machines) \ Replaces("build") = Beside(machines)
  BY DEF Workload, Replaces, Beside
<1>6. ASSUME NEW r \in Resource
      PROVE  HeldOf(machines, Beside(machines), r) + 2 * size[r] <= Allowed(r)
  <2>1. HeldOf(machines, Up(machines) \ Replaces("build"), r) + 2 * size[r] <= Allowed(r)
    BY <1>1, <1>4, <1>5, SuggestedFits
  <2> QED BY <1>5, <2>1
<1> HIDE DEF size, l
<1>7. m \in Runtimes /\ Up(m) = Up(machines) \ since[p] /\ Room(m, local[p])
      /\ \A n \in Name \ since[p] : m[n] = machines[n]
  BY <1>1, Seen, WithoutIs
<1>8. size \in NonZeroSize
  BY <1>4 DEF CanSuggest, size
<1> HIDE DEF m
<1>9. ASSUME NEW r \in Resource
      PROVE  HeldOf(m, Beside(m), r) + 2 * size[r] <= Allowed(r)
  <2>1. Beside(m) \in SUBSET Beside(machines) /\ Beside(m) \in SUBSET Up(m)
        /\ Beside(machines) \in SUBSET Up(machines)
    BY <1>7 DEF Beside
  <2>2. HeldOf(m, Beside(m), r) = HeldOf(machines, Beside(m), r)
    <3>1. \A n \in Beside(m) : m[n].size = machines[n].size
      BY <1>7, <2>1 DEF Up
    <3> QED BY <3>1, HeldSame
  <2>3. IsFiniteSet(Beside(machines)) /\ IsFiniteSet(Beside(m))
    BY <1>1, <2>1, FS_Subset
  <2>4. HeldOf(machines, Beside(m), r) <= HeldOf(machines, Beside(machines), r)
    BY <1>1, <2>1, <2>3, HeldShrinks
  <2>5. HeldOf(m, Beside(m), r) \in Nat /\ HeldOf(machines, Beside(machines), r) \in Nat
    BY <1>1, <1>7, <2>1, <2>3, HeldIsSum
  <2>6. size[r] \in Nat /\ Allowed(r) \in Nat
    BY <1>8, AllowedIs DEF NonZeroSize, Resource
  <2> QED BY <1>6, <2>2, <2>4, <2>5, <2>6
<1>10. Room(m, l)
  <2>1. local[p].step \in Making
    BY <1>2 DEF Making
  <2> QED BY <1>2, <1>3, <1>7, <1>9, <2>1 DEF Room
<1>11. since' = since
  BY DEF SizeBuild
<1> QED BY <1>1, <1>3, <1>10, <1>11 DEF l, m

\* What is reserved for a machine that is there is what it has.
LEMMA ReserveRoom ==
  ASSUME RoomInv, NEW p \in Invocation, Reserve(p)
  PROVE  Room(Without(machines', since'[p]), local'[p])
<1> DEFINE size == local[p].sandbox
           l == local'[p]
<1>1. machines \in Runtimes /\ IsFiniteSet(Up(machines)) /\ machines' = machines
  BY DEF RoomInv, TypeOK, Runtimes, Reserve
<1>2. local[p] \in Local /\ local[p].step = "reserve"
  BY DEF RoomInv, TypeOK, Reserve
<1>3. l.step = "start" /\ l.sandbox = size
  BY <1>2 DEF Reserve, GoesTo, RoomInv, TypeOK, Local
<1>4. size \in NonZeroSize
  <2>1. local[p].sandbox # None
    BY <1>2 DEF RoomInv, TypeOK, Holds
  <2> QED BY <2>1 DEF RoomInv, Positive
<1>5. ASSUME NEW r \in Resource
      PROVE  size[r] \in Nat /\ size[r] > 0 /\ size[r] <= Spare("sandbox", machines)[r]
  <2>1. size["cpus"] <= Spare("sandbox", machines)["cpus"]
        /\ size["memory"] <= Spare("sandbox", machines)["memory"]
    BY DEF Reserve, CanReserve
  <2>2. size[r] <= Spare("sandbox", machines)[r]
    BY <2>1 DEF Resource
  <2> QED BY <1>4, <2>2 DEF NonZeroSize, Resource
<1> HIDE DEF size, l
<1>6. ASSUME NEW r \in Resource
      PROVE  HeldOf(machines, Up(machines), r) + size[r] <= Allowed(r)
  <2> DEFINE held == HeldOf(machines, Up(machines), r)
  <2>1. Spare("sandbox", machines)[r] = Less(Allowed(r), held)
    <3>1. "sandbox" \in Workload /\ Up(machines) \ Replaces("sandbox") = Up(machines)
      BY DEF Workload, Replaces
    <3> QED BY <1>1, <3>1, SpareIs
  <2>2. held \in Nat /\ Allowed(r) \in Nat
    BY <1>1, HeldAre, AllowedIs
  <2>3. size[r] \in Nat /\ size[r] > 0 /\ size[r] <= Less(Allowed(r), held)
    BY <1>5, <2>1
  <2> HIDE DEF held
  <2>4. held + size[r] <= Allowed(r)
    BY <2>2, <2>3 DEF Less
  <2> QED BY <2>4 DEF held
<1>7. Room(machines, l)
  BY <1>3, <1>6 DEF Room, Making, Building
<1>8. since'[p] = {}
  BY DEF Reserve, Measures, RoomInv, TypeOK
<1> QED BY <1>1, <1>7, <1>8, WithoutNothing DEF l

\* What p sees of a machine it starts: it, and the rest as before.
LEMMA SeenStarted ==
  ASSUME RoomInv, NEW p \in Invocation, NEW n \in Name, NEW size \in Size,
         Starts(p, n, size), NEW r \in Resource
  PROVE  LET m == Without(machines, since[p])
             k == Without(machines', since'[p])
         IN  /\ Up(k) = Up(m) \cup {n}
             /\ IsFiniteSet(Up(k))
             /\ HeldOf(k, Up(k), r) = size[r] + HeldOf(m, Up(m) \ {n}, r)
             /\ HeldOf(m, Up(m) \ {n}, r) \in Nat
             /\ HeldOf(k, Up(k) \ {n}, r) = HeldOf(m, Up(m) \ {n}, r)
<1> DEFINE m == Without(machines, since[p])
           k == Without(machines', since'[p])
<1>1. /\ machines \in Runtimes /\ machines' \in Runtimes
      /\ Adds(machines, machines', n) /\ machines'[n].size = size
  BY Started DEF RoomInv, TypeOK, Runtimes
<1>2. since'[p] = since[p] \ {n}
  BY DEF Starts, StartedBy, RoomInv, TypeOK
<1>3. m \in Runtimes /\ IsFiniteSet(Up(m))
  BY Seen
<1>4. /\ k \in Runtimes
      /\ \A x \in Name : m[x] = IF x \in since[p] THEN Absent ELSE machines[x]
      /\ \A x \in Name : k[x] = IF x \in since'[p] THEN Absent ELSE machines'[x]
  BY <1>1, WithoutIs DEF Without
<1> HIDE DEF m, k
<1>5. k[n] = machines'[n]
  BY <1>2, <1>4
<1>6. Adds(m, k, n)
  BY <1>1, <1>2, <1>4, <1>5 DEF Adds, IsUp, Exists
<1>7. k \in Runtimes
  BY <1>4
<1>8. /\ Up(k) = Up(m) \cup {n}
      /\ IsFiniteSet(Up(k))
      /\ HeldOf(k, Up(k), r) = k[n].size[r] + HeldOf(m, Up(m) \ {n}, r)
      /\ HeldOf(m, Up(m) \ {n}, r) \in Nat
      /\ HeldOf(k, Up(k) \ {n}, r) = HeldOf(m, Up(m) \ {n}, r)
  BY <1>3, <1>6, <1>7, StartHolds
<1>9. k[n].size[r] = size[r]
  BY <1>1, <1>5
<1> QED BY <1>8, <1>9 DEF m, k

\* The builder is put in the place of whatever builder there was: the two
\* halves fit together.
LEMMA StartBuilderRoom ==
  ASSUME RoomInv, NEW p \in Invocation, StartBuilder(p)
  PROVE  LET k == Without(machines', since'[p])
         IN  /\ Room(k, local'[p])
             /\ Starts(p, Builder, local[p].build) =>
                  \A r \in Resource :
                    HeldOf(k, Up(k), r) + local[p].sandbox[r] <= Allowed(r)
<1> DEFINE m == Without(machines, since[p])
           k == Without(machines', since'[p])
<1>1. m \in Runtimes /\ IsFiniteSet(Up(m)) /\ TypeOK
  BY Seen
<1>2. local[p] \in Local /\ local[p].step = "start builder" /\ GoesTo(p, "builder up")
  BY <1>1 DEF TypeOK, StartBuilder
<1>3. CASE UNCHANGED <<machines, since, disturbed>> /\ ~ Starts(p, Builder, local[p].build)
  <2>1. /\ machines' = machines /\ since' = since /\ "builder up" # "start"
        /\ local[p].step \in Making /\ local[p].step \in Building
    BY <1>2, <1>3 DEF Making, Building
  <2> QED BY <1>2, <1>3, <2>1, RoomOfItself
<1>4. CASE Starts(p, Builder, local[p].build)
  <2> DEFINE sandbox == local[p].sandbox
             build == local[p].build
             l == local'[p]
  <2>1. local[p].step \in Making /\ local[p].step \in Building /\ local[p].step # "idle"
    BY <1>2 DEF Making, Building
  <2>2. sandbox \in Size /\ build \in Size
    BY <1>1, <2>1, HasSizes
  <2>3. l.step = "builder up" /\ l.sandbox = sandbox /\ l.build = build
    BY <1>1, <1>2 DEF GoesTo, TypeOK, Local
  <2>4. Builder \in Name
    BY DEF Name
  <2>5. Room(m, local[p])
    BY Seen
  <2>6. ASSUME NEW r \in Resource
        PROVE  /\ HeldOf(m, Beside(m), r) + 2 * sandbox[r] <= Allowed(r)
               /\ HeldOf(m, Beside(m), r) + 2 * build[r] <= Allowed(r)
               /\ sandbox[r] \in Nat /\ build[r] \in Nat /\ Allowed(r) \in Nat
    BY <2>1, <2>2, <2>5, InResource, AllowedIs DEF Room
  <2>7. Starts(p, Builder, build)
    BY <1>4
  <2> HIDE DEF sandbox, build, l, m, k
  <2>8. ASSUME NEW r \in Resource
        PROVE  /\ HeldOf(m, Beside(m), r) \in Nat
               /\ HeldOf(k, Up(k), r) =
                    build[r] + HeldOf(m, Beside(m), r)
               /\ HeldOf(k, Beside(k), r) =
                    HeldOf(m, Beside(m), r)
    BY <1>1, <2>2, <2>4, <2>7, SeenStarted DEF Beside, m, k
  <2>9. ASSUME NEW r \in Resource
        PROVE  HeldOf(k, Up(k), r) + sandbox[r] <= Allowed(r)
    <3> DEFINE others == HeldOf(m, Beside(m), r)
    <3>1. others \in Nat /\ HeldOf(k, Up(k), r) = build[r] + others
      BY <2>8
    <3>2. /\ others + 2 * sandbox[r] <= Allowed(r)
          /\ others + 2 * build[r] <= Allowed(r)
          /\ sandbox[r] \in Nat /\ build[r] \in Nat /\ Allowed(r) \in Nat
      BY <2>6
    <3> HIDE DEF others
    <3> QED BY <3>1, <3>2
  <2>10. Room(k, l)
    BY <2>3, <2>6, <2>8, <2>9 DEF Room
  <2> QED BY <2>9, <2>10 DEF l, sandbox, k
<1> QED BY <1>3, <1>4 DEF StartBuilder

\* What is held once the sandbox is started fits what is allowed.
LEMMA SandboxFits ==
  ASSUME RoomInv, NEW p \in Invocation, Run(p) \/ Start(p),
         Starts(p, local[p].name, local[p].sandbox), ~ IsUp(machines, local[p].name),
         NEW r \in Resource
  PROVE  LET k == Without(machines', since'[p])
         IN  HeldOf(k, Up(k), r) <= Allowed(r)
<1> DEFINE m == Without(machines, since[p])
           k == Without(machines', since'[p])
<1>1. m \in Runtimes /\ IsFiniteSet(Up(m)) /\ TypeOK
      /\ Up(m) = Up(machines) \ since[p]
  BY Seen
<1>2. local[p].step \in {"run", "start"}
  BY DEF Run, Start
<1> DEFINE n == local[p].name
           sandbox == local[p].sandbox
<1>3. n \in Name /\ sandbox \in Size
  <2>1. local[p].step # "idle" /\ local[p].step \in Starting
    BY <1>2 DEF Starting
  <2> QED BY <1>1, <2>1, HasSizes DEF Name
<1>4. HeldOf(m, Up(m), r) + sandbox[r] <= Allowed(r)
  <2>1. Room(m, local[p])
    BY Seen
  <2>2. local[p].step \in Making \cup {"start"}
    BY <1>2 DEF Making
  <2> QED BY <2>1, <2>2 DEF Room
<1>5. Starts(p, n, sandbox)
  OBVIOUS
<1>6. Up(m) \ {n} = Up(m)
  BY <1>1 DEF Up
<1> HIDE DEF n, sandbox, m, k
<1>7. HeldOf(k, Up(k), r) = sandbox[r] + HeldOf(m, Up(m), r)
  <2>1. HeldOf(k, Up(k), r) =
          sandbox[r] + HeldOf(m, Up(m) \ {n}, r)
    BY <1>3, <1>5, SeenStarted DEF m, k
  <2> QED BY <1>6, <2>1
<1>8. /\ HeldOf(m, Up(m), r) \in Nat
      /\ sandbox[r] \in Nat
  BY <1>1, <1>3, HeldAre, InResource
<1>9. HeldOf(k, Up(k), r) <= Allowed(r)
  BY <1>4, <1>7, <1>8, AllowedIs
<1> QED BY <1>9 DEF k

-----------------------------------------------------------------------------
(***************************************************************************)
(* Every step.                                                             *)
(***************************************************************************)

\* Nothing comes up or changes its size.
Calm ==
  /\ Up(machines') \subseteq Up(machines)
  /\ \A n \in Name : Exists(machines', n) =>
       Exists(machines, n) /\ machines'[n].size = machines[n].size

\* A step of p that starts something.
Begins(p) ==
  \/ StartBuilder(p) /\ Starts(p, Builder, local[p].build)
  \/ /\ Run(p) \/ Start(p)
     /\ ~ IsUp(machines, local[p].name)
     /\ Starts(p, local[p].name, local[p].sandbox)

LEMMA UpIsThere == \A m, n : IsUp(m, n) => Exists(m, n)
BY DEF IsUp

LEMMA GoneIsCalm ==
  ASSUME TypeOK, NEW n \in Name, machines' = [machines EXCEPT ![n] = Absent]
  PROVE  Calm
<1>1. /\ machines'[n] = Absent
      /\ \A x \in Name \ {n} : machines'[x] = machines[x]
  BY DEF TypeOK
<1>2. ~ Exists(machines', n) /\ ~ IsUp(machines', n)
  BY <1>1 DEF Exists, IsUp
<1>3. \A x \in Name \ {n} : /\ Exists(machines', x) <=> Exists(machines, x)
                            /\ IsUp(machines', x) <=> IsUp(machines, x)
  BY <1>1 DEF Exists, IsUp
<1> QED BY <1>1, <1>2, <1>3 DEF Calm, Up

\* A step starts one machine, or none.
LEMMA BeginsOrCalm ==
  ASSUME TypeOK, NEW p \in Invocation, Invoke(p), ~ Begins(p)
  PROVE  /\ machines' = machines \/ DeleteBuilder(p)
         /\ Calm
         /\ \A q \in Invocation \ {p} : since[q] \cap Up(machines') \subseteq since'[q]
<1>1. machines' = machines \/ DeleteBuilder(p)
  <2>1. CASE Run(p)
    <3>1. ~ IsUp(machines, local[p].name)
      BY <2>1 DEF Run, IsUp
    <3> QED BY <2>1, <3>1 DEF Run, Begins
  <2>2. CASE Start(p)
    BY <2>2 DEF Start, Begins
  <2>3. CASE StartBuilder(p)
    BY <2>3 DEF StartBuilder, Begins
  <2>4. CASE ~ (Run(p) \/ Start(p) \/ StartBuilder(p))
    BY <2>4 DEF Invoke, SizeSandbox, FindImage, MissImage, SizeBuild, FindBuilder,
         DeleteBuilder, BuilderIsUp, Build, Allocate, Resume, Reserve, Reach, Leave,
         Returns, Quietly
  <2> QED BY <2>1, <2>2, <2>3, <2>4
<1>2. CASE DeleteBuilder(p)
  <2>1. Builder \in Name
    BY DEF Name
  <2>2. Calm
    BY <1>2, <2>1, GoneIsCalm DEF DeleteBuilder
  <2>3. Builder \notin Up(machines')
    <3>1. machines'[Builder] = Absent
      BY <1>2, <2>1 DEF DeleteBuilder, TypeOK
    <3> QED BY <3>1 DEF Up, IsUp, Exists
  <2>4. \A q \in Invocation : since'[q] = since[q] \ {Builder}
    BY <1>2 DEF DeleteBuilder, Released
  <2> QED BY <1>2, <2>2, <2>3, <2>4
<1>3. CASE ~ DeleteBuilder(p)
  <2>1. since' = since \/ Measures(p)
    <3>1. CASE Run(p)
      <4>1. ~ IsUp(machines, local[p].name)
        BY <3>1 DEF Run, IsUp
      <4> QED BY <3>1, <4>1 DEF Run, Begins
    <3>2. CASE Start(p)
      BY <3>2 DEF Start, Begins
    <3>3. CASE StartBuilder(p)
      BY <3>3 DEF StartBuilder, Begins
    <3>4. CASE ~ (Run(p) \/ Start(p) \/ StartBuilder(p))
      BY <1>3, <3>4 DEF Invoke, SizeSandbox, FindImage, MissImage, SizeBuild, FindBuilder,
           BuilderIsUp, Build, Allocate, Resume, Reserve, Reach, Leave, Returns, Quietly
    <3> QED BY <3>1, <3>2, <3>3, <3>4
  <2>2. \A q \in Invocation \ {p} : since'[q] = since[q]
    BY <2>1 DEF Measures, TypeOK
  <2> QED BY <1>1, <1>3, <2>2 DEF Calm
<1> QED BY <1>2, <1>3

\* What it starts.
LEMMA BeginsOne ==
  ASSUME TypeOK, NEW p \in Invocation, Begins(p)
  PROVE  \E n \in Name, size \in Size :
           /\ Starts(p, n, size)
           /\ n \in Session => size = local[p].sandbox
<1>1. CASE StartBuilder(p) /\ Starts(p, Builder, local[p].build)
  <2>1. local[p].step \in Building
    BY <1>1 DEF StartBuilder, Building
  <2>2. local[p].build \in Size
    BY <2>1, HasSizes
  <2> QED BY <1>1, <2>2, Names DEF Name
<1>2. CASE (Run(p) \/ Start(p)) /\ Starts(p, local[p].name, local[p].sandbox)
  <2>1. local[p].step \in Starting /\ local[p].step # "idle"
    BY <1>2 DEF Run, Start, Starting
  <2>2. local[p].name \in Name /\ local[p].sandbox \in Size
    BY <2>1, HasSizes DEF Name
  <2> QED BY <1>2, <2>2
<1> QED BY <1>1, <1>2 DEF Begins

\* An invocation's memory is its own.
LEMMA OthersStay ==
  ASSUME TypeOK, NEW p \in Invocation, Invoke(p), NEW q \in Invocation, q # p
  PROVE  local'[q] = local[q]
<1>1. PICK l : local' = [local EXCEPT ![p] = l]
  BY DEF Invoke, SizeSandbox, FindImage, MissImage, SizeBuild, FindBuilder,
       DeleteBuilder, StartBuilder, BuilderIsUp, Build, Allocate, Run, Resume,
       Reserve, Start, Reach, Leave, Returns, Quietly, GoesTo
<1> QED BY <1>1 DEF TypeOK

\* An invocation that is at nothing needs no room.
LEMMA IdleRoom ==
  ASSUME NEW m, NEW l, l.step \notin Making \cup {"start"}
  PROVE  Room(m, l)
BY DEF Room, Making

\* Room for whoever does not move: what is started is left out.
LEMMA OthersRoom ==
  ASSUME RoomInv, TypeOK', NEW p \in Invocation, Invoke(p),
         NEW q \in Invocation, q # p
  PROVE  Room(Without(machines', since'[q]), local'[q])
<1>1. TypeOK /\ local'[q] = local[q]
  BY OthersStay DEF RoomInv
<1>2. CASE Begins(p)
  <2>1. PICK n \in Name, size \in Size : Starts(p, n, size)
    BY <1>1, <1>2, BeginsOne
  <2>2. CASE q \notin Busy
    <3>1. local'[q].step = "idle"
      BY <1>1, <2>2 DEF Busy
    <3> QED BY <3>1, IdleRoom DEF Making, Building
  <2>3. CASE q \in Busy
    <3>1. since'[q] = since[q] \cup {n}
      BY <2>1, <2>3 DEF Starts, StartedBy
    <3>2. \A x \in Name \ {n} : machines'[x] = machines[x]
      BY <1>1, <2>1, Started DEF Adds
    <3>3. \A x \in Up(machines') \ since'[q] :
            x \in Up(machines) \ since[q] /\ machines'[x].size = machines[x].size
      BY <3>1, <3>2 DEF Up, IsUp, Exists
    <3> QED BY <1>1, <3>3, RoomOfOthers
  <2> QED BY <2>2, <2>3
<1>3. CASE ~ Begins(p)
  <2>1. Calm /\ since[q] \cap Up(machines') \subseteq since'[q]
    BY <1>1, <1>3, BeginsOrCalm
  <2>2. \A n \in Up(machines') : machines'[n].size = machines[n].size
    BY <2>1, UpIsThere DEF Calm, Up
  <2>3. \A n \in Up(machines') \ since'[q] :
          n \in Up(machines) \ since[q] /\ machines'[n].size = machines[n].size
    BY <2>1, <2>2 DEF Calm
  <2> QED BY <1>1, <2>3, RoomOfOthers
<1> QED BY <1>2, <1>3

\* Room for the one that moves.
LEMMA ItselfRoom ==
  ASSUME RoomInv, TypeOK', NEW p \in Invocation, Invoke(p)
  PROVE  Room(Without(machines', since'[p]), local'[p])
<1>1. TypeOK /\ local[p] \in Local
  BY DEF RoomInv, TypeOK
<1>2. ASSUME NEW s, GoesTo(p, s) PROVE local'[p].step = s
  BY <1>1, <1>2 DEF GoesTo, TypeOK, Local
<1>3. CASE SizeSandbox(p)
  BY <1>3, SizeSandboxRoom
<1>4. CASE Reserve(p)
  BY <1>4, ReserveRoom
<1>5. CASE Reach(p) \/ Leave(p)
  <2>1. local'[p].step = "idle"
    BY <1>1, <1>5 DEF Reach, Leave, Returns, TypeOK, Nowhere
  <2> QED BY <2>1, IdleRoom DEF Making, Building
<1>6. CASE Resume(p)
  <2>1. local'[p].step = "reserve"
    BY <1>1, <1>6 DEF Resume, TypeOK, Local
  <2> QED BY <2>1, IdleRoom DEF Making, Building
<1>7. CASE Run(p) \/ Start(p)
  <2>1. local'[p].step = "wait"
    BY <1>2, <1>7 DEF Run, Start
  <2> QED BY <2>1, IdleRoom DEF Making, Building
<1>8. CASE SizeBuild(p)
  BY <1>8, SizeBuildRoom
<1>9. CASE StartBuilder(p)
  BY <1>9, StartBuilderRoom
<1>10. CASE FindImage(p) \/ MissImage(p) \/ FindBuilder(p) \/ BuilderIsUp(p)
  <2>1. PICK s \in {"allocate", "size build", "start builder", "delete", "build"} :
          /\ GoesTo(p, s)
          /\ s \in {"start builder", "delete", "build"} => local[p].step \in Building
    BY <1>10 DEF FindImage, MissImage, FindBuilder, BuilderIsUp, Quietly, Building
  <2>2. local[p].step \in Making
    BY <1>10 DEF FindImage, MissImage, FindBuilder, BuilderIsUp, Making, Building
  <2>3. machines' = machines /\ since' = since
    BY <1>10 DEF FindImage, MissImage, FindBuilder, BuilderIsUp, Quietly
  <2>4. s # "start" /\ (s \in Building => local[p].step \in Building)
    BY <2>1 DEF Building
  <2> QED BY <2>1, <2>2, <2>3, <2>4, RoomOfItself
<1>11. CASE Build(p) \/ Allocate(p)
  <2>1. /\ local'[p].step \in {"allocate", "run"}
        /\ local'[p].sandbox = local[p].sandbox
        /\ machines' = machines /\ since' = since
        /\ local[p].step \in {"build", "allocate"}
    <3>1. CASE Build(p)
      BY <1>1, <3>1 DEF Build, TypeOK, Local
    <3>2. CASE Allocate(p)
      <4>1. PICK n \in Session :
              local' = [local EXCEPT ![p].step = "run", ![p].name = n]
        BY <3>2 DEF Allocate
      <4> QED BY <1>1, <3>2, <4>1 DEF Allocate, TypeOK, Local
    <3> QED BY <1>11, <3>1, <3>2
  <2>2. Room(Without(machines, since[p]), local[p])
    BY DEF RoomInv
  <2>3. /\ local[p].step \in Making /\ local'[p].step \notin Building
        /\ local'[p].step # "start"
    BY <2>1 DEF Making, Building
  <2>4. Room(Without(machines, since[p]), local'[p])
    BY <2>1, <2>2, <2>3, RoomGoesOn
  <2> QED BY <2>1, <2>4
<1>12. CASE DeleteBuilder(p)
  <2> DEFINE m == Without(machines, since[p])
             k == Without(machines', since'[p])
  <2>1. /\ local[p].step = "delete" /\ GoesTo(p, "start builder")
        /\ machines' = [machines EXCEPT ![Builder] = Absent]
        /\ since'[p] = since[p] \ {Builder}
    BY <1>12 DEF DeleteBuilder, Released
  <2>2. /\ machines \in Runtimes /\ machines' \in Runtimes /\ Builder \in Name
        /\ \A n \in Name : machines'[n] = IF n = Builder THEN Absent ELSE machines[n]
    BY <1>1, <2>1 DEF TypeOK, Runtimes, Name
  <2>3. /\ m \in Runtimes /\ IsFiniteSet(Up(m)) /\ Room(m, local[p])
        /\ k \in Runtimes
        /\ \A n \in Name : m[n] = IF n \in since[p] THEN Absent ELSE machines[n]
        /\ \A n \in Name : k[n] = IF n \in since'[p] THEN Absent ELSE machines'[n]
    <3>1. m \in Runtimes /\ IsFiniteSet(Up(m)) /\ Room(m, local[p])
      BY Seen
    <3>2. k \in Runtimes
      BY <2>2, WithoutIs
    <3>3. /\ \A n \in Name : m[n] = IF n \in since[p] THEN Absent ELSE machines[n]
          /\ \A n \in Name : k[n] = IF n \in since'[p] THEN Absent ELSE machines'[n]
      BY DEF Without
    <3> HIDE DEF m, k
    <3> QED BY <3>1, <3>2, <3>3
  <2> HIDE DEF m, k
  <2>4. \A n \in Name : k[n] = m[n] \/ k[n] = Absent
    BY <2>1, <2>2, <2>3
  <2>5. Up(k) \subseteq Up(m) /\ \A n \in Up(k) : k[n].size = m[n].size
    BY <2>4 DEF Up, IsUp, Exists
  <2>6. Room(k, local[p])
    <3>1. local[p].step # "idle" /\ local[p].step \in Building
      BY <2>1 DEF Building
    <3>2. local[p].sandbox \in Size /\ local[p].build \in Size
      BY <1>1, <3>1, HasSizes
    <3> QED BY <1>1, <2>3, <2>5, <3>2, RoomStays
  <2>7. /\ local'[p].step = "start builder" /\ local'[p].sandbox = local[p].sandbox
        /\ local'[p].build = local[p].build
    BY <1>1, <2>1 DEF GoesTo, TypeOK, Local
  <2>8. local[p].step \in Making /\ local[p].step \in Building
    BY <2>1 DEF Making, Building
  <2>9. local'[p].step # "start"
    BY <2>7
  <2>10. Room(k, local'[p])
    BY <2>6, <2>7, <2>8, <2>9, RoomGoesOn
  <2> QED BY <2>10 DEF k
<1> QED BY <1>3, <1>4, <1>5, <1>6, <1>7, <1>8, <1>9, <1>10, <1>11, <1>12 DEF Invoke

\* Nothing is made with nothing.
LEMMA PositiveStays ==
  ASSUME RoomInv, NEW p \in Invocation, Invoke(p)
  PROVE  Positive'
<1>1. TypeOK /\ local[p] \in Local /\ Positive
  BY DEF RoomInv, TypeOK
<1>2. ASSUME NEW q \in Invocation, local'[q].sandbox # None
      PROVE  local'[q].sandbox \in NonZeroSize
  <2>1. CASE q # p
    BY <1>1, <1>2, <2>1, OthersStay DEF Positive
  <2>2. CASE q = p /\ SizeSandbox(p)
    BY <2>2, SizeSandboxRoom
  <2>3. CASE q = p /\ Resume(p)
    <3>1. PICK n \in Session :
            /\ Exists(machines, n)
            /\ local' = [local EXCEPT ![p].step = "reserve", ![p].name = n,
                                      ![p].sandbox = machines[n].size]
      BY <2>3 DEF Resume
    <3>2. local'[p].sandbox = machines[n].size
      BY <1>1, <3>1 DEF TypeOK, Local
    <3> QED BY <1>1, <2>3, <3>1, <3>2 DEF Positive
  <2>4. CASE q = p /\ (Reach(p) \/ Leave(p))
    <3>1. local'[p] = Nowhere
      BY <1>1, <2>4 DEF Reach, Leave, Returns, TypeOK
    <3> QED BY <1>2, <2>4, <3>1 DEF Nowhere
  <2>5. CASE q = p /\ ~ (SizeSandbox(p) \/ Resume(p) \/ Reach(p) \/ Leave(p))
    <3>1. local'[p].sandbox = local[p].sandbox
      <4>1. CASE SizeBuild(p)
        BY <4>1, SizeBuildRoom
      <4>2. CASE Build(p)
        BY <1>1, <4>2 DEF Build, TypeOK, Local
      <4>3. CASE Allocate(p)
        <5>1. PICK n \in Session :
                local' = [local EXCEPT ![p].step = "run", ![p].name = n]
          BY <4>3 DEF Allocate
        <5> QED BY <1>1, <5>1 DEF TypeOK, Local
      <4>4. CASE \E s : GoesTo(p, s)
        BY <1>1, <4>4 DEF GoesTo, TypeOK, Local
      <4> QED BY <2>5, <4>1, <4>2, <4>3, <4>4
           DEF Invoke, FindImage, MissImage, FindBuilder, DeleteBuilder, StartBuilder,
               BuilderIsUp, Run, Reserve, Start, Quietly
    <3> QED BY <1>1, <1>2, <2>5, <3>1 DEF Positive
  <2> QED BY <2>1, <2>2, <2>3, <2>4, <2>5
<1>3. ASSUME NEW n \in Session, Exists(machines', n)
      PROVE  machines'[n].size \in NonZeroSize
  <2>1. CASE ~ Begins(p)
    <3>1. Exists(machines, n) /\ machines'[n].size = machines[n].size
      BY <1>1, <1>3, <2>1, BeginsOrCalm DEF Calm, Name
    <3> QED BY <1>1, <3>1 DEF Positive
  <2>2. CASE Begins(p)
    <3>1. PICK x \in Name, size \in Size :
            Starts(p, x, size) /\ (x \in Session => size = local[p].sandbox)
      BY <1>1, <2>2, BeginsOne
    <3>2. /\ machines'[x].size = size
          /\ \A y \in Name \ {x} : machines'[y] = machines[y]
      BY <1>1, <3>1, Started DEF Adds
    <3>3. CASE n = x
      <4>1. machines'[n].size = local[p].sandbox /\ local[p].sandbox # None
        BY <3>1, <3>2, <3>3, Marks
      <4> QED BY <1>1, <4>1 DEF Positive
    <3>4. CASE n # x
      <4>1. machines'[n] = machines[n]
        BY <3>2, <3>4 DEF Name
      <4> QED BY <1>1, <1>3, <4>1 DEF Positive, Exists
    <3> QED BY <3>3, <3>4
  <2> QED BY <2>1, <2>2
<1>4. \A n \in Session : Exists(machines, n)' => machines'[n].size \in NonZeroSize
  BY <1>3 DEF Exists
<1> QED BY <1>2, <1>4 DEF Positive

LEMMA InvokeRoom ==
  ASSUME RoomInv, TypeOK', NEW p \in Invocation, Invoke(p)
  PROVE  RoomInv'
<1>1. IsFiniteSet(Up(machines'))
  <2>1. TypeOK /\ IsFiniteSet(Up(machines))
    BY DEF RoomInv
  <2>2. CASE Begins(p)
    <3>1. PICK n \in Name, size \in Size : Starts(p, n, size)
      BY <2>1, <2>2, BeginsOne
    <3>2. "cpus" \in Resource
      BY DEF Resource
    <3> QED BY <2>1, <3>1, <3>2, StartedHolds
  <2>3. CASE ~ Begins(p)
    <3>1. Up(machines') \subseteq Up(machines)
      BY <2>1, <2>3, BeginsOrCalm DEF Calm
    <3> QED BY <2>1, <3>1, FS_Subset
  <2> QED BY <2>2, <2>3
<1>2. Positive'
  BY PositiveStays
<1>3. \A q \in Invocation : Room(Without(machines', since'[q]), local'[q])
  BY OthersRoom, ItselfRoom
<1> QED BY <1>1, <1>2, <1>3 DEF RoomInv

\* What the runtime does, and somebody else's machines, which are left out.
LEMMA RuntimeRoom ==
  ASSUME RoomInv, TypeOK', NEW n \in Name, Runtime(n)
  PROVE  RoomInv'
<1>1. /\ TypeOK /\ Positive /\ IsFiniteSet(Up(machines)) /\ local' = local
      /\ machines \in Runtimes /\ machines' \in Runtimes
  BY DEF RoomInv, TypeOK, Runtimes, Runtime, ComeUp, GoDown, BeDown, Vanish, StartForeign
<1>2. CASE ~ StartForeign(n)
  <2>1. Calm
    <3>1. CASE Vanish(n)
      BY <1>1, <3>1, GoneIsCalm DEF Vanish
    <3>2. CASE ComeUp(n) \/ GoDown(n) \/ BeDown(n)
      <4>1. PICK s \in {"running", "stopping", "stopped"} :
              /\ machines' = [machines EXCEPT ![n].state = s]
              /\ s = "running" => machines[n].state = "starting"
        BY <3>2 DEF ComeUp, GoDown, BeDown
      <4>2. Exists(machines, n)
        BY <3>2 DEF ComeUp, GoDown, BeDown, IsUp
      <4>3. machines[n] \in Machine
        BY <1>1, <4>2 DEF Exists, Runtimes
      <4>4. /\ machines'[n] = [machines[n] EXCEPT !.state = s]
            /\ \A x \in Name \ {n} : machines'[x] = machines[x]
        BY <1>1, <4>1 DEF Runtimes
      <4>5. machines'[n].size = machines[n].size /\ machines'[n].state = s
        BY <4>3, <4>4 DEF Machine
      <4>6. IsUp(machines', n) => IsUp(machines, n)
        BY <4>1, <4>2, <4>5 DEF IsUp
      <4>7. \A x \in Name \ {n} : /\ Exists(machines', x) <=> Exists(machines, x)
                                  /\ IsUp(machines', x) <=> IsUp(machines, x)
        BY <4>4 DEF Exists, IsUp
      <4> QED BY <4>2, <4>4, <4>5, <4>6, <4>7 DEF Calm, Up
    <3> QED BY <1>2, <3>1, <3>2 DEF Runtime
  <2>2. ASSUME NEW q \in Invocation
        PROVE  since[q] \cap Up(machines') \subseteq since'[q]
    <3>1. CASE GoDown(n) \/ Vanish(n)
      <4>1. since'[q] = since[q] \ {n}
        BY <3>1 DEF GoDown, Vanish, Released
      <4>2. n \notin Up(machines')
        <5>1. CASE Vanish(n)
          BY <1>1, <5>1 DEF Vanish, Runtimes, Up, IsUp, Exists
        <5>2. CASE GoDown(n)
          <6>1. machines[n] \in Machine
            BY <1>1, <5>2 DEF GoDown, IsUp, Exists, Runtimes
          <6>2. machines'[n] = [machines[n] EXCEPT !.state = "stopping"]
            BY <1>1, <5>2 DEF GoDown, Runtimes
          <6>3. machines'[n].state = "stopping"
            BY <6>1, <6>2 DEF Machine
          <6> QED BY <6>3 DEF Up, IsUp
        <5> QED BY <3>1, <5>1, <5>2
      <4> QED BY <4>1, <4>2
    <3>2. CASE ~ (GoDown(n) \/ Vanish(n))
      BY <1>2, <3>2 DEF Runtime, ComeUp, BeDown
    <3> QED BY <3>1, <3>2
  <2>3. /\ Up(machines') \subseteq Up(machines)
        /\ \A x \in Up(machines') : machines'[x].size = machines[x].size
    BY <2>1, UpIsThere DEF Calm, Up
  <2>4. IsFiniteSet(Up(machines'))
    BY <1>1, <2>3, FS_Subset
  <2>5. Positive'
    BY <1>1, <2>1 DEF Calm, Positive, Name, Exists
  <2>6. ASSUME NEW q \in Invocation
        PROVE  Room(Without(machines', since'[q]), local'[q])
    <3>1. \A x \in Up(machines') \ since'[q] :
            x \in Up(machines) \ since[q] /\ machines'[x].size = machines[x].size
      BY <2>2, <2>3
    <3> QED BY <1>1, <3>1, RoomOfOthers
  <2> QED BY <2>4, <2>5, <2>6 DEF RoomInv
<1>3. CASE StartForeign(n)
  <2>1. PICK size \in ForeignSize :
          machines' = [machines EXCEPT ![n] = [size |-> size, state |-> "running"]]
    BY <1>3 DEF StartForeign
  <2>2. \A x \in Name \ {n} : machines'[x] = machines[x]
    BY <1>1, <2>1 DEF Runtimes
  <2>3. IsFiniteSet(Up(machines'))
    <3>1. \A x \in Name \ {n} : IsUp(machines', x) <=> IsUp(machines, x)
      BY <2>2 DEF IsUp, Exists
    <3>2. Up(machines') \subseteq Up(machines) \cup {n}
      BY <3>1 DEF Up
    <3>3. IsFiniteSet(Up(machines) \cup {n})
      BY <1>1, FS_AddElement
    <3> QED BY <3>2, <3>3, FS_Subset
  <2>4. Positive'
    <3>1. n \notin Session
      BY <1>3, BudgetAssumption DEF StartForeign
    <3>2. \A x \in Session : machines'[x] = machines[x]
      BY <2>2, <3>1 DEF Name
    <3> QED BY <1>1, <3>2 DEF Positive, Exists
  <2>5. ASSUME NEW q \in Invocation
        PROVE  Room(Without(machines', since'[q]), local'[q])
    <3>1. CASE q \notin Busy
      <4>1. local'[q].step = "idle"
        BY <1>1, <3>1 DEF Busy
      <4> QED BY <4>1, IdleRoom DEF Making, Building
    <3>2. CASE q \in Busy
      <4>1. since'[q] = since[q] \cup {n}
        <5>1. q # None
          BY ModelValuesAssumption
        <5> QED BY <1>3, <3>2, <5>1 DEF StartForeign, StartedBy
      <4>2. \A x \in Up(machines') \ since'[q] :
              x \in Up(machines) \ since[q] /\ machines'[x].size = machines[x].size
        BY <2>2, <4>1 DEF Up, IsUp, Exists
      <4> QED BY <1>1, <4>2, RoomOfOthers
    <3> QED BY <3>1, <3>2
  <2> QED BY <2>3, <2>4, <2>5 DEF RoomInv
<1> QED BY <1>2, <1>3

\* Every state has the room.
LEMMA RoomIsKept == Spec => []RoomInv
<1>1. Init => RoomInv
  <2> SUFFICES ASSUME Init PROVE RoomInv
    OBVIOUS
  <2>1. TypeOK
    BY InitTypes
  <2>2. \A n \in Name : ~ Exists(machines, n)
    BY DEF Init, Exists
  <2>3. Up(machines) = {}
    BY <2>2 DEF Up, IsUp
  <2>4. Positive
    BY <2>2 DEF Positive, Init, Nowhere, Name
  <2>5. \A p \in Invocation : local[p].step = "idle"
    BY DEF Init, Nowhere
  <2>6. \A p \in Invocation : Room(Without(machines, since[p]), local[p])
    BY <2>5, IdleRoom DEF Making, Building
  <2> QED BY <2>1, <2>3, <2>4, <2>6, FS_EmptySet DEF RoomInv
<1>2. RoomInv /\ [Next]_vars => RoomInv'
  <2> SUFFICES ASSUME RoomInv, [Next]_vars PROVE RoomInv'
    OBVIOUS
  <2>1. TypeOK'
    BY NextTypes DEF RoomInv
  <2>2. CASE UNCHANGED vars
    <3>1. machines' = machines /\ local' = local /\ since' = since
      BY <2>2 DEF vars
    <3>2. IsFiniteSet(Up(machines')) /\ Positive'
      BY <3>1 DEF RoomInv, Positive, Exists
    <3>3. \A q \in Invocation : Room(Without(machines', since'[q]), local'[q])
      BY <3>1 DEF RoomInv
    <3> QED BY <2>1, <3>2, <3>3 DEF RoomInv
  <2> QED BY <2>1, <2>2, InvokeRoom, RuntimeRoom DEF Next
<1> QED BY <1>1, <1>2, PTL DEF Spec

\* An invocation's reservations, the builder it found and the room it measured
\* stay with it while nobody disturbs them (budget.rs:3-20, apple.rs:497-504).
\* The two halves are inductive each by itself:
\* what holds of the builder does not depend on what room is left.
THEOREM Invariant == Spec => []Inductive
<1>1. Inv /\ RoomInv => Inductive
  BY DEF Inv, RoomInv, Inductive
<1> QED BY <1>1, FoundIsKept, RoomIsKept, PTL

-----------------------------------------------------------------------------
(***************************************************************************)
(* A fresh start.                                                          *)
(***************************************************************************)

\* What p starts leaves what it sees held within what is allowed.
LEMMA BeginsWithin ==
  ASSUME RoomInv, NEW p \in Invocation, Begins(p), NEW r \in Resource
  PROVE  LET k == Without(machines', since'[p])
         IN  /\ HeldOf(k, Up(k), r) <= Allowed(r)
             /\ HeldOf(k, Up(k), r) \in Nat
             /\ Allowed(r) > 0
<1> DEFINE m == Without(machines, since[p])
           k == Without(machines', since'[p])
<1>1. TypeOK /\ Positive
  BY DEF RoomInv
<1>2. local[p].sandbox \in NonZeroSize /\ local[p].step \in Making \cup {"start"}
  <2>1. local[p].step \in {"run", "start", "start builder"}
    BY DEF Begins, Run, Start, StartBuilder
  <2>2. local[p].sandbox # None
    BY <1>1, <2>1 DEF TypeOK, Holds
  <2> QED BY <1>1, <2>1, <2>2 DEF Positive, Making, Building
<1>3. local[p].sandbox[r] \in Nat /\ local[p].sandbox[r] > 0
  BY <1>2 DEF NonZeroSize, Resource
<1>4. HeldOf(k, Up(k), r) \in Nat
  <2>1. PICK n \in Name, size \in Size : Starts(p, n, size)
    BY <1>1, BeginsOne
  <2>2. machines' \in Runtimes
    BY <1>1, <2>1, Started
  <2>3. k \in Runtimes
    BY <2>2, WithoutIs
  <2>4. IsFiniteSet(Up(k))
    BY <2>1, SeenStarted
  <2> QED BY <2>3, <2>4, HeldAre
<1>5. Allowed(r) \in Nat
  BY AllowedIs
<1>6. Allowed(r) > 0
  <2>1. m \in Runtimes /\ IsFiniteSet(Up(m)) /\ Room(m, local[p])
    BY Seen
  <2> HIDE DEF m
  <2>2. HeldOf(m, Up(m), r) + local[p].sandbox[r] <= Allowed(r)
    BY <1>2, <2>1 DEF Room
  <2>3. HeldOf(m, Up(m), r) \in Nat
    BY <2>1, HeldAre
  <2> QED BY <1>3, <1>5, <2>2, <2>3
<1>7. HeldOf(k, Up(k), r) <= Allowed(r)
  <2>1. CASE StartBuilder(p) /\ Starts(p, Builder, local[p].build)
    <3>1. HeldOf(k, Up(k), r) + local[p].sandbox[r] <= Allowed(r)
      BY <2>1, StartBuilderRoom
    <3> HIDE DEF k
    <3> QED BY <1>3, <1>4, <1>5, <3>1
  <2>2. CASE (Run(p) \/ Start(p)) /\ ~ IsUp(machines, local[p].name)
             /\ Starts(p, local[p].name, local[p].sandbox)
    BY <2>2, SandboxFits
  <2> QED BY <2>1, <2>2 DEF Begins
<1> QED BY <1>4, <1>6, <1>7

\* Machines that hold no more than is allowed leave macOS its reserve.
LEMMA WithinFits ==
  ASSUME NEW m,
         \A r \in Resource : /\ HeldOf(m, Up(m), r) <= Allowed(r)
                             /\ HeldOf(m, Up(m), r) \in Nat
                             /\ Allowed(r) > 0
  PROVE  Fits(m)
<1>1. ASSUME NEW r \in Resource
      PROVE  HeldOf(m, Up(m), r) + HostReserve[r] <= Host[r]
  BY AllowedIs
<1> QED BY <1>1 DEF Fits

\* A start leaves the host within its allowance but for what others started
\* after the measurement it rests on, whatever was running then, however much
\* it was, and whichever of the builder and the sandbox is started
\* (budget.rs:3-20).
THEOREM FreshStartsFit == Spec => FreshStartFits
<1> DEFINE A == \A p \in Invocation :
                  HasStarted(p) /\ machines' # machines
                    => Fits(Without(machines, since[p]))'
<1>1. RoomInv /\ RoomInv' /\ [Next]_vars => [A]_vars
  <2> SUFFICES ASSUME RoomInv, RoomInv', Next,
                      NEW p \in Invocation, HasStarted(p), machines' # machines
               PROVE  Fits(Without(machines, since[p]))'
    BY DEF vars
  <2>1. TypeOK /\ TypeOK'
    BY DEF RoomInv
  <2>2. local'[p] # local[p] /\ local[p].step # "delete"
    BY DEF HasStarted
  <2>3. Invoke(p)
    <3>1. \A n \in Name : Runtime(n) => local' = local
      BY DEF Runtime, ComeUp, GoDown, BeDown, Vanish, StartForeign
    <3>2. PICK q \in Invocation : Invoke(q)
      BY <2>2, <3>1 DEF Next
    <3> QED BY <2>1, <2>2, <3>2, OthersStay
  <2>4. Begins(p)
    BY <2>1, <2>2, <2>3, BeginsOrCalm DEF DeleteBuilder
  <2> DEFINE k == Without(machines', since'[p])
  <2>5. \A r \in Resource : /\ HeldOf(k, Up(k), r) <= Allowed(r)
                            /\ HeldOf(k, Up(k), r) \in Nat
                            /\ Allowed(r) > 0
    BY <2>4, BeginsWithin
  <2>6. Fits(k)
    <3> HIDE DEF k
    <3> QED BY <2>5, WithinFits
  <2>7. Fits(k) = Fits(Without(machines, since[p]))'
    BY DEF Fits, Up, IsUp, Exists, HeldOf, Without
  <2> QED BY <2>6, <2>7
<1> QED BY <1>1, RoomIsKept, PTL DEF Spec, FreshStartFits

=============================================================================
