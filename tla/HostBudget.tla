----------------------------- MODULE HostBudget -----------------------------
(***************************************************************************)
(* What virtual machines may hold of the host.                             *)
(*                                                                         *)
(* Any number of invocations create and resume sessions' machines and      *)
(* build images in one shared builder.  Each start is checked against a    *)
(* measurement of the host that was made some calls earlier; nothing is    *)
(* reserved anywhere but in the invocation's own memory.  A machine that   *)
(* is shutting down is measured as if it were gone.                        *)
(***************************************************************************)
EXTENDS Naturals, FiniteSets, Functions

CONSTANTS
  Invocation,
  Session,         \* names of sessions' machines
  Foreign,         \* machines somebody else runs on the same runtime
  Builder,         \* the name of the shared builder's machine
  Absent, None,
  Host,            \* cores and memory of the host
  HostReserve,     \* what of them stays with macOS
  Floor,           \* by workload: free disk it must find
  FreeDisk,        \* what measurements of the disk may find
  MaxWord,         \* the largest u32
  ForeignSize      \* sizes somebody else gives a machine

Size == [cpus : Nat, memory : Nat]

ASSUME BudgetAssumption ==
  /\ Builder \notin Session \cup Foreign
  /\ Session \cap Foreign = {}
  /\ {Host, HostReserve} \cup ForeignSize \subseteq Size
  /\ MaxWord \in Nat
  /\ Host.cpus <= MaxWord /\ Host.memory <= MaxWord
  /\ FreeDisk \subseteq Nat
  /\ Floor \in [{"sandbox", "build"} -> Nat]

\* Kept apart because it is about values that are not numbers or records.
ASSUME ModelValuesAssumption ==
  /\ None \notin Size \cup Session \cup Invocation
  /\ Absent \notin [size : Size,
                    state : {"starting", "running", "stopping", "stopped"}]

VARIABLES
  machines,   \* what the runtime holds, by name
  local,      \* what each invocation is doing, and has in memory
  since,      \* a history: the machines that others have started since
              \* each invocation measured the host
  disturbed   \* a history: invocations about to build, since whose look at
              \* the builder somebody else has started or deleted it

vars == <<machines, local, since, disturbed>>

Name == Session \cup Foreign \cup {Builder}

Machine == [size : Size, state : {"starting", "running", "stopping", "stopped"}]

Step ==
  {"idle",
   "image", "size build", "builder", "delete", "start builder",
   "builder up", "build", "allocate", "run",
   "reserve", "start", "wait"}

Local ==
  [step : Step,
   sandbox : Size \cup {None},   \* the reservation or size of a machine
   build : Size \cup {None},     \* the reservation for a build
   name : Session \cup {None}]

Nowhere == [step |-> "idle", sandbox |-> None, build |-> None, name |-> None]

Building == {"builder", "delete", "start builder", "builder up", "build"}
Starting == {"run", "reserve", "start", "wait"}

\* What an invocation needs where it is, it has, and has not kept.
Holds(l) ==
  /\ l.step = "idle" => l = Nowhere
  /\ l.step # "idle" => l.sandbox # None
  /\ l.step \in Building <=> l.build # None
  /\ l.step \in Starting <=> l.name # None

TypeOK ==
  /\ machines \in [Name -> Machine \cup {Absent}]
  /\ local \in [Invocation -> Local]
  /\ \A p \in Invocation : Holds(local[p])
  /\ since \in [Invocation -> SUBSET Name]
  /\ disturbed \subseteq Invocation

Init ==
  /\ machines = [n \in Name |-> Absent]
  /\ local = [p \in Invocation |-> Nowhere]
  /\ since = [p \in Invocation |-> {}]
  /\ disturbed = {}

-----------------------------------------------------------------------------
(***************************************************************************)
(* The measurement and what follows from it.                               *)
(***************************************************************************)
Workload == {"sandbox", "build"}

\* Workload::REPLACES
Replaces(w) == IF w = "build" THEN {Builder} ELSE {}

Exists(m, n) == m[n] # Absent

IsRunning(m, n) == Exists(m, n) /\ m[n].state = "running"

\* Committed::of(): what is running, or on its way up, but nothing on its way
\* down.
IsUp(m, n) == Exists(m, n) /\ m[n].state \in {"starting", "running"}

\* saturating_add of u32
Sat(n) == IF n > MaxWord THEN MaxWord ELSE n

\* saturating_sub of u32
Less(a, b) == IF a < b THEN 0 ELSE a - b

\* Holding::plus
Plus(a, b) == [cpus |-> Sat(a.cpus + b.cpus),
               memory |-> Sat(a.memory + b.memory)]

\* Holding::of: cores are a u32 already, and memory that is not is as much
\* as there can be.
Holding(size) == [cpus |-> size.cpus, memory |-> Sat(size.memory)]

Nothing == [cpus |-> 0, memory |-> 0]

Charged(holdings) == FoldFunction(Plus, Nothing, holdings)

\* Mutant of Total: only what has finished starting is charged for.
TotalOfRunning(w, m) ==
  Charged([n \in {k \in Name \ Replaces(w) : IsRunning(m, k)} |->
             Holding(m[n].size)])

\* Committed::total
Total(w, m) ==
  Charged([n \in {k \in Name \ Replaces(w) : IsUp(m, k)} |->
             Holding(m[n].size)])

\* HostBudget::spare_cpus, spare_memory_mib
Spare(w, m) ==
  [cpus |-> Less(Less(Host.cpus, HostReserve.cpus), Total(w, m).cpus),
   memory |-> Less(Less(Host.memory, HostReserve.memory), Total(w, m).memory)]

\* HostBudget::reserve
CanReserve(w, size, m, free) ==
  /\ free >= Floor[w]
  /\ size.cpus <= Spare(w, m).cpus
  /\ size.memory <= Spare(w, m).memory

\* Mutant of Share: the sandbox takes all there is, and nothing is left for
\* the builder it is made with.
ShareAll(spare) == spare

\* The share of suggest(): SUGGESTED_DIVISOR is 2.
Share(spare) == [cpus |-> spare.cpus \div 2, memory |-> spare.memory \div 2]

\* The reservation HostBudget::suggest asks for.
Suggestion(w, m) == Share(Spare(w, m))

\* NonZeroU32::new
NonZeroSize == [cpus : Nat \ {0}, memory : Nat \ {0}]

CanSuggest(w, m, free) ==
  /\ Suggestion(w, m) \in NonZeroSize
  /\ CanReserve(w, Suggestion(w, m), m, free)

-----------------------------------------------------------------------------
(***************************************************************************)
(* Steps of an invocation.                                                 *)
(***************************************************************************)
Busy == {q \in Invocation : local[q].step # "idle"}
AtBuilder == {q \in Invocation : local[q].step \in Building \ {"builder"}}

\* n is started, by p or by nobody of Invocation: the measurement of no other
\* invocation at work knows of it.
StartedBy(p, n) ==
  since' = [q \in Invocation |-> IF q = p THEN since[q] \ {n}
                                 ELSE IF q \in Busy THEN since[q] \cup {n}
                                 ELSE since[q]]

\* n holds nothing any more.
Released(n) == since' = [q \in Invocation |-> since[q] \ {n}]

\* What p missed is counted from here.
Measures(p) == since' = [since EXCEPT ![p] = {}]

Starts(p, n, size) ==
  /\ machines' = [machines EXCEPT ![n] = [size |-> size, state |-> "starting"]]
  /\ StartedBy(p, n)

GoesTo(p, s) == local' = [local EXCEPT ![p].step = s]

Quietly(p, s) == GoesTo(p, s) /\ UNCHANGED <<machines, since, disturbed>>

\* create(): budget() lists what is running and suggest() takes a share.
SizeSandbox(p) ==
  /\ local[p].step = "idle"
  /\ \E free \in FreeDisk : CanSuggest("sandbox", machines, free)
  /\ local' = [local EXCEPT ![p].step = "image",
                            ![p].sandbox = Suggestion("sandbox", machines)]
  /\ Measures(p)
  /\ UNCHANGED <<machines, disturbed>>

\* image::ensure(): the image is there.
FindImage(p) == local[p].step = "image" /\ Quietly(p, "allocate")

\* image::ensure(): it is not.
MissImage(p) == local[p].step = "image" /\ Quietly(p, "size build")

SizeBuild(p) ==
  /\ local[p].step = "size build"
  /\ \E free \in FreeDisk : CanSuggest("build", machines, free)
  /\ local' = [local EXCEPT ![p].step = "builder",
                            ![p].build = Suggestion("build", machines)]
  /\ UNCHANGED <<machines, since, disturbed>>

\* Mutant of Matches: any builder there is will do.
MatchesAny(size, reservation) == TRUE

\* Resources::matches
Matches(size, reservation) == size = reservation

\* ensure_builder(): the list says what there is to do.
FindBuilder(p) ==
  /\ local[p].step = "builder"
  /\ LET b == machines[Builder]
     IN  GoesTo(p, CASE b = Absent -> "start builder"
                     [] b # Absent /\ ~ Matches(b.size, local[p].build)
                          -> "delete"
                     [] b # Absent /\ Matches(b.size, local[p].build)
                          -> IF b.state = "running" THEN "build"
                                                    ELSE "start builder")
  /\ disturbed' = disturbed \ {p}
  /\ UNCHANGED <<machines, since>>

\* `builder delete --force`
DeleteBuilder(p) ==
  /\ local[p].step = "delete"
  /\ machines[Builder] # Absent
  /\ machines' = [machines EXCEPT ![Builder] = Absent]
  /\ disturbed' = disturbed \cup (AtBuilder \ {p})
  /\ GoesTo(p, "start builder")
  /\ Released(Builder)

\* `builder start`.  What it does with a builder of another size that came
\* up in the meantime is the runtime's: here it is put in its place, or kept.
StartBuilder(p) ==
  /\ local[p].step = "start builder"
  /\ \/ /\ ~ (/\ IsUp(machines, Builder)
              /\ machines[Builder].size = local[p].build)
        /\ Starts(p, Builder, local[p].build)
        /\ disturbed' = disturbed \cup (AtBuilder \ {p})
     \/ IsUp(machines, Builder) /\ UNCHANGED <<machines, since, disturbed>>
  /\ GoesTo(p, "builder up")

BuilderIsUp(p) ==
  /\ local[p].step = "builder up"
  /\ IsRunning(machines, Builder)
  /\ Quietly(p, "build")

\* `container build` runs to its end on the builder there is.
Build(p) ==
  /\ local[p].step = "build"
  /\ IsRunning(machines, Builder)
  /\ local' = [local EXCEPT ![p].step = "allocate", ![p].build = None]
  /\ disturbed' = disturbed \ {p}
  /\ UNCHANGED <<machines, since>>

\* allocate(): a name neither the runtime nor the host holds.  Two
\* invocations do not draw the same one; Sessions has what follows if they do.
Allocate(p) ==
  /\ local[p].step = "allocate"
  /\ \E n \in Session :
       /\ ~ Exists(machines, n)
       /\ \A q \in Invocation : local[q].name # n
       /\ local' = [local EXCEPT ![p].step = "run", ![p].name = n]
  /\ UNCHANGED <<machines, since, disturbed>>

\* run_detached()
Run(p) ==
  /\ local[p].step = "run"
  /\ ~ Exists(machines, local[p].name)
  /\ Starts(p, local[p].name, local[p].sandbox)
  /\ GoesTo(p, "wait")
  /\ UNCHANGED disturbed

\* resume(): the machine is listed and not running, and its allocation read.
Resume(p) ==
  /\ local[p].step = "idle"
  /\ \E n \in Session :
       /\ Exists(machines, n) /\ machines[n].state # "running"
       /\ local' = [local EXCEPT ![p].step = "reserve", ![p].name = n,
                                 ![p].sandbox = machines[n].size]
  /\ UNCHANGED <<machines, since, disturbed>>

\* resume(): budget() and reserve() for the size it has.
Reserve(p) ==
  /\ local[p].step = "reserve"
  /\ \E free \in FreeDisk :
       CanReserve("sandbox", local[p].sandbox, machines, free)
  /\ GoesTo(p, "start")
  /\ Measures(p)
  /\ UNCHANGED <<machines, disturbed>>

\* AppleContainer::start(): inspected once more; one that has come up
\* since is left as it is.
Start(p) ==
  /\ local[p].step = "start"
  /\ Exists(machines, local[p].name)
  /\ Matches(machines[local[p].name].size, local[p].sandbox)
  /\ \/ /\ ~ IsUp(machines, local[p].name)
        /\ Starts(p, local[p].name, local[p].sandbox)
     \/ IsUp(machines, local[p].name) /\ UNCHANGED <<machines, since>>
  /\ GoesTo(p, "wait")
  /\ UNCHANGED disturbed

Returns(p) ==
  /\ local' = [local EXCEPT ![p] = Nowhere]
  /\ Measures(p)
  /\ disturbed' = disturbed \ {p}
  /\ UNCHANGED machines

\* The machine is reached, and the session handed over.
Reach(p) ==
  /\ local[p].step = "wait"
  /\ IsRunning(machines, local[p].name)
  /\ Returns(p)

\* Any call fails, a measurement refuses, or the invocation is killed.
Leave(p) ==
  /\ local[p].step # "idle"
  /\ Returns(p)

-----------------------------------------------------------------------------
(***************************************************************************)
(* The runtime, and whoever else uses it.                                  *)
(***************************************************************************)
Touched(n) == IF n = Builder THEN disturbed \cup AtBuilder ELSE disturbed

ComeUp(n) ==
  /\ Exists(machines, n) /\ machines[n].state = "starting"
  /\ machines' = [machines EXCEPT ![n].state = "running"]
  /\ UNCHANGED <<local, since, disturbed>>

\* A machine, of whatever owner, begins to shut down: it holds what it held.
GoDown(n) ==
  /\ IsUp(machines, n)
  /\ machines' = [machines EXCEPT ![n].state = "stopping"]
  /\ disturbed' = Touched(n)
  /\ Released(n)
  /\ UNCHANGED local

\* It is down.  Somebody else's is as good as gone then.
BeDown(n) ==
  /\ n \notin Foreign
  /\ Exists(machines, n) /\ machines[n].state = "stopping"
  /\ machines' = [machines EXCEPT ![n].state = "stopped"]
  /\ disturbed' = Touched(n)
  /\ UNCHANGED <<local, since>>

\* Reclaimed by some invocation, or deleted from outside the tool.
Vanish(n) ==
  /\ Exists(machines, n)
  /\ machines' = [machines EXCEPT ![n] = Absent]
  /\ disturbed' = Touched(n)
  /\ Released(n) /\ UNCHANGED local

\* Somebody else starts a machine of any size.
StartForeign(n) ==
  /\ n \in Foreign /\ ~ Exists(machines, n)
  /\ \E size \in ForeignSize :
       machines' = [machines EXCEPT ![n] = [size |-> size, state |-> "running"]]
  /\ StartedBy(None, n)
  /\ UNCHANGED <<local, disturbed>>

Invoke(p) ==
  \/ SizeSandbox(p) \/ FindImage(p) \/ MissImage(p) \/ SizeBuild(p)
  \/ FindBuilder(p) \/ DeleteBuilder(p) \/ StartBuilder(p) \/ BuilderIsUp(p)
  \/ Build(p) \/ Allocate(p) \/ Run(p)
  \/ Resume(p) \/ Reserve(p) \/ Start(p) \/ Reach(p) \/ Leave(p)

Runtime(n) ==
  ComeUp(n) \/ GoDown(n) \/ BeDown(n) \/ Vanish(n) \/ StartForeign(n)

Next == (\E p \in Invocation : Invoke(p)) \/ (\E n \in Name : Runtime(n))

Spec == Init /\ [][Next]_vars

-----------------------------------------------------------------------------
(***************************************************************************)
(* Properties.                                                             *)
(***************************************************************************)
Resource == {"cpus", "memory"}

\* What the machines of S have of a resource; no word is too short for it.
HeldOf(m, S, r) == SumFunction([n \in S |-> m[n].size[r]])

Up(m) == {n \in Name : IsUp(m, n)}

\* The runtime but for the machines of S.
Without(m, S) == [n \in Name |-> IF n \in S THEN Absent ELSE m[n]]

\* What is running and coming up leaves macOS its reserve.
Fits(m) ==
  \A r \in Resource : HeldOf(m, Up(m), r) + HostReserve[r] <= Host[r]

HasStarted(p) == local[p].step \in {"run", "start", "start builder"}
                 /\ local'[p].step \in {"wait", "builder up"}

\* A machine is started on a measurement that may be old by then: whatever
\* the host is oversubscribed by after it was started, by others, since that
\* measurement.  All that was there then was counted, however much it was,
\* and the half taken for the sandbox and the half taken for the builder it
\* is made with fit together (budget.rs:128-142, 271-341).  What a machine
\* that is shutting down still holds no measurement counts, and neither does
\* this.
FreshStartFits ==
  [][\A p \in Invocation :
       HasStarted(p) /\ machines' # machines
         => Fits(Without(machines, since[p]))']_vars

\* A build begins on a builder of the size that was reserved for it, unless
\* somebody came between (apple.rs:497-504).
BuilderAsReserved ==
  \A p \in Invocation :
    local[p].step = "build" /\ p \notin disturbed =>
      /\ IsUp(machines, Builder)
      /\ machines[Builder].size = local[p].build

-----------------------------------------------------------------------------
(***************************************************************************)
(* The inductive invariant.                                                *)
(***************************************************************************)
\* The builder an invocation found or made is there while nobody disturbs it.
Found(p) ==
  p \notin disturbed =>
    /\ local[p].step = "start builder" /\ Exists(machines, Builder)
         => machines[Builder].size = local[p].build
    /\ local[p].step \in {"builder up", "build"}
         => IsUp(machines, Builder) /\ machines[Builder].size = local[p].build

\* What may be given away of it.
Allowed(r) == Less(Host[r], HostReserve[r])

\* While a machine is being made: both halves may still be taken.
Making == {"image", "size build", "allocate", "run"} \cup Building

Beside(m) == Up(m) \ {Builder}

\* The room an invocation with l in memory found.
Room(m, l) ==
  \A r \in Resource :
    /\ l.step \in Making \cup {"start"} =>
         HeldOf(m, Up(m), r) + l.sandbox[r] <= Allowed(r)
    /\ l.step \in Making =>
         HeldOf(m, Beside(m), r) + 2 * l.sandbox[r] <= Allowed(r)
    /\ l.step \in Building =>
         HeldOf(m, Beside(m), r) + 2 * l.build[r] <= Allowed(r)

\* No machine is made with nothing.
Positive ==
  /\ \A p \in Invocation : local[p].sandbox # None => local[p].sandbox \in NonZeroSize
  /\ \A n \in Session : Exists(machines, n) => machines[n].size \in NonZeroSize

\* The reservations an invocation has are those its place calls for; the
\* builder it looked at is as it was; and but for what others have started
\* since, it has the room that it found when it measured.
Inductive ==
  /\ TypeOK
  /\ \A p \in Invocation : Found(p)
  /\ IsFiniteSet(Up(machines))
  /\ Positive
  /\ \A p \in Invocation : Room(Without(machines, since[p]), local[p])
=============================================================================
