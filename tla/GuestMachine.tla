---------------------------- MODULE GuestMachine ----------------------------
(***************************************************************************)
(* A session's machine from the start of its init process to the moment    *)
(* the host finds sshd answering, over stops and restarts.                 *)
(*                                                                         *)
(* The entrypoint installs the packet filter one command at a time, has    *)
(* the gateway's authority made and trusted, starts the gateway beside it, *)
(* gives up the capability to change the filter, and becomes sshd.  The    *)
(* filter and the processes are gone when the machine stops; the disk, with*)
(* the authority and the audit trail (AuditTrail), stays as it is then.    *)
(***************************************************************************)
EXTENDS AuditTrail, EgressPolicy

CONSTANTS
  Authority,         \* a key, and the certificate for it
  Absent, Torn       \* a file that is not there; one whose writing was cut

ASSUME GuestAssumption ==
  Absent \notin Authority /\ Torn \notin Authority /\ Absent # Torn

File == Authority \cup {Absent, Torn}

VARIABLES
  step,      \* of the entrypoint
  rules,     \* commands of the policy that are in force: their numbers
  capable,   \* whether what the entrypoint runs may change them
  disk,      \* the authority's key and certificate, and what is trusted
  loader,    \* load_or_create() in a run of the gateway
  gateway,   \* the run of it that serves
  created,   \* whether there has been a machine at all
  host       \* the invocation that opens the session, and its record

guestVars == <<step, rules, capable, disk, loader, gateway, created, host>>
vars == <<guestVars, trailVars>>

Step ==
  {"off", "policy", "authority", "trust", "copy", "bundle", "gateway",
   "account", "drop", "exec", "sshd"}

LoadStep ==
  {"none", "key", "certificate", "open key", "write key",
   "open certificate", "write certificate", "check", "loaded"}

Disk ==
  [key : File, certificate : File,   \* next to each other
   installed : File,                 \* in ca-certificates' directory
   bundle : File]                    \* what programs in the guest trust

Loader == [step : LoadStep, key : File, certificate : File]
NoLoader == [step |-> "none", key |-> Absent, certificate |-> Absent]

TypeOK ==
  /\ TrailTypeOK
  /\ step \in Step
  /\ rules \subseteq Commands
  /\ capable \in BOOLEAN
  /\ disk \in Disk
  /\ loader \in Loader
  /\ gateway \in {"none", "trail", "loading", "bind", "serving", "dead"}
  /\ created \in BOOLEAN
  /\ host \in [doing : {"idle", "waiting", "open"}, recorded : BOOLEAN]

Init ==
  /\ TrailInit
  /\ step = "off"
  /\ rules = {}
  /\ capable = FALSE
  /\ disk = [key |-> Absent, certificate |-> Absent,
             installed |-> Absent, bundle |-> Absent]
  /\ loader = NoLoader
  /\ gateway = "none"
  /\ created = FALSE
  /\ host = [doing |-> "idle", recorded |-> FALSE]

-----------------------------------------------------------------------------
(***************************************************************************)
(* The machine, and the host that waits for it.                            *)
(***************************************************************************)
Boots ==
  /\ step = "off"
  /\ step' = "policy"
  /\ created' = TRUE
  /\ capable' = TRUE

\* run_detached() by create(), or start() by resume(), of a session that has
\* a record.
Open ==
  /\ Boots
  /\ (created => host.recorded)
  /\ host.doing = "idle"
  /\ host' = [host EXCEPT !.doing = "waiting"]
  /\ UNCHANGED <<rules, disk, loader, gateway, trailVars>>

\* resume() finds it running.
OpenRunning ==
  /\ step # "off" /\ host.recorded /\ host.doing = "idle"
  /\ host' = [host EXCEPT !.doing = "waiting"]
  /\ UNCHANGED <<step, rules, capable, disk, loader, gateway, created, trailVars>>

\* `container start` by somebody else.
StartOutside ==
  /\ Boots /\ created
  /\ UNCHANGED <<rules, disk, loader, gateway, host, trailVars>>

\* Whatever happens to the machine: everything but its disk is gone.
GoesDown ==
  /\ step' = "off"
  /\ rules' = {}
  /\ capable' = FALSE
  /\ loader' = NoLoader
  /\ gateway' = "none"
  /\ host' = [host EXCEPT !.doing = IF host.doing = "open" THEN "idle" ELSE host.doing]
  /\ Abandoned
  /\ follower' = Ended
  /\ UNCHANGED <<disk, created>>

\* It is stopped or killed, or a command of the entrypoint fails (`set -e`).
PowerOff == step # "off" /\ GoesDown

\* wait_until_reachable(): the filter lets in what sshd accepts, and the
\* record is stored.
Reach ==
  /\ host.doing = "waiting"
  /\ step = "sshd" /\ LetsIn(rules)
  /\ host' = [doing |-> "open", recorded |-> TRUE]
  /\ UNCHANGED <<step, rules, capable, disk, loader, gateway, created, trailVars>>

\* READY_TIMEOUT passes, or the invocation is killed; or the session is closed.
LeaveSession ==
  /\ host.doing # "idle"
  /\ host' = [host EXCEPT !.doing = "idle"]
  /\ UNCHANGED <<step, rules, capable, disk, loader, gateway, created, trailVars>>

-----------------------------------------------------------------------------
(***************************************************************************)
(* The entrypoint.                                                         *)
(***************************************************************************)

\* egress-policy.sh: the next command, those before it having succeeded.
Install ==
  /\ step = "policy"
  /\ \E i \in Commands \ rules :
       /\ \A j \in Commands : j < i => j \in rules
       /\ rules' = rules \cup {i}
  /\ UNCHANGED <<step, capable, disk, loader, gateway, created, host, trailVars>>

\* Mutant of InitAuthority: the script may have failed.
InitAnyway ==
  /\ step = "policy"
  /\ step' = "authority"
  /\ loader' = [NoLoader EXCEPT !.step = "key"]
  /\ UNCHANGED <<rules, capable, disk, gateway, created, host, trailVars>>

\* The script is done, and `init-ca` begins.
InitAuthority ==
  /\ step = "policy" /\ Len(Policy) \in rules
  /\ step' = "authority"
  /\ loader' = [NoLoader EXCEPT !.step = "key"]
  /\ UNCHANGED <<rules, capable, disk, gateway, created, host, trailVars>>

\* `init-ca` has returned.
Trust ==
  /\ step = "authority" /\ loader.step = "loaded"
  /\ step' = "trust"
  /\ loader' = NoLoader
  /\ UNCHANGED <<rules, capable, disk, gateway, created, host, trailVars>>

\* Where the entrypoint goes, and what becomes of the disk.
Proceed(from, to, d) ==
  /\ step = from
  /\ step' = to
  /\ disk' = d
  /\ UNCHANGED <<rules, loader, created, host, trailVars>>

\* Mutant of Copy: the certificate is copied when it has not been.
CopyOnce ==
  \/ /\ disk.installed = Absent
     /\ Proceed("trust", "copy", [disk EXCEPT !.installed = Torn])
     /\ UNCHANGED <<capable, gateway>>
  \/ /\ Proceed("trust", "bundle", disk)
     /\ disk.installed # Absent
     /\ UNCHANGED <<capable, gateway>>
  \/ /\ Proceed("copy", "bundle", [disk EXCEPT !.installed = disk.certificate])
     /\ UNCHANGED <<capable, gateway>>

\* cp empties its file before it writes it.
Copy ==
  \/ /\ Proceed("trust", "copy", [disk EXCEPT !.installed = Torn])
     /\ UNCHANGED <<capable, gateway>>
  \/ /\ Proceed("copy", "bundle", [disk EXCEPT !.installed = disk.certificate])
     /\ UNCHANGED <<capable, gateway>>

\* update-ca-certificates moves a whole bundle into place.
UpdateBundle ==
  /\ Proceed("bundle", "gateway", [disk EXCEPT !.bundle = disk.installed])
  /\ UNCHANGED <<capable, gateway>>

\* `serve` is started, and not waited for.
StartGateway ==
  /\ Proceed("gateway", "account", disk)
  /\ gateway' = "trail"
  /\ UNCHANGED capable

\* The authorized key, the alias, the runtime directory and the host keys.
Prepare ==
  /\ Proceed("account", "drop", disk)
  /\ UNCHANGED <<capable, gateway>>

DropCapability ==
  /\ Proceed("drop", "exec", disk)
  /\ capable' = FALSE
  /\ UNCHANGED gateway

Exec ==
  /\ Proceed("exec", "sshd", disk)
  /\ UNCHANGED <<capable, gateway>>

-----------------------------------------------------------------------------
(***************************************************************************)
(* load_or_create(), in `init-ca` and in `serve`.                          *)
(***************************************************************************)
Loads(from, to) ==
  /\ loader.step = from
  /\ loader' = [loader EXCEPT !.step = to]

Elsewhere == <<step, rules, capable, gateway, created, host, trailVars>>

\* What generate() returns is not what any other run of it has returned:
\* here it may be, which allows for more.
Generates(a) ==
  loader' = [step |-> "open key", key |-> a, certificate |-> a]

Loaded(key) == loader' = [loader EXCEPT !.step = "certificate", !.key = key]

\* Mutant of ReadKey: `init-ca` makes an authority in every boot.
MakeKey ==
  /\ loader.step = "key"
  /\ \/ step = "authority" /\ \E a \in Authority : Generates(a)
     \/ step # "authority" /\ disk.key # Absent /\ Loaded(disk.key)
  /\ UNCHANGED disk
  /\ UNCHANGED Elsewhere

\* The key is read; when there is none, an authority is generated.
ReadKey ==
  /\ loader.step = "key"
  /\ \/ disk.key = Absent /\ \E a \in Authority : Generates(a)
     \/ disk.key # Absent /\ Loaded(disk.key)
  /\ UNCHANGED disk
  /\ UNCHANGED Elsewhere

ReadCertificate ==
  /\ loader.step = "certificate" /\ disk.certificate # Absent
  /\ loader' = [loader EXCEPT !.step = "check", !.certificate = disk.certificate]
  /\ UNCHANGED disk
  /\ UNCHANGED Elsewhere

\* fs::write() creates the file, and then writes it.
WriteKey ==
  \/ /\ Loads("open key", "write key")
     /\ disk' = [disk EXCEPT !.key = Torn]
     /\ UNCHANGED Elsewhere
  \/ /\ Loads("write key", "open certificate")
     /\ disk' = [disk EXCEPT !.key = loader.key]
     /\ UNCHANGED Elsewhere

WriteCertificate ==
  \/ /\ Loads("open certificate", "write certificate")
     /\ disk' = [disk EXCEPT !.certificate = Torn]
     /\ UNCHANGED Elsewhere
  \/ /\ Loads("write certificate", "check")
     /\ disk' = [disk EXCEPT !.certificate = loader.certificate]
     /\ UNCHANGED Elsewhere

\* Mutant of Check: the certificate is looked at when it is first needed.
CheckKey ==
  /\ loader.key # Torn
  /\ Loads("check", "loaded")
  /\ UNCHANGED disk
  /\ UNCHANGED Elsewhere

\* Both are parsed.
Check ==
  /\ loader.key # Torn /\ loader.certificate # Torn
  /\ Loads("check", "loaded")
  /\ UNCHANGED disk
  /\ UNCHANGED Elsewhere

-----------------------------------------------------------------------------
(***************************************************************************)
(* The gateway that serves.                                                *)
(***************************************************************************)
GatewayGoes(from, to) ==
  /\ gateway = from
  /\ gateway' = to
  /\ UNCHANGED <<step, rules, capable, disk, created, host, trailVars>>

\* audit::spawn() opens the trail, and load_or_create() is called once more.
OpenTrail ==
  /\ GatewayGoes("trail", "loading")
  /\ loader' = [NoLoader EXCEPT !.step = "key"]

\* The authority is there.
HaveAuthority ==
  /\ loader.step = "loaded"
  /\ GatewayGoes("loading", "bind")
  /\ UNCHANGED loader

Bind == GatewayGoes("bind", "serving") /\ UNCHANGED loader

\* An error anywhere, one of the three services that ends, or a kill: nobody
\* starts it again.
GatewayDies ==
  /\ gateway \in {"trail", "loading", "bind", "serving"}
  /\ gateway' = "dead"
  /\ loader' = NoLoader
  /\ Abandoned
  /\ UNCHANGED <<step, rules, capable, disk, created, host, follower>>

\* What it observes is recorded.
Records ==
  /\ gateway = "serving"
  /\ BeginAppend \/ Put \/ FailToPut
  /\ UNCHANGED guestVars

\* `audit` of a session that is recorded and running; its tail, or the
\* command itself, may end at any time.
Follow ==
  /\ \/ step # "off" /\ host.recorded /\ BeginFollowing
     \/ Read
     \/ LoseFollower
  /\ UNCHANGED guestVars

Host == Open \/ OpenRunning \/ Reach \/ LeaveSession

Entrypoint ==
  \/ Install \/ InitAuthority \/ Trust \/ Copy \/ UpdateBundle
  \/ StartGateway \/ Prepare \/ DropCapability \/ Exec

Load == ReadKey \/ ReadCertificate \/ WriteKey \/ WriteCertificate \/ Check

Gateway == OpenTrail \/ HaveAuthority \/ Bind \/ GatewayDies \/ Records

Next == Host \/ StartOutside \/ PowerOff \/ Entrypoint \/ Load \/ Gateway \/ Follow

\* The writer writes what it has begun, and the reader reads what there is.
Fairness ==
  /\ WF_vars(gateway = "serving" /\ (Put \/ FailToPut) /\ UNCHANGED guestVars)
  /\ WF_vars(Read /\ UNCHANGED guestVars)

Spec == Init /\ [][Next]_vars /\ Fairness

-----------------------------------------------------------------------------
(***************************************************************************)
(* Properties.                                                             *)
(***************************************************************************)

\* Whatever a session does while there is one, the filter is whole and is
\* not its to change: a packet for outside is given to the gateway's sockets,
\* whether or not there is a gateway, or logged and dropped; there is no
\* third path (egress-policy.sh:4-7, entrypoint.sh:4-7).
NothingUnseen ==
  step = "sshd" =>
    /\ ~ capable
    /\ \A p \in Packet :
         p.by = "session" /\ p.to = "outside" /\ ~ p.reply =>
           IsGivenToGateway(rules, p) \/ IsRefused(rules, p)

\* The gateway that serves a session signs with the authority that programs
\* in the session trust, over whatever boots and kills came before
\* (entrypoint.sh:22-24).
SessionTrustsGateway ==
  step = "sshd" /\ gateway \in {"bind", "serving"} =>
    /\ loader.key = loader.certificate
    /\ disk.bundle = loader.certificate
    /\ loader.certificate \in Authority

\* A session that has a record has its whole authority on its disk, so that
\* an authority cut short (ca.rs:51-52), which no later boot can load or
\* replace, never wedges a session that could be resumed.
RecordedHasAuthority ==
  host.recorded =>
    /\ disk.key \in Authority
    /\ disk.certificate = disk.key

\* An authority, once it is whole, is the machine's for ever (ca.rs:34-38).
AuthorityStays ==
  [][disk.key \in Authority /\ disk.certificate = disk.key =>
       disk'.key = disk.key /\ disk'.certificate = disk.certificate]_vars

\* A record whose append begins while somebody follows is shown to them,
\* unless it is cut or their command ends (command/audit.rs:10-12).
FollowedIsShown ==
  \A r \in Record :
    (follower.state = "following" /\ rest # <<>> /\ begun = r)
      ~> (Shown(r) \/ r \in cut \/ follower.state # "following")
=============================================================================
