----------------------------- MODULE ImageStage -----------------------------
(***************************************************************************)
(* From the sources in the workspace to the image a session starts from.   *)
(*                                                                         *)
(* Any number of invocations stage the sources, name what they staged by   *)
(* its digest, and build the image of that name unless there is one, while *)
(* the researcher goes on editing and invocations are killed.              *)
(*                                                                         *)
(* A crate is its manifest, which is the crates it depends on, and its     *)
(* sources, which are a version.  Cargo compiles all it depends on; the    *)
(* digest follows what it finds in two tables of the manifest.  A digest   *)
(* is what was digested: that two contexts have one digest by chance is    *)
(* left out.                                                               *)
(***************************************************************************)
EXTENDS Naturals

CONSTANTS
  Process,
  Crate,
  Guest,      \* GUEST_CRATES: those whose programs are in the image
  Version,
  Contents,   \* by crate: what the researcher may have it hold
  Absent, None,
  Ignored,    \* in place of sources that are not digested
  MaxEdits    \* bounds the researcher's edits

\* By what a manifest names a crate: `deps` in [dependencies] or
\* [build-dependencies] and as crates/<name>, `other` in any other way, such
\* as in [target.<cfg>.dependencies] or as ../<name>.
Source == [deps : SUBSET Crate, other : SUBSET Crate, src : Version]

ASSUME StageAssumption ==
  /\ Guest \subseteq Crate
  /\ Contents \in [Crate -> SUBSET (Source \cup {Absent})]
  /\ Absent \notin [deps : SUBSET Crate, other : SUBSET Crate,
                    src : Version \cup {Ignored}]
  /\ Ignored \notin Version
  /\ MaxEdits \in Nat

\* A context, and the workspace: what is at crates/<name>.
Context == [Crate -> Source \cup {Absent}]

\* A digest: what of each crate went into it.
Digested == [deps : SUBSET Crate, other : SUBSET Crate, src : Version \cup {Ignored}]
Tag == [Crate -> Digested \cup {Absent}]

\* What is compiled into an image.
Programs == UNION {[S -> Source] : S \in SUBSET Crate}

Directory == [tag : Tag, context : Context]
Image == [tag : Tag, programs : Programs]

ASSUME NothingAssumption == None \notin Context \cup Tag

VARIABLES
  workspace,   \* the sources, as they are now
  edits,       \* how often they were edited
  staging,     \* by process: staging-<pid>, or None
  settled,     \* the directories that have their name
  images,      \* the images the runtime holds
  local        \* where each process is, and what it has in memory

vars == <<workspace, edits, staging, settled, images, local>>

Local ==
  [step : {"idle", "follow", "copy", "surplus", "image", "build", "run"},
   closure : SUBSET Crate,            \* of source_closure()
   pending : SUBSET Crate,
   left : SUBSET Crate,               \* what is still to be copied
   tag : Tag \cup {None},
   edited : SUBSET {"manifest", "source"},  \* a history: what changed
                                      \* in the workspace since it began
   copied : Context \cup {None}]      \* a history: what it staged

TypeOK ==
  /\ workspace \in Context
  /\ edits \in 0..MaxEdits
  /\ staging \in [Process -> Context \cup {None}]
  /\ settled \subseteq Directory
  /\ images \subseteq Image
  /\ local \in [Process -> Local]

-----------------------------------------------------------------------------
(***************************************************************************)
(* Closures, digests and what is built.                                    *)
(***************************************************************************)
\* By crate, what source_closure() takes it to depend on, and what it does.
Listed(ctx) == [c \in Crate |-> IF ctx[c] = Absent THEN {} ELSE ctx[c].deps]
Needed(ctx) ==
  [c \in Crate |-> IF ctx[c] = Absent THEN {} ELSE ctx[c].deps \cup ctx[c].other]

ClosedUnder(depends, S) ==
  Guest \subseteq S /\ \A c \in S : depends[c] \subseteq S

\* The least set with the guest programs and all that its members depend on.
Closure(depends) ==
  {c \in Crate : \A S \in SUBSET Crate : ClosedUnder(depends, S) => c \in S}

\* The crates whose sources are digested, and those Cargo compiles.
Followed(ctx) == Closure(Listed(ctx))
Compiled(ctx) == Closure(Needed(ctx))

\* Mutant of Digest: dependencies of the guest crates are not followed.
DigestOfGuests(ctx, closure) ==
  [c \in Crate |->
     IF ctx[c] = Absent \/ c \in Guest THEN ctx[c]
     ELSE [ctx[c] EXCEPT !.src = Ignored]]

\* ContextDigest::of_directory, with shapes_the_image as its filter.
Digest(ctx, closure) ==
  [c \in Crate |->
     IF ctx[c] = Absent \/ c \in closure THEN ctx[c]
     ELSE [ctx[c] EXCEPT !.src = Ignored]]

\* What the builder compiles of a context.
Product(ctx) == [c \in Compiled(ctx) |-> ctx[c]]

CanCompile(ctx) == \A c \in Compiled(ctx) : ctx[c] # Absent

-----------------------------------------------------------------------------
Nowhere == [step |-> "idle", closure |-> {}, pending |-> {}, left |-> {},
            tag |-> None, edited |-> {}, copied |-> None]

Init ==
  /\ workspace \in {w \in Context : \A c \in Crate : w[c] \in Contents[c]}
  /\ edits = 0
  /\ staging = [p \in Process |-> None]
  /\ settled = {}
  /\ images = {}
  /\ local = [p \in Process |-> Nowhere]

Sources == <<workspace, edits>>

\* BuildContext::stage: source_closure() begins with the guest crates.
Stage(p) ==
  /\ local[p].step = "idle"
  /\ local' = [local EXCEPT ![p].step = "follow", ![p].pending = Guest]
  /\ UNCHANGED <<Sources, staging, settled, images>>

\* source_closure(): one manifest is read, and what its two tables name is
\* followed.  A crate that is pending twice is read once.
Follow(p) ==
  /\ local[p].step = "follow"
  /\ \E c \in local[p].pending :
       /\ workspace[c] # Absent
       /\ local' = [local EXCEPT
            ![p].closure = local[p].closure \cup {c},
            ![p].pending = (local[p].pending \cup workspace[c].deps)
                           \ (local[p].closure \cup {c})]
  /\ UNCHANGED <<Sources, staging, settled, images>>

\* Mutant of Clear: what a killed process of this number left is kept.
ClearNothing(p) ==
  /\ local[p].step = "follow" /\ local[p].pending = {}
  /\ staging' = [staging EXCEPT ![p] =
                   IF staging[p] = None THEN [c \in Crate |-> Absent]
                                        ELSE staging[p]]
  /\ local' = [local EXCEPT ![p].step = "copy", ![p].left = Crate]
  /\ UNCHANGED <<Sources, settled, images>>

\* stage(): the directory of this process is removed and made anew.
Clear(p) ==
  /\ local[p].step = "follow" /\ local[p].pending = {}
  /\ staging' = [staging EXCEPT ![p] = [c \in Crate |-> Absent]]
  /\ local' = [local EXCEPT ![p].step = "copy", ![p].left = Crate]
  /\ UNCHANGED <<Sources, settled, images>>

\* copy_tree(): what there is of a crate now.
Copy(p) ==
  /\ local[p].step = "copy"
  /\ \E c \in local[p].left :
       /\ staging' = IF workspace[c] = Absent THEN staging
                     ELSE [staging EXCEPT ![p][c] = workspace[c]]
       /\ local' = [local EXCEPT ![p].left = local[p].left \ {c}]
  /\ UNCHANGED <<Sources, settled, images>>

Named(p) == Digest(staging[p], local[p].closure)
Staged(p) == [tag |-> Named(p), context |-> staging[p]]

IsCopied(p) == local[p].step = "copy" /\ local[p].left = {}

Proceeds(p, s) ==
  local' = [local EXCEPT ![p].step = s, ![p].tag = Named(p),
                         ![p].copied = staging[p], ![p].closure = {}]

\* Mutant of Settle: what is in place is replaced.
SettleOver(p) ==
  /\ IsCopied(p)
  /\ settled' = {d \in settled : d.tag # Named(p)} \cup {Staged(p)}
  /\ staging' = [staging EXCEPT ![p] = None]
  /\ Proceeds(p, "image")
  /\ UNCHANGED <<Sources, images>>

\* stage(): the directory is digested and renamed; one that is in place stays.
Settle(p) ==
  /\ IsCopied(p)
  /\ \/ /\ \A d \in settled : d.tag # Named(p)
        /\ settled' = settled \cup {Staged(p)}
        /\ staging' = [staging EXCEPT ![p] = None]
        /\ Proceeds(p, "image")
     \/ /\ \E d \in settled : d.tag = Named(p)
        /\ Proceeds(p, "surplus")
        /\ UNCHANGED <<staging, settled>>
  /\ UNCHANGED <<Sources, images>>

\* stage(): what this process staged is surplus.
Discard(p) ==
  /\ local[p].step = "surplus"
  /\ staging' = [staging EXCEPT ![p] = None]
  /\ local' = [local EXCEPT ![p].step = "image"]
  /\ UNCHANGED <<Sources, settled, images>>

\* image_exists()
Held(t) == \E i \in images : i.tag = t

\* image::ensure(): the name is looked up.
LookUp(p) ==
  /\ local[p].step = "image"
  /\ local' = [local EXCEPT ![p].step = IF Held(local[p].tag) THEN "run" ELSE "build"]
  /\ UNCHANGED <<Sources, staging, settled, images>>

\* `container build`: an image of that name takes the place of one there is.
Makes(d) ==
  images' = {i \in images : i.tag # d.tag}
            \cup {[tag |-> d.tag, programs |-> Product(d.context)]}

\* image::ensure(): the image is built from the directory of its name.
Build(p) ==
  /\ local[p].step = "build"
  /\ \E d \in settled :
       d.tag = local[p].tag /\ CanCompile(d.context) /\ Makes(d)
  /\ local' = [local EXCEPT ![p].step = "run"]
  /\ UNCHANGED <<Sources, staging, settled>>

\* create(): the machine is created from the image of that name.
Run(p) ==
  /\ local[p].step = "run"
  /\ Held(local[p].tag)
  /\ local' = [local EXCEPT ![p] = Nowhere]
  /\ UNCHANGED <<Sources, staging, settled, images>>

\* Any call fails, or the process is killed.  Another process may be given
\* its number.
Leave(p) ==
  /\ local[p].step # "idle"
  /\ local' = [local EXCEPT ![p] = Nowhere]
  /\ UNCHANGED <<Sources, staging, settled, images>>

\* prune_images() of some invocation, or `container image delete`.
Prune ==
  /\ \E i \in images : images' = images \ {i}
  /\ UNCHANGED <<Sources, staging, settled, local>>

Staging == {"follow", "copy"}

\* The researcher saves a change of one crate.
Edit(c) ==
  /\ edits < MaxEdits
  /\ \E new \in Contents[c] \ {workspace[c]} :
       LET kind == IF new = Absent \/ workspace[c] = Absent THEN "manifest"
                   ELSE IF [new EXCEPT !.src = workspace[c].src] # workspace[c] THEN "manifest"
                   ELSE "source"
       IN  /\ workspace' = [workspace EXCEPT ![c] = new]
           /\ local' = [p \in Process |->
                IF local[p].step \in Staging
                THEN [local[p] EXCEPT !.edited = local[p].edited \cup {kind}]
                ELSE local[p]]
  /\ edits' = edits + 1
  /\ UNCHANGED <<staging, settled, images>>

Invoke(p) ==
  \/ Stage(p) \/ Follow(p) \/ Clear(p) \/ Copy(p)
  \/ Settle(p) \/ Discard(p) \/ LookUp(p) \/ Build(p) \/ Run(p) \/ Leave(p)

Next == (\E p \in Process : Invoke(p)) \/ Prune \/ (\E c \in Crate : Edit(c))

Spec == Init /\ [][Next]_vars

-----------------------------------------------------------------------------
(***************************************************************************)
(* Properties.                                                             *)
(***************************************************************************)

\* An invocation during whose staging no manifest changed starts its session
\* from an image of the crates it staged, and of exactly the sources it staged
\* of all that its closure follows, whoever built that image, when, and with
\* whatever edits in between (digest.rs:6-10, stage.rs:58-66).  Of a crate that
\* is compiled but not followed (guest.rs:85, 161-169) the sources may be old.
BuiltAsStaged ==
  \A p \in Process :
    local[p].step = "run" /\ "manifest" \notin local[p].edited =>
      \A i \in images :
        i.tag = local[p].tag =>
          /\ DOMAIN i.programs = Compiled(local[p].copied)
          /\ \A c \in Followed(local[p].copied) :
               i.programs[c] = local[p].copied[c]

\* An invocation during whose staging nothing changed stages the workspace,
\* nothing less and nothing that is left from an earlier process of its
\* number, and digests the sources of the crates the guest programs lead to by
\* the tables it reads, no more (stage.rs:82-84, guest.rs:69-109): an unchanged
\* tool asks for the image it asked for before.
StagedAsFound ==
  \A p \in Process :
    IsCopied(p) /\ local[p].edited = {} =>
      /\ staging[p] = workspace
      /\ Named(p) = Digest(workspace, Followed(workspace))

\* A directory that has its name does not change, whoever stages the same
\* sources while a builder reads it (stage.rs:61-66).
SettledNeverChanges ==
  [][settled \subseteq settled']_vars
=============================================================================
