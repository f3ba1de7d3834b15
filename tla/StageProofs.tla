---------------------------- MODULE StageProofs ----------------------------
(***************************************************************************)
(* What holds of staging and building, for any crates, processes, versions *)
(* and edits.                                                              *)
(***************************************************************************)
EXTENDS ImageStage, TLAPS

LEMMA Constants ==
  /\ Guest \subseteq Crate
  /\ Contents \in [Crate -> SUBSET (Source \cup {Absent})]
  /\ MaxEdits \in Nat
BY StageAssumption

LEMMA Marks ==
  /\ Absent \notin Digested
  /\ Ignored \notin Version
BY StageAssumption DEF Digested

LEMMA Nothing == None \notin Context /\ None \notin Tag
BY NothingAssumption

-----------------------------------------------------------------------------
(***************************************************************************)
(* What a context is compiled to, and what its digest says of it.          *)
(***************************************************************************)

\* Both are there or neither is, and they name the same dependencies.
SameManifest(a, b) ==
  /\ a = Absent <=> b = Absent
  /\ a # Absent => a.deps = b.deps /\ a.other = b.other

SameManifests(v, w) == \A c \in Crate : SameManifest(v[c], w[c])

\* A crate's sources left out of it.
Bare(s) == [s EXCEPT !.src = Ignored]

LEMMA SourceIs ==
  ASSUME NEW s \in Source
  PROVE  /\ s # Absent /\ s \in Digested
         /\ s.deps \subseteq Crate /\ s.other \subseteq Crate
         /\ s.src \in Version /\ s.src # Ignored
<1>1. s \in Digested
  BY DEF Source, Digested
<1> QED BY <1>1, Marks DEF Source

LEMMA BareIs ==
  ASSUME NEW s \in Source
  PROVE  /\ Bare(s) \in Digested /\ Bare(s) # Absent
         /\ Bare(s).deps = s.deps /\ Bare(s).other = s.other
         /\ Bare(s).src = Ignored
<1>1. Bare(s) \in Digested
  BY DEF Bare, Source, Digested
<1> QED BY <1>1, Marks DEF Bare, Source

\* What a closure is made of.
Dependencies == [Crate -> SUBSET Crate]

LEMMA DependenciesAre ==
  ASSUME NEW ctx \in Context
  PROVE  /\ Listed(ctx) \in Dependencies /\ Needed(ctx) \in Dependencies
         /\ \A c \in Crate : Listed(ctx)[c] \subseteq Needed(ctx)[c]
         /\ \A c \in Crate : ctx[c] # Absent => Listed(ctx)[c] = ctx[c].deps
<1>1. \A c \in Crate :
        ctx[c] # Absent => ctx[c].deps \subseteq Crate /\ ctx[c].other \subseteq Crate
  BY SourceIs DEF Context
<1> QED BY <1>1 DEF Listed, Needed, Dependencies

LEMMA ClosureIsLeast ==
  ASSUME NEW d
  PROVE  /\ Closure(d) \subseteq Crate
         /\ Guest \subseteq Closure(d)
         /\ \A S \in SUBSET Crate : ClosedUnder(d, S) => Closure(d) \subseteq S
<1>1. Guest \subseteq Closure(d)
  BY Constants DEF Closure, ClosedUnder
<1> QED BY <1>1 DEF Closure

LEMMA ClosureIsClosed ==
  ASSUME NEW d \in Dependencies
  PROVE  ClosedUnder(d, Closure(d))
<1>1. ASSUME NEW c \in Closure(d), NEW e \in d[c], NEW S \in SUBSET Crate,
             ClosedUnder(d, S)
      PROVE  e \in S
  BY <1>1 DEF Closure, ClosedUnder
<1>2. \A c \in Closure(d) : d[c] \subseteq Crate
  BY DEF Closure, Dependencies
<1>3. \A c \in Closure(d) : d[c] \subseteq Closure(d)
  BY <1>1, <1>2 DEF Closure
<1> QED BY <1>3, ClosureIsLeast DEF ClosedUnder

LEMMA FollowedIsClosed ==
  ASSUME NEW ctx \in Context, NEW c \in Followed(ctx), ctx[c] # Absent
  PROVE  ctx[c].deps \subseteq Followed(ctx)
<1>1. ClosedUnder(Listed(ctx), Followed(ctx)) /\ c \in Crate
  BY DependenciesAre, ClosureIsClosed, ClosureIsLeast DEF Followed
<1> QED BY <1>1, DependenciesAre DEF ClosedUnder

\* All that is followed is compiled.
LEMMA FollowedIsCompiled ==
  ASSUME NEW ctx \in Context
  PROVE  Followed(ctx) \subseteq Compiled(ctx)
<1>1. /\ ClosedUnder(Needed(ctx), Compiled(ctx)) /\ Compiled(ctx) \subseteq Crate
  BY DependenciesAre, ClosureIsClosed, ClosureIsLeast DEF Compiled
<1>2. ClosedUnder(Listed(ctx), Compiled(ctx))
  BY <1>1, DependenciesAre DEF ClosedUnder
<1> QED BY <1>1, <1>2, ClosureIsLeast DEF Followed

LEMMA ClosuresByManifests ==
  ASSUME NEW v, NEW w, SameManifests(v, w)
  PROVE  Followed(v) = Followed(w) /\ Compiled(v) = Compiled(w)
<1>1. Listed(v) = Listed(w)
  BY DEF SameManifests, SameManifest, Listed
<1>2. Needed(v) = Needed(w)
  BY DEF SameManifests, SameManifest, Needed
<1> QED BY <1>1, <1>2 DEF Followed, Compiled

LEMMA DigestAt ==
  ASSUME NEW ctx, NEW cl, NEW c \in Crate
  PROVE  Digest(ctx, cl)[c] =
           IF ctx[c] = Absent \/ c \in cl THEN ctx[c] ELSE Bare(ctx[c])
BY DEF Digest, Bare

LEMMA DigestType ==
  ASSUME NEW ctx \in Context, NEW cl
  PROVE  Digest(ctx, cl) \in Tag
<1>1. ASSUME NEW c \in Crate
      PROVE  (IF ctx[c] = Absent \/ c \in cl THEN ctx[c] ELSE Bare(ctx[c]))
             \in Digested \cup {Absent}
  <2>1. ctx[c] # Absent => ctx[c] \in Source
    BY DEF Context
  <2> QED BY <2>1, SourceIs, BareIs
<1> QED BY <1>1 DEF Digest, Tag, Bare

\* A digest that takes in what is followed stands for every manifest and for
\* the sources of what is followed, whatever closure the other context was
\* digested with.
LEMMA DigestTells ==
  ASSUME NEW v \in Context, NEW w \in Context, NEW cl,
         Digest(v, cl) = Digest(w, Followed(w))
  PROVE  /\ DOMAIN Product(v) = Compiled(w)
         /\ \A c \in Followed(w) : Product(v)[c] = w[c]
<1>1. ASSUME NEW c \in Crate
      PROVE  /\ SameManifest(v[c], w[c])
             /\ c \in Followed(w) => v[c] = w[c]
  <2>1. (IF v[c] = Absent \/ c \in cl THEN v[c] ELSE Bare(v[c]))
        = (IF w[c] = Absent \/ c \in Followed(w) THEN w[c] ELSE Bare(w[c]))
    <3>1. Digest(v, cl)[c] = Digest(w, Followed(w))[c]
      OBVIOUS
    <3>2. Digest(v, cl)[c] =
            IF v[c] = Absent \/ c \in cl THEN v[c] ELSE Bare(v[c])
      BY DigestAt
    <3>3. Digest(w, Followed(w))[c] =
            IF w[c] = Absent \/ c \in Followed(w) THEN w[c] ELSE Bare(w[c])
      BY DigestAt
    <3> QED BY <3>1, <3>2, <3>3
  <2>2. v[c] # Absent =>
          /\ v[c].src # Ignored
          /\ Bare(v[c]) # Absent /\ Bare(v[c]).src = Ignored
          /\ Bare(v[c]).deps = v[c].deps /\ Bare(v[c]).other = v[c].other
    BY SourceIs, BareIs DEF Context
  <2>3. w[c] # Absent =>
          /\ w[c].src # Ignored
          /\ Bare(w[c]) # Absent /\ Bare(w[c]).src = Ignored
          /\ Bare(w[c]).deps = w[c].deps /\ Bare(w[c]).other = w[c].other
    BY SourceIs, BareIs DEF Context
  <2>4. SameManifest(v[c], w[c])
    BY <2>1, <2>2, <2>3 DEF SameManifest
  <2>5. c \in Followed(w) => v[c] = w[c]
    BY <2>1, <2>2, <2>3
  <2> QED BY <2>4, <2>5
<1>2. Compiled(v) = Compiled(w)
  BY <1>1, ClosuresByManifests DEF SameManifests
<1>3. Followed(w) \subseteq Crate /\ Followed(w) \subseteq Compiled(w)
  BY FollowedIsCompiled, ClosureIsLeast DEF Followed
<1> QED BY <1>1, <1>2, <1>3 DEF Product

-----------------------------------------------------------------------------
(***************************************************************************)
(* The invariant: what each process has of the workspace, where it is.     *)
(***************************************************************************)
Named_ == {"surplus", "image", "build", "run"}

\* No manifest changed since it began.
Faithful(p) == "manifest" \notin local[p].edited

StartsClean(p) == local[p].step = "idle" => local[p] = Nowhere

\* The loop of source_closure().
Follows(p) ==
  local[p].step \in {"follow", "copy"} /\ Faithful(p) =>
    /\ Guest \subseteq local[p].closure \cup local[p].pending
    /\ local[p].closure \cup local[p].pending \subseteq Followed(workspace)
    /\ \A c \in local[p].closure :
         /\ workspace[c] # Absent
         /\ workspace[c].deps \subseteq local[p].closure \cup local[p].pending

\* The loop of stage().
Copies(p) ==
  local[p].step = "copy" =>
    /\ local[p].pending = {}
    /\ staging[p] \in Context
    /\ \A c \in local[p].left : staging[p][c] = Absent
    /\ Faithful(p) =>
         \A c \in Crate \ local[p].left : SameManifest(staging[p][c], workspace[c])
    /\ local[p].edited = {} =>
         \A c \in Crate \ local[p].left : staging[p][c] = workspace[c]

\* What it looks up, builds and runs.
Names(p) ==
  local[p].step \in Named_ =>
    /\ local[p].copied \in Context
    /\ local[p].tag \in Tag
    /\ Faithful(p) => local[p].tag = Digest(local[p].copied, Followed(local[p].copied))

Right(p) == StartsClean(p) /\ Follows(p) /\ Copies(p) /\ Names(p)

SettledAreNamed ==
  \A d \in settled :
    d.context \in Context /\ \E cl \in SUBSET Crate : d.tag = Digest(d.context, cl)

ImagesAreBuilt ==
  \A i \in images :
    \E ctx \in Context, cl \in SUBSET Crate :
      i.tag = Digest(ctx, cl) /\ i.programs = Product(ctx)

Inv ==
  /\ TypeOK
  /\ \A p \in Process : Right(p)
  /\ SettledAreNamed
  /\ ImagesAreBuilt

-----------------------------------------------------------------------------
LEMMA NothingStaged == [c \in Crate |-> Absent] \in Context
BY DEF Context

LEMMA NowhereType == Nowhere \in Local
BY DEF Nowhere, Local

LEMMA LocalIs ==
  ASSUME TypeOK, NEW p \in Process
  PROVE  /\ local[p] \in Local
         /\ local[p].closure \subseteq Crate /\ local[p].pending \subseteq Crate
         /\ local[p].left \subseteq Crate
         /\ workspace \in Context
BY DEF TypeOK, Local

\* One process moves, in its own directory.
LEMMA OneMoves ==
  ASSUME Inv, NEW p \in Process,
         local' \in [Process -> Local],
         \A q \in Process \ {p} : local'[q] = local[q],
         staging' \in [Process -> Context \cup {None}],
         \A q \in Process \ {p} : staging'[q] = staging[q],
         UNCHANGED <<workspace, edits>>,
         settled' \subseteq Directory, SettledAreNamed',
         images' \subseteq Image, ImagesAreBuilt',
         Right(p)'
  PROVE  Inv'
<1>1. TypeOK'
  BY DEF Inv, TypeOK
<1>2. ASSUME NEW q \in Process \ {p} PROVE Right(q)'
  BY <1>2 DEF Inv, Right, StartsClean, Follows, Copies, Names, Faithful
<1> QED BY <1>1, <1>2 DEF Inv

\* The rest of the state where neither directories nor images move.
LEMMA OnlyLocal ==
  ASSUME Inv, NEW p \in Process,
         local' \in [Process -> Local],
         \A q \in Process \ {p} : local'[q] = local[q],
         UNCHANGED <<workspace, edits, staging, settled, images>>,
         Right(p)'
  PROVE  Inv'
<1>1. SettledAreNamed' /\ ImagesAreBuilt'
  BY DEF Inv, SettledAreNamed, ImagesAreBuilt
<1>2. /\ staging' \in [Process -> Context \cup {None}]
      /\ settled' \subseteq Directory /\ images' \subseteq Image
      /\ \A q \in Process \ {p} : staging'[q] = staging[q]
  BY DEF Inv, TypeOK
<1> QED BY <1>1, <1>2, OneMoves

LEMMA StageKeeps == ASSUME Inv, NEW p \in Process, Stage(p) PROVE Inv'
<1>1. local[p] = Nowhere
  BY DEF Stage, Inv, Right, StartsClean
<1>2. local[p] \in Local /\ local \in [Process -> Local]
  BY DEF Inv, TypeOK
<1>3. /\ local' \in [Process -> Local]
      /\ \A q \in Process \ {p} : local'[q] = local[q]
      /\ local'[p].step = "follow" /\ local'[p].pending = Guest
      /\ local'[p].closure = {}
  <2>1. local[p].closure = {}
    BY <1>1 DEF Nowhere
  <2>2. local' = [local EXCEPT ![p].step = "follow", ![p].pending = Guest]
    BY DEF Stage
  <2>3. local' \in [Process -> Local]
    BY <1>2, <2>2, Constants DEF Local
  <2>4. /\ \A q \in Process \ {p} : local'[q] = local[q]
        /\ local'[p].step = "follow" /\ local'[p].pending = Guest
        /\ local'[p].closure = local[p].closure
    BY <1>2, <2>2 DEF Local
  <2> QED BY <2>1, <2>3, <2>4
<1>4. UNCHANGED <<workspace, edits, staging, settled, images>>
  BY DEF Stage, Sources
<1>5. Right(p)'
  BY <1>3, <1>4, ClosureIsLeast DEF Followed, Right, StartsClean, Follows, Copies, Names, Named_
<1> QED BY <1>3, <1>4, <1>5, OnlyLocal

LEMMA FollowKeeps == ASSUME Inv, NEW p \in Process, Follow(p) PROVE Inv'
<1>1. PICK c \in local[p].pending :
        /\ workspace[c] # Absent
        /\ local' = [local EXCEPT
             ![p].closure = local[p].closure \cup {c},
             ![p].pending = (local[p].pending \cup workspace[c].deps)
                            \ (local[p].closure \cup {c})]
  BY DEF Follow
<1>2. /\ local[p] \in Local /\ local \in [Process -> Local] /\ workspace \in Context
      /\ local[p].closure \subseteq Crate /\ local[p].pending \subseteq Crate
  BY LocalIs DEF Inv, TypeOK
<1>3. c \in Crate /\ workspace[c] \in Source /\ workspace[c].deps \subseteq Crate
  <2>1. c \in Crate /\ workspace[c] \in Source
    BY <1>1, <1>2 DEF Context
  <2> QED BY <2>1, SourceIs
<1>4. /\ local' \in [Process -> Local]
      /\ \A q \in Process \ {p} : local'[q] = local[q]
      /\ local'[p].step = "follow" /\ local'[p].edited = local[p].edited
      /\ local'[p].closure = local[p].closure \cup {c}
      /\ local'[p].pending = (local[p].pending \cup workspace[c].deps)
                             \ (local[p].closure \cup {c})
  <2> DEFINE cl == local[p].closure \cup {c}
             pe == (local[p].pending \cup workspace[c].deps)
                   \ (local[p].closure \cup {c})
  <2>1. cl \in SUBSET Crate /\ pe \in SUBSET Crate
    BY <1>2, <1>3
  <2>2. local' = [local EXCEPT ![p].closure = cl, ![p].pending = pe]
    BY <1>1
  <2> HIDE DEF cl, pe
  <2>3. local' \in [Process -> Local]
    BY <1>2, <2>1, <2>2 DEF Local
  <2>4. /\ \A q \in Process \ {p} : local'[q] = local[q]
        /\ local'[p].step = "follow" /\ local'[p].edited = local[p].edited
        /\ local'[p].closure = cl /\ local'[p].pending = pe
    BY <1>2, <2>2 DEF Follow, Local
  <2> QED BY <2>3, <2>4 DEF cl, pe
<1>5. UNCHANGED <<workspace, edits, staging, settled, images>>
  BY DEF Follow, Sources
<1>6. Follows(p)'
  <2> SUFFICES ASSUME Faithful(p)
               PROVE  /\ Guest \subseteq local'[p].closure \cup local'[p].pending
                      /\ local'[p].closure \cup local'[p].pending
                           \subseteq Followed(workspace)
                      /\ \A d \in local'[p].closure :
                           /\ workspace[d] # Absent
                           /\ workspace[d].deps
                                \subseteq local'[p].closure \cup local'[p].pending
    BY <1>4, <1>5 DEF Follows, Faithful
  <2>1. /\ Guest \subseteq local[p].closure \cup local[p].pending
        /\ local[p].closure \cup local[p].pending \subseteq Followed(workspace)
        /\ \A d \in local[p].closure :
             /\ workspace[d] # Absent
             /\ workspace[d].deps \subseteq local[p].closure \cup local[p].pending
    BY DEF Follow, Inv, Right, Follows
  <2>2. local'[p].closure \cup local'[p].pending
          = local[p].closure \cup local[p].pending \cup workspace[c].deps
    BY <1>1, <1>4
  <2>3. workspace[c].deps \subseteq Followed(workspace)
    BY <1>1, <1>2, <2>1, FollowedIsClosed
  <2> QED BY <1>1, <1>4, <2>1, <2>2, <2>3
<1>7. Right(p)'
  BY <1>4, <1>6 DEF Right, StartsClean, Copies, Names, Named_
<1> QED BY <1>4, <1>5, <1>7, OnlyLocal

LEMMA ClearKeeps == ASSUME Inv, NEW p \in Process, Clear(p) PROVE Inv'
<1>1. local[p] \in Local /\ local \in [Process -> Local]
      /\ staging \in [Process -> Context \cup {None}]
  BY DEF Inv, TypeOK
<1>2. /\ local' \in [Process -> Local]
      /\ \A q \in Process \ {p} : local'[q] = local[q]
      /\ local'[p].step = "copy" /\ local'[p].left = Crate
      /\ local'[p].pending = {} /\ local'[p].closure = local[p].closure
      /\ local'[p].edited = local[p].edited
  <2>1. local' = [local EXCEPT ![p].step = "copy", ![p].left = Crate]
    BY DEF Clear
  <2>2. local' \in [Process -> Local]
    BY <1>1, <2>1 DEF Local
  <2>3. /\ \A q \in Process \ {p} : local'[q] = local[q]
        /\ local'[p].step = "copy" /\ local'[p].left = Crate
        /\ local'[p].pending = local[p].pending /\ local'[p].closure = local[p].closure
        /\ local'[p].edited = local[p].edited
    BY <1>1, <2>1 DEF Local
  <2> QED BY <2>2, <2>3 DEF Clear
<1>3. /\ staging' \in [Process -> Context \cup {None}]
      /\ staging'[p] \in Context /\ \A c \in Crate : staging'[p][c] = Absent
      /\ \A q \in Process \ {p} : staging'[q] = staging[q]
  <2>1. staging' = [staging EXCEPT ![p] = [c \in Crate |-> Absent]]
    BY DEF Clear
  <2> QED BY <1>1, <2>1, NothingStaged
<1>4. UNCHANGED <<workspace, edits, settled, images>> /\ local[p].step = "follow"
      /\ local[p].pending = {}
  BY DEF Clear, Sources
<1>5. /\ SettledAreNamed' /\ ImagesAreBuilt'
      /\ settled' \subseteq Directory /\ images' \subseteq Image
  BY <1>4 DEF Inv, TypeOK, SettledAreNamed, ImagesAreBuilt
<1>6. Follows(p)'
  <2>1. Follows(p)
    BY DEF Inv, Right
  <2> QED BY <1>2, <1>4, <2>1 DEF Follows, Faithful
<1>7. Copies(p)'
  BY <1>2, <1>3 DEF Copies
<1>8. Right(p)'
  BY <1>2, <1>6, <1>7 DEF Right, StartsClean, Names, Named_
<1> QED BY <1>2, <1>3, <1>4, <1>5, <1>8, OneMoves

LEMMA CopyKeeps == ASSUME Inv, NEW p \in Process, Copy(p) PROVE Inv'
<1>1. PICK c \in local[p].left :
        /\ staging' = IF workspace[c] = Absent THEN staging
                      ELSE [staging EXCEPT ![p][c] = workspace[c]]
        /\ local' = [local EXCEPT ![p].left = local[p].left \ {c}]
  BY DEF Copy
<1>2. /\ local[p] \in Local /\ local \in [Process -> Local] /\ workspace \in Context
      /\ staging \in [Process -> Context \cup {None}] /\ local[p].left \subseteq Crate
  BY LocalIs DEF Inv, TypeOK
<1>3. Copies(p) /\ Follows(p) /\ local[p].step = "copy"
  BY DEF Inv, Right, Copy
<1>4. /\ local' \in [Process -> Local]
      /\ \A q \in Process \ {p} : local'[q] = local[q]
      /\ local'[p].step = "copy" /\ local'[p].left = local[p].left \ {c}
      /\ local'[p].pending = local[p].pending /\ local'[p].closure = local[p].closure
      /\ local'[p].edited = local[p].edited
  <2> DEFINE le == local[p].left \ {c}
  <2>1. le \in SUBSET Crate /\ local' = [local EXCEPT ![p].left = le]
    BY <1>1, <1>2
  <2> HIDE DEF le
  <2>2. local' \in [Process -> Local]
    BY <1>2, <2>1 DEF Local
  <2>3. /\ \A q \in Process \ {p} : local'[q] = local[q]
        /\ local'[p].step = local[p].step /\ local'[p].left = le
        /\ local'[p].pending = local[p].pending /\ local'[p].closure = local[p].closure
        /\ local'[p].edited = local[p].edited
    BY <1>2, <2>1 DEF Local
  <2> QED BY <1>3, <2>2, <2>3 DEF le
<1>5. c \in Crate /\ staging[p] \in Context /\ staging[p][c] = Absent
  BY <1>1, <1>2, <1>3 DEF Copies
<1>6. /\ staging' \in [Process -> Context \cup {None}]
      /\ \A q \in Process \ {p} : staging'[q] = staging[q]
      /\ staging'[p] \in Context
      /\ staging'[p][c] = workspace[c]
      /\ \A d \in Crate \ {c} : staging'[p][d] = staging[p][d]
  <2>1. CASE workspace[c] = Absent
    BY <1>1, <1>2, <1>5, <2>1
  <2>2. CASE workspace[c] # Absent
    <3> DEFINE s == [staging[p] EXCEPT ![c] = workspace[c]]
    <3>1. workspace[c] \in Source
      BY <1>2, <1>5, <2>2 DEF Context
    <3>2. s \in Context /\ s[c] = workspace[c]
          /\ \A d \in Crate \ {c} : s[d] = staging[p][d]
      BY <1>5, <3>1 DEF Context
    <3>3. staging' = [staging EXCEPT ![p] = s]
      BY <1>1, <2>2
    <3> HIDE DEF s
    <3> QED BY <1>2, <3>2, <3>3
  <2> QED BY <2>1, <2>2
<1>7. UNCHANGED <<workspace, edits, settled, images>>
  BY DEF Copy, Sources
<1>8. /\ SettledAreNamed' /\ ImagesAreBuilt'
      /\ settled' \subseteq Directory /\ images' \subseteq Image
  BY <1>7 DEF Inv, TypeOK, SettledAreNamed, ImagesAreBuilt
<1>9. Follows(p)'
  BY <1>3, <1>4, <1>7 DEF Follows, Faithful
<1>10. Copies(p)'
  <2>1. \A d \in local'[p].left : staging'[p][d] = Absent
    BY <1>2, <1>3, <1>4, <1>6 DEF Copies
  <2>2. ASSUME Faithful(p), NEW d \in Crate \ local'[p].left
        PROVE  SameManifest(staging'[p][d], workspace[d])
    <3>1. CASE d = c
      BY <1>6, <3>1 DEF SameManifest
    <3>2. CASE d # c
      BY <1>3, <1>4, <1>6, <2>2, <3>2 DEF Copies
    <3> QED BY <3>1, <3>2
  <2>3. ASSUME local[p].edited = {}, NEW d \in Crate \ local'[p].left
        PROVE  staging'[p][d] = workspace[d]
    BY <1>3, <1>4, <1>6, <2>3 DEF Copies
  <2>4. local'[p].pending = {}
    BY <1>3, <1>4 DEF Copies
  <2> QED BY <1>4, <1>6, <1>7, <2>1, <2>2, <2>3, <2>4 DEF Copies, Faithful
<1>11. Right(p)'
  BY <1>4, <1>9, <1>10 DEF Right, StartsClean, Names, Named_
<1> QED BY <1>4, <1>6, <1>7, <1>8, <1>11, OneMoves

\* What the closure is when everything is copied.
LEMMA ClosureIsFollowed ==
  ASSUME Inv, NEW p \in Process, local[p].step = "copy", Faithful(p)
  PROVE  local[p].closure = Followed(workspace)
<1>1. /\ local[p].pending = {}
      /\ Guest \subseteq local[p].closure
      /\ local[p].closure \subseteq Followed(workspace)
      /\ \A c \in local[p].closure : workspace[c].deps \subseteq local[p].closure
  BY DEF Inv, Right, Follows, Copies
<1>2. local[p].closure \in SUBSET Crate
  BY LocalIs DEF Inv
<1>3. ClosedUnder(Listed(workspace), local[p].closure)
  BY <1>1, <1>2 DEF ClosedUnder, Listed
<1> QED BY <1>1, <1>2, <1>3, ClosureIsLeast DEF Followed

LEMMA CopiedIsNamed ==
  ASSUME Inv, NEW p \in Process, IsCopied(p)
  PROVE  /\ staging[p] \in Context /\ Named(p) \in Tag
         /\ Faithful(p) => Named(p) = Digest(staging[p], Followed(staging[p]))
<1>1. staging[p] \in Context
  BY DEF IsCopied, Inv, Right, Copies
<1>2. ASSUME Faithful(p) PROVE local[p].closure = Followed(staging[p])
  <2>1. SameManifests(staging[p], workspace)
    BY <1>2 DEF IsCopied, Inv, Right, Copies, SameManifests
  <2>2. Followed(staging[p]) = Followed(workspace)
    BY <2>1, ClosuresByManifests
  <2> QED BY <1>2, <2>2, ClosureIsFollowed DEF IsCopied
<1> QED BY <1>1, <1>2, DigestType DEF Named

LEMMA ProceedsIs ==
  ASSUME Inv, NEW p \in Process, NEW st \in {"surplus", "image"},
         IsCopied(p), Proceeds(p, st)
  PROVE  /\ local' \in [Process -> Local]
         /\ \A q \in Process \ {p} : local'[q] = local[q]
         /\ local'[p].step = st /\ local'[p].tag = Named(p)
         /\ local'[p].copied = staging[p] /\ local'[p].edited = local[p].edited
         /\ Right(p)'
<1> DEFINE t == Named(p)
           ctx == staging[p]
<1>1. local \in [Process -> Local] /\ ctx \in Context /\ t \in Tag
      /\ (Faithful(p) => t = Digest(ctx, Followed(ctx)))
  BY CopiedIsNamed DEF Inv, TypeOK
<1>2. local' = [local EXCEPT ![p].step = st, ![p].tag = t, ![p].copied = ctx,
                             ![p].closure = {}]
  BY DEF Proceeds
<1> HIDE DEF t, ctx
<1>3. local' \in [Process -> Local]
  <2>1. local[p] \in Local
    BY <1>1
  <2>2. local'[p] = [step |-> st, closure |-> {}, pending |-> local[p].pending,
                     left |-> local[p].left, tag |-> t,
                     edited |-> local[p].edited, copied |-> ctx]
    BY <1>1, <1>2, <2>1 DEF Local
  <2>3. local'[p] \in Local
    BY <1>1, <2>1, <2>2 DEF Local
  <2>4. \A q \in Process \ {p} : local'[q] = local[q]
    BY <1>1, <1>2
  <2>5. local' = [q \in Process |-> local'[q]]
    BY <1>1, <1>2
  <2> QED BY <1>1, <2>3, <2>4, <2>5
<1>4. /\ \A q \in Process \ {p} : local'[q] = local[q]
      /\ local'[p].step = st /\ local'[p].tag = t
      /\ local'[p].copied = ctx /\ local'[p].edited = local[p].edited
  BY <1>1, <1>2 DEF Local
<1>5. Right(p)'
  BY <1>1, <1>4 DEF Right, StartsClean, Follows, Copies, Names, Faithful, Named_
<1> QED BY <1>3, <1>4, <1>5 DEF t, ctx

LEMMA SettleKeeps == ASSUME Inv, NEW p \in Process, Settle(p) PROVE Inv'
<1>1. IsCopied(p) /\ UNCHANGED <<workspace, edits, images>>
  BY DEF Settle, Sources
<1>2. ImagesAreBuilt' /\ images' \subseteq Image
  BY <1>1 DEF Inv, TypeOK, ImagesAreBuilt
<1>3. staging \in [Process -> Context \cup {None}] /\ settled \subseteq Directory
      /\ SettledAreNamed
  BY DEF Inv, TypeOK
<1>4. CASE /\ settled' = settled \cup {Staged(p)}
           /\ staging' = [staging EXCEPT ![p] = None]
           /\ Proceeds(p, "image")
  <2>1. staging[p] \in Context /\ Named(p) \in Tag
    BY <1>1, CopiedIsNamed
  <2>2. Staged(p) \in Directory /\ Staged(p).context = staging[p]
        /\ Staged(p).tag = Digest(staging[p], local[p].closure)
    BY <2>1 DEF Staged, Named, Directory
  <2>3. local[p].closure \in SUBSET Crate
    BY LocalIs DEF Inv
  <2>4. settled' \subseteq Directory /\ SettledAreNamed'
    BY <1>3, <1>4, <2>1, <2>2, <2>3 DEF SettledAreNamed
  <2>5. /\ staging' \in [Process -> Context \cup {None}]
        /\ \A q \in Process \ {p} : staging'[q] = staging[q]
    BY <1>3, <1>4
  <2> QED BY <1>1, <1>2, <1>4, <2>4, <2>5, ProceedsIs, OneMoves
<1>5. CASE Proceeds(p, "surplus") /\ UNCHANGED <<staging, settled>>
  <2>1. settled' \subseteq Directory /\ SettledAreNamed'
    BY <1>3, <1>5 DEF SettledAreNamed
  <2>2. /\ staging' \in [Process -> Context \cup {None}]
        /\ \A q \in Process \ {p} : staging'[q] = staging[q]
    BY <1>3, <1>5
  <2> QED BY <1>1, <1>2, <1>5, <2>1, <2>2, ProceedsIs, OneMoves
<1> QED BY <1>4, <1>5 DEF Settle

\* A process that has its image's name goes on.
LEMMA StepIs ==
  ASSUME Inv, NEW p \in Process, local[p].step \in Named_,
         NEW st \in Named_, local' = [local EXCEPT ![p].step = st]
  PROVE  /\ local' \in [Process -> Local]
         /\ \A q \in Process \ {p} : local'[q] = local[q]
         /\ Right(p)'
<1>1. local \in [Process -> Local]
  BY DEF Inv, TypeOK
<1>2. local' \in [Process -> Local]
  BY <1>1 DEF Local, Named_
<1>3. /\ \A q \in Process \ {p} : local'[q] = local[q]
      /\ local'[p].step = st /\ local'[p].tag = local[p].tag
      /\ local'[p].copied = local[p].copied /\ local'[p].edited = local[p].edited
  BY <1>1 DEF Local
<1>4. Names(p)
  BY DEF Inv, Right
<1>5. Right(p)'
  BY <1>3, <1>4 DEF Right, StartsClean, Follows, Copies, Names, Faithful, Named_
<1> QED BY <1>2, <1>3, <1>5

LEMMA DiscardKeeps == ASSUME Inv, NEW p \in Process, Discard(p) PROVE Inv'
<1>1. /\ local' \in [Process -> Local]
      /\ \A q \in Process \ {p} : local'[q] = local[q]
      /\ Right(p)'
  BY StepIs DEF Discard, Named_
<1>2. UNCHANGED <<workspace, edits, settled, images>>
      /\ staging' = [staging EXCEPT ![p] = None]
  BY DEF Discard, Sources
<1>3. /\ staging' \in [Process -> Context \cup {None}]
      /\ \A q \in Process \ {p} : staging'[q] = staging[q]
  BY <1>2 DEF Inv, TypeOK
<1>4. /\ SettledAreNamed' /\ ImagesAreBuilt'
      /\ settled' \subseteq Directory /\ images' \subseteq Image
  BY <1>2 DEF Inv, TypeOK, SettledAreNamed, ImagesAreBuilt
<1> QED BY <1>1, <1>2, <1>3, <1>4, OneMoves

LEMMA LookUpKeeps == ASSUME Inv, NEW p \in Process, LookUp(p) PROVE Inv'
<1> DEFINE st == IF Held(local[p].tag) THEN "run" ELSE "build"
<1>1. local[p].step \in Named_ /\ st \in Named_
      /\ local' = [local EXCEPT ![p].step = st]
  BY DEF LookUp, Named_
<1>2. UNCHANGED <<workspace, edits, staging, settled, images>>
  BY DEF LookUp, Sources
<1> HIDE DEF st
<1>3. /\ local' \in [Process -> Local]
      /\ \A q \in Process \ {p} : local'[q] = local[q]
      /\ Right(p)'
  BY <1>1, StepIs
<1> QED BY <1>2, <1>3, OnlyLocal

LEMMA BuildKeeps == ASSUME Inv, NEW p \in Process, Build(p) PROVE Inv'
<1>1. /\ local' \in [Process -> Local]
      /\ \A q \in Process \ {p} : local'[q] = local[q]
      /\ Right(p)'
  BY StepIs DEF Build, Named_
<1>2. UNCHANGED <<workspace, edits, staging, settled>>
  BY DEF Build, Sources
<1>3. PICK d \in settled : CanCompile(d.context) /\ Makes(d)
  BY DEF Build
<1> DEFINE new == [tag |-> d.tag, programs |-> Product(d.context)]
<1>4. d \in Directory /\ d.context \in Context
      /\ \E cl \in SUBSET Crate : d.tag = Digest(d.context, cl)
  BY DEF Inv, TypeOK, SettledAreNamed
<1>5. Product(d.context) \in Programs
  <2>1. Compiled(d.context) \in SUBSET Crate
    BY ClosureIsLeast DEF Compiled
  <2>2. \A c \in Compiled(d.context) : d.context[c] \in Source
    BY <1>3, <1>4, <2>1 DEF CanCompile, Context
  <2>3. Product(d.context) \in [Compiled(d.context) -> Source]
    BY <2>2 DEF Product
  <2> QED BY <2>1, <2>3 DEF Programs
<1>6. new \in Image /\ new.tag = d.tag /\ new.programs = Product(d.context)
  BY <1>4, <1>5 DEF Image, Directory
<1>7. images' = {i \in images : i.tag # d.tag} \cup {new}
  BY <1>3 DEF Makes
<1> HIDE DEF new
<1>8. images' \subseteq Image /\ ImagesAreBuilt'
  BY <1>4, <1>6, <1>7 DEF Inv, TypeOK, ImagesAreBuilt
<1>9. /\ staging' \in [Process -> Context \cup {None}]
      /\ \A q \in Process \ {p} : staging'[q] = staging[q]
      /\ settled' \subseteq Directory /\ SettledAreNamed'
  BY <1>2 DEF Inv, TypeOK, SettledAreNamed
<1> QED BY <1>1, <1>2, <1>8, <1>9, OneMoves

LEMMA EndKeeps ==
  ASSUME Inv, NEW p \in Process, local' = [local EXCEPT ![p] = Nowhere],
         UNCHANGED <<workspace, edits, staging, settled, images>>
  PROVE  Inv'
<1>1. /\ local' \in [Process -> Local]
      /\ \A q \in Process \ {p} : local'[q] = local[q]
      /\ local'[p] = Nowhere
  BY NowhereType DEF Inv, TypeOK
<1>2. Nowhere.step = "idle"
  BY DEF Nowhere
<1>3. Right(p)'
  BY <1>1, <1>2 DEF Right, StartsClean, Follows, Copies, Names, Named_
<1> QED BY <1>1, <1>3, OnlyLocal

LEMMA PruneKeeps == Inv /\ Prune => Inv'
<1> SUFFICES ASSUME Inv, Prune PROVE Inv'
  OBVIOUS
<1>1. UNCHANGED <<workspace, edits, staging, settled, local>> /\ images' \subseteq images
  BY DEF Prune, Sources
<1>2. TypeOK' /\ SettledAreNamed' /\ ImagesAreBuilt'
  BY <1>1 DEF Inv, TypeOK, SettledAreNamed, ImagesAreBuilt
<1>3. ASSUME NEW q \in Process PROVE Right(q)'
  BY <1>1 DEF Inv, Right, StartsClean, Follows, Copies, Names, Faithful
<1> QED BY <1>2, <1>3 DEF Inv

\* A change of one crate, as each process sees it.
LEMMA EditKeeps == ASSUME Inv, NEW c \in Crate, Edit(c) PROVE Inv'
<1>1. PICK new \in Contents[c] \ {workspace[c]} :
        LET kind == IF new = Absent \/ workspace[c] = Absent THEN "manifest"
                    ELSE IF [new EXCEPT !.src = workspace[c].src] # workspace[c] THEN "manifest"
                    ELSE "source"
        IN  /\ workspace' = [workspace EXCEPT ![c] = new]
            /\ local' = [p \in Process |->
                 IF local[p].step \in Staging
                 THEN [local[p] EXCEPT !.edited = local[p].edited \cup {kind}]
                 ELSE local[p]]
  BY DEF Edit
<1> DEFINE kind == IF new = Absent \/ workspace[c] = Absent THEN "manifest"
                   ELSE IF [new EXCEPT !.src = workspace[c].src] # workspace[c] THEN "manifest"
                   ELSE "source"
<1>2. /\ UNCHANGED <<staging, settled, images>> /\ edits' = edits + 1
      /\ edits < MaxEdits
  BY DEF Edit
<1>3. local \in [Process -> Local] /\ workspace \in Context /\ edits \in 0..MaxEdits
      /\ MaxEdits \in Nat /\ new \in Source \cup {Absent}
  BY Constants DEF Inv, TypeOK
<1>4. workspace' \in Context /\ workspace'[c] = new
      /\ \A d \in Crate \ {c} : workspace'[d] = workspace[d]
  BY <1>1, <1>3 DEF Context
<1>5. kind \in {"manifest", "source"}
      /\ (kind = "source" => SameManifests(workspace, workspace'))
  <2>1. CASE new # Absent /\ workspace[c] # Absent
             /\ [new EXCEPT !.src = workspace[c].src] = workspace[c]
    <3>1. new \in Source
      BY <1>3, <2>1
    <3>2. workspace[c].deps = new.deps /\ workspace[c].other = new.other
      BY <2>1, <3>1 DEF Source
    <3> QED BY <1>4, <2>1, <3>2 DEF SameManifests, SameManifest
  <2> QED BY <2>1
<1> HIDE DEF kind
<1>6. ASSUME NEW q \in Process
      PROVE  /\ local'[q] \in Local
             /\ local[q].step \notin Staging => local'[q] = local[q]
             /\ local[q].step \in Staging =>
                  /\ local'[q].step = local[q].step
                  /\ local'[q].closure = local[q].closure
                  /\ local'[q].pending = local[q].pending
                  /\ local'[q].left = local[q].left
                  /\ local'[q].edited = local[q].edited \cup {kind}
  <2>1. local[q] \in Local
    BY <1>3
  <2>2. local'[q] = IF local[q].step \in Staging
                    THEN [local[q] EXCEPT !.edited = local[q].edited \cup {kind}]
                    ELSE local[q]
    BY <1>1 DEF kind
  <2>3. CASE local[q].step \in Staging
    <3> DEFINE e == local[q].edited \cup {kind}
    <3>1. e \in SUBSET {"manifest", "source"}
      BY <1>5, <2>1 DEF Local
    <3>2. local'[q] = [local[q] EXCEPT !.edited = e]
      BY <2>2, <2>3
    <3> HIDE DEF e
    <3>3. local'[q] \in Local
      BY <2>1, <3>1, <3>2 DEF Local
    <3>4. /\ local'[q].step = local[q].step /\ local'[q].closure = local[q].closure
          /\ local'[q].pending = local[q].pending /\ local'[q].left = local[q].left
          /\ local'[q].edited = e
      BY <2>1, <3>2 DEF Local
    <3> QED BY <2>3, <3>3, <3>4 DEF e
  <2>4. CASE local[q].step \notin Staging
    BY <2>1, <2>2, <2>4
  <2> QED BY <2>3, <2>4
<1>7. TypeOK'
  <2>1. local' = [q \in Process |-> local'[q]]
    BY <1>1
  <2>2. local' \in [Process -> Local]
    BY <1>6, <2>1
  <2>3. edits' \in 0..MaxEdits
    BY <1>2, <1>3
  <2> QED BY <1>2, <1>4, <2>2, <2>3 DEF Inv, TypeOK
<1>8. SettledAreNamed' /\ ImagesAreBuilt'
  BY <1>2 DEF Inv, SettledAreNamed, ImagesAreBuilt
<1>9. ASSUME NEW q \in Process PROVE Right(q)'
  <2>1. StartsClean(q) /\ Follows(q) /\ Copies(q) /\ Names(q)
    BY DEF Inv, Right
  <2>2. CASE local[q].step \notin Staging
    <3>1. local'[q] = local[q]
      BY <1>6, <2>2
    <3> QED BY <2>1, <2>2, <3>1 DEF Right, StartsClean, Follows, Copies, Names,
                                Faithful, Staging
  <2>3. CASE local[q].step \in Staging
    <3>1. /\ local'[q].step = local[q].step /\ local'[q].closure = local[q].closure
          /\ local'[q].pending = local[q].pending /\ local'[q].left = local[q].left
          /\ local'[q].edited = local[q].edited \cup {kind}
      BY <1>6, <2>3
    <3>2. local'[q].step \in {"follow", "copy"}
      BY <2>3, <3>1 DEF Staging
    <3>3. Faithful(q)' => Faithful(q) /\ SameManifests(workspace, workspace')
      BY <1>5, <3>1 DEF Faithful
    <3>4. ASSUME Faithful(q)'
          PROVE  Followed(workspace') = Followed(workspace)
      BY <3>3, <3>4, ClosuresByManifests
    <3>5. Follows(q)'
      <4> SUFFICES ASSUME Faithful(q)'
                   PROVE  /\ Guest \subseteq local[q].closure \cup local[q].pending
                          /\ local[q].closure \cup local[q].pending
                               \subseteq Followed(workspace')
                          /\ \A d \in local[q].closure :
                               /\ workspace'[d] # Absent
                               /\ workspace'[d].deps
                                    \subseteq local[q].closure \cup local[q].pending
        BY <3>1 DEF Follows
      <4>1. /\ Guest \subseteq local[q].closure \cup local[q].pending
            /\ local[q].closure \cup local[q].pending \subseteq Followed(workspace)
            /\ \A d \in local[q].closure :
                 /\ workspace[d] # Absent
                 /\ workspace[d].deps \subseteq local[q].closure \cup local[q].pending
        BY <2>1, <3>1, <3>2, <3>3 DEF Follows
      <4>2. local[q].closure \subseteq Crate
        BY LocalIs DEF Inv
      <4> QED BY <3>3, <3>4, <4>1, <4>2 DEF SameManifests, SameManifest
    <3>6. Copies(q)'
      <4> SUFFICES ASSUME local[q].step = "copy" PROVE Copies(q)'
        BY <3>1 DEF Copies
      <4>1. /\ local[q].pending = {} /\ staging[q] \in Context
            /\ \A d \in local[q].left : staging[q][d] = Absent
            /\ Faithful(q) => \A d \in Crate \ local[q].left :
                                SameManifest(staging[q][d], workspace[d])
        BY <2>1 DEF Copies
      <4>2. local'[q].edited # {}
        BY <3>1
      <4>3. ASSUME Faithful(q)', NEW d \in Crate \ local[q].left
            PROVE  SameManifest(staging[q][d], workspace'[d])
        BY <3>3, <4>1, <4>3 DEF SameManifests, SameManifest
      <4> QED BY <1>2, <3>1, <4>1, <4>2, <4>3 DEF Copies
    <3> QED BY <3>2, <3>5, <3>6 DEF Right, StartsClean, Names, Named_
  <2> QED BY <2>2, <2>3
<1> QED BY <1>7, <1>8, <1>9 DEF Inv

-----------------------------------------------------------------------------
LEMMA InitInv == Init => Inv
<1> SUFFICES ASSUME Init PROVE Inv
  OBVIOUS
<1>1. TypeOK
  BY Constants, NowhereType DEF Init, TypeOK
<1>2. ASSUME NEW p \in Process PROVE Right(p)
  <2>1. local[p] = Nowhere
    BY DEF Init
  <2> QED BY <2>1 DEF Right, StartsClean, Follows, Copies, Names, Named_, Nowhere
<1> QED BY <1>1, <1>2 DEF Init, Inv, SettledAreNamed, ImagesAreBuilt

LEMMA InvStays == Inv /\ [Next]_vars => Inv'
<1> SUFFICES ASSUME Inv, [Next]_vars PROVE Inv'
  OBVIOUS
<1>1. ASSUME NEW p \in Process, Invoke(p) PROVE Inv'
  <2>1. CASE Stage(p)
    BY <2>1, StageKeeps
  <2>2. CASE Follow(p)
    BY <2>2, FollowKeeps
  <2>3. CASE Clear(p)
    BY <2>3, ClearKeeps
  <2>4. CASE Copy(p)
    BY <2>4, CopyKeeps
  <2>5. CASE Settle(p)
    BY <2>5, SettleKeeps
  <2>6. CASE Discard(p)
    BY <2>6, DiscardKeeps
  <2>7. CASE LookUp(p)
    BY <2>7, LookUpKeeps
  <2>8. CASE Build(p)
    BY <2>8, BuildKeeps
  <2>9. CASE Run(p) \/ Leave(p)
    BY <2>9, EndKeeps DEF Run, Leave, Sources
  <2> QED BY <1>1, <2>1, <2>2, <2>3, <2>4, <2>5, <2>6, <2>7, <2>8, <2>9 DEF Invoke
<1>2. CASE UNCHANGED vars
  BY <1>2 DEF vars, Inv, TypeOK, Right, StartsClean, Follows, Copies, Names,
              Faithful, SettledAreNamed, ImagesAreBuilt
<1> QED BY <1>1, <1>2, PruneKeeps, EditKeeps DEF Next

LEMMA Invariant == Spec => []Inv
BY InitInv, InvStays, PTL DEF Spec

\* Every variable keeps its type; what is built is of sources that are there.
THEOREM TypeCorrect == Spec => []TypeOK
<1>1. Inv => TypeOK
  BY DEF Inv
<1> QED BY <1>1, Invariant, PTL

\* An invocation during whose staging no manifest changed starts its session
\* from an image of the crates it staged, and of exactly the sources it staged
\* of those its closure follows (digest.rs:6-10, guest.rs:69-109).
THEOREM RunsWhatItStaged == Spec => []BuiltAsStaged
<1>1. Inv => BuiltAsStaged
  <2> SUFFICES ASSUME Inv, NEW p \in Process, local[p].step = "run", Faithful(p),
                      NEW i \in images, i.tag = local[p].tag
               PROVE  /\ DOMAIN i.programs = Compiled(local[p].copied)
                      /\ \A c \in Followed(local[p].copied) :
                           i.programs[c] = local[p].copied[c]
    BY DEF BuiltAsStaged, Faithful
  <2>1. local[p].copied \in Context
        /\ local[p].tag = Digest(local[p].copied, Followed(local[p].copied))
    BY DEF Inv, Right, Names, Named_
  <2>2. PICK ctx \in Context, cl \in SUBSET Crate :
          i.tag = Digest(ctx, cl) /\ i.programs = Product(ctx)
    BY DEF Inv, ImagesAreBuilt
  <2> QED BY <2>1, <2>2, DigestTells
<1> QED BY <1>1, Invariant, PTL

\* In particular, where every crate that is compiled is followed, as in this
\* repository's own manifests, the image is what was staged, whole.
THEOREM RunsAllItStaged ==
  Spec => [](\A p \in Process :
              /\ local[p].step = "run" /\ "manifest" \notin local[p].edited
              /\ Compiled(local[p].copied) = Followed(local[p].copied)
              => \A i \in images :
                   i.tag = local[p].tag => i.programs = Product(local[p].copied))
<1> DEFINE P == \A p \in Process :
              /\ local[p].step = "run" /\ "manifest" \notin local[p].edited
              /\ Compiled(local[p].copied) = Followed(local[p].copied)
              => \A i \in images :
                   i.tag = local[p].tag => i.programs = Product(local[p].copied)
<1>1. Inv /\ BuiltAsStaged => P
  <2> SUFFICES ASSUME Inv, BuiltAsStaged, NEW p \in Process, local[p].step = "run",
                      "manifest" \notin local[p].edited,
                      Compiled(local[p].copied) = Followed(local[p].copied),
                      NEW i \in images, i.tag = local[p].tag
               PROVE  i.programs = Product(local[p].copied)
    OBVIOUS
  <2>1. /\ DOMAIN i.programs = Compiled(local[p].copied)
        /\ \A c \in Compiled(local[p].copied) : i.programs[c] = local[p].copied[c]
    BY DEF BuiltAsStaged
  <2>2. i.programs = [c \in DOMAIN i.programs |-> i.programs[c]]
    <3>1. i.programs \in Programs
      BY DEF Inv, TypeOK, Image
    <3> QED BY <3>1 DEF Programs
  <2> QED BY <2>1, <2>2 DEF Product
<1> QED BY <1>1, Invariant, RunsWhatItStaged, PTL

\* An invocation during whose staging nothing changed has staged the
\* workspace, and digested the sources of what its manifests lead to
\* (stage.rs:82-84, guest.rs:69-109).
THEOREM StagesWhatItFound == Spec => []StagedAsFound
<1>1. Inv => StagedAsFound
  <2> SUFFICES ASSUME Inv, NEW p \in Process, IsCopied(p), local[p].edited = {}
               PROVE  /\ staging[p] = workspace
                      /\ Named(p) = Digest(workspace, Followed(workspace))
    BY DEF StagedAsFound
  <2>1. /\ staging[p] \in Context /\ workspace \in Context
        /\ \A c \in Crate : staging[p][c] = workspace[c]
    BY DEF IsCopied, Inv, TypeOK, Right, Copies
  <2>2. staging[p] = workspace
    BY <2>1 DEF Context
  <2>3. local[p].closure = Followed(workspace)
    BY ClosureIsFollowed DEF IsCopied, Faithful
  <2> QED BY <2>2, <2>3 DEF Named
<1> QED BY <1>1, Invariant, PTL

\* A directory that has its name is never changed or removed by staging
\* (stage.rs:61-66).
THEOREM SettledStays == Spec => SettledNeverChanges
<1>1. [Next]_vars => [settled \subseteq settled']_vars
  <2> SUFFICES ASSUME Next PROVE settled \subseteq settled'
    OBVIOUS
  <2>1. ASSUME NEW p \in Process, Invoke(p) PROVE settled \subseteq settled'
    <3>1. CASE Settle(p)
      BY <3>1 DEF Settle
    <3>2. CASE ~ Settle(p)
      BY <2>1, <3>2 DEF Invoke, Stage, Follow, Clear, Copy, Discard, LookUp, Build,
                        Run, Leave
    <3> QED BY <3>1, <3>2
  <2>2. ASSUME Prune \/ \E c \in Crate : Edit(c) PROVE settled \subseteq settled'
    BY <2>2 DEF Prune, Edit
  <2> QED BY <2>1, <2>2 DEF Next
<1> QED BY <1>1, PTL DEF Spec, SettledNeverChanges
=============================================================================
