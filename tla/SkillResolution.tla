--------------------------- MODULE SkillResolution ---------------------------
(***************************************************************************)
(* Which skill a name means (electromind/skills: scopes.py, candidate.py,  *)
(* catalog.py and the name lookup of activation.py).  The directories on   *)
(* the disk become candidates, each under its best source and with an id   *)
(* of its own; settings change their state and pin names; three lookups    *)
(* answer the user, the model and the activation tools, and a budgeted     *)
(* list tells the model what there is.  A catalog can be saved and loaded. *)
(***************************************************************************)
EXTENDS Integers, FiniteSets, SequencesExt

CONSTANTS
    SkillDirs,   \* skill directories (physical files)
    DirOrder,    \* the order a scan of the disk meets them in
    SkillName,   \* the name each of them declares
    FoundIn,     \* the sources each of them is found through
    NeedsOf,     \* the capabilities its frontmatter asks for; none is no restriction
    SizeOf,      \* length of its id, name and label, and of its description
    Room,        \* budget of the list the model is shown
    ShareMin,    \* characters a description is never cut below
    MaxEdits     \* bound: changes of the disk and of the settings

States == {"on", "name_only", "manual_only", "off"}
Capabilities == UNION {NeedsOf[d] : d \in SkillDirs}
Scopes == [admin |-> 0, user |-> 1, add_dir |-> 2, project |-> 3, builtin |-> 4]
Dialects == [electromind |-> 0, agents |-> 1, claude |-> 2, builtin |-> 3]
SkillNames == {SkillName[d] : d \in SkillDirs}

\* A source: its scope, the name of the project directory, its distance and its dialect.
Source == UNION {FoundIn[d] : d \in SkillDirs}

ASSUME ResolutionConstants ==
    /\ IsFiniteSet(SkillDirs) /\ ToSet(DirOrder) = SkillDirs /\ IsInjective(DirOrder)
    /\ \A d \in SkillDirs : FoundIn[d] # {} /\ IsFiniteSet(FoundIn[d])
    /\ \A s \in Source : s.distance \in 0..9
    /\ Room \in Nat /\ ShareMin \in Nat /\ MaxEdits \in Nat

VARIABLES
    disk,      \* the directories that are there
    barred,    \* those whose frontmatter keeps the model away
    trusts,    \* whether the workspace is trusted
    doubted,   \* installed skills the user has not granted trust
    states,    \* [skills.overrides]: the state of some ids
    pins,      \* [skills.resolution]: the id of some names
    cat,       \* the catalog of the current generation and its pins
    origin,    \* the catalog that a loaded one was saved from, or the current one
    edits

resolutionVars == <<disk, barred, trusts, doubted, states, pins, cat, origin, edits>>

-----------------------------------------------------------------------------
(* From directories to candidates *)

SourceRank(s) == <<Scopes[s.scope], s.distance, Dialects[s.dialect]>>

Before(p, q) ==
    \/ p[1] < q[1]
    \/ p[1] = q[1] /\ p[2] < q[2]
    \/ p[1] = q[1] /\ p[2] = q[2] /\ p[3] < q[3]

\* The same file found through several roots is one candidate of its best source.
BestSource(d) ==
    CHOOSE s \in FoundIn[d] : \A t \in FoundIn[d] : ~Before(SourceRank(t), SourceRank(s))

Position(d) == CHOOSE i \in DOMAIN DirOrder : DirOrder[i] = d

Ordered(dirs) ==
    SetToSortSeq(dirs, LAMBDA d, e :
        LET p == SourceRank(BestSource(d))
            q == SourceRank(BestSource(e))
        IN Before(p, q) \/ (p = q /\ Position(d) < Position(e)))

\* make_skill_id; what tells two skills of one id apart is added later.
BareId(d) == LET s == BestSource(d)
             IN [scope |-> s.scope, place |-> s.place, dialect |-> s.dialect,
                 name |-> SkillName[d], locator |-> "none"]
Ids == {BareId(d) : d \in SkillDirs}
           \cup {[BareId(d) EXCEPT !.locator = d] : d \in SkillDirs}

IdAt(dirs, i) ==
    IF \E j \in 1..i - 1 : BareId(dirs[j]) = BareId(dirs[i])
    THEN [BareId(dirs[i]) EXCEPT !.locator = dirs[i]]
    ELSE BareId(dirs[i])

\* A project's skill needs a trusted workspace, one that was installed a grant as well.
TrustedDir(d) == LET scope == BestSource(d).scope
                 IN /\ scope = "project" => trusts
                    /\ scope \in {"user", "project"} => d \notin doubted

Candidate(dirs, i) ==
    [id |-> IdAt(dirs, i), dir |-> dirs[i], name |-> SkillName[dirs[i]],
     source |-> BestSource(dirs[i]), trusted |-> TrustedDir(dirs[i]),
     barred |-> dirs[i] \in barred, needs |-> NeedsOf[dirs[i]], state |-> "on"]

\* apply_overrides: a state for an id, whichever skill has that id now.
Overridden(c) == IF c.id \in DOMAIN states THEN [c EXCEPT !.state = states[c.id]] ELSE c

Catalog ==
    LET dirs == Ordered(disk)
    IN [list |-> [i \in DOMAIN dirs |-> Overridden(Candidate(dirs, i))], pins |-> pins]

-----------------------------------------------------------------------------
(* Looking a name up in a catalog k *)

NoSkill == [dir |-> "none"]              \* refused, unknown or ambiguous

Fits(c, caps) == c.needs = {} \/ caps = {} \/ caps \cap c.needs # {}
ModelMay(c)   == c.state \in {"on", "name_only"} /\ c.trusted /\ ~c.barred
UserMay(c)    == c.state # "off" /\ c.trusted
WithId(k, id) == SelectSeq(k.list, LAMBDA c : c.id = id)
PinOf(k, n)   == IF n \in DOMAIN k.pins THEN WithId(k, k.pins[n]) ELSE <<>>

\* resolve_qualified.
Qualified(k, id, caps) ==
    LET found == WithId(k, id)
    IN IF found # <<>> /\ UserMay(Last(found)) /\ Fits(Last(found), caps)
       THEN Last(found) ELSE NoSkill

\* resolve_unqualified: a pin that matches a candidate decides alone.
Unqualified(k, n, caps) ==
    LET pin    == PinOf(k, n)
        usable == SelectSeq(k.list, LAMBDA c : c.name = n /\ UserMay(c) /\ Fits(c, caps))
    IN IF pin # <<>>
       THEN IF UserMay(Last(pin)) /\ Fits(Last(pin), caps) THEN Last(pin) ELSE NoSkill
       ELSE IF Len(usable) = 1 THEN usable[1] ELSE NoSkill

Visible(k, n, caps) == {c \in ToSet(k.list) : c.name = n /\ ModelMay(c) /\ Fits(c, caps)}
TopTier(C) == {c \in C : \A d \in C : ~Before(SourceRank(d.source), SourceRank(c.source))}

\* resolve_implicit: a pin the model may not use is passed over.
Implicit(k, n, caps) ==
    LET pin == PinOf(k, n)
        top == TopTier(Visible(k, n, caps))
    IN IF pin # <<>> /\ ModelMay(Last(pin)) /\ Fits(Last(pin), caps) THEN Last(pin)
       ELSE IF Cardinality(top) = 1 THEN CHOOSE c \in top : TRUE ELSE NoSkill

\* The activation tools: activate_skill with an id, and a name looked up as the user's is.
ActivatedById(k, id, caps) == Qualified(k, id, caps)
ActivatedByName(k, n, caps) ==
    LET found == Unqualified(k, n, caps)
    IN IF found = NoSkill THEN NoSkill ELSE ActivatedById(k, found.id, caps)

\* build_model_catalog: the first candidate of each name the model may see, its description
\* cut to a share of the room, and the last entries left out.
ModelList(k) ==
    LET first == SelectSeq([i \in DOMAIN k.list |-> <<i, k.list[i]>>], LAMBDA e :
                     /\ ModelMay(e[2])
                     /\ ~\E j \in 1..e[1] - 1 : k.list[j].name = e[2].name /\ ModelMay(k.list[j]))
        text(c)  == IF c.state = "name_only" THEN 0 ELSE SizeOf[c.dir][2]
        size(c, cut) == SizeOf[c.dir][1] + IF cut > 0 /\ text(c) > cut THEN cut ELSE text(c)
        total(s, cut) == FoldLeft(LAMBDA a, e : a + size(e[2], cut), 0, s)
        share    == IF Len(first) = 0 \/ total(first, 0) <= Room THEN 0
                    ELSE IF Room \div Len(first) > ShareMin THEN Room \div Len(first) ELSE ShareMin
        kept     == CHOOSE n \in 0..Len(first) :
                        /\ n = 0 \/ total(SubSeq(first, 1, n), share) <= Room
                        /\ \A m \in n + 1..Len(first) : total(SubSeq(first, 1, m), share) > Room
    IN [entries |-> [i \in 1..kept |-> first[i][2]],
        left    |-> [i \in 1..Len(first) - kept |-> first[i + kept][2]],
        size    |-> total(SubSeq(first, 1, kept), share)]

\* registry_from_candidates, for older callers: first the projects' skills, whatever their
\* state and trust.
LegacyRank == [project |-> 0, add_dir |-> 1, user |-> 2, admin |-> 3, builtin |-> 4]
Registered(k, n) ==
    LET mine == {i \in DOMAIN k.list : k.list[i].name = n}
        rank(i) == LegacyRank[k.list[i].source.scope]
    IN IF mine = {} THEN NoSkill
       ELSE k.list[CHOOSE i \in mine : \A j \in mine : rank(i) < rank(j) \/ (rank(i) = rank(j) /\ i <= j)]

\* save_catalog_snapshot and load_catalog_snapshot: the distance of a source is not saved.
Restored(k) ==
    [list |-> [i \in DOMAIN k.list |-> [k.list[i] EXCEPT !.source.distance = 0]], pins |-> k.pins]

-----------------------------------------------------------------------------
ResolutionInit ==
    /\ disk \in SUBSET SkillDirs /\ barred = {} /\ trusts = TRUE /\ doubted = {}
    /\ states = <<>> /\ pins = <<>> /\ edits = 0
    /\ cat = Catalog /\ origin = cat

Edit == edits < MaxEdits /\ edits' = edits + 1

\* A directory comes or goes, keeps the model away, or is installed without a grant.
DiskChanges(d) ==
    /\ Edit
    /\ \/ disk' = (IF d \in disk THEN disk \ {d} ELSE disk \cup {d}) /\ UNCHANGED <<barred, doubted>>
       \/ barred' = barred \cup {d} /\ UNCHANGED <<disk, doubted>>
       \/ doubted' = doubted \cup {d} /\ UNCHANGED <<disk, barred>>
    /\ UNCHANGED <<trusts, states, pins, cat, origin>>

TrustChanges ==
    /\ Edit /\ trusts' = ~trusts
    /\ UNCHANGED <<disk, barred, doubted, states, pins, cat, origin>>

\* The settings name an id that the catalog has.
SettingChanges(c) ==
    /\ Edit
    /\ \/ \E s \in States \ {"on"} :
             states' = [id \in DOMAIN states \cup {c.id} |-> IF id = c.id THEN s ELSE states[id]]
          /\ UNCHANGED pins
       \/ pins' = [n \in DOMAIN pins \cup {c.name} |-> IF n = c.name THEN c.id ELSE pins[n]]
          /\ UNCHANGED states
    /\ UNCHANGED <<disk, barred, trusts, doubted, cat, origin>>

\* A new generation.
Rebuild ==
    /\ LET new == Catalog IN new # cat /\ cat' = new /\ origin' = new
    /\ UNCHANGED <<disk, barred, trusts, doubted, states, pins, edits>>

\* The catalog is replaced by the one that was saved.
SaveAndLoad ==
    /\ origin = cat /\ Restored(cat) # cat
    /\ cat' = Restored(cat)
    /\ UNCHANGED <<disk, barred, trusts, doubted, states, pins, origin, edits>>

ResolutionNext ==
    \/ \E d \in SkillDirs : DiskChanges(d)
    \/ \E c \in ToSet(cat.list) : SettingChanges(c)
    \/ TrustChanges \/ Rebuild \/ SaveAndLoad

ResolutionSpec == ResolutionInit /\ [][ResolutionNext]_resolutionVars

-----------------------------------------------------------------------------
Queries == SkillNames \X {caps \in SUBSET Capabilities : Cardinality(caps) <= 1}
Loaded == origin # cat

\* No skill is lost or counted twice on its way into the catalog, no two share an id, and an
\* id picks out the same skill through every lookup.
EveryCandidateNamed ==
    /\ \A c, d \in ToSet(cat.list) : c.id = d.id => c = d
    /\ \A i, j \in DOMAIN cat.list : i # j => cat.list[i].dir # cat.list[j].dir
    /\ \A q \in Queries, id \in {c.id : c \in ToSet(cat.list)} :
          LET c == Qualified(cat, id, q[2]) IN c # NoSkill => c.id = id

\* No lookup gives out a skill that is switched off, untrusted or unfit for the Run; the
\* model's own lookup none it may not see, and a nearer project's skill before a farther one's.
NothingUnfit ==
    \A q \in Queries :
        LET u == Unqualified(cat, q[1], q[2])
            m == Implicit(cat, q[1], q[2])
        IN /\ u # NoSkill => UserMay(u) /\ Fits(u, q[2])
           /\ m # NoSkill => ModelMay(m) /\ Fits(m, q[2])
           /\ m # NoSkill /\ q[1] \notin DOMAIN cat.pins /\ ~Loaded =>
                 \A c \in Visible(cat, q[1], q[2]) \ {m} :
                    \/ Scopes[c.source.scope] > Scopes[m.source.scope]
                    \/ c.source.scope = m.source.scope /\
                          (\/ c.source.distance > m.source.distance
                           \/ /\ c.source.distance = m.source.distance
                              /\ Dialects[c.source.dialect] > Dialects[m.source.dialect])

\* What the model's lookup answers does not depend on skills of a lower rank.
LowerRankIsIrrelevant ==
    \A q \in Queries :
        LET m == Implicit(cat, q[1], q[2])
            upTo == SelectSeq(cat.list, LAMBDA c :
                        m = NoSkill \/ ~Before(SourceRank(m.source), SourceRank(c.source)))
        IN PinOf(cat, q[1]) = <<>> => Implicit([cat EXCEPT !.list = upTo], q[1], q[2]) = m

\* The list shown to the model fits its room; what is left out is of no higher rank than what
\* is in it; and a name in it without a pin leads the model's lookup to that entry or, among
\* equals, to none.
ListTellsTheTruth ==
    LET shown == ModelList(cat)
    IN /\ shown.size <= Room \/ shown.entries = <<>>
       /\ ~Loaded => \A e \in ToSet(shown.entries), f \in ToSet(shown.left) :
             ~Before(SourceRank(f.source), SourceRank(e.source))
       /\ \A e \in ToSet(shown.entries) : ~Loaded /\ PinOf(cat, e.name) = <<>> =>
             Implicit(cat, e.name, {}) = e
             \/ (Implicit(cat, e.name, {}) = NoSkill /\ e \in TopTier(Visible(cat, e.name, {})))

Same(a, b) == (a = NoSkill <=> b = NoSkill) /\ (a # NoSkill /\ b # NoSkill => a.dir = b.dir)

\* A loaded catalog answers the user, the activation tools and the older callers as the
\* saved one did.
LoadedAnswersAlike ==
    /\ \A n \in SkillNames : Same(Registered(cat, n), Registered(origin, n))
    /\ \A q \in Queries : Same(ActivatedByName(cat, q[1], q[2]), ActivatedByName(origin, q[1], q[2]))
    /\ \A c \in ToSet(cat.list), q \in Queries :
          Same(ActivatedById(cat, c.id, q[2]), ActivatedById(origin, c.id, q[2]))

NamesSound == /\ EveryCandidateNamed /\ NothingUnfit /\ LowerRankIsIrrelevant
              /\ ListTellsTheTruth /\ LoadedAnswersAlike

\* Not so (save_catalog_snapshot: "a restored catalog behaves identically to the original"):
\* without the distances a farther project's skill may come before a nearer one's.
LoadedIsIdentical == \A q \in Queries :
    Same(Implicit(cat, q[1], q[2]), Implicit(origin, q[1], q[2]))

\* Not so: use_skill looks a name up as the user does, so the model can activate a skill that
\* keeps the model away, and cannot activate one it is shown when a lower one shares its name.
ModelOpensWhatItSees == \A q \in Queries :
    Same(ActivatedByName(cat, q[1], q[2]), Implicit(cat, q[1], q[2]))

\* Not so: older callers are given skills that are off or untrusted, and a project's before
\* the user's.
RegistryAgrees == \A n \in SkillNames : Same(Registered(cat, n), Unqualified(cat, n, {}))

\* Not so: the first of two skills of one id goes, and the other inherits its id, its state
\* and its pin.
IdsStay == [][\A c \in ToSet(cat.list), d \in ToSet(cat'.list) : c.id = d.id => c.dir = d.dir]_resolutionVars
=============================================================================
