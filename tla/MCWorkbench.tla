---------------------------- MODULE MCWorkbench -----------------------------
(***************************************************************************)
(* One run for what a Run works with: the gates of a research project, the  *)
(* names of skills, their installation, a skill in the turns of a runner,   *)
(* the settings files, the changes a Run reports.  They share no state; a   *)
(* behaviour is one of the part that "part" names, the others stay as they  *)
(* start.                                                                   *)
(***************************************************************************)
EXTENDS ProjectGates, SkillResolution, SkillTurns, SkillPanel, Settings, NetChanges

CONSTANTS p1, p2

VARIABLE part

----------------------------------------------------------------------------
(* A project with a structure and a guide, and one that reports a claim. *)

Chk(s, b) == [status |-> s, short |-> b]
V(s, c, i, w) == [status |-> s, checks |-> c, issues |-> i, fix |-> TRUE, waiver |-> w, scoped |-> TRUE]
R(i, o) == [id |-> i, out |-> o, sound |-> TRUE]

MCVerdicts == [structure |->
                 {V("pass", {Chk("pass", FALSE)}, FALSE, FALSE),
                  V("pass", {Chk("waived", TRUE)}, FALSE, FALSE),
                  V("waived", {Chk("waived", TRUE)}, TRUE, TRUE),
                  V("block", {Chk("block", TRUE)}, TRUE, FALSE)},
               report |-> {V("pass", {Chk("pass", FALSE)}, FALSE, FALSE)}]
MCPayloads == {<<R(0, "o1"), R(0, "o2")>>}
MCProjects == {{"structure", "guide"}, {"claim", "proposal", "report"}}

----------------------------------------------------------------------------
(* Four directories of two names; one of them is found in two places. *)

S(sc, p, d, di) == [scope |-> sc, place |-> p, distance |-> d, dialect |-> di]

MCFoundIn == [a |-> {S("project", "app", 1, "electromind"), S("builtin", "none", 0, "builtin")},
              b |-> {S("project", "lib", 0, "agents")}, c |-> {S("project", "lib", 0, "agents")},
              d |-> {S("user", "none", 0, "claude")}]
MCSkillName == [a |-> "n", b |-> "n", c |-> "n", d |-> "o"]
MCNeeds == [a |-> {}, b |-> {"ssh"}, c |-> {}, d |-> {}]
MCSizes == [a |-> <<2, 5>>, b |-> <<2, 1>>, c |-> <<3, 5>>, d |-> <<2, 6>>]
MCDirOrder == <<"c", "b", "a", "d">>

----------------------------------------------------------------------------
(* A name that is free, written by hand, or installed from a directory and trusted. *)

MCStock == {NoEntry, ByHand("c1"), [from |-> "d", body |-> "c1", trusted |-> TRUE]}
F(o, t, f) == [own |-> o, trust |-> t, force |-> f]
MCFlags == {F(FALSE, FALSE, FALSE), F(FALSE, TRUE, FALSE), F(FALSE, FALSE, TRUE), F(TRUE, TRUE, FALSE)}

----------------------------------------------------------------------------
(* Two processes, the commands they give, and a project that asks for auto. *)

E(k, f, v) == [kind |-> k, file |-> "user", field |-> f, value |-> v]
Q(m, d, n, h) == [model |-> m, mode |-> d, need |-> n, phase |-> h]

MCOptions == {[model |-> Unset, perm |-> Unset], [model |-> "best", perm |-> Unset]}
MCEdits == {E("set", "perm", "bad"), E("provider", "key", "k2"),
            E("trust", "key", "here"), E("untrust", "key", "here")}
MCProject == [key |-> Unset, model |-> "pro", perm |-> "auto"]
MCOlds == {NoFile, [key |-> "k1", model |-> Unset, perm |-> Unset]}
MCRequests == {Q(Unset, "agent", None, "plan"),
               Q("auto", "agent", "best", "plan"), Q("plan-execute", "plan", None, "execute"),
               Q("best", "ask", None, "plan")}
MCOffers == {{"flash"}}

----------------------------------------------------------------------------
MCInit ==
    /\ part \in {"gates", "names", "turns", "panel", "settings", "changes"}
    /\ GateInit /\ ResolutionInit /\ TurnInit /\ PanelInit /\ SettingsInit /\ ChangesInit
    /\ part /= "gates" => arts = CHOOSE s \in Projects : TRUE
    /\ part /= "gates" => payload = CHOOSE s \in Payloads : TRUE
    /\ disk = IF part = "names" THEN SkillDirs ELSE {}
    /\ part /= "turns" => ~lazily /\ skillFile = Gone /\ ~allowed /\ sysRow = NoRow
    /\ part /= "panel" => \A n \in Shelves : shelf[n] = NoEntry
    /\ part /= "settings" => file["old"] = NoFile
    /\ part /= "changes" => \A p \in Paths : files[p] = Absent

\* Every part stays as it is, but the one that is named.
OthersStay(p) ==
    /\ p /= "gates" => UNCHANGED gateVars
    /\ p /= "names" => UNCHANGED resolutionVars
    /\ p /= "turns" => UNCHANGED turnVars
    /\ p /= "panel" => UNCHANGED panelVars
    /\ p /= "settings" => UNCHANGED settingsVars
    /\ p /= "changes" => UNCHANGED changeVars

MCNext ==
    /\ part' = part
    /\ \/ part = "gates" /\ GateNext
       \/ part = "names" /\ ResolutionNext
       \/ part = "turns" /\ TurnNext
       \/ part = "panel" /\ PanelNext
       \/ part = "settings" /\ SettingsNext
       \/ part = "changes" /\ ChangesNext
    /\ OthersStay(part)

MCSpec ==
    MCInit /\ [][MCNext]_<<part, gateVars, resolutionVars, turnVars, panelVars, settingsVars, changeVars>>

\* What a name stands for, what the turns of a runner make of the skill behind it, and what
\* two processes that install skills leave under it: see each part.
ShelfSound ==
    /\ part = "names" => NamesSound
    /\ part = "turns" => TurnSound
    /\ part = "panel" => PanelSound
=============================================================================
