------------------------------ MODULE MCAgents ------------------------------
(***************************************************************************)
(* One run for the parts around an agent that do not share state with each *)
(* other in the model: a behaviour is one of the part that "part" names,   *)
(* the others stay as they start.                                          *)
(***************************************************************************)
EXTENDS SkillRuns, SkillMounts, ContextWindow, Frames, TrainChain, SandboxGuard, TLC

VARIABLE part

\* What skills say and hold is interchangeable.
MCSymmetry == Permutations(Bodies) \cup Permutations(Resources)

\* The promises of the frames, the chain and the sandbox hold of their modules as they stand: in
\* the behaviours of another part all three are where they start.

\* What one turn of an agent relies on, each promise in the behaviours of its own part: the
\* skill that is installed and seen, the skill that is mounted, the request the model is sent.
TurnSound ==
    /\ part = "skills" => SkillRunTypeOK /\ SkillKept /\ SkillsCurrent
    /\ part = "mounts" => MountTypeOK /\ MountsWhole
    /\ part = "context" => ContextSound

MCInit ==
    /\ part \in {"skills", "mounts", "context", "frames", "chain", "sandbox"}
    /\ SkillRunInit /\ MountInit /\ ContextInit /\ FrameInit /\ ChainInit /\ SandboxInit
    /\ part # "skills" => dirs["target"] = NoDir /\ trustedHere
    /\ part # "sandbox" => kind = "local" /\ mode = "agent"
    /\ part # "mounts" => ~remote
    /\ part # "context" => prompt = CHOOSE n \in Sizes : TRUE

MCNext ==
    /\ part' = part
    /\ \/ part = "skills" /\ SkillRunNext
          /\ UNCHANGED <<mountVars, contextVars, frameVars, chainVars, sandboxVars>>
       \/ part = "mounts" /\ MountNext
          /\ UNCHANGED <<installVars, skillRunVars, contextVars, frameVars, chainVars, sandboxVars>>
       \/ part = "context" /\ ContextNext
          /\ UNCHANGED <<installVars, skillRunVars, mountVars, frameVars, chainVars, sandboxVars>>
       \/ part = "frames" /\ FrameNext
          /\ UNCHANGED <<installVars, skillRunVars, mountVars, contextVars, chainVars, sandboxVars>>
       \/ part = "chain" /\ ChainNext
          /\ UNCHANGED <<installVars, skillRunVars, mountVars, contextVars, frameVars, sandboxVars>>
       \/ part = "sandbox" /\ SandboxNext
          /\ UNCHANGED <<installVars, skillRunVars, mountVars, contextVars, frameVars, chainVars>>

MCSpec ==
    MCInit
    /\ [][MCNext]_<<part, installVars, skillRunVars, mountVars, contextVars, frameVars, chainVars,
              sandboxVars>>
=============================================================================
