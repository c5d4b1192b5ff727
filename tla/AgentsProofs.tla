---------------------------- MODULE AgentsProofs ----------------------------
(***************************************************************************)
(* What surrounds one agent, for any calls, faults, edits and kills: a     *)
(* sandbox whose environments die under the calls, the DeepMD chain that   *)
(* is started again in the directory of an earlier run, the activations of *)
(* skills that share a private store and a sandbox, the frames of a Run    *)
(* and its sub-agents, and the skills on disk, in the catalogue and in the *)
(* view of a turn.                                                         *)
(***************************************************************************)
EXTENDS MCAgents, FiniteSetTheorems, SequenceTheorems, WellFoundedInduction, TLAPS

-----------------------------------------------------------------------------
(* The sandbox *)

IsBusy(c) == call[c].at \notin {"idle", "over"}

\* Environments are numbered as they are made, and the handle names one of them.
EnvsNumbered == \E n \in 1..MaxEnvs : DOMAIN envs = 1..n /\ handle \in 0..n

\* An operation takes effect when its call ends, or later if it strays.
Settled(c) ==
    /\ call[c].at /= "over" => landed[c] = 0 /\ answer[c] = NoAnswer
    /\ landed[c] <= 1
    /\ answer[c] = "ok" => landed[c] = 1 /\ c \in audited
    /\ answer[c] \in {"refused", "dead"} => landed[c] = 0
    /\ call[c].at = "idle" => call[c].read = {}
    /\ call[c].at = "emptied" => c \notin Commands
    /\ call[c].at \in {"running", "emptied"} /\ c \in Replaces => call[c].read /= {}

CallsSettled == \A c \in SandboxCalls : Settled(c)

\* What strays belongs to a call that was given up before it took effect.
Strays ==
    /\ \A s \in stray : /\ answer[s.call] \in {"timed_out", "abandoned", "error"} /\ landed[s.call] = 0
                        /\ s.call \notin Commands => answer[s.call] \in {"abandoned", "error"}
    /\ \A s, u \in stray : s.call = u.call => s = u

\* Until calls meet, one is at work, alone, and the sandbox is open.
OneAtATime ==
    ~met => /\ \A c, d \in SandboxCalls : IsBusy(c) /\ IsBusy(d) => c = d
            /\ \A c \in SandboxCalls : IsBusy(c) => isOpen /\ stray = {}

\* Until calls meet, no environment is up but the one the handle names and those that were left.
OneEnvironment ==
    ~met /\ kind /= "local" =>
       /\ \A e \in DOMAIN envs : e /= handle => envs[e] = "gone" \/ e \in left
       /\ \A c \in SandboxCalls : /\ call[c].at = "closed" => call[c].env = handle
                                  /\ call[c].at \in {"closed", "start"} /\ handle /= 0 =>
                                        envs[handle] = "gone" \/ handle \in left
       /\ ~isOpen => handle = 0

Done == {c \in SandboxCalls : answer[c] = "ok"}

\* The conditions of TextKept that, once broken, stay broken.
Calm == /\ ~met
        /\ \A c \in Writes : call[c].at = "idle"
        /\ \A d \in Replaces : answer[d] \notin {"error", "abandoned"}

\* What a str_replace has read holds every change that is done.
TextInHand ==
    Calm => \A c \in Replaces : IsBusy(c) /\ call[c].read /= {} => Done \subseteq call[c].read

TextOnFile ==
    Calm /\ (\A d \in Replaces : call[d].at /= "emptied") => Done \subseteq file

CallsInv == CallsSettled /\ Strays /\ OneAtATime /\ TextInHand /\ TextOnFile

GuardInv == SandboxTypeOK /\ EnvsNumbered /\ OneEnvironment /\ CallsInv

LEMMA SandboxFacts ==
    ASSUME GuardInv
    PROVE  /\ RestartMax \in Nat /\ MaxEnvs \in Nat \ {0} /\ MaxFaults \in Nat
           /\ \E n \in 1..MaxEnvs : DOMAIN envs = 1..n /\ handle \in 0..n /\ Made = n
<1>1. PICK n \in 1..MaxEnvs : DOMAIN envs = 1..n /\ handle \in 0..n
  BY DEF GuardInv, EnvsNumbered
<1>2. Made = n
  BY <1>1, SandboxConstants, FS_Interval DEF Made
<1> QED
  BY <1>1, <1>2, SandboxConstants

\* One call moves on, from anywhere but its end.
CallStep(c) ==
    /\ call' \in [SandboxCalls -> Standing] /\ answer' \in [SandboxCalls -> CallReplies]
    /\ \A d \in SandboxCalls \ {c} : call'[d] = call[d] /\ answer'[d] = answer[d]
    /\ call[c].at /= "over" /\ call'[c].at /= "idle"
    /\ call'[c].at = "over" \/ answer'[c] = answer[c]

CallsTyped == call \in [SandboxCalls -> Standing] /\ answer \in [SandboxCalls -> CallReplies]

LEMMA MovesStep ==
    ASSUME CallsTyped, NEW c \in SandboxCalls, NEW w \in CallPlaces \ {"idle"}, Moves(c, w), call[c].at /= "over"
    PROVE  /\ CallStep(c) /\ answer' = answer
           /\ call'[c].at = w /\ call'[c].env = call[c].env /\ call'[c].read = call[c].read
BY DEF CallsTyped, Moves, CallStep, Standing

LEMMA OverStep ==
    ASSUME CallsTyped, NEW c \in SandboxCalls, NEW w \in CallReplies, Over(c, w), call[c].at /= "over"
    PROVE  CallStep(c) /\ call'[c].at = "over" /\ call'[c].read = {} /\ answer'[c] = w
<1>1. [Resting EXCEPT !.at = "over"] = [at |-> "over", tries |-> 0, env |-> 0, read |-> {}]
  BY DEF Resting
<1>2. [at |-> "over", tries |-> 0, env |-> 0, read |-> {}] \in Standing
  BY SandboxConstants DEF Standing, CallPlaces, Texts
<1> QED
  BY <1>1, <1>2 DEF CallsTyped, Over, CallStep

LEMMA NextTryStep ==
    ASSUME CallsTyped, NEW c \in SandboxCalls, NextTry(c), call[c].at \notin {"over", "idle"}
    PROVE  /\ CallStep(c)
           /\ \/ call'[c].at = "close" /\ call'[c].env = call[c].env /\ call'[c].read = call[c].read /\ answer' = answer
              \/ call'[c].at = "over" /\ call'[c].read = {} /\ answer'[c] = "dead"
<1>1. CASE call[c].tries < RestartMax
  <2>1. call' = [call EXCEPT ![c].at = "close", ![c].tries = @ + 1] /\ answer' = answer
    BY <1>1 DEF NextTry
  <2>2. call[c].tries + 1 \in 0..RestartMax
    BY <1>1, SandboxConstants DEF CallsTyped, Standing
  <2> QED
    BY <2>1, <2>2 DEF CallsTyped, CallStep, Standing, CallPlaces
<1>2. CASE ~(call[c].tries < RestartMax)
  BY <1>2, OverStep DEF NextTry, CallReplies
<1> QED
  BY <1>1, <1>2

OnlyGrows == (met => met') /\ audited \subseteq audited'

LEMMA OthersSettled ==
    ASSUME NEW c \in SandboxCalls, CallStep(c), OnlyGrows, CallsSettled,
           \A d \in SandboxCalls \ {c} : landed'[d] = landed[d], Settled(c)'
    PROVE  CallsSettled'
<1> SUFFICES ASSUME NEW d \in SandboxCalls \ {c}
             PROVE  Settled(d)'
  BY DEF CallsSettled
<1>1. call'[d] = call[d] /\ answer'[d] = answer[d] /\ landed'[d] = landed[d] /\ Settled(d) /\ audited \subseteq audited'
  BY DEF CallStep, OnlyGrows, CallsSettled
<1> QED
  BY <1>1 DEF Settled

LEMMA NothingStraysNew ==
    ASSUME NEW c \in SandboxCalls, CallStep(c), CallsSettled, Strays, stray \subseteq Straggling,
           stray' = stray, \A d \in SandboxCalls \ {c} : landed'[d] = landed[d]
    PROVE  Strays'
<1>1. answer[c] = NoAnswer
  BY DEF CallStep, CallsSettled, Settled
<1>2. \A s \in stray : s.call \in SandboxCalls \ {c}
  BY <1>1 DEF Strays, NoAnswer, Straggling
<1>3. \A s \in stray : answer'[s.call] = answer[s.call] /\ landed'[s.call] = landed[s.call]
  BY <1>2 DEF CallStep
<1> QED
  BY <1>3 DEF Strays

\* A call that was at work goes on alone.
LEMMA StillAlone ==
    ASSUME NEW c \in SandboxCalls, CallStep(c), OneAtATime, IsBusy(c), met' = met, isOpen' = isOpen,
           stray' = stray \/ call'[c].at = "over"
    PROVE  OneAtATime'
<1> SUFFICES ASSUME ~met'
             PROVE  /\ \A d, e \in SandboxCalls : IsBusy(d)' /\ IsBusy(e)' => d = e
                    /\ \A d \in SandboxCalls : IsBusy(d)' => isOpen' /\ stray' = {}
  BY DEF OneAtATime
<1>1. \A d \in SandboxCalls : IsBusy(d)' => IsBusy(d)
  BY DEF CallStep, IsBusy
<1>2. /\ \A d, e \in SandboxCalls : IsBusy(d) /\ IsBusy(e) => d = e
      /\ \A d \in SandboxCalls : IsBusy(d) => isOpen /\ stray = {}
  BY DEF OneAtATime
<1>3. \A d \in SandboxCalls : IsBusy(d)' => d = c
  BY <1>1, <1>2
<1>4. \A d \in SandboxCalls : IsBusy(d)' => stray' = stray
  BY <1>3 DEF IsBusy
<1> QED
  BY <1>1, <1>2, <1>3, <1>4

\* A call that begins alone is alone, and one that meets another says so.
Begins(c) == /\ call[c].at = "idle" /\ isOpen' = isOpen /\ stray' = stray
             /\ met' = (met \/ Busy /= {} \/ stray /= {} \/ ~isOpen)

LEMMA BeginsAlone ==
    ASSUME NEW c \in SandboxCalls, CallStep(c), Begins(c)
    PROVE  OneAtATime'
<1> SUFFICES ASSUME ~met'
             PROVE  /\ \A d, e \in SandboxCalls : IsBusy(d)' /\ IsBusy(e)' => d = e
                    /\ \A d \in SandboxCalls : IsBusy(d)' => isOpen' /\ stray' = {}
  BY DEF OneAtATime
<1>1. Busy = {} /\ stray' = {} /\ isOpen'
  BY DEF Begins
<1>2. \A d \in SandboxCalls : ~IsBusy(d)
  BY <1>1 DEF Busy, IsBusy
<1>3. \A d \in SandboxCalls : IsBusy(d)' => d = c
  BY <1>2 DEF CallStep, IsBusy
<1> QED
  BY <1>1, <1>3

\* The host stays as it is; that something went wrong may be counted.
HostStays == UNCHANGED <<kind, mode, isOpen, handle, envs, left>> /\ failures' \in 0..MaxFaults

LEMMA SameHostStays == ASSUME UNCHANGED hostVars, failures \in 0..MaxFaults PROVE HostStays
BY DEF hostVars, HostStays

SameHost(c) == /\ HostStays /\ CallStep(c) /\ (met => met')
               /\ call'[c].at \notin {"closed", "start"}

LEMMA SameHostKeeps ==
    ASSUME NEW c \in SandboxCalls, SameHost(c), OneEnvironment, EnvsNumbered
    PROVE  OneEnvironment' /\ EnvsNumbered'
<1>1. EnvsNumbered'
  BY DEF EnvsNumbered, SameHost, HostStays
<1>2. SUFFICES ASSUME ~met', kind' /= "local"
               PROVE  /\ \A e \in DOMAIN envs : e /= handle => envs[e] = "gone" \/ e \in left
                      /\ \A d \in SandboxCalls : /\ call'[d].at = "closed" => call'[d].env = handle
                                                 /\ call'[d].at \in {"closed", "start"} /\ handle /= 0 =>
                                                       envs[handle] = "gone" \/ handle \in left
                      /\ ~isOpen => handle = 0
  BY <1>1 DEF OneEnvironment, SameHost, HostStays
<1>3. ~met /\ kind /= "local"
  BY <1>2 DEF SameHost, HostStays
<1>4. /\ \A e \in DOMAIN envs : e /= handle => envs[e] = "gone" \/ e \in left
      /\ \A d \in SandboxCalls : /\ call[d].at = "closed" => call[d].env = handle
                                 /\ call[d].at \in {"closed", "start"} /\ handle /= 0 =>
                                       envs[handle] = "gone" \/ handle \in left
      /\ ~isOpen => handle = 0
  BY <1>3 DEF OneEnvironment
<1>5. call'[c].at /= "closed" /\ call'[c].at /= "start" /\ \A d \in SandboxCalls \ {c} : call'[d] = call[d]
  BY DEF SameHost, CallStep
<1> QED
  BY <1>4, <1>5

\* Calm only ends, and a step that does nothing leaves what is done.
LEMMA CalmBefore ==
    ASSUME NEW c \in SandboxCalls, CallStep(c), CallsSettled, met => met', Calm'
    PROVE  Calm /\ c \notin Writes
<1>1. c \notin Writes
  BY DEF CallStep, Calm
<1>2. answer[c] = NoAnswer
  BY DEF CallStep, CallsSettled, Settled
<1>3. \A d \in SandboxCalls \ {c} : call'[d] = call[d] /\ answer'[d] = answer[d]
  BY DEF CallStep
<1>4. ~met /\ \A d \in Writes : call[d].at = "idle"
  BY <1>1, <1>3 DEF Calm, SandboxCalls
<1>5. \A d \in Replaces : answer[d] \notin {"error", "abandoned"}
  BY <1>2, <1>3 DEF Calm, SandboxCalls, NoAnswer
<1> QED
  BY <1>1, <1>4, <1>5 DEF Calm

LEMMA SameDone ==
    ASSUME NEW c \in SandboxCalls, CallStep(c), CallsSettled, answer'[c] /= "ok"
    PROVE  Done' = Done
<1>1. answer[c] = NoAnswer
  BY DEF CallStep, CallsSettled, Settled
<1> QED
  BY <1>1 DEF Done, CallStep, NoAnswer

\* A step of a call that changes no file.
QuietText(c) ==
    /\ CallStep(c) /\ (met => met') /\ file' = file
    /\ answer'[c] /= "ok" /\ call[c].at /= "emptied" /\ call'[c].at /= "emptied"
    /\ \/ call'[c].at = "over"
       \/ call'[c].read = call[c].read
       \/ IsBusy(c) /\ call'[c].read = file

LEMMA QuietKeepsText ==
    ASSUME NEW c \in SandboxCalls, QuietText(c), CallsSettled, OneAtATime, TextInHand, TextOnFile
    PROVE  TextInHand' /\ TextOnFile'
<1> USE DEF QuietText
<1>1. Done' = Done
  BY SameDone
<1>2. ASSUME Calm' PROVE Calm
  BY <1>2, CalmBefore
<1>3. TextOnFile'
  <2> SUFFICES ASSUME Calm', \A d \in Replaces : call'[d].at /= "emptied"
               PROVE  Done \subseteq file
    BY <1>1 DEF TextOnFile
  <2>1. \A d \in Replaces : call[d].at /= "emptied"
    BY DEF CallStep, SandboxCalls
  <2> QED
    BY <2>1, <1>2 DEF TextOnFile
<1>4. TextInHand'
  <2> SUFFICES ASSUME Calm', NEW d \in Replaces, IsBusy(d)', call'[d].read /= {}
               PROVE  Done \subseteq call'[d].read
    BY <1>1 DEF TextInHand
  <2>0. Calm /\ d \in SandboxCalls
    BY <1>2 DEF SandboxCalls
  <2>1. CASE d /= c
    BY <2>0, <2>1 DEF CallStep, TextInHand, IsBusy
  <2>2. CASE d = c /\ call'[c].read = call[c].read
    <3>1. call[c].at /= "idle" /\ IsBusy(c)
      BY <2>2, <2>0 DEF CallsSettled, Settled, CallStep, IsBusy
    <3> QED
      BY <3>1, <2>0, <2>2 DEF TextInHand
  <2>3. CASE d = c /\ IsBusy(c) /\ call'[c].read = file
    <3>1. ~met
      BY <2>0 DEF Calm
    <3>2. \A e \in Replaces : call[e].at /= "emptied"
      BY <3>1, <2>3 DEF OneAtATime, IsBusy, SandboxCalls
    <3> QED
      BY <3>2, <2>0, <2>3 DEF TextOnFile
  <2> QED
    BY <2>1, <2>2, <2>3 DEF IsBusy
<1> QED
  BY <1>3, <1>4

\* A quiet step of a call: nothing takes effect.
QuietCall(c) ==
    /\ QuietText(c) /\ OnlyGrows /\ UNCHANGED <<stray, landed>> /\ isOpen' = isOpen
    /\ call'[c].at \notin {"emptied", "running"} \/ (c \in Replaces => call'[c].read /= {})
    /\ answer'[c] \in {NoAnswer, "refused", "error", "dead", "abandoned"}
    /\ (IsBusy(c) /\ met' = met) \/ Begins(c)

LEMMA QuietKeeps ==
    ASSUME NEW c \in SandboxCalls, QuietCall(c), CallsInv, stray \subseteq Straggling
    PROVE  CallsInv'
<1> USE DEF QuietCall
<1>1. CallStep(c) /\ OnlyGrows
  BY DEF QuietText
<1>2. Settled(c)'
  <2>1. landed'[c] = 0 /\ answer[c] = NoAnswer
    BY <1>1 DEF CallStep, CallsInv, CallsSettled, Settled
  <2>2. call'[c].at /= "over" => answer'[c] = NoAnswer
    BY <1>1, <2>1 DEF CallStep
  <2>3. call'[c].at /= "idle" /\ call'[c].at /= "emptied"
    BY <1>1 DEF CallStep, QuietText
  <2>4. answer'[c] /= "ok"
    BY DEF QuietText
  <2>5. call'[c].at \in {"running", "emptied"} /\ c \in Replaces => call'[c].read /= {}
    OBVIOUS
  <2> QED
    BY <2>1, <2>2, <2>3, <2>4, <2>5 DEF Settled
<1>3. CallsSettled' /\ Strays'
  BY <1>1, <1>2, OthersSettled, NothingStraysNew DEF CallsInv
<1>4. OneAtATime'
  BY <1>1, StillAlone, BeginsAlone DEF CallsInv
<1> QED
  BY <1>3, <1>4, QuietKeepsText DEF CallsInv

LEMMA TypedFromCall ==
    ASSUME NEW c \in SandboxCalls, SandboxTypeOK, CallStep(c), UNCHANGED <<kind, mode, stray, landed>>,
           failures' \in 0..MaxFaults, left' \subseteq 1..MaxEnvs, isOpen' = isOpen, met' \in BOOLEAN, audited' \in {audited, audited \cup {c}}, file' \in {file, {}},
           handle' \in 0..MaxEnvs, DOMAIN envs' \subseteq 1..MaxEnvs,
           \A e \in DOMAIN envs' : envs'[e] \in {"up", "hung", "gone"}
    PROVE  SandboxTypeOK'
<1>1. call' \in [SandboxCalls -> Standing] /\ answer' \in [SandboxCalls -> CallReplies]
  BY DEF CallStep
<1>2. file' \in Texts /\ audited' \subseteq SandboxCalls
  BY DEF SandboxTypeOK, Texts
<1> QED
  BY <1>1, <1>2 DEF SandboxTypeOK

\* A quiet step that leaves the host keeps the invariant.
LEMMA QuietOnSameHost ==
    ASSUME NEW c \in SandboxCalls, GuardInv, QuietCall(c), SameHost(c), met' \in BOOLEAN,
           audited' \in {audited, audited \cup {c}}
    PROVE  GuardInv'
<1>1. CallsInv'
  BY QuietKeeps DEF GuardInv, SandboxTypeOK
<1>2. EnvsNumbered' /\ OneEnvironment'
  BY SameHostKeeps DEF GuardInv
<1>3. CallStep(c) /\ UNCHANGED <<file, stray, landed>>
  BY DEF QuietCall, QuietText
<1>4. SandboxTypeOK /\ HostStays
  BY DEF GuardInv, SameHost
<1>5. SandboxTypeOK'
  <2>1. /\ handle' \in 0..MaxEnvs /\ DOMAIN envs' \subseteq 1..MaxEnvs /\ left' \subseteq 1..MaxEnvs
        /\ \A e \in DOMAIN envs' : envs'[e] \in {"up", "hung", "gone"}
    BY <1>4 DEF SandboxTypeOK, HostStays
  <2>2. UNCHANGED <<kind, mode, stray, landed, isOpen, file>> /\ failures' \in 0..MaxFaults
    BY <1>3, <1>4 DEF HostStays
  <2> HIDE DEF QuietCall, SameHost
  <2> QED
    BY <1>3, <1>4, <2>1, <2>2, TypedFromCall
<1> QED
  BY <1>1, <1>2, <1>5 DEF GuardInv

LEMMA GuardFacts ==
    ASSUME GuardInv, NEW c \in SandboxCalls
    PROVE  /\ CallsTyped /\ met \in BOOLEAN /\ RestartMax \in Nat
           /\ failures \in 0..MaxFaults /\ left \subseteq 1..MaxEnvs
           /\ call[c].at /= "over" => answer[c] = NoAnswer
           /\ call[c].at = "idle" => call[c].read = {}
           /\ call[c].at \in {"running", "emptied"} /\ c \in Replaces => call[c].read /= {}
BY SandboxConstants DEF GuardInv, CallsTyped, SandboxTypeOK, CallsInv, CallsSettled, Settled

LEMMA KeepsBeginCall ==
    ASSUME NEW c \in SandboxCalls, GuardInv, BeginCall(c)
    PROVE  GuardInv'
<1>1. /\ call[c].at = "idle" /\ UNCHANGED <<hostVars, file, stray, landed, audited>>
      /\ met' = (met \/ Busy /= {} \/ stray /= {} \/ ~isOpen)
  BY DEF BeginCall
<1>2. met' \in BOOLEAN /\ OnlyGrows /\ Begins(c)
  BY <1>1, GuardFacts DEF Begins, hostVars, OnlyGrows
<1>3. /\ CallStep(c) /\ answer'[c] \in {NoAnswer, "refused"}
      /\ \/ call'[c].at = "over"
         \/ call'[c].at = "alive" /\ call'[c].read = call[c].read
  <2>1. CASE Moves(c, "alive")
    <3>1. "alive" \in CallPlaces \ {"idle"}
      BY DEF CallPlaces
    <3> QED
      BY <1>1, <2>1, <3>1, MovesStep, GuardFacts
  <2>2. CASE Over(c, "refused")
    BY <1>1, <2>2, OverStep, GuardFacts DEF CallReplies
  <2> QED
    BY <2>1, <2>2 DEF BeginCall
<1>4. QuietText(c)
  BY <1>1, <1>2, <1>3 DEF QuietText, OnlyGrows, NoAnswer
<1>5. QuietCall(c) /\ SameHost(c)
  BY <1>1, <1>2, <1>3, <1>4, SameHostStays, GuardFacts DEF QuietCall, SameHost, hostVars, OnlyGrows, Begins
<1> QED
  BY <1>1, <1>2, <1>5, QuietOnSameHost

LEMMA KeepsProbe ==
    ASSUME NEW c \in SandboxCalls, GuardInv, Probe(c)
    PROVE  GuardInv'
<1>1. call[c].at \in {"alive", "again"} /\ UNCHANGED <<hostVars, file, stray, landed, audited, met>>
  BY DEF Probe, tellVars
<1>2. met' \in BOOLEAN /\ OnlyGrows /\ IsBusy(c)
  BY <1>1, GuardFacts DEF OnlyGrows, IsBusy
<1>3. /\ CallStep(c) /\ answer'[c] \in {NoAnswer, "error", "dead"}
      /\ \/ call'[c].at = "over"
         \/ call'[c].at \in {"act", "close"} /\ call'[c].read = call[c].read
  <2>1. CASE Moves(c, "act")
    <3>1. "act" \in CallPlaces \ {"idle"}
      BY DEF CallPlaces
    <3> QED
      BY <1>1, <2>1, <3>1, MovesStep, GuardFacts
  <2>2. CASE Over(c, "error")
    BY <1>1, <2>2, OverStep, GuardFacts DEF CallReplies
  <2>3. CASE NextTry(c)
    BY <1>1, <2>3, NextTryStep, GuardFacts
  <2> QED
    BY <2>1, <2>2, <2>3 DEF Probe
<1>4. QuietText(c)
  BY <1>1, <1>2, <1>3 DEF QuietText, OnlyGrows, NoAnswer
<1>5. QuietCall(c) /\ SameHost(c)
  BY <1>1, <1>2, <1>3, <1>4, SameHostStays, GuardFacts DEF QuietCall, SameHost, hostVars, OnlyGrows
<1> QED
  BY <1>1, <1>2, <1>5, QuietOnSameHost

LEMMA KeepsWriteBack ==
    ASSUME NEW c \in SandboxCalls, GuardInv, WriteBack(c)
    PROVE  GuardInv'
<1>1. call[c].at = "read" /\ UNCHANGED <<hostVars, file, stray, landed, audited, met>>
  BY DEF WriteBack, tellVars
<1>2. met' \in BOOLEAN /\ OnlyGrows /\ IsBusy(c)
  BY <1>1, GuardFacts DEF OnlyGrows, IsBusy
<1>3. /\ CallStep(c) /\ answer'[c] \in {NoAnswer, "refused"}
      /\ \/ call'[c].at = "over"
         \/ call'[c].at = "alive" /\ call'[c].read = call[c].read
  <2>1. CASE call' = [call EXCEPT ![c].at = "alive", ![c].tries = 0] /\ UNCHANGED answer
    <3>1. "alive" \in CallPlaces /\ 0 \in 0..RestartMax
      BY SandboxConstants DEF CallPlaces
    <3> QED
      BY <1>1, <2>1, <3>1, GuardFacts DEF CallsTyped, CallStep, Standing
  <2>2. CASE Over(c, "refused")
    BY <1>1, <2>2, OverStep, GuardFacts DEF CallReplies
  <2> QED
    BY <2>1, <2>2 DEF WriteBack
<1>4. QuietText(c)
  BY <1>1, <1>2, <1>3 DEF QuietText, OnlyGrows, NoAnswer
<1>5. QuietCall(c) /\ SameHost(c)
  BY <1>1, <1>2, <1>3, <1>4, SameHostStays, GuardFacts DEF QuietCall, SameHost, hostVars, OnlyGrows
<1> QED
  BY <1>1, <1>2, <1>5, QuietOnSameHost

LEMMA KeepsAct ==
    ASSUME NEW c \in SandboxCalls, GuardInv, Act(c)
    PROVE  GuardInv'
<1>1. /\ call[c].at = "act" /\ UNCHANGED <<hostVars, file, stray, landed, met>>
      /\ audited' \in {audited, audited \cup {c}}
  BY DEF Act
<1>2. met' \in BOOLEAN /\ OnlyGrows /\ IsBusy(c)
  BY <1>1, GuardFacts DEF OnlyGrows, IsBusy
<1>3. handle \in 0..MaxEnvs /\ file \in Texts
  BY DEF GuardInv, SandboxTypeOK
<1>4. /\ CallStep(c) /\ answer'[c] \in {NoAnswer, "error"}
      /\ \/ call'[c].at = "over"
         \/ call'[c].at = "running" /\ call'[c].read = call[c].read /\ (c \in Replaces => call[c].read /= {})
         \/ call'[c].at = "read" /\ call'[c].read = file
  <2>1. CASE /\ c \in Replaces => call[c].read /= {}
             /\ call' = [call EXCEPT ![c].at = "running", ![c].env = handle] /\ UNCHANGED answer
    <3>1. "running" \in CallPlaces
      BY DEF CallPlaces
    <3>2. CallStep(c) /\ answer' = answer /\ call'[c].at = "running" /\ call'[c].read = call[c].read
      BY <1>1, <1>3, <2>1, <3>1, GuardFacts DEF CallsTyped, CallStep, Standing
    <3> QED
      BY <1>1, <2>1, <3>2, GuardFacts
  <2>2. CASE Over(c, "error")
    BY <1>1, <2>2, OverStep, GuardFacts DEF CallReplies
  <2>3. CASE call' = [call EXCEPT ![c].at = "read", ![c].read = file] /\ UNCHANGED answer
    <3>1. "read" \in CallPlaces
      BY DEF CallPlaces
    <3>2. CallStep(c) /\ answer' = answer /\ call'[c].at = "read" /\ call'[c].read = file
      BY <1>1, <1>3, <2>3, <3>1, GuardFacts DEF CallsTyped, CallStep, Standing
    <3> QED
      BY <1>1, <3>2, GuardFacts
  <2> QED
    BY <2>1, <2>2, <2>3 DEF Act
<1>5. QuietText(c)
  BY <1>1, <1>2, <1>4 DEF QuietText, OnlyGrows, NoAnswer
<1>6. QuietCall(c) /\ SameHost(c)
  BY <1>1, <1>2, <1>4, <1>5, SameHostStays, GuardFacts DEF QuietCall, SameHost, hostVars, OnlyGrows
<1> QED
  BY <1>1, <1>2, <1>6, QuietOnSameHost

\* A quiet step of a call at work, whose part of the invariant needs nothing of the host.
LEMMA QuietAtWork ==
    ASSUME NEW c \in SandboxCalls, GuardInv, QuietText(c), IsBusy(c),
           UNCHANGED <<kind, mode, isOpen, tellVars>>, failures' \in 0..MaxFaults,
           call'[c].at /= "running", answer'[c] \in {NoAnswer, "refused", "error", "dead", "abandoned"},
           handle' \in 0..MaxEnvs, DOMAIN envs' \subseteq 1..MaxEnvs, left' \subseteq 1..MaxEnvs,
           \A e \in DOMAIN envs' : envs'[e] \in {"up", "hung", "gone"}
    PROVE  SandboxTypeOK' /\ CallsInv'
<1>1. UNCHANGED <<file, stray, landed, audited, met>> /\ CallStep(c)
  BY DEF tellVars, QuietText
<1>2. QuietCall(c)
  BY <1>1 DEF QuietCall, OnlyGrows, QuietText
<1>3. CallsInv'
  BY <1>2, QuietKeeps DEF GuardInv, SandboxTypeOK
<1>4. SandboxTypeOK /\ met' \in BOOLEAN
  BY <1>1 DEF GuardInv, SandboxTypeOK
<1>5. SandboxTypeOK'
  BY <1>1, <1>4, TypedFromCall
<1> QED
  BY <1>3, <1>5

LEMMA WrongCounted ==
    ASSUME GuardInv, GoesWrong
    PROVE  failures' \in 0..MaxFaults
BY SandboxConstants DEF GuardInv, SandboxTypeOK, GoesWrong

\* Closing the backend removes what the handle names, or leaves it behind.
LEMMA ClosesFacts ==
    ASSUME GuardInv, Closes(handle)
    PROVE  /\ DOMAIN envs' = DOMAIN envs /\ failures' \in 0..MaxFaults /\ left' \subseteq 1..MaxEnvs
           /\ \A e \in DOMAIN envs : envs'[e] \in {"up", "hung", "gone"}
           /\ left \subseteq left'
           /\ \A e \in DOMAIN envs : e /= handle => envs'[e] = envs[e]
           /\ kind /= "local" /\ handle /= 0 => envs'[handle] = "gone" \/ handle \in left'
<1>1. PICK n \in 1..MaxEnvs : DOMAIN envs = 1..n /\ handle \in 0..n
  BY DEF GuardInv, EnvsNumbered
<1>2. /\ \A e \in DOMAIN envs : envs[e] \in {"up", "hung", "gone"}
      /\ failures \in 0..MaxFaults /\ left \subseteq 1..MaxEnvs /\ handle \in 0..MaxEnvs
  BY DEF GuardInv, SandboxTypeOK
<1>3. CASE (handle = 0 \/ kind = "local") /\ envs' = Removed(handle) /\ UNCHANGED <<left, failures>>
  BY <1>1, <1>2, <1>3, SandboxConstants DEF Removed
<1>4. CASE ~(handle = 0 \/ kind = "local") /\ envs' = Removed(handle) /\ UNCHANGED <<left, failures>>
  BY <1>1, <1>2, <1>4 DEF Removed
<1>5. CASE NotRemoved(handle)
  <2>1. handle /= 0 /\ GoesWrong /\ left' = left \cup {handle} /\ envs' = envs
    BY <1>5 DEF NotRemoved
  <2>2. failures' \in 0..MaxFaults
    BY <2>1, WrongCounted
  <2> QED
    BY <1>1, <1>2, <2>1, <2>2
<1> QED
  BY <1>3, <1>4, <1>5 DEF Closes

LEMMA KeepsCloseInner ==
    ASSUME NEW c \in SandboxCalls, GuardInv, CloseInner(c)
    PROVE  GuardInv'
<1>1. /\ call[c].at = "close" /\ Closes(handle)
      /\ \/ call' = [call EXCEPT ![c].at = "closed", ![c].env = handle] /\ UNCHANGED answer
         \/ Moves(c, "start")
      /\ UNCHANGED <<kind, mode, isOpen, handle, tellVars>>
  BY DEF CloseInner, Closes
<1>2. handle \in 0..MaxEnvs /\ DOMAIN envs \subseteq 1..MaxEnvs
  BY DEF GuardInv, SandboxTypeOK
<1>3. /\ CallStep(c) /\ answer' = answer /\ call'[c].read = call[c].read /\ answer[c] = NoAnswer
      /\ call'[c].at = "start" \/ (call'[c].at = "closed" /\ call'[c].env = handle)
  <2>1. CASE Moves(c, "start")
    <3>1. "start" \in CallPlaces \ {"idle"}
      BY DEF CallPlaces
    <3> QED
      BY <1>1, <2>1, <3>1, MovesStep, GuardFacts
  <2>2. CASE call' = [call EXCEPT ![c].at = "closed", ![c].env = handle] /\ UNCHANGED answer
    BY <1>1, <1>2, <2>2, GuardFacts DEF CallsTyped, CallStep, Standing, CallPlaces
  <2> QED
    BY <1>1, <2>1, <2>2
<1>4. QuietText(c) /\ IsBusy(c)
  BY <1>1, <1>3 DEF QuietText, IsBusy, NoAnswer, tellVars
<1>5. SandboxTypeOK' /\ CallsInv'
  BY <1>1, <1>2, <1>3, <1>4, ClosesFacts, QuietAtWork
<1>6. EnvsNumbered'
  BY <1>1, ClosesFacts DEF EnvsNumbered, GuardInv
<1>7. OneEnvironment'
  <2> SUFFICES ASSUME ~met, kind /= "local"
               PROVE  /\ \A e \in DOMAIN envs' : e /= handle => envs'[e] = "gone" \/ e \in left'
                      /\ \A d \in SandboxCalls :
                            /\ call'[d].at = "closed" => call'[d].env = handle
                            /\ handle /= 0 => envs'[handle] = "gone" \/ handle \in left'
                      /\ ~isOpen => handle = 0
    BY <1>1 DEF OneEnvironment, tellVars
  <2>1. /\ \A e \in DOMAIN envs : e /= handle => envs[e] = "gone" \/ e \in left
        /\ \A d \in SandboxCalls : call[d].at = "closed" => call[d].env = handle
        /\ ~isOpen => handle = 0
    BY DEF GuardInv, OneEnvironment
  <2>2. \A d \in SandboxCalls \ {c} : call'[d] = call[d]
    BY <1>3 DEF CallStep
  <2>3. \A d \in SandboxCalls : call'[d].at = "closed" => call'[d].env = handle
    BY <1>3, <2>1, <2>2
  <2> QED
    BY <1>1, <2>1, <2>3, ClosesFacts
<1> QED
  BY <1>5, <1>6, <1>7 DEF GuardInv

LEMMA KeepsCloseForgets ==
    ASSUME NEW c \in SandboxCalls, GuardInv, CloseForgets(c)
    PROVE  GuardInv'
<1>1. /\ call[c].at = "closed" /\ handle' = IF call[c].env = 0 THEN handle ELSE 0
      /\ call' = [call EXCEPT ![c].at = "start", ![c].env = 0]
      /\ UNCHANGED <<kind, mode, isOpen, envs, left, failures, answer, tellVars>>
  BY DEF CloseForgets
<1>2. /\ handle' \in 0..MaxEnvs /\ DOMAIN envs \subseteq 1..MaxEnvs /\ 0 \in 0..MaxEnvs
      /\ failures' \in 0..MaxFaults /\ left' \subseteq 1..MaxEnvs
      /\ \A e \in DOMAIN envs : envs[e] \in {"up", "hung", "gone"}
  BY <1>1, SandboxConstants DEF GuardInv, SandboxTypeOK
<1>3. /\ CallStep(c) /\ answer' = answer /\ call'[c].at = "start"
      /\ call'[c].read = call[c].read /\ answer[c] = NoAnswer
  BY <1>1, <1>2, GuardFacts DEF CallsTyped, CallStep, Standing, CallPlaces
<1>4. QuietText(c) /\ IsBusy(c)
  BY <1>1, <1>3 DEF QuietText, IsBusy, NoAnswer, tellVars
<1>5. SandboxTypeOK' /\ CallsInv'
  BY <1>1, <1>2, <1>3, <1>4, QuietAtWork
<1>6. EnvsNumbered'
  <2>1. PICK n \in 1..MaxEnvs : DOMAIN envs = 1..n /\ handle \in 0..n
    BY DEF GuardInv, EnvsNumbered
  <2>2. handle' \in 0..n
    BY <1>1, <2>1
  <2> QED
    BY <1>1, <2>1, <2>2 DEF EnvsNumbered
<1>7. OneEnvironment'
  <2> SUFFICES ASSUME ~met, kind /= "local"
               PROVE  /\ \A e \in DOMAIN envs : e /= handle' => envs[e] = "gone" \/ e \in left
                      /\ \A d \in SandboxCalls : call'[d].at = "closed" => call'[d].env = handle'
                      /\ handle' = 0
    BY <1>1 DEF OneEnvironment, tellVars
  <2>1. /\ \A e \in DOMAIN envs : e /= handle => envs[e] = "gone" \/ e \in left
        /\ call[c].env = handle
        /\ handle /= 0 => envs[handle] = "gone" \/ handle \in left
    BY <1>1 DEF GuardInv, OneEnvironment
  <2>2. handle' = 0
    BY <1>1, <2>1
  <2>3. \A d \in SandboxCalls : call'[d].at /= "closed"
    <3>1. \A d \in SandboxCalls : IsBusy(d) => d = c
      BY <1>4 DEF GuardInv, CallsInv, OneAtATime
    <3> QED
      BY <3>1, <1>3 DEF CallStep, IsBusy
  <2>4. \A e \in DOMAIN envs : envs[e] = "gone" \/ e \in left
    <3>1. \A e \in DOMAIN envs : e /= 0
      BY <1>2
    <3> QED
      BY <3>1, <2>1
  <2> QED
    BY <2>2, <2>3, <2>4
<1> QED
  BY <1>5, <1>6, <1>7 DEF GuardInv

\* What a start may make: nothing, an environment the handle names, or one nobody knows.
Started ==
    \/ UNCHANGED <<envs, handle, left>>
    \/ MakesOne /\ handle' = Made + 1 /\ UNCHANGED left
    \/ MakesOne /\ left' = left \cup {Made + 1} /\ UNCHANGED handle

LEMMA StartKeeps ==
    ASSUME NEW c \in SandboxCalls, GuardInv, call[c].at = "start", QuietText(c), Started,
           UNCHANGED <<kind, mode, isOpen, tellVars>>, failures' \in 0..MaxFaults,
           call'[c].at \in {"over", "again", "close"}, answer'[c] \in {NoAnswer, "dead", "abandoned"}
    PROVE  GuardInv'
<1>1. IsBusy(c) /\ CallStep(c)
  BY DEF IsBusy, QuietText
<1>2. PICK n \in 1..MaxEnvs : DOMAIN envs = 1..n /\ handle \in 0..n /\ Made = n
  BY SandboxFacts
<1>3. /\ MaxEnvs \in Nat /\ \A e \in DOMAIN envs : envs[e] \in {"up", "hung", "gone"}
      /\ left \subseteq 1..MaxEnvs
  BY SandboxConstants DEF GuardInv, SandboxTypeOK
<1> DEFINE New == /\ n + 1 \in 1..MaxEnvs /\ DOMAIN envs' = 1..(n + 1) /\ envs'[n + 1] = "up"
                  /\ \A e \in DOMAIN envs : envs'[e] = envs[e]
<1>4. MakesOne => New
  <2> SUFFICES ASSUME MakesOne PROVE New
    OBVIOUS
  <2>1. envs' = [e \in 1..(n + 1) |-> IF e = n + 1 THEN "up" ELSE envs[e]] /\ n < MaxEnvs
    BY <1>2 DEF MakesOne
  <2> QED
    BY <1>2, <1>3, <2>1
<1>5. /\ \/ UNCHANGED <<envs, handle, left>>
         \/ New /\ handle' = n + 1 /\ left' = left
         \/ New /\ left' = left \cup {n + 1} /\ handle' = handle
  BY <1>2, <1>4 DEF Started
<1>6. /\ handle' \in 0..MaxEnvs /\ DOMAIN envs' \subseteq 1..MaxEnvs /\ left' \subseteq 1..MaxEnvs
      /\ \A e \in DOMAIN envs' : envs'[e] \in {"up", "hung", "gone"}
      /\ \A e \in DOMAIN envs' : e \in DOMAIN envs \/ e = n + 1
  <2>1. CASE UNCHANGED <<envs, handle, left>>
    BY <1>2, <1>3, <2>1
  <2>2. CASE New /\ (handle' = handle \/ handle' = n + 1) /\ left' \in {left, left \cup {n + 1}}
    <3>1. \A e \in DOMAIN envs' : e = n + 1 \/ e \in DOMAIN envs
      BY <1>2, <2>2
    <3> QED
      BY <1>2, <1>3, <2>2, <3>1
  <2> QED
    BY <1>5, <2>1, <2>2
<1>7. SandboxTypeOK' /\ CallsInv'
  BY <1>1, <1>6, QuietAtWork
<1>8. EnvsNumbered'
  <2>1. CASE UNCHANGED <<envs, handle, left>>
    BY <2>1 DEF EnvsNumbered, GuardInv
  <2>2. CASE New /\ (handle' = handle \/ handle' = n + 1)
    <3>1. handle' \in 0..(n + 1)
      BY <1>2, <2>2
    <3> QED
      BY <2>2, <3>1 DEF EnvsNumbered
  <2> QED
    BY <1>5, <2>1, <2>2
<1>9. OneEnvironment'
  <2> SUFFICES ASSUME ~met, kind /= "local"
               PROVE  /\ \A e \in DOMAIN envs' : e /= handle' => envs'[e] = "gone" \/ e \in left'
                      /\ \A d \in SandboxCalls : call'[d].at \notin {"closed", "start"}
                      /\ isOpen
    BY DEF OneEnvironment, tellVars
  <2>1. \A e \in DOMAIN envs : e /= handle => envs[e] = "gone" \/ e \in left
    BY DEF GuardInv, OneEnvironment
  <2>2. handle /= 0 => envs[handle] = "gone" \/ handle \in left
    BY DEF GuardInv, OneEnvironment
  <2>3. \A d \in SandboxCalls : call'[d].at \notin {"closed", "start"}
    <3>1. \A d \in SandboxCalls : IsBusy(d) => d = c
      BY <1>1 DEF GuardInv, CallsInv, OneAtATime
    <3> QED
      BY <3>1, <1>1 DEF CallStep, IsBusy
  <2>4. isOpen
    BY <1>1 DEF GuardInv, CallsInv, OneAtATime
  <2>5. \A e \in DOMAIN envs : e /= 0
    BY <1>2
  <2>6. \A e \in DOMAIN envs : envs[e] = "gone" \/ e \in left
    BY <2>1, <2>2, <2>5
  <2>7. \A e \in DOMAIN envs' : e /= handle' => envs'[e] = "gone" \/ e \in left'
    <3>1. CASE UNCHANGED <<envs, handle, left>>
      BY <2>6, <3>1
    <3>2. CASE New /\ handle' = n + 1 /\ left' = left
      BY <1>6, <2>6, <3>2
    <3>3. CASE New /\ left' = left \cup {n + 1} /\ handle' = handle
      BY <1>6, <2>6, <3>3
    <3> QED
      BY <1>5, <3>1, <3>2, <3>3
  <2> QED
    BY <2>3, <2>4, <2>7
<1> QED
  BY <1>7, <1>8, <1>9 DEF GuardInv

LEMMA KeepsStartInner ==
    ASSUME NEW c \in SandboxCalls, GuardInv, StartInner(c)
    PROVE  GuardInv'
<1>1. call[c].at = "start" /\ UNCHANGED <<kind, mode, isOpen, left, failures, tellVars>> /\ Started
  BY DEF StartInner, Started
<1>2. /\ CallStep(c) /\ answer'[c] \in {NoAnswer, "dead"}
      /\ \/ call'[c].at = "over"
         \/ call'[c].at \in {"again", "close"} /\ call'[c].read = call[c].read
  <2>1. CASE Moves(c, "again")
    <3>1. "again" \in CallPlaces \ {"idle"}
      BY DEF CallPlaces
    <3> QED
      BY <1>1, <2>1, <3>1, MovesStep, GuardFacts
  <2>2. CASE NextTry(c)
    BY <1>1, <2>2, NextTryStep, GuardFacts
  <2> QED
    BY <2>1, <2>2 DEF StartInner
<1>3. QuietText(c)
  BY <1>1, <1>2 DEF QuietText, IsBusy, NoAnswer, tellVars
<1>4. failures' \in 0..MaxFaults
  BY <1>1, GuardFacts
<1> QED
  BY <1>1, <1>2, <1>3, <1>4, StartKeeps

LEMMA KeepsFault ==
    ASSUME GuardInv, Fault
    PROVE  GuardInv'
<1>1. /\ kind /= "local" /\ failures' \in 0..MaxFaults
      /\ UNCHANGED <<kind, mode, isOpen, handle, left, call, answer, tellVars>>
  BY WrongCounted DEF Fault
<1>2. PICK e \in DOMAIN envs : envs[e] /= "gone" /\ \E end \in {"gone", "hung"} : envs' = [envs EXCEPT ![e] = end]
  BY DEF Fault
<1>3. PICK end \in {"gone", "hung"} : envs' = [envs EXCEPT ![e] = end]
  BY <1>2
<1>4. DOMAIN envs' = DOMAIN envs /\ \A x \in DOMAIN envs : envs'[x] = IF x = e THEN end ELSE envs[x]
  BY <1>2, <1>3
<1>5. CallsInv'
  BY <1>1 DEF GuardInv, CallsInv, CallsSettled, Settled, Strays, OneAtATime, IsBusy, TextInHand, TextOnFile,
              Calm, Done, tellVars
<1>6. SandboxTypeOK'
  <2>2. \A x \in DOMAIN envs' : envs'[x] \in {"up", "hung", "gone"}
    BY <1>3, <1>4 DEF GuardInv, SandboxTypeOK
  <2> QED
    BY <1>1, <1>4, <2>2 DEF GuardInv, SandboxTypeOK, tellVars
<1>7. EnvsNumbered'
  BY <1>1, <1>4 DEF GuardInv, EnvsNumbered
<1>8. OneEnvironment'
  <2> SUFFICES ASSUME ~met
               PROVE  /\ \A x \in DOMAIN envs' : x /= handle => envs'[x] = "gone" \/ x \in left
                      /\ \A d \in SandboxCalls :
                            /\ call[d].at = "closed" => call[d].env = handle
                            /\ call[d].at \in {"closed", "start"} /\ handle /= 0 => envs'[handle] = "gone" \/ handle \in left
                      /\ ~isOpen => handle = 0
    BY <1>1 DEF OneEnvironment, tellVars
  <2>1. /\ \A x \in DOMAIN envs : x /= handle => envs[x] = "gone" \/ x \in left
        /\ \A d \in SandboxCalls : /\ call[d].at = "closed" => call[d].env = handle
                                   /\ call[d].at \in {"closed", "start"} /\ handle /= 0 =>
                                         envs[handle] = "gone" \/ handle \in left
        /\ ~isOpen => handle = 0
    BY <1>1 DEF GuardInv, OneEnvironment
  <2>2. \A x \in DOMAIN envs : envs[x] = "gone" => envs'[x] = "gone"
    BY <1>2, <1>4
  <2>3. handle /= 0 => handle \in DOMAIN envs
    BY DEF GuardInv, EnvsNumbered
  <2> QED
    BY <1>4, <2>1, <2>2, <2>3
<1> QED
  BY <1>5, <1>6, <1>7, <1>8 DEF GuardInv

LEMMA KeepsCloseSandbox ==
    ASSUME GuardInv, CloseSandbox
    PROVE  GuardInv'
<1>1. /\ isOpen /\ isOpen' = FALSE /\ Closes(handle)
      /\ handle' = IF kind = "local" THEN handle ELSE 0
      /\ met' = (met \/ Busy /= {})
      /\ UNCHANGED <<kind, mode, call, answer, file, stray, landed, audited>>
  BY DEF CloseSandbox
<1>2. PICK n \in 1..MaxEnvs : DOMAIN envs = 1..n /\ handle \in 0..n
  BY SandboxFacts
<1>3. handle' \in 0..n /\ MaxEnvs \in Nat /\ DOMAIN envs' = 1..n
  BY <1>1, <1>2, SandboxConstants, ClosesFacts
<1>4. ~met' => ~met /\ \A d \in SandboxCalls : ~IsBusy(d)
  BY <1>1 DEF Busy, IsBusy
<1>5. SandboxTypeOK'
  <2>1. handle' \in 0..MaxEnvs /\ DOMAIN envs' \subseteq 1..MaxEnvs
    BY <1>3
  <2>2. /\ \A x \in DOMAIN envs' : envs'[x] \in {"up", "hung", "gone"}
        /\ failures' \in 0..MaxFaults /\ left' \subseteq 1..MaxEnvs
    BY <1>1, ClosesFacts
  <2>3. isOpen' \in BOOLEAN /\ met' \in BOOLEAN
    BY <1>1 DEF GuardInv, SandboxTypeOK
  <2> QED
    BY <1>1, <2>1, <2>2, <2>3 DEF GuardInv, SandboxTypeOK
<1>6. EnvsNumbered'
  BY <1>3 DEF EnvsNumbered
<1>7. OneEnvironment'
  <2> SUFFICES ASSUME ~met', kind /= "local"
               PROVE  /\ \A x \in DOMAIN envs' : x /= handle' => envs'[x] = "gone" \/ x \in left'
                      /\ \A d \in SandboxCalls : call[d].at \notin {"closed", "start"}
                      /\ handle' = 0
    BY <1>1 DEF OneEnvironment
  <2>1. \A x \in DOMAIN envs : x /= handle => envs[x] = "gone" \/ x \in left
    BY <1>4 DEF GuardInv, OneEnvironment
  <2>2. \A d \in SandboxCalls : call[d].at \notin {"closed", "start"}
    BY <1>4 DEF IsBusy
  <2>3. handle' = 0
    BY <1>1
  <2>4. \A x \in DOMAIN envs' : x /= 0 /\ (x = handle => envs'[x] = "gone" \/ x \in left')
    BY <1>1, <1>2, <1>3, ClosesFacts
  <2>5. \A x \in DOMAIN envs' : envs'[x] = "gone" \/ x \in left'
    BY <1>1, <2>1, <2>4, ClosesFacts
  <2> QED
    BY <2>2, <2>3, <2>5
<1>8. CallsInv'
  <2>1. CallsSettled' /\ Strays'
    BY <1>1 DEF GuardInv, CallsInv, CallsSettled, Settled, Strays
  <2>2. OneAtATime'
    BY <1>1, <1>4 DEF OneAtATime, IsBusy
  <2>3. TextInHand' /\ TextOnFile'
    BY <1>1, <1>4 DEF GuardInv, CallsInv, TextInHand, TextOnFile, Calm, Done, IsBusy
  <2> QED
    BY <2>1, <2>2, <2>3 DEF CallsInv
<1> QED
  BY <1>5, <1>6, <1>7, <1>8 DEF GuardInv

\* A step of a call that works in its environment: the host stays as it is.
LEMMA HostUnderWork ==
    ASSUME NEW c \in SandboxCalls, GuardInv, CallStep(c), HostStays, met' = met,
           call'[c].at \in {"emptied", "over"}, file' \in Texts, stray' \subseteq Straggling,
           landed' \in [SandboxCalls -> 0..2], audited' \in {audited, audited \cup {c}}
    PROVE  SandboxTypeOK' /\ EnvsNumbered' /\ OneEnvironment' /\ OnlyGrows
<1>1. SameHost(c) /\ OnlyGrows
  BY DEF SameHost, OnlyGrows
<1>2. EnvsNumbered' /\ OneEnvironment'
  BY <1>1, SameHostKeeps DEF GuardInv
<1>3. audited' \subseteq SandboxCalls
  BY DEF GuardInv, SandboxTypeOK
<1>4. SandboxTypeOK'
  BY <1>3 DEF GuardInv, SandboxTypeOK, CallStep, HostStays
<1> QED
  BY <1>1, <1>2, <1>4

\* While calls do not meet, no other call works beside this one.
LEMMA NoneBeside ==
    ASSUME NEW c \in SandboxCalls, GuardInv, IsBusy(c), ~met
    PROVE  stray = {} /\ \A d \in SandboxCalls \ {c} : ~IsBusy(d)
BY DEF GuardInv, CallsInv, OneAtATime

LEMMA KeepsEmpties ==
    ASSUME NEW c \in SandboxCalls, GuardInv, Empties(c)
    PROVE  GuardInv'
<1>1. /\ call[c].at = "running" /\ c \notin Commands /\ file' = {} /\ Moves(c, "emptied")
      /\ UNCHANGED <<hostVars, stray, landed, audited, met>>
  BY DEF Empties
<1>2. /\ CallStep(c) /\ answer' = answer /\ call'[c].at = "emptied" /\ call'[c].read = call[c].read
      /\ answer[c] = NoAnswer /\ IsBusy(c)
  <2>1. "emptied" \in CallPlaces \ {"idle"}
    BY DEF CallPlaces
  <2> QED
    BY <1>1, <2>1, MovesStep, GuardFacts DEF IsBusy
<1>3. SandboxTypeOK' /\ EnvsNumbered' /\ OneEnvironment' /\ OnlyGrows
  <2>1. file' \in Texts
    BY <1>1 DEF Texts
  <2>2. stray' \subseteq Straggling /\ landed' \in [SandboxCalls -> 0..2]
    BY <1>1 DEF GuardInv, SandboxTypeOK
  <2> QED
    BY <1>1, <1>2, <2>1, <2>2, SameHostStays, GuardFacts, HostUnderWork
<1>4. Settled(c)'
  BY <1>1, <1>2 DEF GuardInv, CallsInv, CallsSettled, Settled, NoAnswer
<1>5. CallsSettled' /\ Strays' /\ OneAtATime'
  <2>1. CallsSettled'
    BY <1>1, <1>2, <1>3, <1>4, OthersSettled DEF GuardInv, CallsInv
  <2>2. Strays'
    BY <1>1, <1>2, NothingStraysNew DEF GuardInv, CallsInv, SandboxTypeOK
  <2>3. OneAtATime'
    BY <1>1, <1>2, StillAlone DEF GuardInv, CallsInv, hostVars
  <2> QED
    BY <2>1, <2>2, <2>3
<1>6. Done' = Done
  BY <1>2 DEF Done
<1>7. ASSUME Calm' PROVE Calm /\ c \in Replaces
  <2>1. Calm /\ c \notin Writes
    BY <1>2, <1>3, <1>7, CalmBefore DEF GuardInv, CallsInv, OnlyGrows
  <2> QED
    BY <1>1, <2>1 DEF SandboxCalls
<1>8. TextInHand'
  <2> SUFFICES ASSUME Calm', NEW d \in Replaces, IsBusy(d)', call'[d].read /= {}
               PROVE  Done \subseteq call'[d].read
    BY <1>6 DEF TextInHand
  <2>1. Calm /\ d \in SandboxCalls
    BY <1>7 DEF SandboxCalls
  <2>2. call'[d].read = call[d].read /\ IsBusy(d)
    BY <1>2, <2>1 DEF CallStep, IsBusy
  <2> QED
    BY <2>1, <2>2 DEF GuardInv, CallsInv, TextInHand
<1>9. TextOnFile'
  BY <1>2, <1>7 DEF TextOnFile
<1> QED
  BY <1>3, <1>5, <1>8, <1>9 DEF GuardInv, CallsInv

\* The end of a call that was at work: what the invariant asks of it.
LEMMA EndKeeps ==
    ASSUME NEW c \in SandboxCalls, NEW what \in CallReplies \ {NoAnswer}, GuardInv, Over(c, what),
           call[c].at \in {"running", "emptied"}, HostStays, met' = met, file' \in Texts,
           audited' \in {audited, audited \cup {c}}, stray' \in SUBSET Straggling,
           landed' \in {landed, [landed EXCEPT ![c] = @ + 1]},
           what = "ok" => landed' = [landed EXCEPT ![c] = @ + 1] /\ c \in audited', what \notin {"refused", "dead"},
           Strays', Calm' => Done' \subseteq file'
    PROVE  GuardInv'
<1>1. /\ CallStep(c) /\ call'[c].at = "over" /\ call'[c].read = {} /\ answer'[c] = what
      /\ answer[c] = NoAnswer /\ IsBusy(c) /\ landed[c] = 0
  BY OverStep, GuardFacts DEF IsBusy, GuardInv, CallsInv, CallsSettled, Settled
<1>2. landed \in [SandboxCalls -> 0..2]
  BY DEF GuardInv, SandboxTypeOK
<1>3. /\ landed' \in [SandboxCalls -> 0..2] /\ landed'[c] <= 1
      /\ \A d \in SandboxCalls \ {c} : landed'[d] = landed[d]
      /\ what = "ok" => landed'[c] = 1
  <2>1. CASE landed' = landed
    BY <1>1, <1>2, <2>1
  <2>2. CASE landed' = [landed EXCEPT ![c] = @ + 1]
    BY <1>1, <1>2, <2>2
  <2> QED
    BY <2>1, <2>2
<1>4. SandboxTypeOK' /\ EnvsNumbered' /\ OneEnvironment' /\ OnlyGrows
  BY <1>1, <1>3, HostUnderWork
<1>5. Settled(c)'
  BY <1>1, <1>3 DEF Settled
<1>6. CallsSettled' /\ OneAtATime'
  <2>1. CallsSettled'
    BY <1>1, <1>3, <1>4, <1>5, OthersSettled DEF GuardInv, CallsInv
  <2>2. OneAtATime'
    BY <1>1, StillAlone DEF GuardInv, CallsInv, HostStays
  <2> QED
    BY <2>1, <2>2
<1>7. TextInHand'
  <2> SUFFICES ASSUME Calm', NEW d \in Replaces, IsBusy(d)'
               PROVE  FALSE
    BY DEF TextInHand
  <2>1. ~met /\ d \in SandboxCalls
    BY DEF Calm, SandboxCalls
  <2>2. d /= c
    BY <1>1 DEF IsBusy
  <2>3. IsBusy(d)
    BY <1>1, <2>1, <2>2 DEF CallStep, IsBusy
  <2> QED
    BY <1>1, <2>1, <2>2, <2>3, NoneBeside
<1>8. TextOnFile'
  BY DEF TextOnFile
<1> QED
  BY <1>4, <1>6, <1>7, <1>8 DEF GuardInv, CallsInv

LEMMA DoneIsOnFile ==
    ASSUME NEW c \in SandboxCalls, GuardInv, IsBusy(c), Calm, call[c].at /= "emptied" \/ c \notin Replaces
    PROVE  Done \subseteq file
<1>1. \A d \in SandboxCalls \ {c} : ~IsBusy(d)
  BY NoneBeside DEF Calm
<1>2. \A d \in Replaces : call[d].at /= "emptied"
  BY <1>1 DEF IsBusy, SandboxCalls
<1> QED
  BY <1>2 DEF GuardInv, CallsInv, TextOnFile

LEMMA DoneAtEnd ==
    ASSUME NEW c \in SandboxCalls, GuardInv, CallStep(c), answer'[c] /= "ok"
    PROVE  Done' = Done
BY SameDone DEF GuardInv, CallsInv

LEMMA CalmAtEnd ==
    ASSUME NEW c \in SandboxCalls, GuardInv, CallStep(c), met' = met, Calm'
    PROVE  Calm /\ c \notin Writes
BY CalmBefore DEF GuardInv, CallsInv

LEMMA KeepsLands ==
    ASSUME NEW c \in SandboxCalls, GuardInv, Lands(c)
    PROVE  GuardInv'
<1>1. /\ call[c].at \in {"running", "emptied"} /\ Over(c, "ok") /\ UNCHANGED <<hostVars, stray, met>>
      /\ file' = Content(c, call[c].read) /\ landed' = [landed EXCEPT ![c] = @ + 1] /\ audited' = audited \cup {c}
  BY DEF Lands, Takes
<1>2. CallStep(c) /\ answer'[c] = "ok" /\ IsBusy(c) /\ "ok" \in CallReplies \ {NoAnswer}
  BY <1>1, OverStep, GuardFacts DEF CallReplies, IsBusy, NoAnswer
<1>3. file \in Texts /\ call[c].read \in Texts /\ stray' \in SUBSET Straggling
  BY <1>1 DEF GuardInv, SandboxTypeOK, Standing
<1>4. Content(c, call[c].read) \in Texts /\ c \in Content(c, call[c].read)
  BY <1>3, SandboxConstants DEF Content, Texts, SandboxCalls
<1>5. Strays'
  <2>1. \A d \in SandboxCalls \ {c} : landed'[d] = landed[d]
    BY <1>1 DEF GuardInv, SandboxTypeOK
  <2> QED
    BY <1>1, <1>2, <2>1, NothingStraysNew DEF GuardInv, CallsInv, SandboxTypeOK
<1>6. ASSUME Calm' PROVE Done' \subseteq file'
  <2>1. Calm /\ c \notin Writes
    BY <1>1, <1>2, <1>6, CalmAtEnd
  <2>2. Done' \subseteq Done \cup {c}
    BY <1>2 DEF Done, CallStep
  <2>3. CASE c \in Commands
    <3>1. Content(c, call[c].read) = file \cup {c}
      BY <2>3, SandboxConstants DEF Content
    <3> QED
      BY <1>1, <1>2, <2>1, <2>2, <2>3, <3>1, SandboxConstants, DoneIsOnFile
  <2>4. CASE c \in Replaces
    <3>1. Content(c, call[c].read) = call[c].read \cup {c}
      BY <2>4, SandboxConstants DEF Content
    <3>2. Done \subseteq call[c].read
      BY <1>1, <1>2, <2>1, <2>4, GuardFacts DEF GuardInv, CallsInv, TextInHand
    <3> QED
      BY <1>1, <2>2, <3>1, <3>2
  <2> QED
    BY <2>1, <2>3, <2>4 DEF SandboxCalls
<1> QED
  BY <1>1, <1>2, <1>3, <1>4, <1>5, <1>6, SameHostStays, GuardFacts, EndKeeps

LEMMA KeepsLost ==
    ASSUME NEW c \in SandboxCalls, GuardInv, Lost(c)
    PROVE  GuardInv'
<1>1. /\ call[c].at \in {"running", "emptied"} /\ Over(c, "error") /\ UNCHANGED <<hostVars, stray, met>>
      /\ audited' \in {audited, audited \cup {c}}
      /\ \/ UNCHANGED <<file, landed>>
         \/ c \in Commands /\ file' = Content(c, call[c].read) /\ landed' = [landed EXCEPT ![c] = @ + 1]
  BY DEF Lost, Takes
<1>2. CallStep(c) /\ answer'[c] = "error" /\ IsBusy(c) /\ "error" \in CallReplies \ {NoAnswer}
  BY <1>1, OverStep, GuardFacts DEF CallReplies, IsBusy, NoAnswer
<1>3. file \in Texts /\ stray' \in SUBSET Straggling /\ landed \in [SandboxCalls -> 0..2]
  BY <1>1 DEF GuardInv, SandboxTypeOK
<1>4. file' \in {file, file \cup {c}}
  BY <1>1, SandboxConstants DEF Content
<1>5. file' \in Texts
  BY <1>3, <1>4 DEF Texts, SandboxCalls
<1>6. Strays'
  <2>1. \A d \in SandboxCalls \ {c} : landed'[d] = landed[d]
    BY <1>1, <1>3
  <2> QED
    BY <1>1, <1>2, <2>1, NothingStraysNew DEF GuardInv, CallsInv, SandboxTypeOK
<1>7. ASSUME Calm' PROVE Done' \subseteq file'
  <2>1. Calm
    BY <1>1, <1>2, <1>7, CalmAtEnd
  <2>2. c \notin Replaces
    BY <1>2, <1>7 DEF Calm
  <2> QED
    BY <1>2, <1>4, <2>1, <2>2, DoneIsOnFile, DoneAtEnd
<1> QED
  BY <1>1, <1>2, <1>3, <1>5, <1>6, <1>7, SameHostStays, GuardFacts, EndKeeps

\* An operation that its call leaves behind, or that comes to nothing.
Straggler(c) == [call |-> c, env |-> call[c].env, text |-> call[c].read, emptied |-> call[c].at = "emptied"]

LEMMA LeftBehind ==
    ASSUME NEW c \in SandboxCalls, NEW what \in {"timed_out", "abandoned", "error"}, GuardInv, Over(c, what),
           call[c].at \in {"running", "emptied"}, HostStays, UNCHANGED <<file, landed, met>>,
           c \notin Commands => what \in {"abandoned", "error"},
           audited' \in {audited, audited \cup {c}},
           stray' \in {stray, stray \cup {Straggler(c)}}
    PROVE  GuardInv'
<1>1. what \in CallReplies \ {NoAnswer} /\ what \notin {"ok", "refused", "dead"}
  BY DEF CallReplies, NoAnswer
<1>2. CallStep(c) /\ answer'[c] = what /\ IsBusy(c) /\ answer[c] = NoAnswer /\ landed[c] = 0
  BY <1>1, OverStep, GuardFacts DEF IsBusy, GuardInv, CallsInv, CallsSettled, Settled
<1>3. file \in Texts /\ stray \in SUBSET Straggling
  BY DEF GuardInv, SandboxTypeOK
<1>4. Straggler(c) \in Straggling /\ Straggler(c).call = c
  <2>1. call[c].env \in 0..MaxEnvs /\ call[c].read \in Texts
    BY DEF GuardInv, SandboxTypeOK, Standing
  <2> QED
    BY <2>1 DEF Straggler, Straggling
<1> HIDE DEF Straggler
<1>5. stray' \in SUBSET Straggling
  BY <1>3, <1>4
<1>6. Strays'
  <2>1. \A s \in stray : /\ s.call /= c /\ s.call \in SandboxCalls /\ landed[s.call] = 0
                         /\ answer[s.call] \in {"timed_out", "abandoned", "error"}
                         /\ s.call \notin Commands => answer[s.call] \in {"abandoned", "error"}
    BY <1>2, <1>3 DEF GuardInv, CallsInv, Strays, NoAnswer, Straggling
  <2>2. \A s \in stray : answer'[s.call] = answer[s.call]
    BY <1>2, <2>1 DEF CallStep
  <2>3. \A s \in stray' : s \in stray \/ (s = Straggler(c) /\ s.call = c)
    BY <1>4
  <2>4. \A s, u \in stray : s.call = u.call => s = u
    BY DEF GuardInv, CallsInv, Strays
  <2>5. \A s \in stray' : /\ answer'[s.call] \in {"timed_out", "abandoned", "error"} /\ landed'[s.call] = 0
                          /\ s.call \notin Commands => answer'[s.call] \in {"abandoned", "error"}
    BY <1>2, <2>1, <2>2, <2>3
  <2>6. \A s, u \in stray' : s.call = u.call => s = u
    BY <2>1, <2>3, <2>4
  <2> QED
    BY <2>5, <2>6 DEF Strays
<1>7. ASSUME Calm' PROVE Done' \subseteq file'
  <2>1. Calm /\ c \notin Writes
    BY <1>2, <1>7, CalmAtEnd
  <2>2. c \notin Replaces
    BY <1>2, <1>7, SandboxConstants DEF Calm
  <2> QED
    BY <1>1, <1>2, <2>1, <2>2, DoneIsOnFile, DoneAtEnd
<1>8. landed' = landed /\ met' = met
  OBVIOUS
<1> QED
  BY <1>1, <1>3, <1>5, <1>6, <1>7, <1>8, EndKeeps

LEMMA KeepsCallTimesOut ==
    ASSUME NEW c \in SandboxCalls, GuardInv, CallTimesOut(c)
    PROVE  GuardInv'
<1>1. /\ call[c].at \in {"running", "emptied"} /\ UNCHANGED <<hostVars, file, landed, met>>
      /\ \/ c \in Commands /\ Over(c, "timed_out")
         \/ c \notin Commands /\ Over(c, "error")
      /\ audited' \in {audited, audited \cup {c}}
      /\ stray' \in {stray, stray \cup {Straggler(c)}}
  BY DEF CallTimesOut, GoesOnOutside, Straggler
<1>2. HostStays /\ UNCHANGED <<file, landed, met>>
  BY <1>1, SameHostStays, GuardFacts
<1> QED
  BY <1>1, <1>2, LeftBehind

LEMMA KeepsAbandon ==
    ASSUME NEW c \in SandboxCalls, GuardInv, Abandon(c)
    PROVE  GuardInv'
<1>1. /\ Over(c, "abandoned") /\ failures' \in 0..MaxFaults
      /\ UNCHANGED <<kind, mode, isOpen, audited, met>>
  BY WrongCounted DEF Abandon
<1>2. "abandoned" \in CallReplies
  BY DEF CallReplies
<1>3. ASSUME call[c].at \in {"alive", "again", "close", "closed", "read", "start"},
             UNCHANGED <<file, stray, landed>>
      PROVE  /\ QuietText(c) /\ QuietCall(c) /\ IsBusy(c) /\ OnlyGrows /\ CallStep(c)
             /\ call'[c].at = "over" /\ answer'[c] = "abandoned"
  <2>1. /\ CallStep(c) /\ call'[c].at = "over" /\ answer'[c] = "abandoned"
    BY <1>1, <1>2, <1>3, OverStep, GuardFacts
  <2>2. IsBusy(c) /\ OnlyGrows /\ call[c].at /= "emptied"
    BY <1>1, <1>3 DEF IsBusy, OnlyGrows
  <2>3. QuietText(c)
    BY <1>1, <1>3, <2>1, <2>2 DEF QuietText
  <2> QED
    BY <1>1, <1>3, <2>1, <2>2, <2>3 DEF QuietCall
<1>4. CASE AbandonAsking(c)
  <2>1. /\ call[c].at \in {"alive", "again", "close", "closed", "read", "start"}
        /\ UNCHANGED <<handle, envs, left>> /\ UNCHANGED <<file, stray, landed>>
    BY <1>4 DEF AbandonAsking
  <2>2. SameHost(c) /\ QuietCall(c)
    BY <1>1, <1>3, <2>1 DEF SameHost, HostStays
  <2>3. met' \in BOOLEAN /\ audited' \in {audited, audited \cup {c}}
    BY <1>1, GuardFacts
  <2> QED
    BY <2>2, <2>3, QuietOnSameHost
<1>5. CASE AbandonStart(c)
  <2>1. call[c].at = "start" /\ UNCHANGED <<file, stray, landed>> /\ Started
    BY <1>5 DEF AbandonStart, Started
  <2>2. UNCHANGED <<kind, mode, isOpen, tellVars>>
    BY <1>1, <2>1 DEF tellVars
  <2> QED
    BY <1>1, <1>3, <2>1, <2>2, StartKeeps
<1>6. CASE AbandonWork(c)
  <2>1. /\ call[c].at \in {"running", "emptied"} /\ UNCHANGED <<handle, envs, left>>
        /\ \/ stray' \in {stray, stray \cup {Straggler(c)}} /\ UNCHANGED <<file, landed>>
           \/ c \notin Commands /\ Takes(c, call[c].read) /\ UNCHANGED stray
    BY <1>6 DEF AbandonWork, GoesOnOutside, Straggler
  <2>2. HostStays
    BY <1>1, <2>1 DEF HostStays
  <2>3. CASE stray' \in {stray, stray \cup {Straggler(c)}} /\ UNCHANGED <<file, landed>>
    BY <1>1, <2>1, <2>2, <2>3, LeftBehind
  <2>4. CASE c \notin Commands /\ Takes(c, call[c].read) /\ UNCHANGED stray
    <3>1. CallStep(c) /\ answer'[c] = "abandoned" /\ "abandoned" \in CallReplies \ {NoAnswer}
      BY <1>1, <1>2, <2>1, OverStep, GuardFacts DEF NoAnswer
    <3>2. file \in Texts /\ call[c].read \in Texts /\ stray' \in SUBSET Straggling
      BY <2>4 DEF GuardInv, SandboxTypeOK, Standing
    <3>3. file' \in Texts /\ landed' = [landed EXCEPT ![c] = @ + 1]
      BY <2>4, <3>2, SandboxConstants DEF Takes, Content, Texts, SandboxCalls
    <3>4. Strays'
      <4>1. \A d \in SandboxCalls \ {c} : landed'[d] = landed[d]
        BY <3>3 DEF GuardInv, SandboxTypeOK
      <4> QED
        BY <2>4, <3>1, <4>1, NothingStraysNew DEF GuardInv, CallsInv, SandboxTypeOK
    <3>5. ASSUME Calm' PROVE FALSE
      <4>1. c \notin Writes
        BY <1>1, <3>1, <3>5, CalmAtEnd
      <4> QED
        BY <2>4, <3>1, <3>5, <4>1 DEF Calm, SandboxCalls
    <3> QED
      BY <1>1, <2>1, <2>2, <3>1, <3>2, <3>3, <3>4, <3>5, EndKeeps
  <2> QED
    BY <2>1, <2>3, <2>4
<1> QED
  BY <1>4, <1>5, <1>6 DEF Abandon

\* What a straggler belongs to; beside one that writes nothing is calm.
LEMMA StragglerFacts ==
    ASSUME GuardInv, NEW s \in stray
    PROVE  /\ s \in Straggling /\ s.call \in SandboxCalls /\ landed[s.call] = 0 /\ call[s.call].at = "over"
           /\ answer[s.call] \in {"timed_out", "abandoned", "error"}
           /\ s.call \notin Commands => ~Calm
<1>1. /\ s \in Straggling /\ landed[s.call] = 0
      /\ answer[s.call] \in {"timed_out", "abandoned", "error"}
      /\ s.call \notin Commands => answer[s.call] \in {"abandoned", "error"}
  BY DEF GuardInv, SandboxTypeOK, CallsInv, Strays
<1>2. s.call \in SandboxCalls
  BY <1>1 DEF Straggling
<1>3. call[s.call].at = "over"
  BY <1>1, <1>2 DEF GuardInv, CallsInv, CallsSettled, Settled, NoAnswer
<1>4. s.call \notin Commands => ~Calm
  BY <1>1, <1>2, <1>3 DEF Calm, SandboxCalls
<1> QED
  BY <1>1, <1>2, <1>3, <1>4

LEMMA KeepsStrayEmpties ==
    ASSUME GuardInv, StrayEmpties
    PROVE  GuardInv'
<1>1. PICK s \in stray : /\ s.call \notin Commands /\ file' = {}
                         /\ stray' = (stray \ {s}) \cup {[s EXCEPT !.emptied = TRUE]}
                         /\ UNCHANGED <<hostVars, call, answer, landed, audited, met>>
  BY DEF StrayEmpties
<1> DEFINE r == [s EXCEPT !.emptied = TRUE]
<1>2. s \in Straggling /\ ~Calm
  BY <1>1, StragglerFacts
<1>3. r \in Straggling /\ r.call = s.call
  BY <1>2 DEF Straggling
<1> HIDE DEF r
<1>4. stray' = (stray \ {s}) \cup {r}
  BY <1>1 DEF r
<1>5. SandboxTypeOK'
  BY <1>1, <1>3, <1>4 DEF GuardInv, SandboxTypeOK, hostVars, Texts
<1>6. EnvsNumbered' /\ OneEnvironment'
  BY <1>1 DEF GuardInv, EnvsNumbered, OneEnvironment, hostVars
<1>7. CallsSettled'
  BY <1>1 DEF GuardInv, CallsInv, CallsSettled, Settled
<1>8. Strays'
  <2>1. /\ \A u \in stray : /\ answer[u.call] \in {"timed_out", "abandoned", "error"} /\ landed[u.call] = 0
                            /\ u.call \notin Commands => answer[u.call] \in {"abandoned", "error"}
        /\ \A u, v \in stray : u.call = v.call => u = v
    BY DEF GuardInv, CallsInv, Strays
  <2>2. \A u \in stray' : \E v \in stray : u.call = v.call /\ (u = v \/ (u = r /\ v = s))
    BY <1>3, <1>4
  <2>3. \A u \in stray' : u.call = s.call => u = r
    BY <1>3, <1>4, <2>1
  <2>4. \A u \in stray' : /\ answer'[u.call] \in {"timed_out", "abandoned", "error"} /\ landed'[u.call] = 0
                          /\ u.call \notin Commands => answer'[u.call] \in {"abandoned", "error"}
    BY <1>1, <2>1, <2>2
  <2>5. \A u, v \in stray' : u.call = v.call => u = v
    BY <1>3, <1>4, <2>1, <2>3
  <2> QED
    BY <2>4, <2>5 DEF Strays
<1>9. OneAtATime'
  <2>1. met' = met /\ isOpen' = isOpen /\ call' = call /\ stray /= {}
    BY <1>1 DEF hostVars
  <2> QED
    BY <2>1 DEF GuardInv, CallsInv, OneAtATime, IsBusy
<1>10. ~Calm' /\ TextInHand' /\ TextOnFile'
  BY <1>1, <1>2 DEF TextInHand, TextOnFile, Calm
<1> QED
  BY <1>5, <1>6, <1>7, <1>8, <1>9, <1>10 DEF GuardInv, CallsInv

LEMMA KeepsStrayEnds ==
    ASSUME GuardInv, StrayEnds
    PROVE  GuardInv'
<1>1. PICK s \in stray : /\ stray' = stray \ {s} /\ UNCHANGED <<hostVars, call, answer, audited, met>>
                         /\ \/ UNCHANGED <<file, landed>>
                            \/ file' = Content(s.call, s.text) /\ landed' = [landed EXCEPT ![s.call] = @ + 1]
  BY DEF StrayEnds, Takes
<1>2. /\ s \in Straggling /\ s.call \in SandboxCalls /\ landed[s.call] = 0 /\ call[s.call].at = "over"
      /\ answer[s.call] \in {"timed_out", "abandoned", "error"}
      /\ s.call \notin Commands => ~Calm
  BY StragglerFacts
<1>3. landed \in [SandboxCalls -> 0..2] /\ file \in Texts
  BY DEF GuardInv, SandboxTypeOK
<1>4. file' \in Texts /\ (s.call \in Commands => file' \in {file, file \cup {s.call}})
  <2>1. s.text \in Texts
    BY <1>2 DEF Straggling
  <2> QED
    BY <1>1, <1>2, <1>3, <2>1, SandboxConstants DEF Content, Texts, SandboxCalls
<1>5. /\ landed' \in [SandboxCalls -> 0..2] /\ landed'[s.call] \in 0..1
      /\ \A d \in SandboxCalls \ {s.call} : landed'[d] = landed[d]
  <2>1. CASE landed' = landed
    BY <1>2, <1>3, <2>1
  <2>2. CASE landed' = [landed EXCEPT ![s.call] = @ + 1]
    BY <1>2, <1>3, <2>2
  <2> QED
    BY <1>1, <2>1, <2>2
<1>6. SandboxTypeOK'
  BY <1>1, <1>4, <1>5 DEF GuardInv, SandboxTypeOK, hostVars
<1>7. EnvsNumbered' /\ OneEnvironment'
  BY <1>1 DEF GuardInv, EnvsNumbered, OneEnvironment, hostVars
<1>8. Strays'
  <2>1. /\ \A u \in stray : /\ answer[u.call] \in {"timed_out", "abandoned", "error"} /\ landed[u.call] = 0
                            /\ u.call \notin Commands => answer[u.call] \in {"abandoned", "error"}
        /\ \A u, v \in stray : u.call = v.call => u = v
    BY DEF GuardInv, CallsInv, Strays
  <2>2. \A u \in stray' : u \in stray /\ u.call /= s.call /\ u.call \in SandboxCalls
    BY <1>1, <2>1, StragglerFacts
  <2> QED
    BY <1>1, <1>5, <2>1, <2>2 DEF Strays
<1>9. CallsSettled'
  <2> SUFFICES ASSUME NEW d \in SandboxCalls PROVE Settled(d)'
    BY DEF CallsSettled
  <2>1. Settled(d)
    BY DEF GuardInv, CallsInv, CallsSettled
  <2>2. CASE d /= s.call
    BY <1>1, <1>5, <2>1, <2>2 DEF Settled
  <2>3. CASE d = s.call
    BY <1>1, <1>2, <1>5, <2>1, <2>3 DEF Settled
  <2> QED
    BY <2>2, <2>3
<1>10. OneAtATime'
  <2>1. met' = met /\ isOpen' = isOpen /\ call' = call /\ (stray = {} => stray' = {})
    BY <1>1 DEF hostVars
  <2> QED
    BY <2>1 DEF GuardInv, CallsInv, OneAtATime, IsBusy
<1>11. TextInHand' /\ TextOnFile'
  <2>1. CASE s.call \in Commands
    BY <1>1, <1>4, <2>1 DEF GuardInv, CallsInv, TextInHand, TextOnFile, Calm, Done, IsBusy
  <2>2. CASE s.call \notin Commands
    BY <1>1, <1>2, <2>2 DEF TextInHand, TextOnFile, Calm
  <2> QED
    BY <2>1, <2>2
<1> QED
  BY <1>6, <1>7, <1>8, <1>9, <1>10, <1>11 DEF GuardInv, CallsInv

-----------------------------------------------------------------------------
LEMMA GuardInit == SandboxInit => GuardInv
<1> SUFFICES ASSUME SandboxInit PROVE GuardInv
  OBVIOUS
<1>1. /\ isOpen = TRUE /\ handle = 1 /\ envs = [e \in {1} |-> "up"] /\ left = {} /\ file = {"before"} /\ stray = {} /\ met = FALSE
      /\ \A c \in SandboxCalls : call[c] = Resting /\ answer[c] = NoAnswer /\ landed[c] = 0
  BY DEF SandboxInit
<1>2. MaxEnvs \in Nat \ {0} /\ RestartMax \in Nat /\ MaxFaults \in Nat
  BY SandboxConstants
<1>3. DOMAIN envs = 1..1 /\ 1 \in 1..MaxEnvs
  BY <1>1, <1>2
<1>4. SandboxTypeOK
  <2>1. Resting \in Standing
    BY <1>2 DEF Resting, Standing, CallPlaces, Texts
  <2>2. file \in Texts /\ failures \in 0..MaxFaults
    BY <1>1, <1>2 DEF Texts, SandboxInit
  <2>3. handle \in 0..MaxEnvs /\ DOMAIN envs \subseteq 1..MaxEnvs /\ left \subseteq 1..MaxEnvs /\ \A e \in DOMAIN envs : envs[e] \in {"up", "hung", "gone"}
    BY <1>1, <1>2, <1>3
  <2>4. call \in [SandboxCalls -> Standing] /\ answer \in [SandboxCalls -> CallReplies]
    BY <2>1 DEF SandboxInit, CallReplies, NoAnswer
  <2>5. landed \in [SandboxCalls -> 0..2]
    BY DEF SandboxInit
  <2>6. isOpen \in BOOLEAN /\ met \in BOOLEAN /\ stray \subseteq Straggling /\ audited \subseteq SandboxCalls
    BY DEF SandboxInit
  <2>7. kind \in {"local", "container", "ssh"} /\ mode \in {"agent", "workdir", "plan"}
    BY DEF SandboxInit
  <2> QED
    BY <2>2, <2>3, <2>4, <2>5, <2>6, <2>7 DEF SandboxTypeOK
<1>5. EnvsNumbered /\ OneEnvironment
  BY <1>1, <1>3 DEF EnvsNumbered, OneEnvironment, Resting
<1>6. CallsSettled /\ Strays /\ OneAtATime
  BY <1>1 DEF CallsSettled, Settled, Strays, OneAtATime, IsBusy, Resting, NoAnswer
<1>7. TextInHand /\ TextOnFile
  BY <1>1 DEF TextInHand, TextOnFile, IsBusy, Done, Resting, NoAnswer, SandboxCalls
<1> QED
  BY <1>4, <1>5, <1>6, <1>7 DEF GuardInv, CallsInv

LEMMA GuardNext == GuardInv /\ [SandboxNext]_sandboxVars => GuardInv'
<1> SUFFICES ASSUME GuardInv, [SandboxNext]_sandboxVars PROVE GuardInv'
  OBVIOUS
<1>1. CASE UNCHANGED sandboxVars
  BY <1>1 DEF GuardInv, SandboxTypeOK, EnvsNumbered, OneEnvironment, CallsInv, CallsSettled, Settled, Strays, OneAtATime,
              IsBusy, TextInHand, TextOnFile, Calm, Done, sandboxVars, hostVars, tellVars
<1>2. CASE Fault \/ CloseSandbox \/ StrayEmpties \/ StrayEnds
  BY <1>2, KeepsFault, KeepsCloseSandbox, KeepsStrayEmpties, KeepsStrayEnds
<1>3. ASSUME NEW c \in SandboxCalls,
             \/ BeginCall(c) \/ Probe(c) \/ CloseInner(c) \/ CloseForgets(c) \/ StartInner(c)
             \/ Act(c) \/ WriteBack(c) \/ Empties(c) \/ Lands(c) \/ Lost(c)
      PROVE  GuardInv'
  BY <1>3, KeepsBeginCall, KeepsProbe, KeepsCloseInner, KeepsCloseForgets, KeepsStartInner, KeepsAct, KeepsWriteBack,
     KeepsEmpties, KeepsLands, KeepsLost
<1>4. ASSUME NEW c \in SandboxCalls, CallTimesOut(c)
      PROVE  GuardInv'
  BY <1>4, KeepsCallTimesOut
<1>5. ASSUME NEW c \in SandboxCalls, Abandon(c)
      PROVE  GuardInv'
  BY <1>5, KeepsAbandon
<1> QED
  BY <1>1, <1>2, <1>3, <1>4, <1>5 DEF SandboxNext

LEMMA GuardInvSound == GuardInv => SandboxSound
<1> SUFFICES ASSUME GuardInv PROVE SandboxSound
  OBVIOUS
<1>1. DoneOnce
  BY DEF GuardInv, CallsInv, CallsSettled, Settled, Strays, DoneOnce
<1>2. NothingLeft
  <2>1. \A e \in DOMAIN envs : e /= 0
    BY DEF GuardInv, SandboxTypeOK
  <2> QED
    BY <2>1 DEF GuardInv, OneEnvironment, NothingLeft
<1>3. TextKept
  BY DEF GuardInv, CallsInv, TextOnFile, Calm, Done, TextKept
<1> QED
  BY <1>1, <1>2, <1>3 DEF SandboxSound, GuardInv

(* Whatever dies under them and wherever they are cancelled, what calls of a sandbox ask for      *)
(* happens at most once and an answer tells the truth of it; calls that never meet leave nothing  *)
(* behind but what a cancelled start made or a failed removal left, and keep each other's text.   *)
THEOREM SandboxIsSound == SandboxSpec => []SandboxSound
<1>1. GuardInv /\ [SandboxNext]_sandboxVars => GuardInv'
  BY GuardNext
<1> QED
  BY <1>1, GuardInit, GuardInvSound, PTL DEF SandboxSpec

-----------------------------------------------------------------------------
(* The DeepMD chain *)

ChainNames == {"train", "freeze", "test", "post", "pca", "check"}
Noteds == ChainNames \X {"completed", "skipped", "failed"}

\* The steps behind the training, behind the tests, and behind the figures of the tests.
AfterPost == {"pca", "extract", "reduce", "draw", "pcasummary", "check"}
AfterTests == {"post", "energy", "force", "report"} \cup AfterPost
AfterTraining == {"freeze", "model", "test", "aggregate"} \cup AfterTests
ChainSteps == {"idle", "train", "training"} \cup AfterTraining

\* What the types say of the files alone, and of the rest.
FilesTyped ==
    /\ starts \in Origin /\ tested \subseteq Systems /\ ckpt \in Trained /\ frozen \in Trained
    /\ curve \in Origin /\ detail \in [Kinds -> PerTest] /\ raw \in [Systems -> [Kinds -> Origin]]
    /\ {features, points, scatter} \subseteq Origin /\ apart \in BOOLEAN /\ thin \in BOOLEAN
    /\ figs \in [curve : Origin, energy : PerTest, force : PerTest]
    /\ post \in [ready : BOOLEAN, curve : Origin, energy : PerTest, force : PerTest]
    /\ pca \in [ready : BOOLEAN, model : Origin]

ChainTyped ==
    /\ FilesTyped /\ summary.run \in 0..starts
    /\ step \in ChainSteps /\ records \in Seq(Noteds)

NotedIn(rs) == {rs[i] : i \in 1..Len(rs)}

\* A run under way has begun, has told nothing, and none of its commands has failed yet.
Underway ==
    step /= "idle" =>
        /\ starts >= 1 /\ summary.run < starts
        /\ \A r \in NotedIn(records) : r[1] /= "check" /\ r[2] /= "failed"
        /\ step \notin {"draw", "pcasummary", "check"} => ~SecondCommand

\* What a run that has skipped nothing has made so far is its own: the model ...
OwnModel ==
    /\ step \in {"training"} \cup AfterTraining => curve = starts
    /\ step \in AfterTraining => ckpt = [run |-> starts, whole |-> TRUE]
    /\ step \in AfterTraining \ {"freeze"} => frozen = [run |-> starts, whole |-> TRUE]

\* ... its test results and their figures, if the tests left all their files ...
OwnTests ==
    /\ \A s \in tested, k \in Kinds : raw[s][k] = starts
    /\ step \in {"aggregate"} \cup AfterTests => tested = Systems
    /\ step \in AfterTests => \A k \in Kinds, s \in Systems : detail[k][s] = starts

OwnPlots ==
    /\ step \in {"force", "report"} \cup AfterPost => \A s \in Systems : figs.energy[s] = starts
    /\ step \in {"report"} \cup AfterPost => \A s \in Systems : figs.force[s] = starts
    /\ step \in AfterPost => \A s \in Systems : post.energy[s] = starts /\ post.force[s] = starts

\* ... its learning curve ...
OwnCurve ==
    /\ step \in AfterTests \ {"post"} => figs.curve = starts
    /\ step \in AfterPost => post.curve = starts

\* ... and its map.
OwnMap ==
    /\ step = "reduce" => features = starts
    /\ step \in {"draw", "pcasummary", "check"} => points = starts
    /\ SecondCommand => pca.model = starts
    /\ step = "draw" /\ apart => SecondCommand
    /\ step = "pcasummary" /\ (~apart \/ SecondCommand) => scatter = starts
    /\ step = "check" => pca.model = starts /\ scatter = starts

SkippedNothing == \A r \in NotedIn(records) : r[2] /= "skipped"

OwnFiles ==
    step /= "idle" /\ SkippedNothing =>
        OwnModel /\ OwnCurve /\ OwnMap /\ (~thin => OwnTests /\ OwnPlots)

ChainInv == ChainTyped /\ Underway /\ OwnFiles /\ PassIsWhole /\ PassIsChecked /\ EndIsTold

LEMMA NotedFacts ==
    ASSUME NEW rs \in Seq(Noteds), NEW n \in ChainNames, NEW w \in {"completed", "skipped", "failed"}
    PROVE  LET new == Append(rs, <<n, w>>)
           IN  /\ new \in Seq(Noteds) /\ new /= <<>> /\ new[Len(new)] = <<n, w>>
               /\ NotedIn(new) = NotedIn(rs) \cup {<<n, w>>}
<1> DEFINE new == Append(rs, <<n, w>>)
<1>1. <<n, w>> \in Noteds
  BY DEF Noteds
<1>2. /\ new \in Seq(Noteds) /\ Len(new) = Len(rs) + 1 /\ new[Len(new)] = <<n, w>>
      /\ \A i \in 1..Len(rs) : new[i] = rs[i]
  BY <1>1
<1>3. Len(rs) \in Nat
  OBVIOUS
<1>4. NotedIn(new) = NotedIn(rs) \cup {<<n, w>>}
  <2>1. ASSUME NEW i \in 1..Len(new) PROVE new[i] \in NotedIn(rs) \cup {<<n, w>>}
    <3>1. i = Len(rs) + 1 \/ i \in 1..Len(rs)
      BY <1>2, <1>3
    <3> QED
      BY <1>2, <3>1 DEF NotedIn
  <2>2. ASSUME NEW i \in 1..Len(rs) PROVE rs[i] \in NotedIn(new)
    <3>1. i \in 1..Len(new) /\ new[i] = rs[i]
      BY <1>2, <1>3
    <3> QED
      BY <3>1 DEF NotedIn
  <2>3. <<n, w>> \in NotedIn(new)
    <3>1. Len(new) \in 1..Len(new)
      BY <1>2, <1>3
    <3> QED
      BY <1>2, <3>1 DEF NotedIn
  <2> QED
    BY <2>1, <2>2, <2>3 DEF NotedIn
<1>5. new /= <<>>
  BY <1>2, <1>3
<1> QED
  BY <1>2, <1>4, <1>5

LEMMA DigestFacts ==
    ASSUME NEW rs
    PROVE  /\ Digest(rs)["failed"] <=> \E r \in NotedIn(rs) : r[2] = "failed"
           /\ Digest(rs)["skipped"] <=> \E r \in NotedIn(rs) : r[2] = "skipped"
BY DEF Digest, NotedIn

LEMMA ToldFacts ==
    ASSUME NEW status, NEW rs
    PROVE  /\ Told(status, rs).status = status /\ Told(status, rs).run = starts
           /\ Told(status, rs).has = Digest(rs) /\ Told(status, rs).checked = Checked(rs)
BY DEF Told

LEMMA ChainFacts ==
    ASSUME ChainInv
    PROVE  /\ MaxRuns \in Nat /\ starts \in 0..MaxRuns /\ summary.run \in 0..MaxRuns /\ summary.run <= starts
           /\ records \in Seq(Noteds) /\ step \in ChainSteps
BY ChainConstants DEF ChainInv, ChainTyped, FilesTyped, Origin

\* The parts that are not about types or a step's own files.
ToldInv == Underway /\ PassIsWhole /\ PassIsChecked /\ EndIsTold

\* A run that does not reach its end tells so.
LEMMA EndsBadly ==
    ASSUME ChainInv, step /= "idle", NEW status \in {"failed", "running"}, NEW rs, Conclude(status, rs), starts' = starts,
           rs = records \/ \E n \in ChainNames : rs = Noted(n, "failed")
    PROVE  /\ ToldInv' /\ OwnFiles' /\ records' \in Seq(Noteds) /\ step' \in ChainSteps
           /\ summary'.run = starts'
<1>1. step' = "idle" /\ records' = rs /\ summary' = Told(status, rs)
  BY DEF Conclude
<1>2. Underway' /\ OwnFiles' /\ step' \in ChainSteps /\ summary'.run = starts
  BY <1>1, ToldFacts DEF Underway, OwnFiles, ChainSteps
<1>3. PassIsWhole' /\ PassIsChecked'
  BY <1>1, ToldFacts DEF PassIsWhole, PassIsChecked
<1>4. /\ rs \in Seq(Noteds)
      /\ rs /= <<>> => rs[Len(rs)][1] /= "check" \/ Digest(rs)["failed"]
  <2>1. CASE rs = records
    <3>1. rs \in Seq(Noteds)
      BY <2>1, ChainFacts
    <3>2. rs /= <<>> => Len(rs) \in 1..Len(rs)
      BY <3>1
    <3>3. rs /= <<>> => rs[Len(rs)] \in NotedIn(records)
      BY <2>1, <3>2 DEF NotedIn
    <3> QED
      BY <3>1, <3>3 DEF ChainInv, Underway
  <2>2. ASSUME NEW n \in ChainNames, rs = Noted(n, "failed")
        PROVE  rs \in Seq(Noteds) /\ Digest(rs)["failed"]
    <3>1. rs \in Seq(Noteds) /\ <<n, "failed">> \in NotedIn(rs)
      BY <2>2, NotedFacts, ChainFacts DEF Noted
    <3> QED
      BY <3>1, DigestFacts
  <2> QED
    BY <2>1, <2>2
<1>5. EndIsTold'
  <2> SUFFICES ASSUME records' /= <<>>
               PROVE  /\ summary' = Told(summary.status, records)'
                      /\ summary'.status = "pass" <=> records'[Len(records')][1] = "check" /\ ~summary'.has["failed"]
    BY DEF EndIsTold
  <2>1. summary'.status = status /\ summary'.has = Digest(rs)
    BY <1>1, ToldFacts
  <2>2. Told(summary.status, records)' = Told(status, rs)
    BY <1>1, <2>1 DEF Told
  <2> QED
    BY <1>1, <1>4, <2>1, <2>2
<1> QED
  BY <1>1, <1>2, <1>3, <1>4, <1>5 DEF ToldInv

\* A run that goes on notes no failure and no check.
LEMMA GoesOnKeeps ==
    ASSUME ChainInv, step /= "idle", NEW next \in ChainSteps \ {"idle"}, NEW rs, GoesOn(next, rs), starts' = starts,
           \/ rs = records
           \/ \E n \in ChainNames \ {"check"}, w \in {"completed", "skipped"} :
                 rs = Noted(n, w) /\ (n = "pca" /\ w = "completed" => next \in {"draw", "check"}),
           step \in {"draw", "pcasummary", "check"} => next \in {"draw", "pcasummary", "check"}
    PROVE  /\ ToldInv' /\ records' \in Seq(Noteds) /\ step' \in ChainSteps /\ summary'.run <= starts'
           /\ SkippedNothing' => SkippedNothing
<1>1. step' = next /\ records' = rs /\ summary' = summary
  BY DEF GoesOn
<1>2. PassIsWhole' /\ PassIsChecked' /\ EndIsTold'
  BY <1>1 DEF PassIsWhole, PassIsChecked, EndIsTold, Latest
<1>3. /\ starts >= 1 /\ summary.run < starts
      /\ \A r \in NotedIn(records) : r[1] /= "check" /\ r[2] /= "failed"
      /\ step \notin {"draw", "pcasummary", "check"} => <<"pca", "completed">> \notin NotedIn(records)
  BY DEF ChainInv, Underway, SecondCommand, NotedIn
<1>4. /\ rs \in Seq(Noteds) /\ NotedIn(records) \subseteq NotedIn(rs)
      /\ \A r \in NotedIn(rs) : r[1] /= "check" /\ r[2] /= "failed"
      /\ next \notin {"draw", "pcasummary", "check"} => <<"pca", "completed">> \notin NotedIn(rs)
  <2>1. CASE rs = records
    BY <1>3, <2>1, ChainFacts
  <2>2. ASSUME NEW n \in ChainNames \ {"check"}, NEW w \in {"completed", "skipped"}, rs = Noted(n, w),
               n = "pca" /\ w = "completed" => next \in {"draw", "check"}
        PROVE  /\ rs \in Seq(Noteds) /\ NotedIn(records) \subseteq NotedIn(rs)
               /\ \A r \in NotedIn(rs) : r[1] /= "check" /\ r[2] /= "failed"
               /\ next \notin {"draw", "pcasummary", "check"} => <<"pca", "completed">> \notin NotedIn(rs)
    <3>1. rs \in Seq(Noteds) /\ NotedIn(rs) = NotedIn(records) \cup {<<n, w>>}
      <4>1. n \in ChainNames /\ w \in {"completed", "skipped", "failed"} /\ records \in Seq(Noteds)
        BY <2>2, ChainFacts
      <4>2. rs = Append(records, <<n, w>>)
        BY <2>2 DEF Noted
      <4>3. /\ Append(records, <<n, w>>) \in Seq(Noteds)
            /\ NotedIn(Append(records, <<n, w>>)) = NotedIn(records) \cup {<<n, w>>}
        BY <4>1, NotedFacts, ZenonT(40)
      <4> QED
        BY <4>2, <4>3
    <3> QED
      BY <1>3, <2>2, <3>1
  <2> QED
    BY <2>1, <2>2
<1>5. Underway'
  BY <1>1, <1>3, <1>4 DEF Underway, SecondCommand, NotedIn
<1>6. SkippedNothing' => SkippedNothing
  BY <1>1, <1>4 DEF SkippedNothing
<1> QED
  BY <1>1, <1>2, <1>3, <1>4, <1>5, <1>6, ChainFacts DEF ToldInv

noFile == <<starts, tested, apart, chainFiles, thin>>

LEMMA SameFilesTyped ==
    ASSUME FilesTyped, UNCHANGED noFile
    PROVE  FilesTyped'
BY DEF FilesTyped, noFile, chainFiles, trainFiles, testFiles, postFiles, pcaFiles

LEMMA KeepsBadEnd ==
    ASSUME ChainInv, CommandFails \/ InputMissing \/ Interrupted
    PROVE  ChainInv'
<1>1. step /= "idle" /\ UNCHANGED noFile
  BY DEF CommandFails, CommandAt, InputMissing, Interrupted, noFile
<1>2. \E status \in {"failed", "running"}, rs \in {records} \cup {Noted(n, "failed") : n \in ChainNames} : Conclude(status, rs)
  <2>1. CASE CommandFails
    <3>1. CommandAt[step] \in ChainNames
      BY <2>1 DEF CommandFails, CommandAt, ChainNames
    <3> QED
      BY <2>1, <3>1 DEF CommandFails
  <2>2. CASE InputMissing \/ Interrupted
    BY <2>2 DEF InputMissing, Interrupted
  <2> QED
    BY <2>1, <2>2
<1>3. /\ ToldInv' /\ OwnFiles' /\ records' \in Seq(Noteds) /\ step' \in ChainSteps
      /\ summary'.run = starts'
  BY <1>1, <1>2, EndsBadly DEF noFile
<1>4. ChainTyped'
  <2>1. FilesTyped' /\ starts' \in 0..MaxRuns
    BY <1>1, SameFilesTyped, ChainFacts DEF ChainInv, ChainTyped, noFile
  <2> QED
    BY <1>3, <2>1, ChainFacts DEF ChainTyped
<1> QED
  BY <1>3, <1>4 DEF ChainInv, ToldInv

LEMMA KeepsJobKilled ==
    ASSUME ChainInv, JobKilled
    PROVE  ChainInv'
<1>1. step /= "idle" /\ step' = "idle" /\ UNCHANGED <<starts, records, tested, apart, chainFiles, summary, thin>>
  BY DEF JobKilled
<1>2. summary.run < starts /\ summary.run \in 0..MaxRuns /\ starts \in 0..MaxRuns
  BY <1>1, ChainFacts DEF ChainInv, Underway
<1>3. summary'.run /= starts'
  BY <1>1, <1>2
<1>4. Underway' /\ OwnFiles' /\ PassIsWhole' /\ PassIsChecked' /\ EndIsTold'
  BY <1>1, <1>3 DEF Underway, OwnFiles, PassIsWhole, PassIsChecked, EndIsTold, Latest
<1>5. ChainTyped'
  <2>1. FilesTyped'
    BY <1>1, SameFilesTyped, ChainFacts DEF ChainInv, ChainTyped, noFile
  <2> QED
    BY <1>1, <2>1, ChainFacts DEF ChainInv, ChainTyped, ChainSteps
<1> QED
  BY <1>4, <1>5 DEF ChainInv

LEMMA KeepsBegin ==
    ASSUME ChainInv, Begin
    PROVE  ChainInv'
<1>1. /\ starts < MaxRuns /\ starts' = starts + 1 /\ step' = "train" /\ records' = <<>> /\ tested' = {}
      /\ thin' = FALSE /\ apart' \in BOOLEAN /\ UNCHANGED <<chainFiles, summary>>
  BY DEF Begin
<1>2. starts' \in 1..MaxRuns /\ summary'.run \in 0..starts' /\ summary'.run < starts'
  BY <1>1, ChainFacts
<1>3. NotedIn(records') = {}
  BY <1>1 DEF NotedIn
<1>4. Underway'
  BY <1>1, <1>2, <1>3 DEF Underway, SecondCommand, NotedIn
<1>5. OwnFiles'
  <2>1. ~SecondCommand'
    BY <1>3 DEF SecondCommand, NotedIn
  <2>2. OwnModel' /\ OwnCurve' /\ OwnMap'
    BY <1>1, <2>1 DEF OwnModel, OwnCurve, OwnMap, AfterTraining, AfterTests, AfterPost
  <2>3. OwnTests' /\ OwnPlots'
    BY <1>1 DEF OwnTests, OwnPlots, AfterTests, AfterPost
  <2> QED
    BY <2>2, <2>3 DEF OwnFiles
<1>6. PassIsWhole' /\ PassIsChecked' /\ EndIsTold'
  BY <1>1 DEF PassIsWhole, PassIsChecked, EndIsTold, Latest
<1>7. ChainTyped'
  <2>1. FilesTyped'
    <3>1. FilesTyped
      BY DEF ChainInv, ChainTyped
    <3>2. starts' \in Origin
      BY <1>2, ChainConstants DEF Origin
    <3>3. UNCHANGED <<ckpt, curve, frozen, raw, detail, figs, post, features, points, scatter, pca>>
      BY <1>1 DEF chainFiles, trainFiles, testFiles, postFiles, pcaFiles
    <3>4. tested' \subseteq Systems /\ apart' \in BOOLEAN /\ thin' \in BOOLEAN
      BY <1>1
    <3> QED
      BY ONLY <3>1, <3>2, <3>3, <3>4 DEF FilesTyped
  <2>2. records' \in Seq(Noteds)
    BY <1>1
  <2> QED
    BY <1>1, <1>2, <2>1, <2>2, ChainFacts DEF ChainTyped, ChainSteps
<1> QED
  BY <1>4, <1>5, <1>6, <1>7 DEF ChainInv

\* A step that goes on keeps what is its own if it was.
LEMMA OwnAfter ==
    ASSUME ChainInv, step /= "idle", SkippedNothing
    PROVE  OwnModel /\ OwnCurve /\ OwnMap /\ (~thin => OwnTests /\ OwnPlots) /\ starts >= 1 /\ starts \in Origin
BY ChainFacts DEF ChainInv, OwnFiles, Underway, Origin

LEMMA KeepsModelThere ==
    ASSUME ChainInv, ModelThere
    PROVE  ChainInv'
<1>1. step = "model" /\ GoesOn("test", records) /\ UNCHANGED noFile
  BY DEF ModelThere, noFile
<1>2. /\ ToldInv' /\ records' \in Seq(Noteds) /\ step' \in ChainSteps /\ summary'.run <= starts'
      /\ SkippedNothing' => SkippedNothing
  BY <1>1, GoesOnKeeps DEF noFile, ChainSteps, AfterTraining
<1>3. ChainTyped'
  BY <1>1, <1>2, SameFilesTyped, ChainFacts DEF ChainInv, ChainTyped, noFile, GoesOn
<1>4. OwnFiles'
  <2> SUFFICES ASSUME SkippedNothing' PROVE OwnModel' /\ OwnCurve' /\ OwnMap' /\ (~thin' => OwnTests' /\ OwnPlots')
    BY DEF OwnFiles
  <2>1. OwnModel /\ OwnCurve /\ OwnMap /\ (~thin => OwnTests /\ OwnPlots)
    BY <1>1, <1>2, OwnAfter
  <2>2. step' = "test" /\ records' = records
    BY <1>1 DEF GoesOn
  <2> QED
    BY <1>1, <2>1, <2>2 DEF OwnModel, OwnCurve, OwnMap, OwnTests, OwnPlots, SecondCommand, AfterTraining, AfterTests, AfterPost,
       noFile, chainFiles, trainFiles, testFiles, postFiles, pcaFiles
<1> QED
  BY <1>2, <1>3, <1>4 DEF ChainInv, ToldInv

LEMMA EndsWell ==
    ASSUME ChainInv, step = "check", NEW w \in {"completed", "skipped"}, Conclude("pass", Noted("check", w)),
           w = "completed" => QaPasses, UNCHANGED noFile
    PROVE  ChainInv'
<1> DEFINE rs == Noted("check", w)
<1>1. step' = "idle" /\ records' = rs /\ summary' = Told("pass", rs)
  BY DEF Conclude
<1>2. /\ rs \in Seq(Noteds) /\ rs /= <<>> /\ rs[Len(rs)] = <<"check", w>>
      /\ NotedIn(rs) = NotedIn(records) \cup {<<"check", w>>}
  <2>1. rs = Append(records, <<"check", w>>) /\ records \in Seq(Noteds)
    BY ChainFacts DEF Noted
  <2>2. "check" \in ChainNames /\ w \in {"completed", "skipped", "failed"}
    BY DEF ChainNames
  <2> HIDE DEF rs
  <2> QED
    BY <2>1, <2>2, NotedFacts
<1>3. \A r \in NotedIn(records) : r[1] /= "check" /\ r[2] /= "failed"
  BY DEF ChainInv, Underway
<1> HIDE DEF rs
<1>4. ~Digest(rs)["failed"] /\ (~Digest(rs)["skipped"] => SkippedNothing /\ w = "completed")
  <2>1. ASSUME NEW r \in NotedIn(rs) PROVE r[2] /= "failed"
    BY <1>2, <1>3, <2>1
  <2>2. ~Digest(rs)["failed"]
    BY <2>1, DigestFacts
  <2>3. ASSUME ~Digest(rs)["skipped"] PROVE \A r \in NotedIn(rs) : r[2] /= "skipped"
    BY <2>3, DigestFacts
  <2>4. <<"check", w>> \in NotedIn(rs) /\ NotedIn(records) \subseteq NotedIn(rs) /\ <<"check", w>>[2] = w
    BY <1>2
  <2> QED
    BY <2>2, <2>3, <2>4 DEF SkippedNothing
<1>5. summary'.status = "pass" /\ summary'.run = starts /\ summary'.has = Digest(rs) /\ summary'.checked = Checked(rs)
  BY <1>1, ToldFacts
<1>6. starts' = starts /\ thin' = thin
  BY DEF noFile
<1>7. Underway' /\ OwnFiles'
  BY <1>1 DEF Underway, OwnFiles
<1>8. EndIsTold'
  <2>1. Told(summary.status, records)' = Told("pass", rs)
    BY <1>1, <1>5, <1>6 DEF Told
  <2> QED
    BY <1>1, <1>2, <1>4, <1>5, <2>1 DEF EndIsTold
<1>9. PassIsChecked'
  <2>1. Checked(rs) => w = "completed"
    BY <1>2 DEF Checked
  <2>2. QaPasses => QaPasses'
    BY DEF QaPasses, noFile, chainFiles, trainFiles, testFiles, postFiles, pcaFiles
  <2> QED
    BY <1>4, <1>5, <2>1, <2>2 DEF PassIsChecked
<1>10. PassIsWhole'
  <2> SUFFICES ASSUME ~Digest(rs)["skipped"]
               PROVE  /\ frozen = [run |-> starts, whole |-> TRUE]
                      /\ post.curve = starts /\ figs.curve = starts /\ pca.model = starts /\ scatter = starts
                      /\ ~thin => \A s \in Systems : post.energy[s] = starts /\ post.force[s] = starts
                                                     /\ figs.energy[s] = starts /\ figs.force[s] = starts
    BY <1>5, <1>6 DEF PassIsWhole, noFile, chainFiles, trainFiles, testFiles, postFiles, pcaFiles
  <2>1. OwnModel /\ OwnCurve /\ OwnMap /\ (~thin => OwnPlots)
    BY <1>4, OwnAfter
  <2> QED
    BY <2>1 DEF OwnModel, OwnCurve, OwnMap, OwnPlots, AfterTraining, AfterTests, AfterPost
<1>11. ChainTyped'
  <2>1. FilesTyped' /\ summary'.run \in 0..starts'
    BY <1>5, <1>6, SameFilesTyped, ChainFacts DEF ChainInv, ChainTyped
  <2> QED
    BY <1>1, <1>2, <2>1 DEF ChainTyped, ChainSteps
<1> QED
  BY <1>7, <1>8, <1>9, <1>10, <1>11 DEF ChainInv

LEMMA KeepsCheck ==
    ASSUME ChainInv, Check
    PROVE  ChainInv'
<1>1. step = "check" /\ UNCHANGED noFile
  BY DEF Check, noFile
<1>2. CASE QaPasses
  BY <1>1, <1>2, EndsWell DEF Check
<1>3. CASE ~QaPasses
  <2>1. Conclude("failed", Noted("check", "failed"))
    BY <1>3 DEF Check
  <2>2. /\ ToldInv' /\ OwnFiles' /\ records' \in Seq(Noteds) /\ step' \in ChainSteps
        /\ summary'.run = starts'
    BY <1>1, <2>1, EndsBadly DEF noFile, ChainNames
  <2>3. FilesTyped' /\ starts' \in 0..MaxRuns
    BY <1>1, SameFilesTyped, ChainFacts DEF ChainInv, ChainTyped, noFile
  <2>4. ChainTyped'
    BY <2>2, <2>3, ChainFacts DEF ChainTyped
  <2> QED
    BY <2>2, <2>4 DEF ChainInv, ToldInv
<1> QED
  BY <1>2, <1>3

LEMMA KeepsSkipOption ==
    ASSUME ChainInv, SkipOption
    PROVE  ChainInv'
<1>1. UNCHANGED noFile
  BY DEF SkipOption, noFile
<1>2. CASE step = "check" /\ Conclude("pass", Noted("check", "skipped"))
  BY <1>1, <1>2, EndsWell
<1>3. ASSUME NEW o \in DOMAIN After, o = "pca" => ~SecondCommand, Skips(o, After[o])
      PROVE  ChainInv'
  <2>1. step = o /\ o \in {"train", "freeze", "test", "post", "pca"} /\ GoesOn(After[o], Noted(o, "skipped"))
    BY <1>3 DEF Skips, After
  <2>2. After[o] \in ChainSteps \ {"idle"} /\ o \in ChainNames \ {"check"}
    BY <2>1 DEF After, ChainSteps, AfterTraining, AfterTests, AfterPost, ChainNames
  <2>3. ToldInv' /\ records' \in Seq(Noteds) /\ step' \in ChainSteps /\ summary'.run <= starts'
    BY <1>1, <2>1, <2>2, GoesOnKeeps DEF noFile
  <2>4. ChainTyped'
    BY <1>1, <2>1, <2>3, SameFilesTyped, ChainFacts DEF ChainInv, ChainTyped, noFile, GoesOn
  <2>5. <<o, "skipped">> \in NotedIn(records')
    <3>1. records' = Append(records, <<o, "skipped">>) /\ records \in Seq(Noteds)
      BY <2>1, ChainFacts DEF Noted, GoesOn
    <3>2. NotedIn(Append(records, <<o, "skipped">>)) = NotedIn(records) \cup {<<o, "skipped">>}
      BY <2>2, <3>1, NotedFacts
    <3> QED
      BY <3>1, <3>2
  <2>6. OwnFiles'
    BY <2>5 DEF OwnFiles, SkippedNothing
  <2> QED
    BY <2>3, <2>4, <2>6 DEF ChainInv, ToldInv
<1> QED
  BY <1>2, <1>3 DEF SkipOption

\* How a step that notes nothing, or a completed command, goes on.
LEMMA RunGoesOn ==
    ASSUME ChainInv, step /= "idle", NEW next \in ChainSteps \ {"idle"},
           \/ GoesOn(next, records)
           \/ \E n \in {"train", "freeze", "test", "post"} : GoesOn(next, Noted(n, "completed"))
           \/ next \in {"draw", "check"} /\ GoesOn(next, Noted("pca", "completed")),
           starts' = starts, FilesTyped',
           step \in {"draw", "pcasummary", "check"} => next \in {"draw", "pcasummary", "check"},
           SkippedNothing /\ SkippedNothing' => OwnModel' /\ OwnCurve' /\ OwnMap' /\ (~thin' => OwnTests' /\ OwnPlots')
    PROVE  ChainInv'
<1>1. \E rs : /\ GoesOn(next, rs)
              /\ \/ rs = records
                 \/ \E n \in ChainNames \ {"check"}, w \in {"completed", "skipped"} :
                       rs = Noted(n, w) /\ (n = "pca" /\ w = "completed" => next \in {"draw", "check"})
  <2>1. CASE GoesOn(next, records)
    BY <2>1
  <2>2. ASSUME NEW n \in {"train", "freeze", "test", "post"}, GoesOn(next, Noted(n, "completed"))
        PROVE  <1>1
    <3>1. n \in ChainNames \ {"check"} /\ "completed" \in {"completed", "skipped"} /\ n /= "pca"
      BY DEF ChainNames
    <3> QED
      BY <2>2, <3>1
  <2>3. CASE next \in {"draw", "check"} /\ GoesOn(next, Noted("pca", "completed"))
    <3>1. "pca" \in ChainNames \ {"check"} /\ "completed" \in {"completed", "skipped"}
      BY DEF ChainNames
    <3> QED
      BY <2>3, <3>1
  <2> QED
    BY <2>1, <2>2, <2>3
<1>2. /\ ToldInv' /\ records' \in Seq(Noteds) /\ step' \in ChainSteps /\ summary'.run <= starts'
      /\ SkippedNothing' => SkippedNothing
  BY <1>1, GoesOnKeeps
<1>3. ChainTyped'
  BY <1>1, <1>2, ChainFacts DEF ChainTyped, GoesOn
<1>4. OwnFiles'
  BY <1>2 DEF OwnFiles
<1> QED
  BY <1>2, <1>3, <1>4 DEF ChainInv, ToldInv

LEMMA SameSecond ==
    ASSUME ChainInv, records' = records \/ \E n \in {"train", "freeze", "test", "post"} : records' = Noted(n, "completed")
    PROVE  SecondCommand' = SecondCommand
<1>1. CASE records' = records
  BY <1>1 DEF SecondCommand
<1>2. ASSUME NEW n \in {"train", "freeze", "test", "post"}, records' = Noted(n, "completed")
      PROVE  SecondCommand' = SecondCommand
  <2>1. records' = Append(records, <<n, "completed">>) /\ records \in Seq(Noteds) /\ n \in ChainNames
    BY <1>2, ChainFacts DEF Noted, ChainNames
  <2>2. NotedIn(records') = NotedIn(records) \cup {<<n, "completed">>}
    BY <2>1, NotedFacts
  <2>3. <<"pca", "completed">> \in NotedIn(records') <=> <<"pca", "completed">> \in NotedIn(records)
    BY <2>2
  <2> QED
    BY <2>3 DEF SecondCommand, NotedIn
<1> QED
  BY <1>1, <1>2

LEMMA ChainFiles ==
    ASSUME ChainInv
    PROVE  FilesTyped /\ starts \in Origin
BY DEF ChainInv, ChainTyped, FilesTyped

LEMMA KeepsReadFrames ==
    ASSUME ChainInv, ReadFrames
    PROVE  ChainInv'
<1>1. step = "pca" /\ GoesOn("extract", records) /\ UNCHANGED noFile /\ step' = "extract" /\ records' = records
  BY DEF ReadFrames, noFile, GoesOn
<1>2. FilesTyped' /\ starts' = starts /\ "extract" \in ChainSteps \ {"idle"}
  BY <1>1, ChainFiles, SameFilesTyped DEF noFile, ChainSteps, AfterTraining, AfterTests, AfterPost
<1>3. ASSUME SkippedNothing PROVE OwnModel' /\ OwnCurve' /\ OwnMap' /\ (~thin' => OwnTests' /\ OwnPlots')
  <2>1. OwnModel /\ OwnCurve /\ OwnMap /\ (~thin => OwnTests /\ OwnPlots)
    BY <1>1, <1>3, OwnAfter
  <2>2. SecondCommand' = SecondCommand
    BY <1>1, SameSecond
  <2> QED
    BY <1>1, <2>1, <2>2 DEF OwnModel, OwnCurve, OwnMap, OwnTests, OwnPlots, AfterTraining, AfterTests, AfterPost,
       noFile, chainFiles, trainFiles, testFiles, postFiles, pcaFiles
<1> QED
  BY <1>1, <1>2, <1>3, RunGoesOn

LEMMA KeepsTrainBegins ==
    ASSUME ChainInv, TrainBegins
    PROVE  ChainInv'
<1>1. /\ step = "train" /\ GoesOn("training", records) /\ step' = "training" /\ records' = records
      /\ curve' = starts /\ ckpt' \in {ckpt, [run |-> starts, whole |-> FALSE]}
      /\ UNCHANGED <<starts, tested, apart, frozen, testFiles, postFiles, pcaFiles, thin>>
  BY DEF TrainBegins, GoesOn
<1>2. FilesTyped'
  <2>1. [run |-> starts, whole |-> FALSE] \in Trained
    BY ChainFiles DEF Trained
  <2> QED
    BY <1>1, <2>1, ChainFiles DEF FilesTyped, testFiles, postFiles, pcaFiles
<1>3. ASSUME SkippedNothing PROVE OwnModel' /\ OwnCurve' /\ OwnMap' /\ (~thin' => OwnTests' /\ OwnPlots')
  <2>1. OwnMap /\ (~thin => OwnTests /\ OwnPlots)
    BY <1>1, <1>3, OwnAfter
  <2>2. SecondCommand' = SecondCommand
    BY <1>1, SameSecond
  <2>3. OwnModel' /\ OwnCurve'
    BY <1>1 DEF OwnModel, OwnCurve, AfterTraining, AfterTests, AfterPost
  <2>4. OwnMap' /\ (~thin' => OwnTests' /\ OwnPlots')
    BY <1>1, <2>1, <2>2 DEF OwnMap, OwnTests, OwnPlots, AfterTests, AfterPost, testFiles, postFiles, pcaFiles
  <2> QED
    BY <2>3, <2>4
<1>4. "training" \in ChainSteps \ {"idle"} /\ starts' = starts
  BY <1>1 DEF ChainSteps
<1> QED
  BY <1>1, <1>2, <1>3, <1>4, RunGoesOn

LEMMA KeepsTrainEnds ==
    ASSUME ChainInv, TrainEnds
    PROVE  ChainInv'
<1>1. /\ step = "training" /\ GoesOn("freeze", Noted("train", "completed")) /\ step' = "freeze"
      /\ records' = Noted("train", "completed") /\ ckpt' = [run |-> starts, whole |-> TRUE]
      /\ UNCHANGED <<starts, tested, apart, curve, frozen, testFiles, postFiles, pcaFiles, thin>>
  BY DEF TrainEnds, GoesOn
<1>2. FilesTyped'
  <2>1. [run |-> starts, whole |-> TRUE] \in Trained
    BY ChainFiles DEF Trained
  <2> QED
    BY <1>1, <2>1, ChainFiles DEF FilesTyped, testFiles, postFiles, pcaFiles
<1>3. ASSUME SkippedNothing PROVE OwnModel' /\ OwnCurve' /\ OwnMap' /\ (~thin' => OwnTests' /\ OwnPlots')
  <2>1. OwnModel /\ OwnMap /\ (~thin => OwnTests /\ OwnPlots)
    BY <1>1, <1>3, OwnAfter
  <2>2. SecondCommand' = SecondCommand
    BY <1>1, SameSecond
  <2>3. OwnModel' /\ OwnCurve'
    BY <1>1, <2>1 DEF OwnModel, OwnCurve, AfterTraining, AfterTests, AfterPost
  <2>4. OwnMap' /\ (~thin' => OwnTests' /\ OwnPlots')
    BY <1>1, <2>1, <2>2 DEF OwnMap, OwnTests, OwnPlots, AfterTests, AfterPost, testFiles, postFiles, pcaFiles
  <2> QED
    BY <2>3, <2>4
<1>4. "freeze" \in ChainSteps \ {"idle"} /\ starts' = starts
  BY <1>1 DEF ChainSteps, AfterTraining
<1> QED
  BY <1>1, <1>2, <1>3, <1>4, RunGoesOn

LEMMA KeepsFreeze ==
    ASSUME ChainInv, Freeze
    PROVE  ChainInv'
<1>1. /\ step = "freeze" /\ UNCHANGED <<starts, tested, apart, ckpt, curve, testFiles, postFiles, pcaFiles, thin>>
      /\ "model" \in ChainSteps \ {"idle"} /\ starts' = starts
  BY DEF Freeze, ChainSteps, AfterTraining
<1>2. CASE GoesOn("model", Noted("freeze", "skipped")) /\ frozen' = frozen
  <2>1. "freeze" \in ChainNames \ {"check"} /\ "skipped" \in {"completed", "skipped"}
    BY DEF ChainNames
  <2>2. ToldInv' /\ records' \in Seq(Noteds) /\ step' \in ChainSteps /\ summary'.run <= starts'
    BY <1>1, <1>2, <2>1, GoesOnKeeps
  <2>3. FilesTyped'
    BY <1>1, <1>2, ChainFiles DEF FilesTyped, testFiles, postFiles, pcaFiles
  <2>4. ChainTyped'
    BY <1>1, <1>2, <2>2, <2>3, ChainFacts DEF ChainTyped, GoesOn
  <2>5. <<"freeze", "skipped">> \in NotedIn(records')
    <3>1. records' = Append(records, <<"freeze", "skipped">>) /\ records \in Seq(Noteds)
      BY <1>2, ChainFacts DEF Noted, GoesOn
    <3>2. NotedIn(Append(records, <<"freeze", "skipped">>)) = NotedIn(records) \cup {<<"freeze", "skipped">>}
      BY <2>1, <3>1, NotedFacts
    <3> QED
      BY <3>1, <3>2
  <2>6. OwnFiles'
    BY <2>5 DEF OwnFiles, SkippedNothing
  <2> QED
    BY <2>2, <2>4, <2>6 DEF ChainInv, ToldInv
<1>3. CASE GoesOn("model", Noted("freeze", "completed")) /\ frozen' = ckpt
  <2>0. step' = "model" /\ records' = Noted("freeze", "completed")
    BY <1>3 DEF GoesOn
  <2>1. FilesTyped'
    BY <1>1, <1>3, ChainFiles DEF FilesTyped, testFiles, postFiles, pcaFiles
  <2>2. ASSUME SkippedNothing PROVE OwnModel' /\ OwnCurve' /\ OwnMap' /\ (~thin' => OwnTests' /\ OwnPlots')
    <3>1. OwnModel /\ OwnMap /\ (~thin => OwnTests /\ OwnPlots)
      BY <1>1, <2>2, OwnAfter
    <3>2. SecondCommand' = SecondCommand
      BY <2>0, SameSecond
    <3>3. OwnModel' /\ OwnCurve'
      BY <1>1, <1>3, <2>0, <3>1 DEF OwnModel, OwnCurve, AfterTraining, AfterTests, AfterPost
    <3>4. OwnMap' /\ (~thin' => OwnTests' /\ OwnPlots')
      BY <1>1, <2>0, <3>1, <3>2 DEF OwnMap, OwnTests, OwnPlots, AfterTests, AfterPost, testFiles, postFiles, pcaFiles
    <3> QED
      BY <3>3, <3>4
  <2> QED
    BY <1>1, <1>3, <2>1, <2>2, RunGoesOn
<1> QED
  BY <1>1, <1>2, <1>3 DEF Freeze

LEMMA KeepsTest ==
    ASSUME ChainInv, NEW s \in Systems, Test(s)
    PROVE  ChainInv'
<1>1. /\ step = "test" /\ tested' = tested \cup {s} /\ UNCHANGED <<starts, apart, trainFiles, detail, postFiles, pcaFiles>>
      /\ GoesOn(IF tested' = Systems THEN "aggregate" ELSE "test", Noted("test", "completed"))
      /\ step' = (IF tested' = Systems THEN "aggregate" ELSE "test") /\ records' = Noted("test", "completed")
  BY DEF Test, GoesOn
<1>2. PICK written \in Leaves :
         /\ raw' = [raw EXCEPT ![s] = [k \in Kinds |-> IF k \in written THEN frozen.run ELSE @[k]]]
         /\ thin' = (thin \/ written # Kinds)
  BY DEF Test
<1>3. FilesTyped /\ frozen.run \in Origin
  BY ChainFiles DEF FilesTyped, Trained
<1>4. /\ \A t \in Systems \ {s} : raw'[t] = raw[t]
      /\ \A k \in Kinds : raw'[s][k] = IF k \in written THEN frozen.run ELSE raw[s][k]
      /\ raw' \in [Systems -> [Kinds -> Origin]]
  BY <1>2, <1>3 DEF FilesTyped
<1>5. FilesTyped'
  <2>1. tested' \subseteq Systems /\ thin' \in BOOLEAN
    BY <1>1, <1>2, <1>3 DEF FilesTyped
  <2> QED
    BY <1>1, <1>3, <1>4, <2>1 DEF FilesTyped, trainFiles, postFiles, pcaFiles
<1>6. ASSUME SkippedNothing PROVE OwnModel' /\ OwnCurve' /\ OwnMap' /\ (~thin' => OwnTests' /\ OwnPlots')
  <2>1. OwnModel /\ OwnMap /\ (~thin => OwnTests)
    BY <1>1, <1>6, OwnAfter
  <2>2. SecondCommand' = SecondCommand /\ step' \in {"aggregate", "test"}
    BY <1>1, SameSecond
  <2>3. OwnModel' /\ OwnCurve' /\ OwnMap'
    BY <1>1, <2>1, <2>2 DEF OwnModel, OwnCurve, OwnMap, AfterTraining, AfterTests, AfterPost, trainFiles, postFiles, pcaFiles
  <2>4. OwnPlots'
    BY <2>2 DEF OwnPlots, AfterPost
  <2>5. ASSUME ~thin' PROVE OwnTests'
    <3>0. ~(thin \/ written # Kinds)
      BY <1>2, <2>5
    <3>1. ~thin /\ written = Kinds /\ frozen.run = starts
      <4>1. frozen = [run |-> starts, whole |-> TRUE]
        BY <1>1, <2>1 DEF OwnModel, AfterTraining
      <4> QED
        BY <3>0, <4>1
    <3>2. \A t \in tested', k \in Kinds : raw'[t][k] = starts
      BY <1>1, <1>3, <1>4, <2>1, <3>1 DEF OwnTests, FilesTyped
    <3>3. step' = "aggregate" => tested' = Systems
      BY <1>1
    <3> QED
      BY <1>1, <2>2, <3>2, <3>3 DEF OwnTests, AfterTests, AfterPost
  <2> QED
    BY <2>3, <2>4, <2>5
<1>7. (IF tested' = Systems THEN "aggregate" ELSE "test") \in ChainSteps \ {"idle"} /\ starts' = starts
  BY <1>1 DEF ChainSteps, AfterTraining
<1>8. "test" \in {"train", "freeze", "test", "post"} /\ step /= "idle" /\ step \notin {"draw", "pcasummary", "check"}
  BY <1>1
<1> QED
  BY <1>1, <1>5, <1>6, <1>7, <1>8, RunGoesOn

LEMMA KeepsAggregate ==
    ASSUME ChainInv, Aggregate
    PROVE  ChainInv'
<1>1. /\ step = "aggregate" /\ GoesOn("post", records) /\ step' = "post" /\ records' = records
      /\ detail' = [k \in Kinds |-> Aggregated(k)]
      /\ UNCHANGED <<starts, tested, apart, trainFiles, raw, postFiles, pcaFiles, thin>>
  BY DEF Aggregate, GoesOn
<1>2. FilesTyped
  BY ChainFiles
<1>3. \A k \in Kinds : Aggregated(k) \in PerTest
  BY <1>2 DEF FilesTyped, Aggregated, PerTest
<1>4. FilesTyped'
  BY <1>1, <1>2, <1>3 DEF FilesTyped, trainFiles, postFiles, pcaFiles
<1>5. ASSUME SkippedNothing PROVE OwnModel' /\ OwnCurve' /\ OwnMap' /\ (~thin' => OwnTests' /\ OwnPlots')
  <2>1. OwnModel /\ OwnMap /\ (~thin => OwnTests) /\ starts >= 1 /\ starts \in Origin
    BY <1>1, <1>5, OwnAfter
  <2>2. SecondCommand' = SecondCommand
    BY <1>1, SameSecond
  <2>3. OwnModel' /\ OwnCurve' /\ OwnMap'
    BY <1>1, <2>1, <2>2 DEF OwnModel, OwnCurve, OwnMap, AfterTraining, AfterTests, AfterPost, trainFiles, postFiles, pcaFiles
  <2>4. OwnPlots'
    BY <1>1 DEF OwnPlots, AfterPost
  <2>5. ASSUME ~thin PROVE OwnTests'
    <3>1. tested = Systems /\ \A t \in Systems, k \in Kinds : raw[t][k] = starts
      BY <1>1, <2>1, <2>5 DEF OwnTests
    <3>2. starts /= 0
      BY <2>1, ChainConstants DEF Origin
    <3>3. \A k \in Kinds : Aggregated(k) = [t \in Systems |-> raw[t][k]]
      BY <3>1, <3>2, ChainConstants DEF Aggregated
    <3>4. \A k \in Kinds, t \in Systems : detail'[k][t] = starts
      BY <1>1, <3>1, <3>3
    <3> QED
      BY <1>1, <3>1, <3>4 DEF OwnTests
  <2> QED
    BY <1>1, <2>3, <2>4, <2>5
<1>6. "post" \in ChainSteps \ {"idle"} /\ starts' = starts
  BY <1>1 DEF ChainSteps, AfterTraining, AfterTests
<1> QED
  BY <1>1, <1>4, <1>5, <1>6, RunGoesOn

\* What the figures are made from.
LEMMA DetailFacts ==
    ASSUME FilesTyped
    PROVE  Energies \in PerTest /\ detail["f"] \in PerTest
<1>1. {"e", "e_peratom", "f"} = Kinds
  BY DEF Kinds
<1> QED
  BY <1>1 DEF FilesTyped, Energies

LEMMA OwnDetail ==
    ASSUME ChainInv, SkippedNothing, ~thin, step \in AfterTests
    PROVE  /\ \A s \in Systems : Energies[s] = starts /\ detail["f"][s] = starts
           /\ Energies /= Absent /\ detail["f"] /= Absent
<1>1. OwnTests /\ starts >= 1 /\ starts \in Origin
  BY OwnAfter DEF AfterTests, AfterPost
<1>2. \A s \in Systems : Energies[s] = starts /\ detail["f"][s] = starts
  <2>1. "e" \in Kinds /\ "e_peratom" \in Kinds /\ "f" \in Kinds
    BY DEF Kinds
  <2> QED
    BY <1>1, <2>1 DEF OwnTests, Energies
<1>3. PICK s \in Systems : TRUE
  BY ChainConstants
<1>4. Absent[s] = 0 /\ Energies[s] /= 0 /\ detail["f"][s] /= 0
  BY <1>1, <1>2, ChainConstants DEF Absent, Origin
<1> QED
  BY <1>2, <1>4

LEMMA KeepsPlotCurve ==
    ASSUME ChainInv, PlotCurve
    PROVE  ChainInv'
<1>1. /\ step = "post" /\ GoesOn("energy", records) /\ step' = "energy" /\ records' = records
      /\ figs' = (IF curve = 0 THEN figs ELSE [figs EXCEPT !.curve = curve])
      /\ UNCHANGED <<starts, tested, apart, trainFiles, testFiles, post, pcaFiles, thin>>
  BY DEF PlotCurve, GoesOn
<1>2. FilesTyped
  BY ChainFiles
<1>3. figs' \in [curve : Origin, energy : PerTest, force : PerTest] /\ (curve /= 0 => figs'.curve = curve)
  BY <1>1, <1>2 DEF FilesTyped
<1>4. FilesTyped'
  BY <1>1, <1>2, <1>3 DEF FilesTyped, trainFiles, testFiles, pcaFiles
<1>5. ASSUME SkippedNothing PROVE OwnModel' /\ OwnCurve' /\ OwnMap' /\ (~thin' => OwnTests' /\ OwnPlots')
  <2>1. OwnModel /\ OwnMap /\ (~thin => OwnTests) /\ starts >= 1 /\ starts \in Origin
    BY <1>1, <1>5, OwnAfter
  <2>2. SecondCommand' = SecondCommand
    BY <1>1, SameSecond
  <2>3. curve = starts /\ curve /= 0
    BY <1>1, <2>1, ChainConstants DEF OwnModel, AfterTraining, AfterTests, Origin
  <2>4. OwnModel' /\ OwnMap'
    BY <1>1, <2>1, <2>2 DEF OwnModel, OwnMap, AfterTraining, AfterTests, AfterPost, trainFiles, pcaFiles
  <2>5. OwnCurve' /\ OwnPlots'
    BY <1>1, <1>3, <2>3 DEF OwnCurve, OwnPlots, AfterPost
  <2>6. ~thin => OwnTests'
    BY <1>1, <2>1 DEF OwnTests, AfterTests, AfterPost, testFiles
  <2> QED
    BY <1>1, <2>4, <2>5, <2>6
<1>6. "energy" \in ChainSteps \ {"idle"} /\ starts' = starts
  BY <1>1 DEF ChainSteps, AfterTraining, AfterTests
<1> QED
  BY <1>1, <1>4, <1>5, <1>6, RunGoesOn

LEMMA KeepsPlotEnergy ==
    ASSUME ChainInv, PlotEnergy
    PROVE  ChainInv'
<1>1. /\ step = "energy" /\ GoesOn("force", records) /\ step' = "force" /\ records' = records
      /\ figs' = (IF Energies = Absent THEN figs ELSE [figs EXCEPT !.energy = Energies])
      /\ UNCHANGED <<starts, tested, apart, trainFiles, testFiles, post, pcaFiles, thin>>
  BY DEF PlotEnergy, GoesOn
<1>2. FilesTyped /\ Energies \in PerTest
  BY ChainFiles, DetailFacts
<1>3. /\ figs' \in [curve : Origin, energy : PerTest, force : PerTest] /\ figs'.curve = figs.curve
      /\ Energies /= Absent => figs'.energy = Energies
  BY <1>1, <1>2 DEF FilesTyped
<1>4. FilesTyped'
  BY <1>1, <1>2, <1>3 DEF FilesTyped, trainFiles, testFiles, pcaFiles
<1>5. ASSUME SkippedNothing PROVE OwnModel' /\ OwnCurve' /\ OwnMap' /\ (~thin' => OwnTests' /\ OwnPlots')
  <2>1. OwnModel /\ OwnCurve /\ OwnMap /\ (~thin => OwnTests)
    BY <1>1, <1>5, OwnAfter
  <2>2. SecondCommand' = SecondCommand
    BY <1>1, SameSecond
  <2>4. OwnModel' /\ OwnMap'
    BY <1>1, <2>1, <2>2 DEF OwnModel, OwnMap, AfterTraining, AfterTests, AfterPost, trainFiles, pcaFiles
  <2>5. OwnCurve'
    BY <1>1, <1>3, <2>1 DEF OwnCurve, AfterTests, AfterPost
  <2>6. ASSUME ~thin PROVE OwnTests' /\ OwnPlots'
    <3>1. \A s \in Systems : figs'.energy[s] = starts
      BY <1>1, <1>3, <1>5, <2>6, OwnDetail DEF AfterTests
    <3> QED
      BY <1>1, <2>1, <2>6, <3>1 DEF OwnTests, OwnPlots, AfterTests, AfterPost, testFiles
  <2> QED
    BY <1>1, <2>4, <2>5, <2>6
<1>6. "force" \in ChainSteps \ {"idle"} /\ starts' = starts
  BY <1>1 DEF ChainSteps, AfterTraining, AfterTests
<1> QED
  BY <1>1, <1>4, <1>5, <1>6, RunGoesOn

LEMMA KeepsPlotForce ==
    ASSUME ChainInv, PlotForce
    PROVE  ChainInv'
<1>1. /\ step = "force" /\ GoesOn("report", records) /\ step' = "report" /\ records' = records
      /\ figs' = (IF detail["f"] = Absent THEN figs ELSE [figs EXCEPT !.force = detail["f"]])
      /\ UNCHANGED <<starts, tested, apart, trainFiles, testFiles, post, pcaFiles, thin>>
  BY DEF PlotForce, GoesOn
<1>2. FilesTyped /\ detail["f"] \in PerTest
  BY ChainFiles, DetailFacts
<1>3. /\ figs' \in [curve : Origin, energy : PerTest, force : PerTest]
      /\ figs'.curve = figs.curve /\ figs'.energy = figs.energy
      /\ detail["f"] /= Absent => figs'.force = detail["f"]
  BY <1>1, <1>2 DEF FilesTyped
<1>4. FilesTyped'
  BY <1>1, <1>2, <1>3 DEF FilesTyped, trainFiles, testFiles, pcaFiles
<1>5. ASSUME SkippedNothing PROVE OwnModel' /\ OwnCurve' /\ OwnMap' /\ (~thin' => OwnTests' /\ OwnPlots')
  <2>1. OwnModel /\ OwnCurve /\ OwnMap /\ (~thin => OwnTests /\ OwnPlots)
    BY <1>1, <1>5, OwnAfter
  <2>2. SecondCommand' = SecondCommand
    BY <1>1, SameSecond
  <2>4. OwnModel' /\ OwnMap'
    BY <1>1, <2>1, <2>2 DEF OwnModel, OwnMap, AfterTraining, AfterTests, AfterPost, trainFiles, pcaFiles
  <2>5. OwnCurve'
    BY <1>1, <1>3, <2>1 DEF OwnCurve, AfterTests, AfterPost
  <2>6. ASSUME ~thin PROVE OwnTests' /\ OwnPlots'
    <3>1. \A s \in Systems : figs'.force[s] = starts
      BY <1>1, <1>3, <1>5, <2>6, OwnDetail DEF AfterTests
    <3> QED
      BY <1>1, <1>3, <2>1, <2>6, <3>1 DEF OwnTests, OwnPlots, AfterTests, AfterPost, testFiles
  <2> QED
    BY <1>1, <2>4, <2>5, <2>6
<1>6. "report" \in ChainSteps \ {"idle"} /\ starts' = starts
  BY <1>1 DEF ChainSteps, AfterTraining, AfterTests
<1> QED
  BY <1>1, <1>4, <1>5, <1>6, RunGoesOn

LEMMA KeepsReport ==
    ASSUME ChainInv, Report
    PROVE  ChainInv'
<1>1. /\ step = "report" /\ UNCHANGED <<starts, tested, apart, trainFiles, testFiles, figs, pcaFiles, thin>>
      /\ post' = [ready |-> curve # 0 /\ Energies # Absent /\ detail["f"] # Absent,
                  curve |-> curve, energy |-> Energies, force |-> detail["f"]]
  BY DEF Report
<1>2. FilesTyped /\ Energies \in PerTest /\ detail["f"] \in PerTest
  BY ChainFiles, DetailFacts
<1>3. /\ post' \in [ready : BOOLEAN, curve : Origin, energy : PerTest, force : PerTest]
      /\ post'.curve = curve /\ post'.energy = Energies /\ post'.force = detail["f"]
  BY <1>1, <1>2 DEF FilesTyped
<1>4. FilesTyped'
  BY <1>1, <1>2, <1>3 DEF FilesTyped, trainFiles, testFiles, pcaFiles
<1>5. CASE GoesOn("pca", Noted("post", "completed"))
  <2>0. step' = "pca" /\ records' = Noted("post", "completed")
    BY <1>5 DEF GoesOn
  <2>1. ASSUME SkippedNothing PROVE OwnModel' /\ OwnCurve' /\ OwnMap' /\ (~thin' => OwnTests' /\ OwnPlots')
    <3>1. OwnModel /\ OwnCurve /\ OwnMap /\ (~thin => OwnTests /\ OwnPlots)
      BY <1>1, <2>1, OwnAfter
    <3>2. SecondCommand' = SecondCommand
      BY <2>0, SameSecond
    <3>3. OwnModel' /\ OwnMap'
      BY <1>1, <2>0, <3>1, <3>2 DEF OwnModel, OwnMap, AfterTraining, AfterTests, AfterPost, trainFiles, pcaFiles
    <3>4. OwnCurve'
      BY <1>1, <1>3, <2>0, <3>1 DEF OwnCurve, OwnModel, AfterTraining, AfterTests, AfterPost
    <3>5. ASSUME ~thin PROVE OwnTests' /\ OwnPlots'
      <4>1. \A s \in Systems : post'.energy[s] = starts /\ post'.force[s] = starts
        BY <1>1, <1>3, <2>1, <3>5, OwnDetail DEF AfterTests
      <4> QED
        BY <1>1, <2>0, <3>1, <3>5, <4>1 DEF OwnTests, OwnPlots, AfterTests, AfterPost, testFiles
    <3> QED
      BY <1>1, <3>3, <3>4, <3>5
  <2>2. "pca" \in ChainSteps \ {"idle"} /\ starts' = starts
    BY <1>1 DEF ChainSteps, AfterTraining, AfterTests, AfterPost
  <2> QED
    BY <1>1, <1>4, <1>5, <2>1, <2>2, RunGoesOn
<1>6. CASE Conclude("failed", Noted("post", "failed"))
  <2>1. /\ ToldInv' /\ OwnFiles' /\ records' \in Seq(Noteds) /\ step' \in ChainSteps
        /\ summary'.run = starts'
    BY <1>1, <1>6, EndsBadly DEF ChainNames
  <2>2. starts' \in 0..MaxRuns
    BY <1>1, ChainFacts
  <2>3. ChainTyped'
    BY <1>4, <2>1, <2>2, ChainFacts DEF ChainTyped
  <2> QED
    BY <2>1, <2>3 DEF ChainInv, ToldInv
<1> QED
  BY <1>5, <1>6 DEF Report

\* The steps of the map change no file of the earlier ones.
LEMMA EarlierStays ==
    ASSUME OwnModel, OwnCurve, ~thin => OwnTests /\ OwnPlots, step \in AfterPost, step' \in AfterPost,
           UNCHANGED <<starts, tested, trainFiles, testFiles, postFiles, thin>>
    PROVE  OwnModel' /\ OwnCurve' /\ (~thin' => OwnTests' /\ OwnPlots')
<1>1. step \in AfterTests /\ step' \in AfterTests /\ step \in AfterTraining \ {"freeze"} /\ step' \in AfterTraining \ {"freeze"}
  BY DEF AfterTraining, AfterTests, AfterPost
<1>2. step \in AfterTests \ {"post"} /\ step' \in AfterTests \ {"post"}
  BY DEF AfterTests, AfterPost
<1>3. UNCHANGED <<starts, tested, ckpt, curve, frozen, raw, detail, figs, post, thin>>
  BY DEF trainFiles, testFiles, postFiles
<1>4. OwnModel'
  BY <1>1, <1>3 DEF OwnModel
<1>5. OwnCurve'
  BY <1>2, <1>3 DEF OwnCurve
<1>6. OwnTests => OwnTests'
  BY <1>1, <1>3 DEF OwnTests
<1>7. OwnPlots => OwnPlots'
  BY <1>3 DEF OwnPlots
<1> QED
  BY <1>3, <1>4, <1>5, <1>6, <1>7

LEMMA KeepsExtract ==
    ASSUME ChainInv, Extract
    PROVE  ChainInv'
<1>1. /\ step = "extract" /\ GoesOn("reduce", records) /\ step' = "reduce" /\ records' = records /\ features' = frozen.run
      /\ UNCHANGED <<starts, tested, apart, trainFiles, testFiles, postFiles, points, scatter, pca, thin>>
  BY DEF Extract, DescriptorsOf, GoesOn
<1>2. FilesTyped /\ frozen.run \in Origin
  BY ChainFiles DEF FilesTyped, Trained
<1>3. FilesTyped'
  BY <1>1, <1>2 DEF FilesTyped, trainFiles, testFiles, postFiles
<1>4. ASSUME SkippedNothing PROVE OwnModel' /\ OwnCurve' /\ OwnMap' /\ (~thin' => OwnTests' /\ OwnPlots')
  <2>1. OwnModel /\ OwnCurve /\ OwnMap /\ (~thin => OwnTests /\ OwnPlots)
    BY <1>1, <1>4, OwnAfter
  <2>2. SecondCommand' = SecondCommand
    BY <1>1, SameSecond
  <2>3. frozen.run = starts
    BY <1>1, <2>1 DEF OwnModel, AfterTraining, AfterTests, AfterPost
  <2>4. OwnMap'
    BY <1>1, <2>1, <2>2, <2>3 DEF OwnMap
  <2> QED
    BY <1>1, <2>1, <2>4, EarlierStays DEF AfterPost
<1>5. "reduce" \in ChainSteps \ {"idle"} /\ starts' = starts
  BY <1>1 DEF ChainSteps, AfterTraining, AfterTests, AfterPost
<1> QED
  BY <1>1, <1>3, <1>4, <1>5, RunGoesOn

LEMMA KeepsReduce ==
    ASSUME ChainInv, Reduce
    PROVE  ChainInv'
<1>1. /\ step = "reduce" /\ records' = records /\ points' = features
      /\ GoesOn(IF apart THEN "pcasummary" ELSE "draw", records) /\ step' = (IF apart THEN "pcasummary" ELSE "draw")
      /\ UNCHANGED <<starts, tested, apart, trainFiles, testFiles, postFiles, features, scatter, pca, thin>>
  BY DEF Reduce, GoesOn
<1>2. FilesTyped
  BY ChainFiles
<1>3. FilesTyped'
  BY <1>1, <1>2 DEF FilesTyped, trainFiles, testFiles, postFiles
<1>4. ~SecondCommand /\ SecondCommand' = SecondCommand
  BY <1>1, SameSecond DEF ChainInv, Underway
<1>5. ASSUME SkippedNothing PROVE OwnModel' /\ OwnCurve' /\ OwnMap' /\ (~thin' => OwnTests' /\ OwnPlots')
  <2>1. OwnModel /\ OwnCurve /\ OwnMap /\ (~thin => OwnTests /\ OwnPlots)
    BY <1>1, <1>5, OwnAfter
  <2>2. features = starts
    BY <1>1, <2>1 DEF OwnMap
  <2>3. step' = "draw" => ~apart'
    BY <1>1
  <2>4. step' = "pcasummary" => apart'
    BY <1>1
  <2>5. step' \in {"draw", "pcasummary"} /\ points' = starts' /\ ~SecondCommand'
    BY <1>1, <1>4, <2>2
  <2>6. OwnMap'
    BY <2>3, <2>4, <2>5 DEF OwnMap
  <2> QED
    BY <1>1, <2>1, <2>5, <2>6, EarlierStays DEF AfterPost
<1>6. (IF apart THEN "pcasummary" ELSE "draw") \in ChainSteps \ {"idle"} /\ starts' = starts
  BY <1>1 DEF ChainSteps, AfterTraining, AfterTests, AfterPost
<1> QED
  BY <1>1, <1>3, <1>5, <1>6, RunGoesOn

LEMMA KeepsDrawScatter ==
    ASSUME ChainInv, DrawScatter
    PROVE  ChainInv'
<1>1. /\ step = "draw" /\ GoesOn("pcasummary", records) /\ step' = "pcasummary" /\ records' = records /\ scatter' = points
      /\ UNCHANGED <<starts, tested, apart, trainFiles, testFiles, postFiles, features, points, pca, thin>>
  BY DEF DrawScatter, GoesOn
<1>2. FilesTyped
  BY ChainFiles
<1>3. FilesTyped'
  BY <1>1, <1>2 DEF FilesTyped, trainFiles, testFiles, postFiles
<1>4. ASSUME SkippedNothing PROVE OwnModel' /\ OwnCurve' /\ OwnMap' /\ (~thin' => OwnTests' /\ OwnPlots')
  <2>1. OwnModel /\ OwnCurve /\ OwnMap /\ (~thin => OwnTests /\ OwnPlots)
    BY <1>1, <1>4, OwnAfter
  <2>2. SecondCommand' = SecondCommand
    BY <1>1, SameSecond
  <2>3. OwnMap'
    BY <1>1, <2>1, <2>2 DEF OwnMap
  <2> QED
    BY <1>1, <2>1, <2>3, EarlierStays DEF AfterPost
<1>5. "pcasummary" \in ChainSteps \ {"idle"} /\ starts' = starts
  BY <1>1 DEF ChainSteps, AfterTraining, AfterTests, AfterPost
<1> QED
  BY <1>1, <1>3, <1>4, <1>5, RunGoesOn

LEMMA KeepsPcaSummary ==
    ASSUME ChainInv, PcaSummary
    PROVE  ChainInv'
<1> DEFINE next == IF apart /\ ~SecondCommand THEN "draw" ELSE "check"
<1>1. /\ step = "pcasummary" /\ GoesOn(next, Noted("pca", "completed")) /\ step' = next
      /\ records' = Noted("pca", "completed")
      /\ pca' = [ready |-> scatter # 0, model |-> IF SecondCommand THEN pca.model ELSE frozen.run]
      /\ UNCHANGED <<starts, tested, apart, trainFiles, testFiles, postFiles, features, points, scatter, thin>>
  BY DEF PcaSummary, GoesOn
<1>2. FilesTyped /\ frozen.run \in Origin /\ pca.model \in Origin
  BY ChainFiles DEF FilesTyped, Trained
<1>3. /\ pca' \in [ready : BOOLEAN, model : Origin]
      /\ pca'.model = IF SecondCommand THEN pca.model ELSE frozen.run
  BY <1>1, <1>2
<1>4. FilesTyped'
  BY <1>1, <1>2, <1>3 DEF FilesTyped, trainFiles, testFiles, postFiles
<1>5. SecondCommand'
  <2>1. records' = Append(records, <<"pca", "completed">>) /\ records \in Seq(Noteds) /\ "pca" \in ChainNames
    BY <1>1, ChainFacts DEF Noted, ChainNames
  <2>2. <<"pca", "completed">> \in NotedIn(records')
    BY <2>1, NotedFacts
  <2> QED
    BY <2>2 DEF SecondCommand, NotedIn
<1>6. ASSUME SkippedNothing PROVE OwnModel' /\ OwnCurve' /\ OwnMap' /\ (~thin' => OwnTests' /\ OwnPlots')
  <2>1. OwnModel /\ OwnCurve /\ OwnMap /\ (~thin => OwnTests /\ OwnPlots)
    BY <1>1, <1>6, OwnAfter
  <2>2. frozen.run = starts /\ points = starts /\ (SecondCommand => pca.model = starts)
    BY <1>1, <2>1 DEF OwnModel, OwnMap, AfterTraining, AfterTests, AfterPost
  <2>3. pca'.model = starts
    BY <1>3, <2>2
  <2>4. step' \in {"draw", "check"} /\ (step' = "check" => scatter = starts)
    BY <1>1, <2>1 DEF OwnMap
  <2>5. OwnMap'
    BY <1>1, <1>5, <2>2, <2>3, <2>4 DEF OwnMap
  <2> QED
    BY <1>1, <2>1, <2>4, <2>5, EarlierStays DEF AfterPost
<1>7. next \in ChainSteps \ {"idle"} /\ next \in {"draw", "check"} /\ starts' = starts
  BY <1>1 DEF ChainSteps, AfterTraining, AfterTests, AfterPost
<1> HIDE DEF next
<1> QED
  BY <1>1, <1>4, <1>6, <1>7, RunGoesOn

LEMMA ChainStarts == ChainInit => ChainInv
<1> SUFFICES ASSUME ChainInit PROVE ChainInv
  OBVIOUS
<1>1. step = "idle" /\ starts = 0 /\ records = <<>> /\ summary.run = 0
  BY DEF ChainInit
<1>2. 0 \in Origin /\ Absent \in PerTest /\ NoModel \in Trained
  BY ChainConstants DEF Origin, Absent, PerTest, NoModel, Trained
<1>3. FilesTyped
  BY <1>2 DEF ChainInit, FilesTyped
<1>4. ChainTyped
  BY <1>1, <1>3 DEF ChainTyped, ChainSteps
<1>5. Underway /\ OwnFiles /\ PassIsWhole /\ PassIsChecked /\ EndIsTold
  BY <1>1 DEF Underway, OwnFiles, PassIsWhole, PassIsChecked, EndIsTold, Latest
<1> QED
  BY <1>4, <1>5 DEF ChainInv

LEMMA ChainGoesOn == ChainInv /\ [ChainNext]_chainVars => ChainInv'
<1> SUFFICES ASSUME ChainInv, [ChainNext]_chainVars PROVE ChainInv'
  OBVIOUS
<1>1. CASE UNCHANGED chainVars
  <2>1. FilesTyped' /\ ChainTyped'
    BY <1>1 DEF ChainInv, ChainTyped, FilesTyped, chainVars
  <2>2. Underway'
    BY <1>1 DEF ChainInv, Underway, SecondCommand, NotedIn, chainVars
  <2>3. OwnFiles'
    BY <1>1 DEF ChainInv, OwnFiles, SkippedNothing, NotedIn, OwnModel, OwnCurve, OwnMap, OwnTests, OwnPlots, SecondCommand,
                chainVars
  <2>4. PassIsWhole' /\ PassIsChecked' /\ EndIsTold'
    BY <1>1 DEF ChainInv, PassIsWhole, PassIsChecked, EndIsTold, Latest, QaPasses, Told, chainVars
  <2> QED
    BY <2>1, <2>2, <2>3, <2>4 DEF ChainInv
<1>2. CASE \/ Begin \/ SkipOption \/ CommandFails \/ InputMissing \/ Interrupted \/ JobKilled
           \/ TrainBegins \/ TrainEnds \/ Freeze \/ ModelThere
  BY <1>2, KeepsBegin, KeepsSkipOption, KeepsBadEnd, KeepsJobKilled, KeepsTrainBegins, KeepsTrainEnds, KeepsFreeze,
     KeepsModelThere
<1>3. CASE \E s \in Systems : Test(s)
  BY <1>3, KeepsTest
<1>4. CASE Aggregate \/ PlotCurve \/ PlotEnergy \/ PlotForce \/ Report
  BY <1>4, KeepsAggregate, KeepsPlotCurve, KeepsPlotEnergy, KeepsPlotForce, KeepsReport
<1>5. CASE ReadFrames \/ Extract \/ Reduce \/ DrawScatter \/ PcaSummary \/ Check
  BY <1>5, KeepsReadFrames, KeepsExtract, KeepsReduce, KeepsDrawScatter, KeepsPcaSummary, KeepsCheck
<1> QED
  BY <1>1, <1>2, <1>3, <1>4, <1>5 DEF ChainNext

(* However often the chain is started again over the files of earlier runs, and wherever it stops, *)
(* a summary that says "pass" and skipped nothing stands for one package of its own run's model.   *)
THEOREM ChainIsSound == ChainSpec => []ChainSound
<1>1. ChainInv => ChainSound
  <2> SUFFICES ASSUME ChainInv PROVE ChainSound
    OBVIOUS
  <2>1. ChainTypeOK
    <3>1. pca.model \in Origin
      BY DEF ChainInv, ChainTyped, FilesTyped
    <3>2. summary.run \in Origin
      BY ChainFacts DEF Origin
    <3> QED
      BY <3>1, <3>2 DEF ChainInv, ChainTyped, FilesTyped, ChainTypeOK
  <2> QED
    BY <2>1 DEF ChainSound, ChainInv
<1>2. ChainInv /\ [ChainNext]_chainVars => ChainInv'
  BY ChainGoesOn
<1> QED
  BY <1>1, <1>2, ChainStarts, PTL DEF ChainSpec

-----------------------------------------------------------------------------
(* Activations of skills *)

\* The private store holds a digest whole unless a killed process left it torn, and what the
\* sandbox holds of a digest is what the store holds.
StoreWhole == \A d \in SkillDigests : /\ store[d] = "part" => d \in tainted
                                      /\ mounted[d] \in {"none", store[d]}

\* An activation that was saved is in the store, what it has copied is the store's copy, and
\* once it was placed the digest is mounted unless another one withdrew it.
Behind(a) ==
    LET d == act[a].digest
    IN  /\ act[a].at \notin {"new", "failed"} => store[d] /= "none"
        /\ act[a].at = "copied" => act[a].staging = store[d]
        /\ act[a].at \in {"placed", "verified", "done"} => mounted[d] /= "none" \/ d \in withdrawn
        /\ act[a].again /= "none" => act[a].at = "done" /\ act[a].again = store[d]

MountInv == MountTypeOK /\ StoreWhole /\ \A a \in Activations : Behind(a)

LEMMA MountFacts ==
    ASSUME MountInv, NEW a \in Activations
    PROVE  /\ act[a].digest \in SkillDigests /\ store[act[a].digest] \in Holds /\ mounted[act[a].digest] \in Holds
           /\ Behind(a)
BY DEF MountInv, MountTypeOK

LEMMA NoActTyped ==
    /\ NoAct.digest \in SkillDigests /\ NoAct.at = "new" /\ NoAct.staging = "none" /\ NoAct.again = "none"
    /\ NoAct = [at |-> NoAct.at, digest |-> NoAct.digest, staging |-> NoAct.staging, again |-> NoAct.again]
<1>1. (CHOOSE d \in SkillDigests : TRUE) \in SkillDigests
  BY MountAssumption
<1> QED
  BY <1>1 DEF NoAct

\* A step of one activation that only moves it on keeps what is behind the others.
LEMMA OneActs ==
    ASSUME MountInv, NEW a \in Activations, NEW new,
           new \in [at : {"new", "saved", "copying", "copied", "placed", "verified", "done", "failed"},
                    digest : SkillDigests, staging : Holds, again : Holds],
           act' = [act EXCEPT ![a] = new], UNCHANGED remote, faults' \in 0..MaxMountFaults,
           UNCHANGED <<store, mounted, tainted, withdrawn>>, Behind(a)'
    PROVE  MountInv'
<1>1. \A b \in Activations \ {a} : act'[b] = act[b]
  BY DEF MountInv, MountTypeOK
<1>2. \A b \in Activations : Behind(b)'
  BY <1>1 DEF MountInv, Behind
<1>3. MountTypeOK' /\ StoreWhole'
  BY DEF MountInv, MountTypeOK, StoreWhole
<1> QED
  BY <1>2, <1>3 DEF MountInv

MoveSet == [at : {"new", "saved", "copying", "copied", "placed", "verified", "done", "failed"},
            digest : SkillDigests, staging : Holds, again : Holds]

LEMMA KeepsQuietMount ==
    ASSUME MountInv, NEW a \in Activations,
           \/ SaveFails(a) \/ LookForMount(a) \/ CopyPart(a) \/ CopyRest(a) \/ CopyFails(a) \/ Verify(a)
           \/ Activated(a) \/ Replay(a)
    PROVE  MountInv'
<1> DEFINE d == act[a].digest
<1>1. /\ act \in [Activations -> MoveSet] /\ act[a] \in MoveSet /\ d \in SkillDigests /\ store[d] \in Holds
      /\ Behind(a) /\ faults \in 0..MaxMountFaults /\ MaxMountFaults \in Nat
  BY MountFacts, MountAssumption DEF MountInv, MountTypeOK, MoveSet
<1>2. UNCHANGED <<remote, store, mounted, tainted, withdrawn>> /\ faults' \in 0..MaxMountFaults
  BY <1>1 DEF SaveFails, LookForMount, CopyPart, CopyRest, CopyFails, Verify, Activated, Replay
<1>3. \E new \in MoveSet :
         /\ act' = [act EXCEPT ![a] = new] /\ new.digest = d
         /\ \/ new.at = "failed" /\ new.again = act[a].again /\ act[a].at \in {"new", "copying", "copied"}
            \/ new.at = "placed" /\ new.again = act[a].again /\ act[a].at = "saved" /\ mounted[d] /= "none"
            \/ new.at = "copying" /\ new.again = act[a].again /\ act[a].at \in {"saved", "copying"}
            \/ new.at = "copied" /\ new.again = act[a].again /\ act[a].at = "copying" /\ new.staging = store[d]
            \/ new.at = "verified" /\ new.again = act[a].again /\ act[a].at = "placed"
            \/ new.at = "done" /\ new.again = act[a].again /\ act[a].at = "verified"
            \/ new.at = "done" /\ new.again = store[d] /\ act[a].at = "done"
  <2> DEFINE Was(new) ==
         /\ act' = [act EXCEPT ![a] = new] /\ new.digest = d
         /\ \/ new.at = "failed" /\ new.again = act[a].again /\ act[a].at \in {"new", "copying", "copied"}
            \/ new.at = "placed" /\ new.again = act[a].again /\ act[a].at = "saved" /\ mounted[d] /= "none"
            \/ new.at = "copying" /\ new.again = act[a].again /\ act[a].at \in {"saved", "copying"}
            \/ new.at = "copied" /\ new.again = act[a].again /\ act[a].at = "copying" /\ new.staging = store[d]
            \/ new.at = "verified" /\ new.again = act[a].again /\ act[a].at = "placed"
            \/ new.at = "done" /\ new.again = act[a].again /\ act[a].at = "verified"
            \/ new.at = "done" /\ new.again = store[d] /\ act[a].at = "done"
  <2>1. CASE SaveFails(a)
    <3>1. [act[a] EXCEPT !.at = "failed"] \in MoveSet /\ Was([act[a] EXCEPT !.at = "failed"])
      BY <1>1, <2>1 DEF SaveFails, Goes, MoveSet
    <3> QED
      BY <3>1
  <2>2. CASE LookForMount(a)
    <3> DEFINE new == [act[a] EXCEPT !.at = IF mounted[d] # "none" THEN "placed" ELSE "copying"]
    <3>1. new \in MoveSet /\ Was(new)
      BY <1>1, <2>2 DEF LookForMount, MoveSet
    <3> QED
      BY <3>1
  <2>3. CASE CopyPart(a)
    <3>1. [act[a] EXCEPT !.staging = "part"] \in MoveSet /\ Was([act[a] EXCEPT !.staging = "part"])
      BY <1>1, <2>3 DEF CopyPart, MoveSet, Holds
    <3> QED
      BY <3>1
  <2>4. CASE CopyRest(a)
    <3>1. [act[a] EXCEPT !.staging = store[d], !.at = "copied"] \in MoveSet
          /\ Was([act[a] EXCEPT !.staging = store[d], !.at = "copied"])
      BY <1>1, <2>4 DEF CopyRest, MoveSet
    <3> QED
      BY <3>1
  <2>5. CASE CopyFails(a)
    <3>1. [act[a] EXCEPT !.at = "failed", !.staging = "none"] \in MoveSet
          /\ Was([act[a] EXCEPT !.at = "failed", !.staging = "none"])
      BY <1>1, <2>5 DEF CopyFails, MoveSet, Holds
    <3> QED
      BY <3>1
  <2>6. CASE Verify(a)
    <3>1. [act[a] EXCEPT !.at = "verified"] \in MoveSet /\ Was([act[a] EXCEPT !.at = "verified"])
      BY <1>1, <2>6 DEF Verify, Goes, MoveSet
    <3> QED
      BY <3>1
  <2>7. CASE Activated(a)
    <3>1. [act[a] EXCEPT !.at = "done"] \in MoveSet /\ Was([act[a] EXCEPT !.at = "done"])
      BY <1>1, <2>7 DEF Activated, Goes, MoveSet
    <3> QED
      BY <3>1
  <2>8. CASE Replay(a)
    <3>1. [act[a] EXCEPT !.again = store[d]] \in MoveSet /\ Was([act[a] EXCEPT !.again = store[d]])
      BY <1>1, <2>8 DEF Replay, Stored, MoveSet
    <3> QED
      BY <3>1
  <2> QED
    BY <2>1, <2>2, <2>3, <2>4, <2>5, <2>6, <2>7, <2>8
<1>4. PICK new \in MoveSet :
         /\ act' = [act EXCEPT ![a] = new] /\ new.digest = d
         /\ \/ new.at = "failed" /\ new.again = act[a].again /\ act[a].at \in {"new", "copying", "copied"}
            \/ new.at = "placed" /\ new.again = act[a].again /\ act[a].at = "saved" /\ mounted[d] /= "none"
            \/ new.at = "copying" /\ new.again = act[a].again /\ act[a].at \in {"saved", "copying"}
            \/ new.at = "copied" /\ new.again = act[a].again /\ act[a].at = "copying" /\ new.staging = store[d]
            \/ new.at = "verified" /\ new.again = act[a].again /\ act[a].at = "placed"
            \/ new.at = "done" /\ new.again = act[a].again /\ act[a].at = "verified"
            \/ new.at = "done" /\ new.again = store[d] /\ act[a].at = "done"
  BY <1>3
<1>5. Behind(a)'
  <2>1. act'[a] = new
    BY <1>1, <1>4
  <2> QED
    BY <1>1, <1>2, <1>4, <2>1 DEF Behind
<1> QED
  BY <1>2, <1>4, <1>5, OneActs DEF MoveSet

LEMMA KeepsSaveSnapshot ==
    ASSUME MountInv, NEW a \in Activations, NEW d \in SkillDigests, SaveSnapshot(a, d)
    PROVE  MountInv'
<1>1. /\ act[a].at = "new" /\ act' = [act EXCEPT ![a].at = "saved", ![a].digest = d]
      /\ store' = [store EXCEPT ![d] = IF @ = "none" THEN "whole" ELSE @]
      /\ UNCHANGED <<remote, mounted, tainted, withdrawn, faults>>
  BY DEF SaveSnapshot
<1>2. MountTypeOK
  BY DEF MountInv
<1>3. /\ \A e \in SkillDigests : store[e] /= "none" => store'[e] = store[e]
      /\ store'[d] \in Holds \ {"none"} /\ (store[d] = "none" => store'[d] = "whole")
      /\ \A e \in SkillDigests \ {d} : store'[e] = store[e]
  BY <1>1, <1>2 DEF MountTypeOK, Holds
<1>4. /\ act'[a].at = "saved" /\ act'[a].digest = d /\ act'[a].again = act[a].again
      /\ \A b \in Activations \ {a} : act'[b] = act[b]
  BY <1>1, <1>2 DEF MountTypeOK
<1>5. MountTypeOK'
  <2>1. store' \in [SkillDigests -> Holds]
    BY <1>1, <1>2 DEF MountTypeOK, Holds
  <2>2. act' \in [Activations -> MoveSet]
    BY ZenonT(40), <1>1, <1>2 DEF MountTypeOK, MoveSet
  <2> QED
    BY <1>1, <1>2, <2>1, <2>2 DEF MountTypeOK, MoveSet
<1>6. StoreWhole'
  BY <1>1, <1>3 DEF MountInv, StoreWhole
<1>7. ASSUME NEW b \in Activations PROVE Behind(b)'
  <2>1. CASE b = a
    BY <1>1, <1>3, <1>4, <2>1, MountFacts DEF Behind
  <2>2. CASE b /= a
    <3> DEFINE e == act[b].digest
    <3>1. act'[b] = act[b] /\ e \in SkillDigests /\ Behind(b)
      BY <1>4, <2>2, MountFacts
    <3>2. /\ store[e] /= "none" => store'[e] = store[e]
          /\ mounted' = mounted /\ withdrawn' = withdrawn
      BY <1>1, <1>3, <3>1
    <3>3. act[b].at \notin {"new", "failed"} => store[e] /= "none"
      BY <3>1 DEF Behind
    <3>4. act[b].again /= "none" => act[b].at = "done"
      BY <3>1 DEF Behind
    <3> QED
      BY ONLY <3>1, <3>2, <3>3, <3>4 DEF Behind
  <2> QED
    BY <2>1, <2>2
<1> QED
  BY <1>5, <1>6, <1>7 DEF MountInv

LEMMA KeepsKillSaving ==
    ASSUME MountInv, NEW d \in SkillDigests, KillSaving(d)
    PROVE  MountInv'
<1>1. /\ store[d] = "none" /\ faults < MaxMountFaults /\ store' = [store EXCEPT ![d] = "part"]
      /\ tainted' = tainted \cup {d} /\ act' = [a \in Activations |-> NoAct] /\ faults' = faults + 1
      /\ UNCHANGED <<remote, mounted, withdrawn>>
  BY DEF KillSaving
<1>2. MountTypeOK
  BY DEF MountInv
<1>3. \A e \in SkillDigests : store'[e] = IF e = d THEN "part" ELSE store[e]
  BY <1>1, <1>2 DEF MountTypeOK
<1>4. NoAct \in MoveSet
  BY NoActTyped DEF MoveSet, Holds
<1>5. MountTypeOK'
  <2>1. faults' \in 0..MaxMountFaults
    BY <1>1, <1>2, MountAssumption DEF MountTypeOK
  <2>2. store' \in [SkillDigests -> Holds]
    BY <1>1, <1>2 DEF MountTypeOK, Holds
  <2> QED
    BY <1>1, <1>2, <1>4, <2>1, <2>2 DEF MountTypeOK, MoveSet
<1>6. StoreWhole'
  BY <1>1, <1>3 DEF MountInv, StoreWhole
<1>7. \A b \in Activations : Behind(b)'
  BY <1>1, NoActTyped DEF Behind
<1> QED
  BY <1>5, <1>6, <1>7 DEF MountInv

LEMMA KeepsPlace ==
    ASSUME MountInv, NEW a \in Activations, Place(a)
    PROVE  MountInv'
<1> DEFINE d == act[a].digest
<1>1. /\ act[a].at = "copied" /\ mounted' = [mounted EXCEPT ![d] = IF @ = "none" THEN act[a].staging ELSE @]
      /\ act' = [act EXCEPT ![a].at = "placed", ![a].staging = "none"]
      /\ UNCHANGED <<remote, store, tainted, withdrawn, faults>>
  BY DEF Place
<1>2. MountTypeOK /\ d \in SkillDigests /\ act[a].staging = store[d] /\ store[d] /= "none" /\ act[a].again = "none"
  BY <1>1, MountFacts DEF MountInv, Behind
<1>3. /\ mounted'[d] = IF mounted[d] = "none" THEN store[d] ELSE mounted[d]
      /\ \A e \in SkillDigests \ {d} : mounted'[e] = mounted[e]
  BY <1>1, <1>2 DEF MountTypeOK
<1>4. /\ act'[a].at = "placed" /\ act'[a].digest = d /\ act'[a].again = act[a].again
      /\ \A b \in Activations \ {a} : act'[b] = act[b]
  BY <1>1, <1>2 DEF MountTypeOK
<1>5. MountTypeOK'
  <2>1. mounted' \in [SkillDigests -> Holds]
    BY <1>1, <1>2 DEF MountTypeOK
  <2>2. act' \in [Activations -> MoveSet]
    BY <1>1, <1>2 DEF MountTypeOK, MoveSet, Holds
  <2> QED
    BY <1>1, <1>2, <2>1, <2>2 DEF MountTypeOK, MoveSet
<1>6. StoreWhole'
  BY <1>1, <1>2, <1>3 DEF MountInv, StoreWhole
<1>7. \A e \in SkillDigests : mounted[e] /= "none" => mounted'[e] /= "none"
  BY <1>2, <1>3
<1>8. ASSUME NEW b \in Activations PROVE Behind(b)'
  <2>1. CASE b = a
    BY <1>1, <1>2, <1>3, <1>4, <2>1 DEF Behind
  <2>2. CASE b /= a
    <3> DEFINE e == act[b].digest
    <3>1. act'[b] = act[b] /\ e \in SkillDigests /\ Behind(b)
      BY <1>4, <2>2, MountFacts
    <3>2. /\ mounted[e] /= "none" => mounted'[e] /= "none"
          /\ store' = store /\ withdrawn' = withdrawn
      BY <1>1, <1>7, <3>1
    <3> QED
      BY ONLY <3>1, <3>2 DEF Behind
  <2> QED
    BY <2>1, <2>2
<1> QED
  BY <1>5, <1>6, <1>8 DEF MountInv

LEMMA KeepsMountFails ==
    ASSUME MountInv, NEW a \in Activations, MountFails(a)
    PROVE  MountInv'
<1> DEFINE d == act[a].digest
<1>1. /\ act[a].at \in {"placed", "verified"} /\ mounted' = [mounted EXCEPT ![d] = "none"]
      /\ withdrawn' = withdrawn \cup {d} /\ act' = [act EXCEPT ![a].at = "failed"]
      /\ UNCHANGED <<remote, store, tainted>>
  BY DEF MountFails, Goes
<1>2. MountTypeOK /\ d \in SkillDigests /\ act[a].again = "none"
  BY <1>1, MountFacts DEF MountInv, Behind
<1>3. \A e \in SkillDigests : mounted'[e] = IF e = d THEN "none" ELSE mounted[e]
  BY <1>1, <1>2 DEF MountTypeOK
<1>4. /\ act'[a].at = "failed" /\ act'[a].again = act[a].again
      /\ \A b \in Activations \ {a} : act'[b] = act[b]
  BY <1>1, <1>2 DEF MountTypeOK
<1>5. MountTypeOK'
  <2>1. mounted' \in [SkillDigests -> Holds] /\ withdrawn' \subseteq SkillDigests
    BY <1>1, <1>2 DEF MountTypeOK, Holds
  <2>2. act' \in [Activations -> MoveSet]
    BY <1>1, <1>2 DEF MountTypeOK, MoveSet
  <2>3. faults' \in 0..MaxMountFaults
    BY <1>2, MountAssumption DEF MountFails, MountTypeOK
  <2> QED
    BY <1>1, <1>2, <2>1, <2>2, <2>3 DEF MountTypeOK, MoveSet
<1>6. StoreWhole'
  BY <1>1, <1>3 DEF MountInv, StoreWhole
<1>7. ASSUME NEW b \in Activations PROVE Behind(b)'
  <2>1. CASE b = a
    BY <1>2, <1>4, <2>1 DEF Behind
  <2>2. CASE b /= a
    BY <1>1, <1>3, <1>4, <2>2, MountFacts DEF Behind
  <2> QED
    BY <2>1, <2>2
<1> QED
  BY <1>5, <1>6, <1>7 DEF MountInv

(* Whatever copies, fails or moves at the same time, a skill that was given to the model lies whole *)
(* in the sandbox, unless its snapshot was torn by a kill or another failure withdrew the mount.    *)
THEOREM MountsStayWhole == MountSpec => [](MountTypeOK /\ MountsWhole)
<1>1. MountInit => MountInv
  <2> SUFFICES ASSUME MountInit PROVE MountInv
    OBVIOUS
  <2>1. NoAct \in MoveSet
    BY NoActTyped DEF MoveSet, Holds
  <2>2. MountTypeOK
    BY <2>1, MountAssumption DEF MountInit, MountTypeOK, MoveSet, Holds
  <2>3. StoreWhole
    BY DEF MountInit, StoreWhole
  <2>4. \A a \in Activations : Behind(a)
    BY NoActTyped DEF MountInit, Behind
  <2> QED
    BY <2>2, <2>3, <2>4 DEF MountInv
<1>2. MountInv /\ [MountNext]_mountVars => MountInv'
  <2> SUFFICES ASSUME MountInv, [MountNext]_mountVars PROVE MountInv'
    OBVIOUS
  <2>1. CASE UNCHANGED mountVars
    BY <2>1 DEF MountInv, MountTypeOK, StoreWhole, Behind, mountVars
  <2>2. CASE MountNext
    BY <2>2, KeepsQuietMount, KeepsSaveSnapshot, KeepsKillSaving, KeepsPlace, KeepsMountFails DEF MountNext
  <2> QED
    BY <2>1, <2>2
<1>3. MountInv => MountTypeOK /\ MountsWhole
  BY DEF MountInv, MountTypeOK, StoreWhole, Behind, MountsWhole, Holds
<1> QED
  BY <1>1, <1>2, <1>3, PTL DEF MountSpec

-----------------------------------------------------------------------------
(* Frames *)

\* A frame has no more calls than its answer gave it, has calls only in a batch, and asks
\* again only below the bound of its answers; only a sub-agent's is built.
FrameFits(f) ==
    /\ f.left + f.working <= BatchMax
    /\ f.pc /= "tools" => f.left = 0 /\ f.working = 0
    /\ f.pc \in {"build", "ask", "tools"} => f.answers < MaxAnswers
    /\ f.pc = "build" => f.who /= 0

\* The frame of a sub-agent is the newest one's; its calls are those that reached a tool,
\* and it asks its model only within its budget.
SubFits(f) ==
    /\ f.who = subs /\ subs \in Subs /\ f.pc /= "idle"
    /\ f.counted = executed[subs]
    /\ f.pc = "model" => spent[subs] <= TokenLimit

Limits ==
    \A n \in Subs : /\ executed[n] <= CallLimit /\ spent[n] <= TokenLimit + 1
                    /\ n > subs => executed[n] = 0 /\ spent[n] = 0

\* The base frame is the main agent's; above it there is at most the frame of the delegate
\* call it waits for, and beside those that were cut short only that one's sandbox is open.
Stacked ==
    /\ \A i \in DOMAIN frames : FrameFits(frames[i])
    /\ frames[1].who = 0 /\ frames[1].box = "none"
    /\ Len(frames) = 2 => SubFits(frames[2]) /\ frames[1].pc = "tools" /\ frames[1].working = 1
    /\ cut \subseteq 1..subs
    /\ Len(frames) = 2 => subs \notin cut
    /\ boxes = cut \cup (IF Len(frames) = 2 /\ frames[2].box = "owned" THEN {subs} ELSE {})

FrameInv == FrameTypeOK /\ Stacked /\ Limits /\ Once(heard, inbox)

LEMMA FrameFacts ==
    ASSUME FrameInv
    PROVE  /\ Len(frames) \in {1, 2} /\ frames[1] \in FrameStates /\ FrameFits(frames[1])
           /\ Len(frames) = 1 => frames = <<frames[1]>> /\ Top = frames[1] /\ boxes = cut
           /\ Len(frames) = 2 => /\ frames = <<frames[1], frames[2]>> /\ Top = frames[2] /\ frames[2] \in FrameStates
                                 /\ FrameFits(frames[2]) /\ SubFits(frames[2])
           /\ Top \in FrameStates /\ FrameFits(Top) /\ Top.who \in 0..MaxSubs
           /\ Top.who /= 0 <=> Len(frames) = 2
<1>1. frames \in Seq(FrameStates) /\ Len(frames) \in {1, 2}
  BY DEF FrameInv, FrameTypeOK
<1>2. 1 \in DOMAIN frames /\ (Len(frames) = 2 => 2 \in DOMAIN frames)
  BY <1>1
<1>3. frames[1] \in FrameStates /\ FrameFits(frames[1]) /\ frames[1].who = 0
  BY <1>1, <1>2 DEF FrameInv, Stacked
<1>4. Len(frames) = 2 => frames[2] \in FrameStates /\ FrameFits(frames[2]) /\ SubFits(frames[2])
  BY SMTT(40), <1>1, <1>2 DEF FrameInv, Stacked
<1>5. /\ Len(frames) = 1 => frames = <<frames[1]>> /\ Top = frames[1] /\ boxes = cut
      /\ Len(frames) = 2 => frames = <<frames[1], frames[2]>> /\ Top = frames[2]
  BY <1>1 DEF Top, FrameInv, Stacked
<1>6. frames[1].who \in 0..MaxSubs /\ (Len(frames) = 2 => frames[2].who \in 0..MaxSubs /\ frames[2].who /= 0)
  BY <1>3, <1>4, FrameAssumption DEF SubFits, Subs
<1> QED
  BY <1>1, <1>3, <1>4, <1>5, <1>6

LEMMA BaseFits == Base \in FrameStates /\ FrameFits(Base) /\ Base.who = 0 /\ Base.box = "none" /\ Base.pc = "idle"
BY FrameAssumption DEF Base, Frame, FrameStates, FrameFits, Boxes

\* What the inbox holds may be taken into one conversation, or be dropped.
LEMMA OnceTaken ==
    ASSUME NEW h \in [0..MaxSubs -> Seq(Heard)], NEW box \in Seq(Steers), Once(h, box), NEW k \in 0..MaxSubs
    PROVE  /\ [h EXCEPT ![k] = @ \o box] \in [0..MaxSubs -> Seq(Heard)]
           /\ Once([h EXCEPT ![k] = @ \o box], <<>>) /\ Once(h, <<>>)
<1> DEFINE g == [h EXCEPT ![k] = @ \o box]
<1>1. h[k] \in Seq(Heard) /\ box \in Seq(Heard) /\ h[k] \o box \in Seq(Heard)
  BY DEF Heard
<1>2. g \in [0..MaxSubs -> Seq(Heard)] /\ g[k] = h[k] \o box /\ \A n \in 0..MaxSubs \ {k} : g[n] = h[n]
  BY <1>1
<1>3. /\ DOMAIN g[k] = 1..(Len(h[k]) + Len(box)) /\ Len(h[k]) \in Nat /\ Len(box) \in Nat
      /\ \A i \in DOMAIN g[k] : g[k][i] = IF i <= Len(h[k]) THEN h[k][i] ELSE box[i - Len(h[k])]
  BY <1>1, <1>2
<1> HIDE DEF g
<1>4. ASSUME NEW n \in 0..MaxSubs, NEW i \in DOMAIN g[n]
      PROVE  \/ i \in DOMAIN h[n] /\ g[n][i] = h[n][i]
             \/ n = k /\ i \in Nat /\ i > Len(h[k]) /\ i - Len(h[k]) \in DOMAIN box /\ g[n][i] = box[i - Len(h[k])]
  <2>1. CASE n = k
    BY SMTT(40), <1>1, <1>3, <2>1
  <2>2. CASE n /= k
    BY <1>2, <2>2
  <2> QED
    BY <2>1, <2>2
<1>5. ASSUME NEW n \in 0..MaxSubs, NEW m \in 0..MaxSubs, NEW i \in DOMAIN g[n], NEW j \in DOMAIN g[m],
             g[n][i] \in Steers, g[n][i] = g[m][j]
      PROVE  n = m /\ i = j
  <2>1. CASE i \in DOMAIN h[n] /\ g[n][i] = h[n][i]
    <3>1. \A l \in DOMAIN box : h[n][i] /= box[l]
      BY <2>1 DEF Once
    <3>2. j \in DOMAIN h[m] /\ g[m][j] = h[m][j]
      BY <1>4, <1>5, <2>1, <3>1
    <3>3. h[n][i] \in Steers /\ h[n][i] = h[m][j]
      BY <1>5, <2>1, <3>2
    <3> QED
      BY <2>1, <3>2, <3>3 DEF Once
  <2>2. CASE n = k /\ i \in Nat /\ i > Len(h[k]) /\ i - Len(h[k]) \in DOMAIN box /\ g[n][i] = box[i - Len(h[k])]
    <3>1. m = k /\ j \in Nat /\ j > Len(h[k]) /\ j - Len(h[k]) \in DOMAIN box /\ g[m][j] = box[j - Len(h[k])]
      BY <1>4, <1>5, <2>2 DEF Once
    <3>2. i - Len(h[k]) = j - Len(h[k])
      BY <1>5, <2>2, <3>1 DEF Once
    <3> QED
      BY <1>3, <2>2, <3>1, <3>2
  <2> QED
    BY <1>4, <2>1, <2>2
<1>6. Once(g, <<>>)
  BY <1>5 DEF Once
<1>7. Once(h, <<>>)
  BY DEF Once
<1> QED
  BY <1>2, <1>6, <1>7 DEF g

\* A result is no immediate input.
LEMMA OnceResumed ==
    ASSUME NEW h \in [0..MaxSubs -> Seq(Heard)], NEW box, Once(h, box), NEW r \in [sub : Subs, status : Statuses],
           box \in Seq(Steers)
    PROVE  /\ [h EXCEPT ![0] = Append(@, r)] \in [0..MaxSubs -> Seq(Heard)]
           /\ Once([h EXCEPT ![0] = Append(@, r)], box)
<1> DEFINE g == [h EXCEPT ![0] = Append(@, r)]
<1>1. r \notin Steers
  BY FrameAssumption DEF Subs
<1>2. 0 \in 0..MaxSubs /\ h[0] \in Seq(Heard) /\ r \in Heard
  BY FrameAssumption DEF Heard
<1>3. g \in [0..MaxSubs -> Seq(Heard)] /\ g[0] = Append(h[0], r) /\ \A n \in 0..MaxSubs \ {0} : g[n] = h[n]
  BY <1>2
<1> HIDE DEF g
<1>4. ASSUME NEW i \in DOMAIN g[0] PROVE g[0][i] = r \/ (i \in DOMAIN h[0] /\ g[0][i] = h[0][i])
  <2>1. i \in 1..(Len(h[0]) + 1) /\ Len(h[0]) \in Nat /\ DOMAIN h[0] = 1..Len(h[0])
    BY <1>2, <1>3
  <2>2. CASE i <= Len(h[0])
    BY <1>2, <1>3, <2>1, <2>2
  <2>3. CASE i = Len(h[0]) + 1
    BY <1>2, <1>3, <2>3
  <2> QED
    BY <2>1, <2>2, <2>3
<1>5. ASSUME NEW n \in 0..MaxSubs, NEW i \in DOMAIN g[n], g[n][i] \in Steers
      PROVE  i \in DOMAIN h[n] /\ g[n][i] = h[n][i]
  BY <1>1, <1>3, <1>4, <1>5
<1>6. \A j \in DOMAIN box : box[j] \in Steers
  OBVIOUS
<1>7. Once(g, box)
  BY <1>5, <1>6 DEF Once
<1> QED
  BY <1>3, <1>7 DEF g

\* What is not in the frames keeps its type.
RestTyped ==
    /\ inbox \in Seq(Steers) /\ stop \in BOOLEAN /\ heard \in [0..MaxSubs -> Seq(Heard)]
    /\ subs \in 0..MaxSubs /\ runs \in 0..MaxMainRuns /\ cut \subseteq 1..subs
    /\ executed \in [Subs -> Nat] /\ spent \in [Subs -> Nat]

LEMMA SubsUp == ASSUME NEW n \in 0..MaxSubs PROVE 1..n \subseteq Subs /\ n \in Nat /\ n + 1 \in Nat /\ n + 1 \notin 1..n
BY FrameAssumption DEF Subs

LEMMA OneFrame ==
    ASSUME RestTyped', Limits', Once(heard, inbox)', NEW f \in FrameStates, frames' = <<f>>, FrameFits(f),
           f.who = 0, f.box = "none", boxes' = cut'
    PROVE  FrameInv'
<1>1. frames' \in Seq(FrameStates) /\ Len(frames') = 1 /\ frames'[1] = f /\ DOMAIN frames' = {1}
  OBVIOUS
<1>2. FrameTypeOK'
  BY <1>1, SubsUp DEF FrameTypeOK, RestTyped
<1>3. Stacked'
  BY <1>1 DEF Stacked, FrameFits, RestTyped
<1> QED
  BY <1>2, <1>3 DEF FrameInv

LEMMA TwoFrames ==
    ASSUME RestTyped', Limits', Once(heard, inbox)', NEW f \in FrameStates, NEW g \in FrameStates, frames' = <<f, g>>,
           FrameFits(f), FrameFits(g), f.who = 0, f.box = "none", f.pc = "tools", f.working = 1,
           g.who = subs', subs' \in Subs, g.pc /= "idle", g.counted = executed'[subs'],
           g.pc = "model" => spent'[subs'] <= TokenLimit,
           subs' \notin cut', boxes' = cut' \cup (IF g.box = "owned" THEN {subs'} ELSE {})
    PROVE  FrameInv'
<1>1. /\ frames' \in Seq(FrameStates) /\ Len(frames') = 2 /\ frames'[1] = f /\ frames'[2] = g
      /\ DOMAIN frames' = {1, 2}
  OBVIOUS
<1>2. FrameTypeOK'
  BY <1>1, SubsUp DEF FrameTypeOK, RestTyped
<1>3. SubFits(frames[2])'
  BY <1>1 DEF SubFits
<1>4. Stacked'
  BY <1>1, <1>3 DEF Stacked, FrameFits, RestTyped
<1> QED
  BY <1>2, <1>4 DEF FrameInv

\* Whose call is over, whose frame is popped: its sandbox is closed, or it is cut short.
LEMMA BoxesWhenPopped ==
    ASSUME FrameInv, Len(frames) = 2, subs' = subs,
           \/ boxes' = boxes \ {Top.who} /\ UNCHANGED cut
           \/ CutShort
           \/ Top.who \notin boxes /\ UNCHANGED <<boxes, cut>>
    PROVE  boxes' = cut' /\ cut' \subseteq 1..subs'
<1>1. /\ Top.who = subs /\ subs \in Subs /\ subs \notin cut /\ cut \subseteq 1..subs
      /\ boxes = cut \cup (IF frames[2].box = "owned" THEN {subs} ELSE {})
  BY FrameFacts DEF FrameInv, Stacked, SubFits
<1>2. subs \in 1..subs
  BY <1>1, FrameAssumption DEF Subs
<1> QED
  BY <1>1, <1>2 DEF CutShort

\* The main agent goes on with a frame that fits.
LEMMA MainFits ==
    ASSUME FrameInv, Len(frames) = 2, MainGoesOn
    PROVE  \E f \in FrameStates : frames' = <<f>> /\ FrameFits(f) /\ f.who = 0 /\ f.box = "none"
<1> DEFINE f == [frames[1] EXCEPT !.working = 0, !.pc = IF frames[1].left = 0 THEN "ask" ELSE @]
<1>1. frames' = <<f>>
  BY DEF MainGoesOn
<1>2. /\ frames[1] \in FrameStates /\ FrameFits(frames[1])
      /\ frames[1].pc = "tools" /\ frames[1].who = 0 /\ frames[1].box = "none"
  BY FrameFacts DEF FrameInv, Stacked
<1>3. f \in FrameStates /\ f.who = 0 /\ f.box = "none"
  <2>1. 0 \in 0..BatchMax
    BY FrameAssumption
  <2>2. (IF frames[1].left = 0 THEN "ask" ELSE frames[1].pc) \in {"idle", "build", "ask", "model", "tools"}
    BY <1>2 DEF FrameStates
  <2> QED
    BY <1>2, <2>1, <2>2 DEF FrameStates
<1>4. FrameFits(f)
  BY <1>2, FrameAssumption DEF FrameStates, FrameFits
<1> HIDE DEF f
<1> QED
  BY <1>1, <1>3, <1>4

LEMMA FrameEnds ==
    ASSUME FrameInv, NEW h \in [0..MaxSubs -> Seq(Heard)], NEW status \in Statuses, Ends(h, status),
           Once(h, inbox'), inbox' \in Seq(Steers), stop' \in BOOLEAN, runs' \in 0..MaxMainRuns, subs' = subs,
           executed' = executed, spent' \in [Subs -> Nat], Limits'
    PROVE  FrameInv'
<1>0. subs \in 0..MaxSubs /\ executed \in [Subs -> Nat]
  BY DEF FrameInv, FrameTypeOK
<1>1. CASE Len(frames) = 1
  <2>1. frames' = <<Base>> /\ heard' = h /\ boxes' = cut' /\ cut' = cut
    BY <1>1, FrameFacts DEF Ends, MainEnds
  <2>2. RestTyped' /\ Once(heard, inbox)'
    BY <1>0, <2>1 DEF RestTyped, Once, FrameInv, Stacked
  <2> QED
    BY <2>1, <2>2, BaseFits, OneFrame
<1>2. CASE Len(frames) = 2
  <2> DEFINE r == SubResult(Top.who, status)
             g == WithResult(h, status)
  <2>1. /\ MainGoesOn
        /\ \/ heard' = g /\ boxes' = boxes \ {Top.who} /\ UNCHANGED cut
           \/ heard' = h /\ CutShort
    BY <1>2 DEF Ends, MainEnds
  <2>2. boxes' = cut' /\ cut' \subseteq 1..subs'
    BY <1>2, <2>1, BoxesWhenPopped
  <2>3. r \in [sub : Subs, status : Statuses]
    BY <1>2, FrameFacts DEF SubResult, SubFits
  <2>4. g \in [0..MaxSubs -> Seq(Heard)] /\ Once(g, inbox')
    BY <2>3, OnceResumed DEF WithResult, SubResult
  <2> HIDE DEF g
  <2>5. heard' \in [0..MaxSubs -> Seq(Heard)] /\ Once(heard, inbox)'
    <3>1. CASE heard' = g
      BY <2>4, <3>1 DEF Once
    <3>2. CASE heard' = h
      BY <3>2 DEF Once
    <3> QED
      BY <2>1, <3>1, <3>2
  <2>6. RestTyped'
    BY <1>0, <2>2, <2>5 DEF RestTyped
  <2>7. PICK f \in FrameStates : frames' = <<f>> /\ FrameFits(f) /\ f.who = 0 /\ f.box = "none"
    BY <1>2, <2>1, MainFits
  <2> QED
    BY <2>2, <2>5, <2>6, <2>7, OneFrame
<1>3. Len(frames) \in {1, 2}
  BY FrameFacts
<1> QED
  BY <1>1, <1>2, <1>3

LEMMA TopKeeps ==
    ASSUME FrameInv, NEW new \in FrameStates, frames' = WithTop(new), FrameFits(new), new.who = Top.who,
           new.box = Top.box, new.pc /= "idle", boxes' = boxes, cut' = cut, subs' = subs, RestTyped', Limits',
           Once(heard, inbox)',
           Top.who /= 0 => /\ new.counted = executed'[Top.who]
                           /\ new.pc = "model" => spent'[Top.who] <= TokenLimit
    PROVE  FrameInv'
<1>1. CASE Len(frames) = 1
  <2>1. frames' = <<new>> /\ new.who = 0 /\ new.box = "none" /\ boxes' = cut'
    <3>1. frames = <<frames[1]>> /\ Top = frames[1] /\ boxes = cut /\ frames[1].who = 0 /\ frames[1].box = "none"
      BY <1>1, FrameFacts DEF FrameInv, Stacked
    <3>2. frames' = [frames EXCEPT ![1] = new]
      BY <1>1 DEF WithTop
    <3>3. frames' = <<new>>
      BY ONLY <3>1, <3>2
    <3> QED
      BY <3>1, <3>3
  <2> QED
    BY <2>1, OneFrame
<1>2. CASE Len(frames) = 2
  <2>1. /\ frames = <<frames[1], frames[2]>> /\ Top = frames[2] /\ frames[1] \in FrameStates
        /\ FrameFits(frames[1]) /\ SubFits(frames[2]) /\ frames[1].pc = "tools" /\ frames[1].working = 1
        /\ frames[1].who = 0 /\ frames[1].box = "none"
        /\ boxes = cut \cup (IF frames[2].box = "owned" THEN {subs} ELSE {}) /\ subs \notin cut
    BY <1>2, FrameFacts DEF FrameInv, Stacked
  <2>2. frames' = [frames EXCEPT ![2] = new]
    BY <1>2 DEF WithTop
  <2>3. frames' = <<frames[1], new>>
    BY ONLY <2>1, <2>2
  <2>4. Top.who = subs /\ subs \in Subs /\ subs /= 0
    BY <2>1, FrameAssumption DEF SubFits, Subs
  <2> QED
    BY <2>1, <2>3, <2>4, TwoFrames
<1> QED
  BY <1>1, <1>2, FrameFacts

LEMMA FrameRest ==
    ASSUME FrameInv
    PROVE  RestTyped /\ Limits /\ Once(heard, inbox)
           /\ (Top.who /= 0 => Top.who = subs /\ subs \in Subs /\ Top.counted = executed[subs] /\ Top.pc /= "idle"
                               /\ (Top.pc = "model" => spent[subs] <= TokenLimit))
BY FrameFacts DEF FrameInv, FrameTypeOK, Stacked, RestTyped, SubFits

LEMMA NoInputLeft == <<>> \in Seq(Steers)
OBVIOUS

LEMMA KeepsStartMain ==
    ASSUME FrameInv, StartMain
    PROVE  FrameInv'
<1> DEFINE f == [Base EXCEPT !.pc = "ask"]
<1>1. /\ frames = <<Base>> /\ frames' = <<f>> /\ inbox' = <<>> /\ runs < MaxMainRuns /\ runs' = runs + 1
      /\ UNCHANGED <<stop, heard, boxes, cut, executed, spent, subs>>
  BY DEF StartMain
<1>2. f \in FrameStates /\ FrameFits(f) /\ f.who = 0 /\ f.box = "none"
  BY FrameAssumption DEF Base, Frame, FrameStates, FrameFits, Boxes
<1>3. boxes' = cut'
  BY <1>1, FrameFacts
<1>4. RestTyped'
  BY <1>1, FrameRest, FrameAssumption, NoInputLeft DEF RestTyped
<1>5. Limits' /\ Once(heard, inbox)'
  BY <1>1, FrameRest DEF Limits, Once
<1> HIDE DEF f
<1> QED
  BY <1>1, <1>2, <1>3, <1>4, <1>5, OneFrame

LEMMA KeepsCheckpoint ==
    ASSUME FrameInv, Checkpoint
    PROVE  FrameInv'
<1> DEFINE taken == [heard EXCEPT ![Top.who] = @ \o inbox]
           f == [Top EXCEPT !.pc = "model", !.answers = @ + 1]
<1>1. /\ Top.pc = "ask" /\ inbox' = <<>> /\ UNCHANGED <<stop, executed, spent, subs, runs>>
      /\ \/ Ends(taken, "completed")
         \/ Ends(taken, "budget_exceeded")
         \/ ~OverBudget(Top.who) /\ frames' = WithTop(f) /\ heard' = taken /\ UNCHANGED <<boxes, cut>>
  BY DEF Checkpoint
<1>2. RestTyped /\ Limits /\ Once(heard, inbox) /\ Top.who \in 0..MaxSubs
  BY FrameRest, FrameFacts
<1>3. taken \in [0..MaxSubs -> Seq(Heard)] /\ Once(taken, <<>>)
  BY <1>2, OnceTaken DEF RestTyped
<1> HIDE DEF taken
<1>4. Limits' /\ inbox' \in Seq(Steers) /\ Once(taken, inbox')
  BY <1>1, <1>2, <1>3, NoInputLeft DEF Limits
<1>5. CASE \E status \in {"completed", "budget_exceeded"} : Ends(taken, status)
  BY <1>1, <1>2, <1>3, <1>4, <1>5, FrameEnds DEF RestTyped, Statuses
<1>6. CASE ~OverBudget(Top.who) /\ frames' = WithTop(f) /\ heard' = taken /\ UNCHANGED <<boxes, cut>>
  <2>1. Top \in FrameStates /\ FrameFits(Top)
    BY FrameFacts
  <2>2. f \in FrameStates /\ FrameFits(f) /\ f.who = Top.who /\ f.box = Top.box /\ f.pc = "model" /\ f.counted = Top.counted
    <3>1. Top.answers + 1 \in 0..MaxAnswers /\ Top.left = 0 /\ Top.working = 0
      <4>1. MaxAnswers \in Nat
        BY FrameAssumption
      <4>2. Top.answers \in 0..MaxAnswers
        BY <2>1 DEF FrameStates
      <4>3. Top.answers < MaxAnswers /\ Top.left = 0 /\ Top.working = 0
        BY <1>1, <2>1 DEF FrameFits
      <4> QED
        BY <4>1, <4>2, <4>3
    <3>2. f \in FrameStates /\ f.left = Top.left /\ f.working = Top.working /\ f.who = Top.who /\ f.box = Top.box
          /\ f.pc = "model" /\ f.counted = Top.counted
      BY <2>1, <3>1 DEF FrameStates
    <3> HIDE DEF f
    <3>3. FrameFits(f)
      BY <3>1, <3>2, FrameAssumption DEF FrameFits
    <3> QED
      BY <3>2, <3>3
  <2>3. RestTyped' /\ Once(heard, inbox)'
    BY <1>1, <1>2, <1>3, <1>4, <1>6 DEF RestTyped, Once
  <2>4. Top.who /= 0 => /\ Top.counted = executed'[Top.who]
                        /\ spent'[Top.who] <= TokenLimit
    <3>1. SUFFICES ASSUME Top.who /= 0 PROVE Top.counted = executed'[Top.who] /\ spent'[Top.who] <= TokenLimit
      OBVIOUS
    <3>2. Top.who = subs /\ subs \in Subs /\ Top.counted = executed[subs]
      BY <3>1, FrameRest
    <3>3. spent[subs] <= TokenLimit
      BY <1>2, <1>6, <3>1, <3>2, FrameAssumption DEF OverBudget, RestTyped
    <3> QED
      BY <1>1, <3>2, <3>3
  <2> HIDE DEF f
  <2> QED
    BY <1>1, <1>4, <1>6, <2>2, <2>3, <2>4, TopKeeps
<1> QED
  BY <1>1, <1>5, <1>6

\* A model call is put on the account of a sub-agent that was within its budget.
LEMMA AccountKeeps ==
    ASSUME FrameInv, Top.pc = "model", Accounted, UNCHANGED <<executed, subs>>
    PROVE  spent' \in [Subs -> Nat] /\ Limits'
<1>1. RestTyped /\ Limits
  BY FrameRest
<1>2. CASE Top.who = 0
  BY <1>1, <1>2 DEF Accounted, RestTyped, Limits
<1>3. CASE Top.who /= 0
  <2>1. /\ Top.who = subs /\ subs \in Subs /\ spent[subs] <= TokenLimit
        /\ spent' = [spent EXCEPT ![subs] = @ + 1]
    BY <1>3, FrameRest DEF Accounted
  <2>2. /\ spent \in [Subs -> Nat] /\ spent' \in [Subs -> Nat] /\ spent'[subs] <= TokenLimit + 1
        /\ \A n \in Subs \ {subs} : spent'[n] = spent[n]
    BY SMTT(40), <1>1, <2>1, FrameAssumption DEF RestTyped
  <2>3. ASSUME NEW n \in Subs
        PROVE  executed'[n] <= CallLimit /\ spent'[n] <= TokenLimit + 1 /\ (n > subs => executed'[n] = 0 /\ spent'[n] = 0)
    <3>1. CASE n = subs
      BY <1>1, <2>1, <2>2, <3>1 DEF Limits, Subs
    <3>2. CASE n /= subs
      BY <1>1, <2>2, <3>2 DEF Limits
    <3> QED
      BY <3>1, <3>2
  <2> QED
    BY <2>2, <2>3 DEF Limits
<1> QED
  BY <1>2, <1>3

LEMMA KeepsReplies ==
    ASSUME FrameInv, Replies
    PROVE  FrameInv'
<1>1. /\ Top.pc = "model" /\ Accounted /\ Ends(heard, "completed") /\ UNCHANGED <<inbox, stop, executed, subs, runs>>
  BY DEF Replies
<1>2. RestTyped /\ Once(heard, inbox') /\ inbox' \in Seq(Steers)
  BY <1>1, FrameRest DEF RestTyped, Once
<1> QED
  BY <1>1, <1>2, AccountKeeps, FrameEnds DEF RestTyped, Statuses

LEMMA KeepsFailing ==
    ASSUME FrameInv, ProviderFails \/ TimesOut
    PROVE  FrameInv'
<1>1. (\E status \in {"error", "timeout"} : Ends(heard, status)) /\ UNCHANGED <<inbox, stop, executed, spent, subs, runs>>
  BY DEF ProviderFails, TimesOut
<1>2. RestTyped /\ Once(heard, inbox') /\ inbox' \in Seq(Steers)
  <2>1. inbox' = inbox
    BY <1>1
  <2> QED
    BY <2>1, FrameRest DEF RestTyped
<1>3. Limits' /\ spent' \in [Subs -> Nat]
  BY <1>1, FrameRest DEF Limits, RestTyped
<1> QED
  BY <1>1, <1>2, <1>3, FrameEnds DEF RestTyped, Statuses

LEMMA KeepsCalls ==
    ASSUME FrameInv, NEW k \in 1..BatchMax, Calls(k)
    PROVE  FrameInv'
<1> DEFINE f == [Top EXCEPT !.pc = "tools", !.left = k]
<1>1. /\ Top.pc = "model" /\ Accounted /\ UNCHANGED <<inbox, stop, executed, subs, runs>>
      /\ \/ Ends(heard, "completed")
         \/ Top.answers < MaxAnswers /\ frames' = WithTop(f) /\ UNCHANGED <<heard, boxes, cut>>
  BY DEF Calls
<1>2. RestTyped /\ Once(heard, inbox') /\ inbox' \in Seq(Steers)
  BY <1>1, FrameRest DEF RestTyped, Once
<1>3. spent' \in [Subs -> Nat] /\ Limits'
  BY <1>1, AccountKeeps
<1>4. CASE Ends(heard, "completed")
  BY <1>1, <1>2, <1>3, <1>4, FrameEnds DEF RestTyped, Statuses
<1>5. CASE Top.answers < MaxAnswers /\ frames' = WithTop(f) /\ UNCHANGED <<heard, boxes, cut>>
  <2>1. Top \in FrameStates /\ FrameFits(Top) /\ k \in 0..BatchMax
    BY FrameFacts, FrameAssumption
  <2>2. f \in FrameStates /\ FrameFits(f) /\ f.who = Top.who /\ f.box = Top.box /\ f.pc = "tools" /\ f.counted = Top.counted
    <3>1. Top.answers \in Nat /\ Top.left = 0 /\ Top.working = 0 /\ k \in Nat /\ k <= BatchMax
      BY <1>1, <2>1, FrameAssumption DEF FrameStates, FrameFits
    <3>2. f \in FrameStates /\ f.left = k /\ f.working = Top.working /\ f.who = Top.who /\ f.box = Top.box
          /\ f.pc = "tools" /\ f.counted = Top.counted /\ f.answers = Top.answers
      BY <2>1, <3>1 DEF FrameStates
    <3> HIDE DEF f
    <3>3. FrameFits(f)
      BY <1>5, <3>1, <3>2, FrameAssumption DEF FrameFits
    <3> QED
      BY <3>2, <3>3
  <2>3. RestTyped' /\ Once(heard, inbox)'
    BY <1>1, <1>2, <1>3, <1>5 DEF RestTyped, Once
  <2>4. Top.who /= 0 => Top.counted = executed'[Top.who]
    BY <1>1, FrameRest
  <2> HIDE DEF f
  <2> QED
    BY <1>1, <1>3, <1>5, <2>2, <2>3, <2>4, TopKeeps
<1> QED
  BY <1>1, <1>4, <1>5

\* When the last call of a batch is over the Run goes on; nothing else of the frame changes.
LEMMA CallOverFits ==
    ASSUME NEW f \in FrameStates, f.pc = "tools", f.left + f.working <= BatchMax, f.answers < MaxAnswers
    PROVE  /\ CallOver(f) \in FrameStates /\ FrameFits(CallOver(f)) /\ CallOver(f).pc \in {"ask", "tools"}
           /\ CallOver(f).who = f.who /\ CallOver(f).box = f.box /\ CallOver(f).counted = f.counted
<1> DEFINE pc == IF f.left = 0 /\ f.working = 0 THEN "ask" ELSE "tools"
           g == [f EXCEPT !.pc = pc]
<1>1. CallOver(f) = g
  BY DEF CallOver
<1>2. pc \in {"ask", "tools"} /\ (pc = "ask" => f.left = 0 /\ f.working = 0)
  OBVIOUS
<1> HIDE DEF pc
<1>3. /\ g \in FrameStates /\ g.pc = pc /\ g.left = f.left /\ g.working = f.working /\ g.answers = f.answers
      /\ g.who = f.who /\ g.box = f.box /\ g.counted = f.counted
  BY <1>2 DEF FrameStates
<1> HIDE DEF g
<1> QED
  BY <1>1, <1>2, <1>3 DEF FrameFits

LEMMA KeepsStartTool ==
    ASSUME FrameInv, StartTool
    PROVE  FrameInv'
<1> DEFINE f == [Top EXCEPT !.left = @ - 1]
           g == [f EXCEPT !.working = @ + 1, !.counted = @ + 1]
           refused == Top.who /= 0 /\ Top.counted >= CallLimit
<1>1. /\ Top.pc = "tools" /\ Top.left > 0 /\ UNCHANGED <<inbox, stop, heard, boxes, cut, spent, subs, runs>>
  BY DEF StartTool
<1>2. Top \in FrameStates /\ FrameFits(Top) /\ f.who = Top.who /\ f.counted = Top.counted
  BY FrameFacts DEF FrameStates
<1>3. /\ frames' = WithTop(IF refused THEN CallOver(f) ELSE g)
      /\ executed' = IF refused \/ Top.who = 0 THEN executed ELSE [executed EXCEPT ![Top.who] = @ + 1]
  BY <1>2 DEF StartTool
<1>4. /\ BatchMax \in Nat /\ CallLimit \in Nat /\ Top.left \in 1..BatchMax /\ Top.working \in Nat /\ Top.counted \in Nat
      /\ Top.left + Top.working <= BatchMax /\ Top.answers < MaxAnswers
  <2>1. BatchMax \in Nat /\ CallLimit \in Nat
    BY FrameAssumption
  <2> QED
    BY <1>1, <1>2, <2>1 DEF FrameStates, FrameFits
<1>5. RestTyped /\ Limits /\ Once(heard, inbox)
  BY FrameRest
<1>6. Top.who /= 0 => Top.who = subs /\ subs \in Subs /\ Top.counted = executed[subs]
  BY FrameRest
<1>7. Once(heard, inbox)'
  BY <1>1, <1>5 DEF Once
<1>8. CASE refused
  <2>1. f \in FrameStates /\ f.pc = "tools" /\ f.left + f.working <= BatchMax /\ f.answers < MaxAnswers /\ f.box = Top.box
    BY <1>1, <1>2, <1>4 DEF FrameStates
  <2>2. /\ CallOver(f) \in FrameStates /\ FrameFits(CallOver(f)) /\ CallOver(f).pc \in {"ask", "tools"}
        /\ CallOver(f).who = Top.who /\ CallOver(f).box = Top.box /\ CallOver(f).counted = Top.counted
    BY <1>2, <2>1, CallOverFits
  <2>3. frames' = WithTop(CallOver(f)) /\ executed' = executed
    BY <1>3, <1>8
  <2>4. RestTyped' /\ Limits'
    BY <1>1, <1>5, <2>3 DEF RestTyped, Limits
  <2> HIDE DEF f
  <2> QED
    BY <1>1, <1>6, <1>7, <2>2, <2>3, <2>4, TopKeeps
<1>9. CASE ~refused
  <2>1. /\ g \in FrameStates /\ g.pc = "tools" /\ g.left = Top.left - 1 /\ g.working = Top.working + 1
        /\ g.answers = Top.answers /\ g.who = Top.who /\ g.box = Top.box /\ g.counted = Top.counted + 1
    <3>1. Top.left - 1 \in 0..BatchMax /\ Top.working + 1 \in 0..BatchMax /\ Top.counted + 1 \in Nat
      BY <1>4
    <3> QED
      BY <1>1, <1>2, <3>1 DEF FrameStates
  <2> HIDE DEF g
  <2>2. FrameFits(g)
    BY <1>4, <2>1 DEF FrameFits
  <2>3. frames' = WithTop(g)
    BY <1>3, <1>9
  <2>4. CASE Top.who = 0
    <3>1. executed' = executed
      BY <1>3, <2>4
    <3>2. RestTyped' /\ Limits'
      BY <1>1, <1>5, <3>1 DEF RestTyped, Limits
    <3> QED
      BY <1>1, <1>7, <2>1, <2>2, <2>3, <2>4, <3>2, TopKeeps
  <2>5. CASE Top.who /= 0
    <3>1. executed' = [executed EXCEPT ![subs] = @ + 1] /\ subs \in Subs /\ executed[subs] < CallLimit
      <4>1. Top.counted < CallLimit
        BY <1>4, <1>9, <2>5
      <4>2. Top.who = subs /\ subs \in Subs /\ Top.counted = executed[subs]
        BY <1>6, <2>5
      <4>3. executed' = [executed EXCEPT ![Top.who] = @ + 1]
        BY <1>3, <1>9, <2>5
      <4> QED
        BY <4>1, <4>2, <4>3
    <3>2. /\ executed \in [Subs -> Nat] /\ executed' \in [Subs -> Nat] /\ executed'[subs] = executed[subs] + 1
          /\ \A n \in Subs \ {subs} : executed'[n] = executed[n]
      BY <1>5, <3>1 DEF RestTyped
    <3>3. RestTyped'
      BY <1>1, <1>5, <3>2 DEF RestTyped
    <3>4. ASSUME NEW n \in Subs
          PROVE  /\ executed'[n] <= CallLimit /\ spent'[n] <= TokenLimit + 1
                 /\ n > subs' => executed'[n] = 0 /\ spent'[n] = 0
      <4>1. CASE n = subs
        BY <1>1, <1>4, <1>5, <3>1, <3>2, <4>1 DEF Limits, Subs
      <4>2. CASE n /= subs
        BY <1>1, <1>5, <3>2, <4>2 DEF Limits
      <4> QED
        BY <4>1, <4>2
    <3>5. Limits'
      BY <3>4 DEF Limits
    <3>6. g.counted = executed'[Top.who]
      BY <1>6, <2>1, <2>5, <3>2
    <3> QED
      BY <1>1, <1>7, <2>1, <2>2, <2>3, <3>3, <3>5, <3>6, TopKeeps
  <2> QED
    BY <2>4, <2>5
<1> QED
  BY <1>8, <1>9

LEMMA KeepsToolReturns ==
    ASSUME FrameInv, ToolReturns
    PROVE  FrameInv'
<1> DEFINE f == [Top EXCEPT !.working = @ - 1]
<1>1. /\ Top.pc = "tools" /\ Top.working > 0 /\ frames' = WithTop(CallOver(f))
      /\ UNCHANGED <<inbox, stop, heard, boxes, cut, executed, spent, subs, runs>>
  BY DEF ToolReturns
<1>2. Top \in FrameStates /\ FrameFits(Top) /\ BatchMax \in Nat
  BY FrameFacts, FrameAssumption
<1>3. /\ f \in FrameStates /\ f.pc = "tools" /\ f.left + f.working <= BatchMax /\ f.answers < MaxAnswers
      /\ f.who = Top.who /\ f.box = Top.box /\ f.counted = Top.counted
  BY <1>1, <1>2 DEF FrameStates, FrameFits
<1> HIDE DEF f
<1>4. /\ CallOver(f) \in FrameStates /\ FrameFits(CallOver(f)) /\ CallOver(f).pc \in {"ask", "tools"}
      /\ CallOver(f).who = Top.who /\ CallOver(f).box = Top.box /\ CallOver(f).counted = Top.counted
  BY <1>3, CallOverFits
<1>5. RestTyped' /\ Limits' /\ Once(heard, inbox)'
  BY <1>1, FrameRest DEF RestTyped, Limits, Once
<1>6. Top.who /= 0 => Top.counted = executed'[Top.who]
  BY <1>1, FrameRest
<1> QED
  BY <1>1, <1>4, <1>5, <1>6, TopKeeps

LEMMA KeepsDelegate ==
    ASSUME FrameInv, NEW box \in Boxes, Delegate(box)
    PROVE  FrameInv'
<1> DEFINE f == [frames[1] EXCEPT !.left = @ - 1, !.working = 1]
           g == Frame(subs', "build", box)
<1>1. /\ Len(frames) = 1 /\ frames[1].pc = "tools" /\ frames[1].left > 0 /\ frames[1].working = 0
      /\ subs < MaxSubs /\ subs' = subs + 1 /\ frames' = <<f, g>>
      /\ boxes' = IF box = "owned" THEN boxes \cup {subs'} ELSE boxes
      /\ UNCHANGED <<inbox, stop, heard, cut, executed, spent, runs>>
  BY DEF Delegate
<1>2. /\ frames[1] \in FrameStates /\ FrameFits(frames[1]) /\ boxes = cut /\ RestTyped /\ Limits /\ Once(heard, inbox)
      /\ frames[1].who = 0 /\ frames[1].box = "none"
  BY <1>1, FrameFacts, FrameRest DEF FrameInv, Stacked
<1>3. BatchMax \in Nat \ {0} /\ MaxAnswers \in Nat \ {0} /\ MaxSubs \in Nat /\ CallLimit \in Nat /\ TokenLimit \in Nat
  BY FrameAssumption
<1>4. subs \in 0..MaxSubs /\ subs' \in Subs
  BY <1>1, <1>2, <1>3 DEF RestTyped, Subs
<1>5. /\ f \in FrameStates /\ f.pc = "tools" /\ f.left = frames[1].left - 1 /\ f.working = 1 /\ f.answers = frames[1].answers
      /\ f.who = 0 /\ f.box = "none"
  <2>1. frames[1].left - 1 \in 0..BatchMax /\ 1 \in 0..BatchMax
    BY <1>1, <1>2, <1>3 DEF FrameStates
  <2> QED
    BY <1>1, <1>2, <2>1 DEF FrameStates
<1>6. FrameFits(f)
  <2>1. frames[1].left \in 1..BatchMax /\ frames[1].answers < MaxAnswers
    BY <1>1, <1>2, <1>3 DEF FrameStates, FrameFits
  <2> HIDE DEF f
  <2> QED
    BY <1>3, <1>5, <2>1 DEF FrameFits
<1>7. /\ g \in FrameStates /\ g.who = subs' /\ g.pc = "build" /\ g.counted = 0 /\ g.box = box
      /\ g.left = 0 /\ g.working = 0 /\ g.answers = 0
  BY <1>3, <1>4 DEF Frame, FrameStates
<1> HIDE DEF f, g
<1>8. FrameFits(g)
  BY <1>3, <1>4, <1>7 DEF FrameFits, Subs
<1>9. executed'[subs'] = 0
  BY <1>1, <1>2, <1>4 DEF Limits
<1>10. subs' \notin cut' /\ cut' \subseteq 1..subs'
  <2>1. cut \subseteq 1..subs /\ subs + 1 \notin 1..subs /\ subs \in Nat
    BY <1>2, <1>4, SubsUp DEF RestTyped
  <2>2. 1..subs \subseteq 1..(subs + 1)
    BY <2>1
  <2> QED
    BY <1>1, <2>1, <2>2
<1>13. RestTyped' /\ Once(heard, inbox)'
  BY <1>1, <1>2, <1>3, <1>4, <1>10 DEF RestTyped, Once
<1>11. Limits'
  BY <1>1, <1>2, <1>4 DEF Limits, Subs
<1>12. boxes' = cut' \cup (IF g.box = "owned" THEN {subs'} ELSE {})
  BY <1>1, <1>2, <1>7
<1> QED
  BY <1>1, <1>4, <1>5, <1>6, <1>7, <1>8, <1>9, <1>10, <1>11, <1>12, <1>13, TwoFrames

LEMMA KeepsFramePushed ==
    ASSUME FrameInv, FramePushed
    PROVE  FrameInv'
<1> DEFINE f == [Top EXCEPT !.pc = "ask"]
<1>1. /\ Top.pc = "build" /\ frames' = WithTop(f)
      /\ UNCHANGED <<inbox, stop, heard, boxes, cut, executed, spent, subs, runs>>
  BY DEF FramePushed
<1>2. Top \in FrameStates /\ FrameFits(Top)
  BY FrameFacts
<1>3. /\ f \in FrameStates /\ f.pc = "ask" /\ f.who = Top.who /\ f.box = Top.box /\ f.counted = Top.counted
      /\ f.left = Top.left /\ f.working = Top.working /\ f.answers = Top.answers
  BY <1>2 DEF FrameStates
<1> HIDE DEF f
<1>4. FrameFits(f)
  BY <1>1, <1>2, <1>3 DEF FrameFits
<1>5. RestTyped' /\ Limits' /\ Once(heard, inbox)'
  BY <1>1, FrameRest DEF RestTyped, Limits, Once
<1>6. Top.who /= 0 => Top.counted = executed'[Top.who]
  BY <1>1, FrameRest
<1> QED
  BY <1>1, <1>3, <1>4, <1>5, <1>6, TopKeeps

LEMMA KeepsBuildFails ==
    ASSUME FrameInv, BuildFails
    PROVE  FrameInv'
<1>1. /\ Top.pc = "build" /\ MainGoesOn /\ UNCHANGED <<inbox, stop, heard, executed, spent, subs, runs>>
      /\ CutShort \/ (Top.who \notin boxes /\ UNCHANGED <<boxes, cut>>)
  BY DEF BuildFails
<1>2. Len(frames) = 2
  BY <1>1, FrameFacts DEF FrameFits
<1>3. boxes' = cut' /\ cut' \subseteq 1..subs'
  BY <1>1, <1>2, BoxesWhenPopped
<1>4. RestTyped' /\ Limits' /\ Once(heard, inbox)'
  BY <1>1, <1>3, FrameRest DEF RestTyped, Limits, Once
<1>5. PICK f \in FrameStates : frames' = <<f>> /\ FrameFits(f) /\ f.who = 0 /\ f.box = "none"
  BY <1>1, <1>2, MainFits
<1> QED
  BY <1>3, <1>4, <1>5, OneFrame

LEMMA KeepsTaskCancelled ==
    ASSUME FrameInv, TaskCancelled
    PROVE  FrameInv'
<1>1. /\ frames' = <<Base>> /\ stop' = TRUE /\ UNCHANGED <<inbox, heard, executed, spent, subs, runs>>
      /\ (boxes' = boxes \ {Top.who} /\ UNCHANGED cut) \/ CutShort
  BY DEF TaskCancelled
<1>2. boxes' = cut' /\ cut' \subseteq 1..subs'
  <2>1. CASE Len(frames) = 1
    <3>1. boxes = cut /\ Top.who = 0 /\ cut \subseteq 1..subs
      BY <2>1, FrameFacts DEF FrameInv, Stacked
    <3>2. 0 \notin boxes
      BY <3>1
    <3> QED
      BY <1>1, <3>1, <3>2 DEF CutShort
  <2>2. CASE Len(frames) = 2
    BY <1>1, <2>2, BoxesWhenPopped
  <2> QED
    BY <2>1, <2>2, FrameFacts
<1>3. RestTyped' /\ Limits' /\ Once(heard, inbox)'
  BY <1>1, <1>2, FrameRest DEF RestTyped, Limits, Once
<1> QED
  BY <1>1, <1>2, <1>3, BaseFits, OneFrame

LEMMA KeepsSteer ==
    ASSUME FrameInv, NEW s \in Steers, Steer(s)
    PROVE  FrameInv'
<1>1. /\ \A n \in 0..MaxSubs : \A i \in DOMAIN heard[n] : heard[n][i] /= s
      /\ \A i \in DOMAIN inbox : inbox[i] /= s
      /\ inbox' = Append(inbox, s)
      /\ UNCHANGED <<frames, stop, heard, boxes, cut, executed, spent, subs, runs>>
  BY DEF Steer
<1>2. inbox \in Seq(Steers) /\ Once(heard, inbox)
  BY FrameRest DEF RestTyped
<1>3. /\ inbox' \in Seq(Steers)
      /\ \A i \in DOMAIN inbox' : (i \in DOMAIN inbox /\ inbox'[i] = inbox[i]) \/ (i = Len(inbox) + 1 /\ inbox'[i] = s)
  BY <1>1, <1>2
<1>4. Once(heard, inbox)'
  <2>1. ASSUME NEW i \in DOMAIN inbox', NEW j \in DOMAIN inbox', inbox'[i] = inbox'[j] PROVE i = j
    BY <1>1, <1>2, <1>3, <2>1 DEF Once
  <2>2. \A n \in 0..MaxSubs : \A i \in DOMAIN heard[n], j \in DOMAIN inbox' : heard[n][i] /= inbox'[j]
    BY <1>1, <1>2, <1>3 DEF Once
  <2> QED
    BY <1>1, <1>2, <2>1, <2>2 DEF Once
<1>5. FrameTypeOK'
  BY <1>1, <1>3 DEF FrameInv, FrameTypeOK
<1>6. Stacked' /\ Limits'
  BY <1>1 DEF FrameInv, Stacked, SubFits, Limits
<1> QED
  BY <1>4, <1>5, <1>6 DEF FrameInv

LEMMA FramesStart == FrameInit => FrameInv
<1> SUFFICES ASSUME FrameInit PROVE FrameInv
  OBVIOUS
<1>1. /\ frames = <<Base>> /\ inbox = <<>> /\ stop = FALSE /\ heard = [n \in 0..MaxSubs |-> <<>>]
      /\ boxes = {} /\ cut = {} /\ subs = 0 /\ runs = 0
      /\ executed = [n \in Subs |-> 0] /\ spent = [n \in Subs |-> 0]
  BY DEF FrameInit
<1>2. frames \in Seq(FrameStates) /\ Len(frames) = 1 /\ frames[1] = Base /\ DOMAIN frames = {1}
  BY <1>1, BaseFits
<1>3. <<>> \in Seq(Heard) /\ <<>> \in Seq(Steers)
  OBVIOUS
<1>4. FrameTypeOK
  <2>1. 0 \in 0..MaxSubs /\ 0 \in 0..MaxMainRuns /\ 0 \in Nat
    BY FrameAssumption
  <2>2. heard \in [0..MaxSubs -> Seq(Heard)] /\ executed \in [Subs -> Nat] /\ spent \in [Subs -> Nat]
    BY <1>1, <1>3, <2>1
  <2>3. subs \in 0..MaxSubs /\ runs \in 0..MaxMainRuns /\ boxes \subseteq Subs /\ cut \subseteq Subs /\ inbox \in Seq(Steers)
    BY <1>1, <1>3, <2>1
  <2>4. Len(frames) \in 1..2 /\ stop \in BOOLEAN
    <3>1. Len(frames) \in 1..2
      BY <1>2
    <3>2. stop \in BOOLEAN
      BY <1>1
    <3> QED
      BY <3>1, <3>2
  <2> QED
    BY <1>2, <2>2, <2>3, <2>4 DEF FrameTypeOK
<1>5. Stacked
  BY <1>1, <1>2, BaseFits DEF Stacked
<1>6. Limits
  BY <1>1, FrameAssumption DEF Limits
<1>7. Once(heard, inbox)
  BY <1>1 DEF Once
<1> QED
  BY <1>4, <1>5, <1>6, <1>7 DEF FrameInv

LEMMA FramesGoOn == FrameInv /\ [FrameNext]_frameVars => FrameInv'
<1> SUFFICES ASSUME FrameInv, [FrameNext]_frameVars PROVE FrameInv'
  OBVIOUS
<1>1. CASE UNCHANGED frameVars \/ Cancel
  <2>1. UNCHANGED <<frames, inbox, heard, boxes, cut, executed, spent, subs, runs>> /\ stop' \in BOOLEAN
    BY <1>1 DEF frameVars, Cancel, FrameInv, FrameTypeOK
  <2>2. FrameTypeOK'
    BY <2>1 DEF FrameInv, FrameTypeOK
  <2>3. Stacked' /\ Limits' /\ Once(heard, inbox)'
    BY <2>1 DEF FrameInv, Stacked, SubFits, Limits, Once
  <2> QED
    BY <2>2, <2>3 DEF FrameInv
<1>2. CASE FrameNext /\ ~Cancel
  BY <1>2, KeepsStartMain, KeepsCheckpoint, KeepsReplies, KeepsFailing, KeepsStartTool, KeepsToolReturns, KeepsCalls,
     KeepsDelegate, KeepsFramePushed, KeepsBuildFails, KeepsTaskCancelled, KeepsSteer DEF FrameNext
<1> QED
  BY <1>1, <1>2

(* However a sub-agent ends, by its reply, a limit, its time, an error or a cancel: its frame is gone *)
(* and its sandbox closed when the main agent goes on, unless that cut the building of the frame or   *)
(* the closing short; no input is heard twice, its limits hold.                                       *)
THEOREM FramesAreSound == FrameSpec => []FramesSound
<1>1. FrameInv => FramesSound
  <2> SUFFICES ASSUME FrameInv PROVE FramesSound
    OBVIOUS
  <2>1. boxes \ cut = {frames[i].who : i \in {j \in DOMAIN frames : frames[j].box = "owned"}}
    <3>1. CASE Len(frames) = 1
      <4>1. DOMAIN frames = {1} /\ frames[1].box /= "owned" /\ boxes = cut
        BY <3>1, FrameFacts DEF FrameInv, FrameTypeOK, Stacked
      <4> QED
        BY <4>1
    <3>2. CASE Len(frames) = 2
      <4>1. /\ DOMAIN frames = {1, 2} /\ frames[1].box /= "owned" /\ frames[2].who = subs /\ subs \notin cut
            /\ boxes = cut \cup (IF frames[2].box = "owned" THEN {subs} ELSE {})
        BY <3>2, FrameFacts DEF FrameInv, FrameTypeOK, Stacked, SubFits
      <4> QED
        BY <4>1
    <3> QED
      BY <3>1, <3>2, FrameFacts
  <2>2. Top.who /= 0 => frames[1].pc = "tools" /\ frames[1].working = 1
    BY FrameFacts DEF FrameInv, Stacked
  <2> QED
    BY <2>1, <2>2 DEF FramesSound, FrameInv, Limits
<1> QED
  BY <1>1, FramesStart, FramesGoOn, PTL DEF FrameSpec

-----------------------------------------------------------------------------
(* Skills on the disk and in a turn *)

\* Where an install stands, what lies aside and what is in place; as long as nothing was hurt
\* there is one version, and the one that lies aside while it is replaced.
InstallFits ==
    /\ installer \in {"idle", "staged", "bare"} => backup = "none"
    /\ installer \in {"staged", "aside"} => staging \in Dirs
    /\ installer = "aside" => dirs["target"] = NoDir
    /\ installer \in {"placed", "bare"} => dirs["target"] /= NoDir
    /\ installer \in {"idle", "placed", "bare"} => staging = NoDir
    /\ backup /= "none" => dirs[backup] /= NoDir
    /\ owned => \E s \in Slots : dirs[s] /= NoDir
    /\ ~hurt => \A s \in Slots : dirs[s] /= NoDir => s \in {"target", backup}

\* What a catalogue says of a disk with these fingerprints under this trust.
Of(p, trust) == [s \in DOMAIN p |-> [digest |-> p[s].body, trusted |-> trust /\ p[s].manifest /= "untrusted",
                                     body |-> p[s].body, res |-> p[s].res]]
Current == Of(Fingerprint, trustedHere)

\* A reload nothing changed under has read what is there; the catalogue of one is what its own
\* fingerprints and trust stand for, and these are the present ones until something changes.
Reads ==
    /\ reload.at \in {"read", "print", "freeze", "built"} => ~torn /\ (~moved => reload.sign = trustedHere)
    /\ reload.at \in {"print", "freeze"} /\ ~moved => reload.read = Read
    /\ reload.at = "built" /\ ~moved => reload.read = Current
    /\ reload.at \in {"freeze", "built"} /\ ~moved => reload.prints = Fingerprint
    /\ reload.at \in {"idle", "loaded"} /\ ~torn /\ catalog /= NoCatalog =>
         /\ catalog = Of(prints, signature)
         /\ ~moved => prints = Fingerprint /\ signature = trustedHere

\* The view is a catalogue that was read, with its digest; a turn that ended its reload has a
\* view of that catalogue's instructions and trust.
Views ==
    /\ view /= NoCatalog => digest = CatalogDigest(view)
    /\ view /= NoCatalog /\ ~viewTorn => \A s \in DOMAIN view : view[s].body = view[s].digest
    /\ reload.at = "idle" /\ reload.turn /\ catalog /= NoCatalog /\ ~HasErrors(catalog) =>
         view /= NoCatalog /\ CatalogDigest(view) = CatalogDigest(catalog)

ReadsTyped ==
    /\ SkillRunTypeOK
    /\ reload = [at |-> reload.at, turn |-> reload.turn, sign |-> reload.sign, read |-> reload.read,
                 prints |-> reload.prints]
    /\ reload.turn \in BOOLEAN /\ reload.sign \in BOOLEAN
    /\ reload.at \in {"print", "freeze", "built"} =>
         \A s \in DOMAIN reload.read : s \in Slots /\ reload.read[s] \in Candidates

SkillInv == ReadsTyped /\ InstallFits /\ Reads /\ Views

LEMMA NoDirFacts ==
    /\ NoDir \notin Dirs /\ "target" \in Slots /\ "none" \notin Slots /\ Backups \subseteq Slots
    /\ \A b \in Backups : b \notin {"none", "target"}
<1>1. NoDir.body = "none" /\ \A d \in Dirs : d.body \in Bodies
  BY DEF NoDir, Dirs
<1>2. NoDir \notin Dirs
  BY <1>1, SkillAssumption
<1>3. \A b \in Backups : b /= "none" /\ b /= "target"
  BY SkillAssumption
<1> QED
  BY <1>2, <1>3 DEF Slots

\* A copy of a directory with other contents is a directory.
LEMMA DirWith ==
    ASSUME NEW d \in Dirs, NEW b \in Bodies, NEW r \in Resources, NEW m \in {"none", "untrusted", "trusted"}
    PROVE  [d EXCEPT !.body = b] \in Dirs /\ [d EXCEPT !.res = r] \in Dirs /\ [d EXCEPT !.manifest = m] \in Dirs
BY DEF Dirs

InstallInv == InstallTypeOK /\ InstallFits

LEMMA KeepsStaging ==
    ASSUME InstallInv, Stage \/ KillInstaller
    PROVE  InstallInv'
<1>1. dirs' = dirs /\ owned' = owned /\ (hurt' = hurt \/ hurt' = TRUE) /\ UNCHANGED <<dirs, owned>>
      /\ installs' \in 0..MaxInstalls /\ changes' \in 0..MaxChanges
  BY SkillAssumption DEF InstallInv, InstallTypeOK, Stage, KillInstaller
<1>2. \/ installer = "idle" /\ installer' = "staged" /\ staging' \in Dirs /\ backup' = backup
      \/ installer' = "idle" /\ staging' = NoDir /\ backup' = "none" /\ hurt' = TRUE
  <2>1. CASE Stage
    <3>1. PICK b \in Bodies, r \in Resources : staging' = [body |-> b, res |-> r, manifest |-> "none"]
      BY <2>1 DEF Stage
    <3>2. staging' \in Dirs
      BY <3>1 DEF Dirs
    <3> QED
      BY <2>1, <3>2 DEF Stage
  <2>2. CASE KillInstaller
    BY <2>2 DEF KillInstaller
  <2> QED
    BY <2>1, <2>2
<1>3. InstallTypeOK'
  BY <1>1, <1>2 DEF InstallInv, InstallTypeOK
<1>4. InstallFits'
  BY <1>1, <1>2 DEF InstallInv, InstallFits
<1> QED
  BY <1>3, <1>4 DEF InstallInv

LEMMA KeepsMoveAside ==
    ASSUME InstallInv, MoveAside
    PROVE  InstallInv'
<1>1. /\ installer = "staged" /\ installer' = "aside" /\ UNCHANGED <<staging, owned, hurt, installs, changes>>
      /\ backup = "none" /\ staging \in Dirs
  BY DEF MoveAside, InstallInv, InstallFits
<1>2. CASE dirs["target"] = NoDir
  <2>1. dirs' = dirs /\ backup' = backup
    BY <1>2 DEF MoveAside
  <2>2. InstallTypeOK'
    BY <1>1, <2>1 DEF InstallInv, InstallTypeOK
  <2>3. InstallFits'
    BY <1>1, <1>2, <2>1 DEF InstallInv, InstallFits
  <2> QED
    BY <2>2, <2>3 DEF InstallInv
<1>3. CASE dirs["target"] /= NoDir
  <2>1. PICK b \in Backups : /\ dirs[b] = NoDir /\ backup' = b
                             /\ dirs' = [dirs EXCEPT !["target"] = NoDir, ![b] = dirs["target"]]
    BY <1>3 DEF MoveAside
  <2>2. /\ dirs \in [Slots -> Dirs \cup {NoDir}] /\ b \in Slots /\ b /= "target" /\ b /= "none" /\ "target" \in Slots
    BY NoDirFacts DEF InstallInv, InstallTypeOK
  <2>3. /\ dirs' \in [Slots -> Dirs \cup {NoDir}] /\ dirs'["target"] = NoDir /\ dirs'[b] = dirs["target"]
        /\ \A s \in Slots \ {b, "target"} : dirs'[s] = dirs[s]
    BY <2>1, <2>2
  <2>4. InstallTypeOK'
    BY <1>1, <2>1, <2>3 DEF InstallInv, InstallTypeOK
  <2>5. ~hurt => \A s \in Slots : dirs[s] /= NoDir => s = "target"
    BY <1>1, NoDirFacts DEF InstallInv, InstallFits
  <2>6. InstallFits'
    BY <1>1, <1>3, <2>1, <2>2, <2>3, <2>5 DEF InstallFits
  <2> QED
    BY <2>4, <2>6 DEF InstallInv
<1> QED
  BY <1>2, <1>3

LEMMA KeepsMoveIn ==
    ASSUME InstallInv, MoveIn
    PROVE  InstallInv'
<1>1. /\ installer = "aside" /\ installer' = "placed" /\ dirs' = [dirs EXCEPT !["target"] = staging]
      /\ staging' = NoDir /\ owned' = TRUE /\ UNCHANGED <<backup, hurt, installs, changes>>
      /\ dirs["target"] = NoDir /\ staging \in Dirs
  BY DEF MoveIn, InstallInv, InstallFits
<1>2. dirs \in [Slots -> Dirs \cup {NoDir}] /\ "target" \in Slots /\ NoDir \notin Dirs
  BY NoDirFacts DEF InstallInv, InstallTypeOK
<1>3. /\ dirs' \in [Slots -> Dirs \cup {NoDir}] /\ dirs'["target"] \in Dirs
      /\ \A s \in Slots \ {"target"} : dirs'[s] = dirs[s]
  BY <1>1, <1>2
<1>4. InstallTypeOK'
  BY <1>1, <1>3 DEF InstallInv, InstallTypeOK
<1>5. backup /= "none" => backup \in Slots /\ dirs[backup] /= NoDir /\ backup /= "target"
  BY <1>1, NoDirFacts DEF InstallInv, InstallFits, InstallTypeOK
<1>6. InstallFits'
  BY <1>1, <1>2, <1>3, <1>5 DEF InstallInv, InstallFits
<1> QED
  BY <1>4, <1>6 DEF InstallInv

LEMMA KeepsMoveInFails ==
    ASSUME InstallInv, MoveInFails
    PROVE  InstallInv'
<1>1. /\ installer = "aside" /\ installer' = "idle" /\ staging' = NoDir /\ backup' = "none"
      /\ dirs' = (IF backup = "none" THEN dirs ELSE [dirs EXCEPT !["target"] = dirs[backup], ![backup] = NoDir])
      /\ UNCHANGED <<owned, hurt, installs, changes>> /\ dirs["target"] = NoDir
  BY DEF MoveInFails, InstallInv, InstallFits
<1>2. dirs \in [Slots -> Dirs \cup {NoDir}] /\ "target" \in Slots /\ backup \in Backups \cup {"none"}
  BY NoDirFacts DEF InstallInv, InstallTypeOK
<1>3. CASE backup = "none"
  <2>1. InstallTypeOK'
    BY <1>1, <1>3 DEF InstallInv, InstallTypeOK
  <2>2. InstallFits'
    BY <1>1, <1>3 DEF InstallInv, InstallFits
  <2> QED
    BY <2>1, <2>2 DEF InstallInv
<1>4. CASE backup /= "none"
  <2>1. backup \in Slots /\ backup /= "target" /\ dirs[backup] /= NoDir
    BY <1>2, <1>4, NoDirFacts DEF InstallInv, InstallFits
  <2>2. /\ dirs' \in [Slots -> Dirs \cup {NoDir}] /\ dirs'["target"] = dirs[backup] /\ dirs'[backup] = NoDir
        /\ \A s \in Slots \ {backup, "target"} : dirs'[s] = dirs[s]
    BY <1>1, <1>2, <1>4, <2>1
  <2>3. InstallTypeOK'
    BY <1>1, <2>2 DEF InstallInv, InstallTypeOK
  <2>4. InstallFits'
    BY <1>1, <1>2, <2>1, <2>2 DEF InstallInv, InstallFits
  <2> QED
    BY <2>3, <2>4 DEF InstallInv
<1> QED
  BY <1>3, <1>4

LEMMA KeepsDropBackup ==
    ASSUME InstallInv, DropBackup
    PROVE  InstallInv'
<1>1. /\ installer = "placed" /\ installer' = "bare" /\ backup' = "none" /\ UNCHANGED <<staging, owned, installs, changes>>
      /\ \/ dirs' = (IF backup = "none" THEN dirs ELSE [dirs EXCEPT ![backup] = NoDir]) /\ hurt' = hurt
         \/ backup /= "none" /\ hurt' = TRUE /\ dirs' = dirs
      /\ dirs["target"] /= NoDir /\ staging = NoDir
  BY DEF DropBackup, InstallInv, InstallFits
<1>2. dirs \in [Slots -> Dirs \cup {NoDir}] /\ "target" \in Slots /\ backup \in Backups \cup {"none"}
  BY NoDirFacts DEF InstallInv, InstallTypeOK
<1>3. backup /= "none" => backup \in Slots /\ backup /= "target"
  BY <1>2, NoDirFacts
<1>4. /\ dirs' \in [Slots -> Dirs \cup {NoDir}] /\ dirs'["target"] = dirs["target"]
      /\ \A s \in Slots \ {backup} : dirs'[s] = dirs[s]
      /\ hurt' \/ (hurt' = hurt /\ (backup /= "none" => dirs'[backup] = NoDir))
  BY <1>1, <1>2, <1>3
<1>5. InstallTypeOK'
  BY <1>1, <1>4 DEF InstallInv, InstallTypeOK
<1>6. ~hurt => \A s \in Slots : dirs[s] /= NoDir => s \in {"target", backup}
  BY DEF InstallInv, InstallFits
<1>7. ~hurt' => \A s \in Slots : dirs'[s] /= NoDir => s = "target"
  BY <1>3, <1>4, <1>6, NoDirFacts
<1>8. InstallFits'
  BY <1>1, <1>2, <1>4, <1>7 DEF InstallFits
<1> QED
  BY <1>5, <1>8 DEF InstallInv

\* A step that changes only what is in the place of the skill: something stays there.
LEMMA PlaceKeeps ==
    ASSUME InstallInv, NEW d \in Dirs, dirs' = [dirs EXCEPT !["target"] = d], dirs["target"] /= NoDir,
           UNCHANGED <<staging, backup, owned, hurt>>, installs' \in 0..MaxInstalls, changes' \in 0..MaxChanges,
           installer' = installer \/ (installer = "bare" /\ installer' = "idle")
    PROVE  InstallInv'
<1>1. dirs \in [Slots -> Dirs \cup {NoDir}] /\ "target" \in Slots /\ NoDir \notin Dirs
  BY NoDirFacts DEF InstallInv, InstallTypeOK
<1>2. /\ dirs' \in [Slots -> Dirs \cup {NoDir}] /\ dirs'["target"] = d
      /\ \A s \in Slots \ {"target"} : dirs'[s] = dirs[s]
  BY <1>1
<1>3. InstallTypeOK'
  BY <1>2 DEF InstallInv, InstallTypeOK
<1>4. backup /= "none" => backup \in Slots /\ dirs[backup] /= NoDir /\ backup /= "target"
  BY NoDirFacts DEF InstallInv, InstallFits, InstallTypeOK
<1>5. InstallFits'
  BY <1>1, <1>2, <1>4 DEF InstallInv, InstallFits
<1> QED
  BY <1>3, <1>5 DEF InstallInv

LEMMA KeepsContents ==
    ASSUME InstallInv, \/ WriteManifest \/ EditSkill
                       \/ \E granted \in BOOLEAN : SetTrust(granted)
    PROVE  InstallInv'
<1> DEFINE old == dirs["target"]
<1>1. /\ dirs \in [Slots -> Dirs \cup {NoDir}] /\ "target" \in Slots /\ changes \in 0..MaxChanges
      /\ installs \in 0..MaxInstalls /\ MaxChanges \in Nat
  BY NoDirFacts, SkillAssumption DEF InstallInv, InstallTypeOK
<1>2. CASE WriteManifest
  <2>1. /\ installer = "bare" /\ installer' = "idle" /\ dirs' = [dirs EXCEPT !["target"].manifest = "untrusted"]
        /\ old /= NoDir /\ UNCHANGED <<staging, backup, owned, hurt, installs, changes>>
    BY <1>2 DEF WriteManifest, InstallInv, InstallFits
  <2>2. old \in Dirs
    BY <1>1, <2>1
  <2>3. [old EXCEPT !.manifest = "untrusted"] \in Dirs
    BY <2>2 DEF Dirs
  <2>4. dirs' = [dirs EXCEPT !["target"] = [old EXCEPT !.manifest = "untrusted"]]
    BY <2>1
  <2> QED
    BY <1>1, <2>1, <2>3, <2>4, PlaceKeeps
<1>3. CASE \E granted \in BOOLEAN : SetTrust(granted)
  <2>1. PICK granted \in BOOLEAN : SetTrust(granted)
    BY <1>3
  <2> DEFINE m == IF granted THEN "trusted" ELSE "untrusted"
  <2>2. /\ old /= NoDir /\ dirs' = [dirs EXCEPT !["target"].manifest = m] /\ changes' = changes + 1 /\ changes < MaxChanges
        /\ UNCHANGED <<staging, backup, installer, owned, hurt, installs>>
    BY <2>1 DEF SetTrust
  <2>3. old \in Dirs /\ m \in {"none", "untrusted", "trusted"}
    BY <1>1, <2>2
  <2> HIDE DEF m
  <2>4. [old EXCEPT !.manifest = m] \in Dirs
    BY <2>3 DEF Dirs
  <2>5. dirs' = [dirs EXCEPT !["target"] = [old EXCEPT !.manifest = m]] /\ changes' \in 0..MaxChanges
    BY <1>1, <2>2
  <2> QED
    BY <1>1, <2>2, <2>4, <2>5, PlaceKeeps
<1>4. CASE EditSkill
  <2>1. /\ old /= NoDir /\ changes' = changes + 1 /\ changes < MaxChanges
        /\ UNCHANGED <<staging, backup, installer, owned, hurt, installs>>
        /\ \/ \E b \in Bodies : dirs' = [dirs EXCEPT !["target"].body = b]
           \/ \E r \in Resources : dirs' = [dirs EXCEPT !["target"].res = r]
    BY <1>4 DEF EditSkill
  <2>2. old \in Dirs
    BY <1>1, <2>1
  <2>3. \E d \in Dirs : dirs' = [dirs EXCEPT !["target"] = d]
    <3>1. CASE \E b \in Bodies : dirs' = [dirs EXCEPT !["target"].body = b]
      <4>1. PICK b \in Bodies : dirs' = [dirs EXCEPT !["target"].body = b]
        BY <3>1
      <4>2. [old EXCEPT !.body = b] \in Dirs
        BY <2>2 DEF Dirs
      <4> QED
        BY <4>1, <4>2
    <3>2. CASE \E r \in Resources : dirs' = [dirs EXCEPT !["target"].res = r]
      <4>1. PICK r \in Resources : dirs' = [dirs EXCEPT !["target"].res = r]
        BY <3>2
      <4>2. [old EXCEPT !.res = r] \in Dirs
        BY <2>2 DEF Dirs
      <4> QED
        BY <4>1, <4>2
    <3> QED
      BY <2>1, <3>1, <3>2
  <2>4. PICK d \in Dirs : dirs' = [dirs EXCEPT !["target"] = d]
    BY <2>3
  <2>5. changes' \in 0..MaxChanges /\ installs' \in 0..MaxInstalls /\ installer' = installer
    BY <1>1, <2>1
  <2> QED
    BY <2>1, <2>4, <2>5, PlaceKeeps
<1> QED
  BY <1>2, <1>3, <1>4

LEMMA KeepsUninstall ==
    ASSUME InstallInv, Uninstall
    PROVE  InstallInv'
<1>1. /\ installer = "idle" /\ changes < MaxChanges /\ dirs' = [dirs EXCEPT !["target"] = NoDir]
      /\ owned' = FALSE /\ changes' = changes + 1 /\ UNCHANGED <<staging, backup, installer, hurt, installs>>
      /\ backup = "none"
  BY DEF Uninstall, InstallInv, InstallFits
<1>2. /\ dirs \in [Slots -> Dirs \cup {NoDir}] /\ "target" \in Slots /\ changes' \in 0..MaxChanges
  BY <1>1, NoDirFacts, SkillAssumption DEF InstallInv, InstallTypeOK
<1>3. /\ dirs' \in [Slots -> Dirs \cup {NoDir}] /\ dirs'["target"] = NoDir
      /\ \A s \in Slots \ {"target"} : dirs'[s] = dirs[s]
  BY <1>1, <1>2
<1>4. InstallTypeOK'
  BY <1>1, <1>2, <1>3 DEF InstallInv, InstallTypeOK
<1>5. InstallFits'
  BY <1>1, <1>2, <1>3 DEF InstallInv, InstallFits
<1> QED
  BY <1>4, <1>5 DEF InstallInv

LEMMA InstallKeeps == ASSUME InstallInv, InstallNext PROVE InstallInv'
BY KeepsStaging, KeepsMoveAside, KeepsMoveIn, KeepsMoveInFails, KeepsDropBackup, KeepsContents, KeepsUninstall
   DEF InstallNext

-----------------------------------------------------------------------------
\* What is frozen of a disk that stays as it is, is what its fingerprints stand for.
LEMMA CurrentIsFrozen ==
    ASSUME InstallTypeOK
    PROVE  /\ Frozen(Read) = Current
           /\ \A s \in DOMAIN Current : s \in Slots /\ Current[s].body = Current[s].digest
<1>1. DOMAIN Read = Visible /\ DOMAIN Fingerprint = Visible /\ Visible \subseteq Slots
  BY DEF Read, Fingerprint, Visible
<1>2. ASSUME NEW s \in Visible
      PROVE  [Read[s] EXCEPT !.body = dirs[s].body, !.res = dirs[s].res] =
                 [digest |-> Fingerprint[s].body, trusted |-> trustedHere /\ Fingerprint[s].manifest /= "untrusted",
                  body |-> Fingerprint[s].body, res |-> Fingerprint[s].res]
  <2>1. Fingerprint[s] = dirs[s]
    BY DEF Fingerprint
  <2>2. Read[s] = [digest |-> dirs[s].body, trusted |-> trustedHere /\ dirs[s].manifest /= "untrusted",
                   body |-> "none", res |-> "none"]
    BY DEF Read
  <2> DEFINE t == trustedHere /\ dirs[s].manifest /= "untrusted"
  <2>3. Read[s] = [digest |-> dirs[s].body, trusted |-> t, body |-> "none", res |-> "none"]
    BY <2>2
  <2> HIDE DEF t
  <2>4. [Read[s] EXCEPT !.body = dirs[s].body, !.res = dirs[s].res] =
            [digest |-> dirs[s].body, trusted |-> t, body |-> dirs[s].body, res |-> dirs[s].res]
    <3> DEFINE c == Read[s]
               x == dirs[s].body
               r == dirs[s].res
    <3>1. c = [digest |-> x, trusted |-> t, body |-> "none", res |-> "none"]
      BY <2>3
    <3> HIDE DEF c, x, r
    <3> DEFINE S == {x, t, r, "none"}
               d == [c EXCEPT !.body = x, !.res = r]
    <3>2. d \in [digest : S, trusted : S, body : S, res : S]
      BY <3>1
    <3>3. d.digest = x /\ d.trusted = t /\ d.body = x /\ d.res = r
      BY <3>1
    <3> HIDE DEF d
    <3>4. d = [digest |-> d.digest, trusted |-> d.trusted, body |-> d.body, res |-> d.res]
      BY <3>2
    <3>5. d = [digest |-> x, trusted |-> t, body |-> x, res |-> r]
      BY <3>3, <3>4
    <3> QED
      BY <3>5 DEF c, d, x, r
  <2> QED
    BY <2>1, <2>4 DEF t
<1>3. Frozen(Read) = Current
  BY <1>1, <1>2 DEF Frozen, Current, Of
<1>4. \A s \in DOMAIN Current : s \in Slots /\ Current[s].body = Current[s].digest
  BY <1>1 DEF Current, Of
<1> QED
  BY <1>3, <1>4

\* What is read of the disk are candidates.
LEMMA ReadTyped ==
    ASSUME InstallTypeOK, trustedHere \in BOOLEAN
    PROVE  /\ \A s \in DOMAIN Read : s \in Slots /\ Read[s] \in Candidates
           /\ \A read : (\A s \in DOMAIN read : s \in Slots /\ read[s] \in Candidates)
                => \A s \in DOMAIN Frozen(read) : s \in Slots /\ Frozen(read)[s] \in Candidates
<1>1. ASSUME NEW s \in Slots PROVE dirs[s].body \in Bodies \cup {"none"} /\ dirs[s].res \in Resources \cup {"none"}
  <2>1. dirs[s] \in Dirs \cup {NoDir}
    BY DEF InstallTypeOK
  <2> QED
    BY <2>1 DEF Dirs, NoDir
<1>2. ASSUME NEW s \in DOMAIN Read PROVE s \in Slots /\ Read[s] \in Candidates
  <2>1. s \in Slots /\ dirs[s] \in Dirs
    BY DEF Read, Visible, InstallTypeOK
  <2>2. dirs[s].body \in Bodies
    BY <2>1 DEF Dirs
  <2>3. Read[s] = [digest |-> dirs[s].body, trusted |-> trustedHere /\ dirs[s].manifest /= "untrusted",
                   body |-> "none", res |-> "none"]
    BY DEF Read
  <2>4. (trustedHere /\ dirs[s].manifest /= "untrusted") \in BOOLEAN
    OBVIOUS
  <2> QED
    BY <2>1, <2>2, <2>3, <2>4 DEF Candidates
<1>3. ASSUME NEW read, \A s \in DOMAIN read : s \in Slots /\ read[s] \in Candidates, NEW s \in DOMAIN Frozen(read)
      PROVE  s \in Slots /\ Frozen(read)[s] \in Candidates
  <2>1. s \in DOMAIN read /\ Frozen(read)[s] = [read[s] EXCEPT !.body = dirs[s].body, !.res = dirs[s].res]
    BY DEF Frozen
  <2> QED
    BY <1>1, <1>3, <2>1 DEF Candidates
<1> QED
  BY <1>2, <1>3

DiskFor == <<trustedHere, Read, Fingerprint, Current>>

LEMMA DiskStays ==
    /\ UNCHANGED <<trustedHere, dirs>> => UNCHANGED DiskFor
    /\ UNCHANGED installVars /\ InstallInv => InstallInv'
<1>1. UNCHANGED <<trustedHere, dirs>> => UNCHANGED DiskFor
  BY DEF DiskFor, Read, Visible, Fingerprint, Current, Of
<1>2. UNCHANGED installVars /\ InstallInv => InstallInv'
  BY DEF installVars, InstallInv, InstallTypeOK, InstallFits
<1> QED
  BY <1>1, <1>2

LEMMA SkillFacts ==
    ASSUME SkillInv
    PROVE  /\ InstallInv /\ InstallTypeOK /\ trustedHere \in BOOLEAN /\ signature \in BOOLEAN
           /\ viewTorn \in BOOLEAN /\ moved \in BOOLEAN /\ torn \in BOOLEAN /\ reloads \in 0..MaxReloads
           /\ Frozen(Read) = Current
BY CurrentIsFrozen DEF SkillInv, ReadsTyped, SkillRunTypeOK, InstallInv

LEMMA KeepsBeginReload ==
    ASSUME SkillInv, NEW turn \in BOOLEAN, BeginReload(turn)
    PROVE  SkillInv'
<1> DEFINE known == catalog # NoCatalog /\ prints = Fingerprint /\ signature = trustedHere
           next == IF known THEN "loaded" ELSE "read"
<1>1. /\ reload.at = "idle" /\ reloads < MaxReloads /\ reloads' = reloads + 1 /\ moved' = FALSE
      /\ reload' = [at |-> next, turn |-> turn, sign |-> trustedHere, read |-> <<>>, prints |-> NoCatalog]
      /\ torn' = (torn /\ reload'.at = "loaded")
      /\ UNCHANGED <<trustedHere, catalog, prints, signature, view, digest, viewTorn>> /\ UNCHANGED installVars
  BY DEF BeginReload
<1>2. InstallInv' /\ UNCHANGED DiskFor
  <2>1. UNCHANGED <<trustedHere, dirs>>
    BY <1>1 DEF installVars
  <2> QED
    BY <1>1, <2>1, DiskStays, SkillFacts
<1>3. next \in {"loaded", "read"} /\ (next = "loaded" => known)
  OBVIOUS
<1> HIDE DEF next
<1>4. reload'.at = next /\ reload'.turn = turn /\ reload'.sign = trustedHere /\ reload'.read = <<>>
  BY <1>1
<1>5. ReadsTyped'
  <2>1. reloads' \in 0..MaxReloads /\ torn' \in BOOLEAN
    BY <1>1, SkillFacts, SkillRunAssumption
  <2>2. SkillRunTypeOK'
    BY <1>1, <1>2, <1>3, <1>4, <2>1 DEF SkillInv, ReadsTyped, SkillRunTypeOK, InstallInv
  <2>3. reload' = [at |-> reload'.at, turn |-> reload'.turn, sign |-> reload'.sign, read |-> reload'.read,
                   prints |-> reload'.prints]
    BY <1>1, <1>4
  <2> QED
    BY <1>3, <1>4, <2>2, <2>3, SkillFacts DEF ReadsTyped
<1>6. Reads'
  <2>1. next = "loaded" => torn' = torn
    BY <1>1, <1>4, SkillFacts
  <2>2. next = "read" => ~torn'
    BY <1>1, <1>4
  <2> QED
    BY <1>1, <1>2, <1>3, <1>4, <2>1, <2>2 DEF SkillInv, Reads, DiskFor
<1>7. Views'
  BY <1>1, <1>3, <1>4 DEF SkillInv, Views
<1> QED
  BY <1>2, <1>5, <1>6, <1>7 DEF SkillInv, InstallInv

\* A pass over the disk: only what the reload has read changes.
LEMMA KeepsPass ==
    ASSUME SkillInv, ReadCandidates \/ TakeFingerprints \/ FreezeBodies
    PROVE  SkillInv'
<1> DEFINE next == CASE reload.at = "read" -> "print" [] reload.at = "print" -> "freeze" [] OTHER -> "built"
           read == CASE reload.at = "read" -> Read [] reload.at = "print" -> reload.read
                     [] OTHER -> Frozen(reload.read)
           taken == IF reload.at = "print" THEN Fingerprint ELSE reload.prints
<1>0. reload = [at |-> reload.at, turn |-> reload.turn, sign |-> reload.sign, read |-> reload.read,
                prints |-> reload.prints]
  BY DEF SkillInv, ReadsTyped
<1>1. /\ reload.at \in {"read", "print", "freeze"}
      /\ reload' = [at |-> next, turn |-> reload.turn, sign |-> reload.sign, read |-> read, prints |-> taken]
      /\ UNCHANGED <<trustedHere, catalog, prints, signature, view, digest, viewTorn, moved, torn, reloads>>
      /\ UNCHANGED installVars
  <2>1. CASE ReadCandidates
    BY <1>0, <2>1 DEF ReadCandidates
  <2>2. CASE TakeFingerprints
    BY <1>0, <2>2 DEF TakeFingerprints
  <2>3. CASE FreezeBodies
    BY <1>0, <2>3 DEF FreezeBodies
  <2> QED
    BY <2>1, <2>2, <2>3
<1>2. InstallInv' /\ UNCHANGED DiskFor
  <2>1. UNCHANGED <<trustedHere, dirs>>
    BY <1>1 DEF installVars
  <2> QED
    BY <1>1, <2>1, DiskStays, SkillFacts
<1>3. reload = [at |-> reload.at, turn |-> reload.turn, sign |-> reload.sign, read |-> reload.read,
                prints |-> reload.prints]
  BY DEF SkillInv, ReadsTyped
<1>4. \/ next = "print" /\ reload.at = "read" /\ read = Read
      \/ next = "freeze" /\ reload.at = "print" /\ read = reload.read /\ taken = Fingerprint
      \/ next = "built" /\ reload.at = "freeze" /\ read = Frozen(reload.read) /\ taken = reload.prints
  BY <1>1
<1> HIDE DEF next, read, taken
<1>5. /\ reload'.at = next /\ reload'.turn = reload.turn /\ reload'.sign = reload.sign /\ reload'.read = read
      /\ reload'.prints = taken
  BY <1>1
<1>6. \A s \in DOMAIN read : s \in Slots /\ read[s] \in Candidates
  BY <1>4, ReadTyped, SkillFacts DEF SkillInv, ReadsTyped
<1>7. ReadsTyped'
  <2>1. SkillRunTypeOK'
    BY <1>1, <1>2, <1>4, <1>5 DEF SkillInv, ReadsTyped, SkillRunTypeOK, InstallInv
  <2>2. reload' = [at |-> reload'.at, turn |-> reload'.turn, sign |-> reload'.sign, read |-> reload'.read,
                   prints |-> reload'.prints]
    BY <1>1, <1>5
  <2>3. reload'.turn \in BOOLEAN /\ reload'.sign \in BOOLEAN
    BY <1>5 DEF SkillInv, ReadsTyped
  <2> QED
    BY <1>5, <1>6, <2>1, <2>2, <2>3 DEF ReadsTyped
<1>8. Reads'
  <2>1. ~torn /\ (~moved => reload.sign = trustedHere)
    BY <1>1 DEF SkillInv, Reads
  <2>2. next \in {"print", "freeze"} /\ ~moved => read = Read
    BY <1>4 DEF SkillInv, Reads
  <2>3. next = "built" /\ ~moved => read = Current
    BY <1>4, SkillFacts DEF SkillInv, Reads
  <2>4. next \in {"freeze", "built"} /\ ~moved => taken = Fingerprint
    BY <1>4 DEF SkillInv, Reads
  <2> QED
    BY <1>1, <1>2, <1>4, <1>5, <2>1, <2>2, <2>3, <2>4 DEF Reads, DiskFor
<1>9. Views'
  BY <1>1, <1>4, <1>5 DEF SkillInv, Views
<1> QED
  BY <1>2, <1>7, <1>8, <1>9 DEF SkillInv, InstallInv

LEMMA KeepsCommit ==
    ASSUME SkillInv, CommitCatalog
    PROVE  SkillInv'
<1>1. /\ reload.at = "built" /\ catalog' = reload.read /\ prints' = reload.prints
      /\ signature' = (IF catalog = NoCatalog THEN trustedHere ELSE reload.sign)
      /\ torn' = (torn \/ moved) /\ reload' = [reload EXCEPT !.at = "loaded"]
      /\ UNCHANGED <<trustedHere, view, digest, viewTorn, moved, reloads>> /\ UNCHANGED installVars
  BY DEF CommitCatalog
<1>2. InstallInv' /\ UNCHANGED DiskFor
  <2>1. UNCHANGED <<trustedHere, dirs>>
    BY <1>1 DEF installVars
  <2> QED
    BY <1>1, <2>1, DiskStays, SkillFacts
<1>3. reload = [at |-> reload.at, turn |-> reload.turn, sign |-> reload.sign, read |-> reload.read,
                prints |-> reload.prints]
  BY DEF SkillInv, ReadsTyped
<1>4. reload'.at = "loaded" /\ reload'.turn = reload.turn /\ reload'.sign = reload.sign /\ reload'.read = reload.read
  BY <1>1, <1>3
<1>5. ReadsTyped'
  <2>1. signature' \in BOOLEAN /\ torn' \in BOOLEAN
    BY <1>1, SkillFacts DEF SkillInv, ReadsTyped
  <2>2. \A s \in DOMAIN catalog' : s \in Slots /\ catalog'[s] \in Candidates
    BY <1>1 DEF SkillInv, ReadsTyped
  <2>3. SkillRunTypeOK'
    BY <1>1, <1>2, <1>4, <2>1, <2>2 DEF SkillInv, ReadsTyped, SkillRunTypeOK, InstallInv
  <2>4. reload' = [at |-> reload'.at, turn |-> reload'.turn, sign |-> reload'.sign, read |-> reload'.read,
                   prints |-> reload'.prints]
    BY <1>1, <1>3, <1>4
  <2> QED
    BY <1>4, <2>3, <2>4 DEF ReadsTyped, SkillInv
<1>6. Reads'
  <2>1. ~moved => reload.read = Current /\ reload.prints = Fingerprint /\ reload.sign = trustedHere
    BY <1>1 DEF SkillInv, Reads
  <2>2. ~torn' => ~moved
    BY <1>1
  <2>3. ~moved => signature' = trustedHere
    BY <1>1, <2>1
  <2>4. ~torn' => catalog' = Of(prints', signature')
    BY <1>1, <2>1, <2>2, <2>3 DEF Current
  <2>5. ~moved' => prints' = Fingerprint' /\ signature' = trustedHere'
    BY <1>1, <1>2, <2>1, <2>3 DEF DiskFor
  <2>6. reload'.at \notin {"read", "print", "freeze", "built", "idle"}
    BY <1>4
  <2> QED
    BY <1>4, <2>4, <2>5, <2>6 DEF Reads
<1>7. Views'
  BY <1>1, <1>4 DEF SkillInv, Views
<1> QED
  BY <1>2, <1>5, <1>6, <1>7 DEF SkillInv, InstallInv

LEMMA KeepsEndReload ==
    ASSUME SkillInv, EndReload
    PROVE  SkillInv'
<1>1. /\ reload.at = "loaded" /\ reload' = [NoReload EXCEPT !.turn = reload.turn]
      /\ UNCHANGED <<trustedHere, catalog, prints, signature, moved, torn, reloads>> /\ UNCHANGED installVars
      /\ IF reload.turn /\ ~KeepsView
         THEN view' = catalog /\ digest' = CatalogDigest(catalog) /\ viewTorn' = torn
         ELSE UNCHANGED <<view, digest, viewTorn>>
  BY DEF EndReload
<1>2. InstallInv' /\ UNCHANGED DiskFor
  <2>1. UNCHANGED <<trustedHere, dirs>>
    BY <1>1 DEF installVars
  <2> QED
    BY <1>1, <2>1, DiskStays, SkillFacts
<1>3. reload' = [at |-> "idle", turn |-> reload.turn, sign |-> FALSE, read |-> <<>>, prints |-> NoCatalog]
  BY <1>1 DEF NoReload
<1>4. reload'.at = "idle" /\ reload'.turn = reload.turn /\ reload'.sign = FALSE /\ reload'.read = <<>>
  BY <1>3
<1>5. viewTorn' \in BOOLEAN
  BY <1>1, SkillFacts
<1>6. ReadsTyped'
  <2>1. SkillRunTypeOK'
    BY <1>1, <1>2, <1>4, <1>5 DEF SkillInv, ReadsTyped, SkillRunTypeOK, InstallInv
  <2>2. reload' = [at |-> reload'.at, turn |-> reload'.turn, sign |-> reload'.sign, read |-> reload'.read,
                   prints |-> reload'.prints]
    BY <1>3, <1>4
  <2> QED
    BY <1>4, <2>1, <2>2 DEF ReadsTyped, SkillInv
<1>7. Reads'
  BY <1>1, <1>2, <1>4 DEF SkillInv, Reads, DiskFor
<1>8. ~torn /\ catalog /= NoCatalog => \A s \in DOMAIN catalog : catalog[s].body = catalog[s].digest
  <2>1. ~torn /\ catalog /= NoCatalog => catalog = Of(prints, signature)
    BY <1>1 DEF SkillInv, Reads
  <2> QED
    BY <2>1 DEF Of
<1>9. CASE reload.turn /\ ~KeepsView
  <2>1. view' = catalog /\ digest' = CatalogDigest(catalog) /\ viewTorn' = torn
    BY <1>1, <1>9
  <2>2. Views'
    BY <1>1, <1>8, <2>1 DEF Views
  <2> QED
    BY <1>2, <1>6, <1>7, <2>2 DEF SkillInv, InstallInv
<1>10. CASE ~(reload.turn /\ ~KeepsView)
  <2>1. UNCHANGED <<view, digest, viewTorn>>
    BY <1>1, <1>10
  <2>2. reload.turn /\ ~HasErrors(catalog) => view /= NoCatalog /\ CatalogDigest(catalog) = digest
    BY <1>10 DEF KeepsView
  <2>3. view /= NoCatalog => digest = CatalogDigest(view)
    BY DEF SkillInv, Views
  <2>4. Views'
    BY <1>1, <1>4, <2>1, <2>2, <2>3 DEF SkillInv, Views
  <2> QED
    BY <1>2, <1>6, <1>7, <2>4 DEF SkillInv, InstallInv
<1> QED
  BY <1>9, <1>10

\* The disk or the trust moves: nothing is claimed of a reload that was under way, and what
\* was read stands for what it was read of.
LEMMA MovesKeep ==
    ASSUME SkillInv, InstallInv', trustedHere' \in BOOLEAN, moved' \in BOOLEAN,
           UNCHANGED <<catalog, prints, signature, reload, view, digest, viewTorn, torn, reloads>>,
           moved' \/ (moved' = moved /\ UNCHANGED DiskFor)
    PROVE  SkillInv'
<1>1. SkillRunTypeOK'
  BY DEF SkillInv, ReadsTyped, SkillRunTypeOK, InstallInv
<1>2. ReadsTyped'
  BY <1>1 DEF SkillInv, ReadsTyped
<1>3. Reads'
  <2>1. CASE moved'
    BY <2>1 DEF SkillInv, Reads
  <2>2. CASE moved' = moved /\ UNCHANGED DiskFor
    BY <2>2 DEF SkillInv, Reads, DiskFor
  <2> QED
    BY <2>1, <2>2
<1>4. Views'
  BY DEF SkillInv, Views
<1> QED
  BY <1>2, <1>3, <1>4 DEF SkillInv, InstallInv

LEMMA KeepsDisk ==
    ASSUME SkillInv, FlipTrust \/ DiskStep
    PROVE  SkillInv'
<1>1. CASE FlipTrust
  <2>1. /\ changes < MaxChanges /\ changes' = changes + 1 /\ trustedHere' = ~trustedHere /\ moved' = TRUE
        /\ UNCHANGED <<catalog, prints, signature, reload, view, digest, viewTorn, torn, reloads>>
        /\ UNCHANGED <<dirs, staging, backup, installer, owned, hurt, installs>>
    BY <1>1 DEF FlipTrust
  <2>2. changes' \in 0..MaxChanges /\ InstallInv
    BY <2>1, SkillAssumption, SkillFacts DEF InstallTypeOK
  <2>3. InstallInv'
    BY <2>1, <2>2 DEF InstallInv, InstallTypeOK, InstallFits
  <2>4. trustedHere' \in BOOLEAN /\ moved' \in BOOLEAN
    BY <2>1, SkillFacts
  <2> QED
    BY <2>1, <2>3, <2>4, MovesKeep
<1>2. CASE DiskStep
  <2>1. /\ InstallNext /\ moved' = (moved \/ dirs' # dirs)
        /\ UNCHANGED <<trustedHere, catalog, prints, signature, reload, view, digest, viewTorn, torn, reloads>>
    BY <1>2 DEF DiskStep
  <2>2. InstallInv'
    BY <2>1, InstallKeeps, SkillFacts
  <2>3. trustedHere' \in BOOLEAN /\ moved' \in BOOLEAN
    BY <2>1, SkillFacts
  <2>4. moved' \/ (moved' = moved /\ UNCHANGED DiskFor)
    BY <2>1, DiskStays, SkillFacts
  <2> QED
    BY <2>1, <2>2, <2>3, <2>4, MovesKeep
<1> QED
  BY <1>1, <1>2

LEMMA SkillsStart == SkillRunInit => SkillInv
<1> SUFFICES ASSUME SkillRunInit PROVE SkillInv
  OBVIOUS
<1>1. /\ trustedHere \in BOOLEAN /\ catalog = NoCatalog /\ prints = NoCatalog /\ signature = FALSE /\ reload = NoReload
      /\ view = NoCatalog /\ digest = NoCatalog /\ moved = FALSE /\ torn = FALSE /\ viewTorn = FALSE /\ reloads = 0
      /\ InstallInit
  BY DEF SkillRunInit
<1>2. PICK d \in {NoDir} \cup {e \in Dirs : e.manifest = "none"} :
          dirs = [s \in Slots |-> IF s = "target" THEN d ELSE NoDir]
  BY <1>1 DEF InstallInit
<1>3. /\ dirs \in [Slots -> Dirs \cup {NoDir}]
      /\ \A s \in Slots : dirs[s] /= NoDir => s = "target"
      /\ staging = NoDir /\ backup = "none" /\ installer = "idle" /\ owned = (dirs["target"] /= NoDir) /\ hurt = FALSE
      /\ installs = 0 /\ changes = 0
  BY <1>1, <1>2 DEF InstallInit
<1>4. InstallTypeOK
  <2>1. 0 \in 0..MaxInstalls /\ 0 \in 0..MaxChanges
    BY SkillAssumption
  <2> QED
    BY <1>3, <2>1 DEF InstallTypeOK
<1>5. InstallFits
  BY <1>3, NoDirFacts DEF InstallFits
<1>6. reload.at = "idle" /\ reload.turn = FALSE /\ reload.sign = FALSE /\ reload.read = <<>>
      /\ reload = [at |-> "idle", turn |-> FALSE, sign |-> FALSE, read |-> <<>>, prints |-> NoCatalog]
  BY <1>1 DEF NoReload
<1>7. ReadsTyped
  <2>1. 0 \in 0..MaxReloads
    BY SkillRunAssumption
  <2>2. SkillRunTypeOK
    BY <1>1, <1>4, <1>6, <2>1 DEF SkillRunTypeOK
  <2> QED
    BY <1>6, <2>2 DEF ReadsTyped
<1>8. Reads /\ Views
  BY <1>1, <1>6 DEF Reads, Views
<1> QED
  BY <1>5, <1>7, <1>8 DEF SkillInv

LEMMA SkillsGoOn == SkillInv /\ [SkillRunNext]_<<installVars, skillRunVars>> => SkillInv'
<1> SUFFICES ASSUME SkillInv, [SkillRunNext]_<<installVars, skillRunVars>> PROVE SkillInv'
  OBVIOUS
<1>1. CASE UNCHANGED <<installVars, skillRunVars>>
  <2>1. UNCHANGED <<trustedHere, dirs>> /\ InstallInv' /\ trustedHere' \in BOOLEAN /\ moved' \in BOOLEAN /\ moved' = moved
        /\ UNCHANGED <<catalog, prints, signature, reload, view, digest, viewTorn, torn, reloads>>
    BY <1>1, DiskStays, SkillFacts DEF installVars, skillRunVars
  <2>2. UNCHANGED DiskFor
    BY <2>1, DiskStays
  <2> QED
    BY <2>1, <2>2, MovesKeep
<1>2. CASE SkillRunNext
  BY <1>2, KeepsBeginReload, KeepsPass, KeepsCommit, KeepsEndReload, KeepsDisk DEF SkillRunNext
<1> QED
  BY <1>1, <1>2

(* Wherever an install is killed and whatever is edited, trusted or removed meanwhile: a skill that   *)
(* was in place is on the disk in some whole version; and after a reload nothing changed under, the   *)
(* catalogue is what the disk holds and the user trusts, and the turn works with it.                  *)
THEOREM SkillsStayCurrent == SkillRunSpec => [](SkillRunTypeOK /\ SkillKept /\ SkillsCurrent)
<1>1. SkillInv => SkillRunTypeOK /\ SkillKept /\ SkillsCurrent
  <2> SUFFICES ASSUME SkillInv PROVE SkillRunTypeOK /\ SkillKept /\ SkillsCurrent
    OBVIOUS
  <2>1. SkillRunTypeOK /\ Frozen(Read) = Current
    BY SkillFacts DEF SkillInv, ReadsTyped
  <2>2. SkillKept
    BY NoDirFacts DEF SkillInv, InstallFits, SkillKept, Visible
  <2>3. CatalogCurrent
    BY <2>1 DEF SkillInv, Reads, CatalogCurrent, Quiet, Current
  <2>4. TurnCurrent
    <3> SUFFICES ASSUME Quiet, reload.turn, ~viewTorn, ~HasErrors(catalog)
                 PROVE  /\ view # NoCatalog /\ DOMAIN view = DOMAIN catalog
                        /\ \A s \in DOMAIN view : /\ view[s].body = catalog[s].body
                                                  /\ view[s].trusted = catalog[s].trusted
      BY DEF TurnCurrent
    <3>1. view # NoCatalog /\ CatalogDigest(view) = CatalogDigest(catalog)
      BY DEF SkillInv, Views, Quiet
    <3>2. \A s \in DOMAIN view : view[s].body = view[s].digest
      BY <3>1 DEF SkillInv, Views
    <3>3. catalog = Of(prints, signature)
      BY DEF SkillInv, Reads, Quiet
    <3>4. \A s \in DOMAIN catalog : catalog[s].body = catalog[s].digest
      BY <3>3 DEF Of
    <3>5. DOMAIN view = DOMAIN catalog
      BY <3>1 DEF CatalogDigest
    <3>6. ASSUME NEW s \in DOMAIN view PROVE view[s].digest = catalog[s].digest /\ view[s].trusted = catalog[s].trusted
      <4>1. CatalogDigest(view)[s] = [digest |-> view[s].digest, trusted |-> view[s].trusted]
        BY DEF CatalogDigest
      <4>2. CatalogDigest(catalog)[s] = [digest |-> catalog[s].digest, trusted |-> catalog[s].trusted]
        BY <3>5 DEF CatalogDigest
      <4> QED
        BY <3>1, <4>1, <4>2
    <3> QED
      BY <3>1, <3>2, <3>4, <3>5, <3>6
  <2> QED
    BY <2>1, <2>2, <2>3, <2>4 DEF SkillsCurrent
<1> QED
  BY <1>1, SkillsStart, SkillsGoOn, PTL DEF SkillRunSpec

-----------------------------------------------------------------------------
(* The request the model is sent *)

\* A set of numbers that is not empty has a least element.
LEMMA LeastNumber ==
  ASSUME NEW B \in SUBSET Nat, B # {}
  PROVE  \E m \in B : \A k \in B : m <= k
<1>1. PICK m \in B : \A k \in B : ~(<<k, m>> \in OpToRel(<, Nat))
  BY WFMin, NatLessThanWellFounded
<1>2. \A a, b \in Nat : a < b => <<a, b>> \in OpToRel(<, Nat)
  BY DEF OpToRel
<1>3. \A k \in B : ~(k < m)
  BY <1>1, <1>2
<1>4. \A k \in B : m <= k
  BY <1>3
<1> QED
  BY <1>4

\* What holds at 0 and goes on from each number to the next holds up to n.
LEMMA Counting ==
  ASSUME NEW n \in Nat, NEW P, 0 \in P, \A i \in 1 .. n : i - 1 \in P => i \in P
  PROVE  0 .. n \subseteq P
<1> DEFINE B == (0 .. n) \ P
<1> SUFFICES ASSUME B # {} PROVE FALSE
  OBVIOUS
<1>1. PICK m \in B : \A k \in B : m <= k
  <2>1. B \in SUBSET Nat
    OBVIOUS
  <2> HIDE DEF B
  <2> QED
    BY <2>1, LeastNumber
<1>2. m \in 0 .. n /\ m \notin P
  BY <1>1
<1>3. m # 0
  BY <1>2
<1>4. m \in 1 .. n /\ m - 1 \in 0 .. n /\ ~(m <= m - 1)
  BY <1>2, <1>3
<1>5. m - 1 \in P
  BY <1>1, <1>4
<1> QED
  BY <1>2, <1>4, <1>5

\* One place of the sum, and of what is kept of a list.
Sums(f, ms, i) == f[i] = IF i = 0 THEN 0 ELSE f[i - 1] + ms[i].size
Keeps(f, ms, roles, i) ==
  f[i] = IF i = 0 THEN <<>>
         ELSE IF ms[i].role \in roles THEN Append(f[i - 1], ms[i]) ELSE f[i - 1]

LEMMA SumsExist ==
  ASSUME NEW ms, NEW n \in Nat
  PROVE  \E f : f = [i \in 0 .. n |-> IF i = 0 THEN 0 ELSE f[i - 1] + ms[i].size]
<1> DEFINE P == {m \in 0 .. n : \E f : DOMAIN f = 0 .. m /\ \A i \in 0 .. m : Sums(f, ms, i)}
<1>1. 0 \in P
  <2> DEFINE g == [i \in 0 .. 0 |-> 0]
  <2>1. DOMAIN g = 0 .. 0 /\ \A i \in 0 .. 0 : Sums(g, ms, i)
    BY DEF Sums
  <2> QED
    BY <2>1
<1>2. ASSUME NEW m \in 1 .. n, m - 1 \in P PROVE m \in P
  <2>1. PICK f : DOMAIN f = 0 .. m - 1 /\ \A i \in 0 .. m - 1 : Sums(f, ms, i)
    BY <1>2
  <2> DEFINE g == [i \in 0 .. m |-> IF i = m THEN f[m - 1] + ms[m].size ELSE f[i]]
  <2>2. \A i \in 0 .. m - 1 : i \in 0 .. m /\ g[i] = f[i] /\ (i # 0 => i - 1 \in 0 .. m - 1 /\ g[i - 1] = f[i - 1])
    OBVIOUS
  <2>3. \A i \in 0 .. m - 1 : Sums(g, ms, i)
    BY <2>1, <2>2 DEF Sums
  <2>4. g[m] = f[m - 1] + ms[m].size /\ g[m - 1] = f[m - 1] /\ m # 0
    OBVIOUS
  <2>5. Sums(g, ms, m)
    BY <2>4 DEF Sums
  <2>6. (\A i \in 0 .. m : i = m \/ i \in 0 .. m - 1) /\ DOMAIN g = 0 .. m
    OBVIOUS
  <2> HIDE DEF g
  <2> QED
    BY <2>3, <2>5, <2>6
<1>3. 0 .. n \subseteq P
  <2> HIDE DEF P
  <2> QED
    BY <1>1, <1>2, Counting
<1>4. n \in P
  BY <1>3
<1>5. PICK f : DOMAIN f = 0 .. n /\ \A i \in 0 .. n : Sums(f, ms, i)
  BY <1>4
<1> DEFINE h == [i \in 0 .. n |-> f[i]]
<1>6. \A i \in 0 .. n : i # 0 => i - 1 \in 0 .. n
  OBVIOUS
<1>7. \A i \in 0 .. n : h[i] = IF i = 0 THEN 0 ELSE h[i - 1] + ms[i].size
  BY <1>5, <1>6 DEF Sums
<1>8. h = [i \in 0 .. n |-> h[i]]
  OBVIOUS
<1> HIDE DEF h
<1>9. h = [i \in 0 .. n |-> IF i = 0 THEN 0 ELSE h[i - 1] + ms[i].size]
  BY <1>7, <1>8
<1> QED
  BY <1>9

\* A list of messages has a number of tokens.
LEMMA EstimateIsNat ==
  ASSUME NEW ms \in Seq(ChatMessages)
  PROVE  Estimate(ms) \in Nat
<1> DEFINE n == Len(ms)
           F == CHOOSE f : f = [i \in 0 .. n |-> IF i = 0 THEN 0 ELSE f[i - 1] + ms[i].size]
           P == {i \in 0 .. n : F[i] \in Nat}
<1>1. n \in Nat /\ \A i \in 1 .. n : ms[i] \in ChatMessages
  BY LenProperties, ElementOfSeq
<1>2. \A i \in 1 .. n : ms[i].size \in Nat
  BY <1>1 DEF ChatMessages
<1>3. F = [i \in 0 .. n |-> IF i = 0 THEN 0 ELSE F[i - 1] + ms[i].size]
  <2> HIDE DEF n
  <2> QED
    BY <1>1, SumsExist
<1>4. Estimate(ms) = F[n]
  BY DEF Estimate
<1> HIDE DEF F, n
<1>5. 0 \in P
  BY <1>1, <1>3
<1>6. ASSUME NEW i \in 1 .. n, i - 1 \in P PROVE i \in P
  BY <1>1, <1>2, <1>3, <1>6
<1>7. 0 .. n \subseteq P
  <2> HIDE DEF P
  <2> QED
    BY <1>1, <1>5, <1>6, Counting
<1> QED
  BY <1>1, <1>4, <1>7

KeptBy(f, ms, roles, n) ==
  f = [i \in 0 .. n |-> IF i = 0 THEN <<>>
         ELSE IF ms[i].role \in roles THEN Append(f[i - 1], ms[i]) ELSE f[i - 1]]

LEMMA KeptExist ==
  ASSUME NEW ms, NEW roles, NEW n \in Nat
  PROVE  \E f : KeptBy(f, ms, roles, n)
<1> DEFINE P == {m \in 0 .. n : \E f : DOMAIN f = 0 .. m /\ \A i \in 0 .. m : Keeps(f, ms, roles, i)}
<1>1. 0 \in P
  <2> DEFINE g == [i \in 0 .. 0 |-> <<>>]
  <2>1. DOMAIN g = 0 .. 0 /\ \A i \in 0 .. 0 : Keeps(g, ms, roles, i)
    BY DEF Keeps
  <2> QED
    BY <2>1
<1>2. ASSUME NEW m \in 1 .. n, m - 1 \in P PROVE m \in P
  <2>1. PICK f : DOMAIN f = 0 .. m - 1 /\ \A i \in 0 .. m - 1 : Keeps(f, ms, roles, i)
    BY <1>2
  <2> DEFINE last == IF ms[m].role \in roles THEN Append(f[m - 1], ms[m]) ELSE f[m - 1]
             g == [i \in 0 .. m |-> IF i = m THEN last ELSE f[i]]
  <2>2. \A i \in 0 .. m - 1 : i \in 0 .. m /\ g[i] = f[i] /\ (i # 0 => i - 1 \in 0 .. m - 1 /\ g[i - 1] = f[i - 1])
    OBVIOUS
  <2>3. \A i \in 0 .. m - 1 : Keeps(g, ms, roles, i)
    BY <2>1, <2>2 DEF Keeps
  <2>4. g[m] = last /\ g[m - 1] = f[m - 1] /\ m # 0
    OBVIOUS
  <2>5. Keeps(g, ms, roles, m)
    BY <2>4 DEF Keeps
  <2>6. (\A i \in 0 .. m : i = m \/ i \in 0 .. m - 1) /\ DOMAIN g = 0 .. m
    OBVIOUS
  <2> HIDE DEF g
  <2> QED
    BY <2>3, <2>5, <2>6
<1>3. 0 .. n \subseteq P
  <2> HIDE DEF P
  <2> QED
    BY <1>1, <1>2, Counting
<1>4. n \in P
  BY <1>3
<1>5. PICK f : DOMAIN f = 0 .. n /\ \A i \in 0 .. n : Keeps(f, ms, roles, i)
  BY <1>4
<1> DEFINE h == [i \in 0 .. n |-> f[i]]
<1>6. \A i \in 0 .. n : i # 0 => i - 1 \in 0 .. n
  OBVIOUS
<1>7. \A i \in 0 .. n : h[i] = IF i = 0 THEN <<>>
                           ELSE IF ms[i].role \in roles THEN Append(h[i - 1], ms[i]) ELSE h[i - 1]
  BY <1>5, <1>6 DEF Keeps
<1>8. h = [i \in 0 .. n |-> h[i]]
  OBVIOUS
<1> HIDE DEF h
<1>9. h = [i \in 0 .. n |-> IF i = 0 THEN <<>>
                       ELSE IF ms[i].role \in roles THEN Append(h[i - 1], ms[i]) ELSE h[i - 1]]
  BY <1>7, <1>8
<1> QED
  BY <1>9 DEF KeptBy

\* What is kept of a list are messages; it begins and ends as the list does, where the list's
\* own ends are kept.
LEMMA OfRolesKeeps ==
  ASSUME NEW ms \in Seq(ChatMessages), NEW roles, NEW out, out = OfRoles(ms, roles)
  PROVE  /\ out \in Seq(ChatMessages)
         /\ ms # <<>> /\ ms[1].role \in roles => out # <<>> /\ out[1] = ms[1]
         /\ ms # <<>> /\ Newest(ms).role \in roles => out # <<>> /\ Newest(out) = Newest(ms)
<1> DEFINE n == Len(ms)
           F == CHOOSE f : KeptBy(f, ms, roles, n)
           Starts(s) == s # <<>> /\ s[1] = ms[1]
           P == {i \in 0 .. n : F[i] \in Seq(ChatMessages)}
           Q == {i \in 0 .. n : i >= 1 /\ ms[1].role \in roles => Starts(F[i])}
<1>1. n \in Nat /\ \A i \in 1 .. n : ms[i] \in ChatMessages
  BY LenProperties, ElementOfSeq
<1>2. F = [i \in 0 .. n |-> IF i = 0 THEN <<>>
             ELSE IF ms[i].role \in roles THEN Append(F[i - 1], ms[i]) ELSE F[i - 1]]
  <2>1. n \in Nat
    BY <1>1
  <2> HIDE DEF n
  <2>2. \E f : KeptBy(f, ms, roles, n)
    BY <2>1, KeptExist
  <2>3. KeptBy(F, ms, roles, n)
    BY <2>2
  <2> HIDE DEF F
  <2> QED
    BY <2>3 DEF KeptBy
<1>3. out = F[n]
  BY DEF OfRoles, KeptBy
<1>4. ms # <<>> => n >= 1
  BY <1>1, EmptySeq
<1> HIDE DEF F, n
<1>5. F[0] = <<>> /\ \A i \in 1 .. n : F[i] = IF ms[i].role \in roles THEN Append(F[i - 1], ms[i]) ELSE F[i - 1]
  <2>1. 0 \in 0 .. n /\ \A i \in 1 .. n : i \in 0 .. n /\ i # 0
    BY <1>1
  <2> QED
    BY <1>2, <2>1
<1>6. P = 0 .. n
  <2>1. 0 \in P
    <3>1. F[0] \in Seq(ChatMessages) /\ 0 \in 0 .. n
      BY <1>1, <1>5, EmptySeq
    <3> QED
      BY <3>1
  <2>2. ASSUME NEW i \in 1 .. n, i - 1 \in P PROVE i \in P
    <3>1. F[i - 1] \in Seq(ChatMessages) /\ ms[i] \in ChatMessages /\ i \in 0 .. n
      BY <1>1, <2>2
    <3>2. Append(F[i - 1], ms[i]) \in Seq(ChatMessages)
      BY <3>1, AppendProperties
    <3> QED
      BY <1>5, <3>1, <3>2
  <2>3. 0 .. n \subseteq P
    <3> HIDE DEF P
    <3> QED
      BY <1>1, <2>1, <2>2, Counting
  <2> QED
    BY <2>3
<1>7. \A i \in 0 .. n : F[i] \in Seq(ChatMessages)
  BY <1>6
<1>8. ASSUME NEW i \in 1 .. n
      PROVE  LET a == Append(F[i - 1], ms[i]) IN
             /\ a # <<>> /\ Newest(a) = ms[i]
             /\ F[i - 1] = <<>> => a[1] = ms[i]
             /\ F[i - 1] # <<>> => a[1] = F[i - 1][1]
  <2>1. F[i - 1] \in Seq(ChatMessages) /\ ms[i] \in ChatMessages
    BY <1>1, <1>7
  <2>2. Len(F[i - 1]) \in Nat /\ (F[i - 1] = <<>> <=> Len(F[i - 1]) = 0)
    BY <2>1, LenProperties, EmptySeq
  <2> QED
    BY <2>1, <2>2, AppendProperties DEF Newest
<1>9. Q = 0 .. n
  <2>1. 0 \in Q
    BY <1>1
  <2>2. ASSUME NEW i \in 1 .. n, i - 1 \in Q PROVE i \in Q
    <3> SUFFICES ASSUME ms[1].role \in roles PROVE Starts(F[i])
      BY <1>1
    <3>1. CASE i = 1
      <4>1. F[i - 1] = <<>> /\ ms[i].role \in roles /\ ms[i] = ms[1]
        BY <1>5, <3>1
      <4>2. F[i] = Append(F[i - 1], ms[i])
        BY <1>5, <4>1
      <4> QED
        BY <1>8, <4>1, <4>2
    <3>2. CASE i # 1
      <4>1. Starts(F[i - 1])
        BY <2>2, <3>2
      <4>2. F[i - 1] # <<>> /\ F[i - 1][1] = ms[1]
        BY <4>1
      <4> QED
        BY <1>5, <1>8, <4>2
    <3> QED
      BY <3>1, <3>2
  <2>3. 0 .. n \subseteq Q
    <3> HIDE DEF Q
    <3> QED
      BY <1>1, <2>1, <2>2, Counting
  <2> QED
    BY <2>3
<1>10. out \in Seq(ChatMessages)
  BY <1>1, <1>3, <1>7
<1>11. ms # <<>> /\ ms[1].role \in roles => out # <<>> /\ out[1] = ms[1]
  BY <1>1, <1>3, <1>4, <1>9
<1>12. ms # <<>> /\ Newest(ms).role \in roles => out # <<>> /\ Newest(out) = Newest(ms)
  <2> SUFFICES ASSUME ms # <<>>, Newest(ms).role \in roles PROVE out # <<>> /\ Newest(out) = Newest(ms)
    OBVIOUS
  <2>1. n \in 1 .. n /\ Newest(ms) = ms[n]
    BY <1>1, <1>4 DEF Newest, n
  <2>2. out = Append(F[n - 1], ms[n])
    BY <1>3, <1>5, <2>1
  <2> QED
    BY <1>8, <2>1, <2>2
<1> QED
  BY <1>10, <1>11, <1>12

\* A list that a request may be made from: the system text in front, something new at the end.
Framed(ms) ==
  ms \in Seq(ChatMessages) /\ ms # <<>> /\ ms[1].role = "system" /\ Newest(ms).role # "system"

\* A reduced list begins and ends as the list did.
KeepsEnds(out, ms) ==
  out \in Seq(ChatMessages) /\ out # <<>> /\ out[1] = ms[1] /\ Newest(out) = Newest(ms)

LEMMA LastOfKeeps ==
  ASSUME NEW ms \in Seq(ChatMessages), ms # <<>>, NEW n \in Nat \ {0}, NEW out, out = LastOf(ms, n)
  PROVE  /\ out \in Seq(ChatMessages) /\ out # <<>> /\ Newest(out) = Newest(ms)
         /\ Len(out) \in 1 .. Len(ms)
<1> DEFINE m == IF Len(ms) > n THEN Len(ms) - n + 1 ELSE 1
<1>1. Len(ms) \in Nat \ {0} /\ \A i \in 1 .. Len(ms) : ms[i] \in ChatMessages
  BY EmptySeq, ElementOfSeq
<1>2. m \in 1 .. Len(ms) /\ m \in Int /\ Len(ms) \in Int /\ m <= Len(ms)
  BY <1>1
<1>3. out = SubSeq(ms, m, Len(ms))
  BY DEF LastOf
<1> HIDE DEF m
<1>4. \A i \in m .. Len(ms) : ms[i] \in ChatMessages
  BY <1>1, <1>2
<1>5. /\ out \in Seq(ChatMessages)
      /\ Len(out) = Len(ms) - m + 1
      /\ \A i \in 1 .. Len(ms) - m + 1 : out[i] = ms[m + i - 1]
  BY <1>2, <1>3, <1>4, SubSeqProperties
<1>6. Len(out) \in 1 .. Len(ms)
  BY <1>1, <1>2, <1>5
<1>7. out[Len(out)] = ms[Len(ms)]
  <2>1. Len(out) \in 1 .. Len(ms) - m + 1 /\ m + Len(out) - 1 = Len(ms)
    BY <1>1, <1>2, <1>5
  <2> QED
    BY <1>5, <2>1
<1>8. out # <<>>
  BY <1>6, EmptySeq
<1> QED
  BY <1>5, <1>6, <1>7, <1>8 DEF Newest

LEMMA ConcatEnds ==
  ASSUME NEW a \in Seq(ChatMessages), NEW b \in Seq(ChatMessages), a # <<>>, b # <<>>, NEW c, c = a \o b
  PROVE  c \in Seq(ChatMessages) /\ c # <<>> /\ c[1] = a[1] /\ Newest(c) = Newest(b)
<1>1. Len(a) \in Nat \ {0} /\ Len(b) \in Nat \ {0}
  BY EmptySeq
<1>2. /\ c \in Seq(ChatMessages) /\ Len(c) = Len(a) + Len(b)
      /\ \A i \in 1 .. Len(a) + Len(b) : c[i] = IF i <= Len(a) THEN a[i] ELSE b[i - Len(a)]
  BY ConcatProperties
<1>3. c # <<>>
  BY <1>1, <1>2, EmptySeq
<1>4. c[1] = a[1]
  <2>1. 1 \in 1 .. Len(a) + Len(b) /\ 1 <= Len(a)
    BY <1>1
  <2> QED
    BY <1>2, <2>1
<1>5. c[Len(c)] = b[Len(b)]
  <2>1. Len(c) \in 1 .. Len(a) + Len(b) /\ ~(Len(c) <= Len(a)) /\ Len(c) - Len(a) = Len(b)
    BY <1>1, <1>2
  <2> QED
    BY <1>2, <2>1
<1> QED
  BY <1>2, <1>3, <1>4, <1>5 DEF Newest

LEMMA TruncatedKeeps ==
  ASSUME NEW ms, Framed(ms), NEW out, out = Truncated(ms)
  PROVE  KeepsEnds(out, ms)
<1>1. ms \in Seq(ChatMessages) /\ ms # <<>> /\ ms[1].role = "system" /\ Newest(ms).role # "system"
  BY DEF Framed
<1>2. Newest(ms).role \in Roles \ {"system"}
  <2>1. Len(ms) \in 1 .. Len(ms)
    BY <1>1, EmptySeq
  <2>2. Newest(ms) \in ChatMessages
    BY <1>1, <2>1, ElementOfSeq DEF Newest
  <2> QED
    BY <1>1, <2>2 DEF ChatMessages
<1> DEFINE sys == SystemsOf(ms)
           oth == OthersOf(ms)
           end == LastOf(oth, KeepTail)
<1>3. sys \in Seq(ChatMessages) /\ sys # <<>> /\ sys[1] = ms[1]
  <2>1. ms[1].role \in {"system"}
    BY <1>1
  <2> QED
    BY <1>1, <2>1, OfRolesKeeps DEF SystemsOf
<1>4. oth \in Seq(ChatMessages) /\ oth # <<>> /\ Newest(oth) = Newest(ms)
  BY <1>1, <1>2, OfRolesKeeps DEF OthersOf
<1>5. out = sys \o end
  BY DEF Truncated
<1> HIDE DEF sys, oth
<1>6. end \in Seq(ChatMessages) /\ end # <<>> /\ Newest(end) = Newest(oth)
  BY <1>4, ContextAssumption, LastOfKeeps
<1> HIDE DEF end
<1> QED
  BY <1>3, <1>4, <1>5, <1>6, ConcatEnds DEF KeepsEnds

LEMMA CompactedKeeps ==
  ASSUME NEW ms, Framed(ms), NEW out, out = Compacted(ms)
  PROVE  KeepsEnds(out, ms)
<1>1. ms \in Seq(ChatMessages) /\ ms # <<>> /\ ms[1].role = "system"
  BY DEF Framed
<1> DEFINE recent  == LastOf(ms, KeepRecent)
           head    == SubSeq(ms, 1, Len(ms) - Len(recent))
           old     == OthersOf(head)
           digestOf == Message("user", 1 + Smaller(Estimate(old), SummarySize), {})
           sys     == SystemsOf(ms)
<1>2. /\ recent \in Seq(ChatMessages) /\ recent # <<>> /\ Newest(recent) = Newest(ms)
      /\ Len(recent) \in 1 .. Len(ms)
  BY <1>1, ContextAssumption, LastOfKeeps
<1>3. out = IF old = <<>> THEN ms ELSE sys \o <<digestOf>> \o recent
  BY DEF Compacted
<1>4. sys \in Seq(ChatMessages) /\ sys # <<>> /\ sys[1] = ms[1]
  <2>1. ms[1].role \in {"system"}
    BY <1>1
  <2> QED
    BY <1>1, <2>1, OfRolesKeeps DEF SystemsOf
<1> HIDE DEF sys, recent
<1>5. digestOf \in ChatMessages
  <2>1. Len(ms) \in Nat /\ \A i \in 1 .. Len(ms) : ms[i] \in ChatMessages
    BY <1>1, LenProperties, ElementOfSeq
  <2>2. Len(ms) - Len(recent) \in Int /\ \A i \in 1 .. Len(ms) - Len(recent) : ms[i] \in ChatMessages
    BY <1>2, <2>1
  <2>3. head \in Seq(ChatMessages)
    BY <2>2, SubSeqProperties
  <2> HIDE DEF head
  <2>4. old \in Seq(ChatMessages)
    BY <2>3, OfRolesKeeps DEF OthersOf
  <2> HIDE DEF old
  <2>5. Estimate(old) \in Nat
    BY <2>4, EstimateIsNat
  <2>6. 1 + Smaller(Estimate(old), SummarySize) \in Nat \ {0}
    BY <2>5, ContextAssumption DEF Smaller
  <2> QED
    BY <2>6 DEF Message, ChatMessages, Roles
<1> HIDE DEF digestOf, old
<1>6. CASE old = <<>>
  BY <1>1, <1>3, <1>6 DEF KeepsEnds
<1>7. CASE old # <<>>
  <2> DEFINE front == sys \o <<digestOf>>
  <2>1. <<digestOf>> \in Seq(ChatMessages) /\ <<digestOf>> # <<>>
    BY <1>5
  <2>2. front \in Seq(ChatMessages) /\ front # <<>> /\ front[1] = ms[1]
    BY <1>4, <2>1, ConcatEnds
  <2>3. out = front \o recent
    BY <1>3, <1>7
  <2> HIDE DEF front
  <2> QED
    BY <1>2, <2>2, <2>3, ConcatEnds DEF KeepsEnds
<1> QED
  BY <1>6, <1>7

\* What a request is made from: the system text of now in front, and the newest message last.
LEMMA PreparedKeeps ==
  ASSUME ContextTypeOK, chat # <<>>, Newest(chat).role # "system", NEW out, out = Prepared(chat)
  PROVE  /\ out \in Seq(ChatMessages) /\ out # <<>>
         /\ out[1] = Message("system", prompt, {}) /\ Newest(out) = Newest(chat)
<1> DEFINE first  == Assembled(chat)
           second == IF Decision(first) = "compact" THEN Compacted(first) ELSE first
           text   == Message("system", prompt, {})
<1>1. text \in ChatMessages /\ text.role = "system"
  BY ContextAssumption DEF ContextTypeOK, Message, ChatMessages, Roles
<1>2. first = <<text>> \o chat
  BY DEF Assembled
<1> HIDE DEF text
<1>3. <<text>> \in Seq(ChatMessages) /\ <<text>> # <<>> /\ <<text>>[1] = text
  BY <1>1
<1>4. first \in Seq(ChatMessages) /\ first # <<>> /\ first[1] = text /\ Newest(first) = Newest(chat)
  <2>1. chat \in Seq(ChatMessages) /\ <<text>> \in Seq(ChatMessages) /\ first = <<text>> \o chat
    BY <1>2, <1>3 DEF ContextTypeOK
  <2>2. first \in Seq(ChatMessages) /\ first # <<>> /\ first[1] = <<text>>[1] /\ Newest(first) = Newest(chat)
    <3> HIDE DEF first
    <3> QED
      BY <1>3, <2>1, ConcatEnds
  <2> QED
    BY <1>3, <2>2
<1>5. Framed(first)
  BY <1>1, <1>4 DEF Framed
<1>6. out = IF Decision(second) = "limit" THEN Truncated(second) ELSE second
  BY DEF Prepared
<1>7. KeepsEnds(second, first)
  <2>1. KeepsEnds(Compacted(first), first)
    BY <1>5, CompactedKeeps
  <2>2. KeepsEnds(first, first)
    BY <1>4 DEF KeepsEnds
  <2> QED
    BY <2>1, <2>2
<1>8. Framed(second)
  BY <1>5, <1>7 DEF Framed, KeepsEnds
<1> HIDE DEF first, second
<1>9. KeepsEnds(out, second)
  <2>1. KeepsEnds(Truncated(second), second)
    BY <1>8, TruncatedKeeps
  <2>2. KeepsEnds(second, second)
    BY <1>8 DEF KeepsEnds, Framed
  <2> QED
    BY <1>6, <2>1, <2>2
<1> QED
  BY <1>4, <1>7, <1>9 DEF KeepsEnds, text

\* The ids of a role are those of its messages.
LEMMA IdsAreOf ==
  ASSUME NEW ms, NEW role, NEW x
  PROVE  x \in IdsOf(ms, role) <=> \E i \in DOMAIN ms : ms[i].role = role /\ x \in ms[i].ids
BY DEF IdsOf

\* A list that has the same messages with ids is paired if the other is.
SameIds(out, ms) ==
  /\ \A i \in DOMAIN ms : i \in DOMAIN out /\ out[i].role = ms[i].role /\ out[i].ids = ms[i].ids
  /\ \A i \in DOMAIN out : i \in DOMAIN ms \/ out[i].ids = {}

LEMMA SameIdsPaired ==
  ASSUME NEW ms, NEW out, SameIds(out, ms), Paired(ms)
  PROVE  Paired(out)
<1>1. ASSUME NEW role, NEW x PROVE x \in IdsOf(out, role) <=> x \in IdsOf(ms, role)
  BY IdsAreOf DEF SameIds
<1>2. \A role : IdsOf(out, role) = IdsOf(ms, role)
  BY <1>1
<1> QED
  BY <1>2 DEF Paired

\* What is added at the end: one message without ids.
LEMMA AppendPaired ==
  ASSUME NEW ms \in Seq(ChatMessages), NEW m \in ChatMessages, m.ids = {}, NEW out, out = Append(ms, m)
  PROVE  /\ out \in Seq(ChatMessages) /\ out # <<>> /\ Newest(out) = m
         /\ Paired(ms) => Paired(out)
<1>1. Len(ms) \in Nat /\ DOMAIN ms = 1 .. Len(ms)
  BY LenProperties
<1>2. /\ out \in Seq(ChatMessages) /\ out # <<>> /\ Len(out) = Len(ms) + 1
      /\ \A i \in 1 .. Len(ms) : out[i] = ms[i]
      /\ out[Len(ms) + 1] = m
  BY AppendProperties
<1>3. DOMAIN out = 1 .. Len(ms) + 1
  BY <1>2, LenProperties
<1>4. SameIds(out, ms)
  <2>1. \A i \in 1 .. Len(ms) : i \in 1 .. Len(ms) + 1
    BY <1>1
  <2>2. \A i \in 1 .. Len(ms) + 1 : i \in 1 .. Len(ms) \/ i = Len(ms) + 1
    BY <1>1
  <2> QED
    BY <1>1, <1>2, <1>3, <2>1, <2>2 DEF SameIds
<1> QED
  BY <1>2, <1>4, SameIdsPaired DEF Newest

LEMMA WithUserKeeps ==
  ASSUME NEW ms \in Seq(ChatMessages), NEW size \in Sizes, NEW out, out = WithUser(ms, size)
  PROVE  /\ out \in Seq(ChatMessages) /\ out # <<>> /\ Newest(out).role = "user"
         /\ Paired(ms) => Paired(out)
<1>1. size \in Nat \ {0}
  BY ContextAssumption
<1>2. CASE ms # <<>> /\ Newest(ms).role = "user"
  <2> DEFINE n == Len(ms)
  <2>1. n \in Nat \ {0} /\ DOMAIN ms = 1 .. n /\ ms \in [1 .. n -> ChatMessages]
    BY <1>2, EmptySeq, LenProperties
  <2>2. out = [ms EXCEPT ![n] = [ms[n] EXCEPT !.size = ms[n].size + size]]
    BY <1>2 DEF WithUser
  <2>3. n \in 1 .. n /\ ms[n] \in ChatMessages /\ ms[n].role = "user"
    BY <1>2, <2>1 DEF Newest
  <2> DEFINE m == [ms[n] EXCEPT !.size = ms[n].size + size]
  <2>4. m \in ChatMessages /\ m.role = "user" /\ m.ids = ms[n].ids
    BY <1>1, <2>3 DEF ChatMessages
  <2> HIDE DEF n, m
  <2>5. /\ out \in [1 .. n -> ChatMessages] /\ out[n] = m
        /\ \A i \in 1 .. n : i # n => out[i] = ms[i]
    BY <2>1, <2>2, <2>3, <2>4 DEF m
  <2>6. out \in Seq(ChatMessages)
    <3>1. n \in Nat
      BY <2>1
    <3> QED
      BY <2>5, <3>1, SeqDef
  <2>7. Len(out) = n /\ DOMAIN out = 1 .. n
    BY <2>1, <2>5, <2>6, LenProperties
  <2>8. out # <<>> /\ Newest(out) = m
    BY <2>1, <2>5, <2>6, <2>7, EmptySeq DEF Newest
  <2>9. SameIds(out, ms)
    BY <2>1, <2>3, <2>4, <2>5, <2>7 DEF SameIds
  <2> QED
    BY <2>4, <2>6, <2>8, <2>9, SameIdsPaired
<1>3. CASE ~(ms # <<>> /\ Newest(ms).role = "user")
  <2> DEFINE m == Message("user", size, {})
  <2>1. m \in ChatMessages /\ m.ids = {} /\ m.role = "user"
    BY <1>1 DEF Message, ChatMessages, Roles
  <2>2. out = Append(ms, m)
    BY <1>3 DEF WithUser
  <2> HIDE DEF m
  <2> QED
    BY <2>1, <2>2, AppendPaired
<1> QED
  BY <1>2, <1>3

-----------------------------------------------------------------------------
(* What stands between two steps of a conversation *)

\* While a Run is at work the conversation ends with something the model has not answered.
Unanswered == at # "idle" => chat # <<>> /\ Newest(chat).role # "system"

ContextInv == ContextSound /\ Unanswered /\ Paired(chat)

LEMMA ContextStarts == ContextInit => ContextInv
<1> SUFFICES ASSUME ContextInit PROVE ContextInv
  OBVIOUS
<1>1. chat \in Seq(ChatMessages) /\ request.messages \in Seq(ChatMessages)
  BY EmptySeq DEF ContextInit, NoRequest
<1>2. ContextTypeOK
  BY <1>1 DEF ContextInit, NoRequest, ContextTypeOK
<1>3. Paired(chat)
  <2>1. \A role, x : x \notin IdsOf(chat, role)
    BY IdsAreOf DEF ContextInit
  <2>2. \A role : IdsOf(chat, role) = {}
    BY <2>1
  <2> QED
    BY <2>2 DEF Paired
<1> QED
  BY <1>2, <1>3 DEF ContextInit, ContextInv, ContextSound, Unanswered

LEMMA UserTurnKeeps ==
  ASSUME ContextInv, NEW n \in Sizes, NEW s \in Sizes, UserTurn(n, s)
  PROVE  ContextInv'
<1>1. ContextTypeOK /\ Paired(chat)
  BY DEF ContextInv, ContextSound
<1>2. n \in Nat \ {0} /\ s \in Nat \ {0}
  BY ContextAssumption
<1> DEFINE text == Message("system", s, {})
           ms == IF chat = <<>> THEN <<text>> ELSE chat
<1>3. ms \in Seq(ChatMessages) /\ Paired(ms)
  <2>1. text \in ChatMessages /\ text.ids = {}
    BY <1>2 DEF Message, ChatMessages, Roles
  <2> HIDE DEF text
  <2>2. <<text>> \in Seq(ChatMessages)
    BY <2>1
  <2>3. Paired(<<text>>)
    <3>1. \A role, x : x \notin IdsOf(<<text>>, role)
      BY <2>1, IdsAreOf
    <3>2. \A role : IdsOf(<<text>>, role) = {}
      BY <3>1
    <3> QED
      BY <3>2 DEF Paired
  <2> QED
    BY <1>1, <2>2, <2>3 DEF ContextTypeOK
<1>4. chat' = WithUser(ms, n) /\ prompt' = s /\ at' = "ask" /\ request' = request
  BY DEF UserTurn
<1> HIDE DEF ms
<1>5. chat' \in Seq(ChatMessages) /\ chat' # <<>> /\ Newest(chat').role = "user" /\ Paired(chat')
  BY <1>3, <1>4, WithUserKeeps
<1>6. ContextTypeOK'
  BY <1>1, <1>4, <1>5 DEF ContextTypeOK
<1>7. Unanswered' /\ Paired(chat)'
  BY <1>5 DEF Unanswered, Newest
<1> QED
  BY <1>4, <1>6, <1>7 DEF ContextInv, ContextSound

LEMMA SteeredKeeps ==
  ASSUME ContextInv, NEW n \in Sizes, Steered(n)
  PROVE  ContextInv'
<1>1. ContextTypeOK /\ Paired(chat) /\ chat \in Seq(ChatMessages)
  BY DEF ContextInv, ContextSound, ContextTypeOK
<1>2. chat' = WithUser(chat, n) /\ UNCHANGED <<prompt, at, request>> /\ at = "ask"
  BY DEF Steered
<1>3. chat' \in Seq(ChatMessages) /\ chat' # <<>> /\ Newest(chat').role = "user" /\ Paired(chat')
  BY <1>1, <1>2, WithUserKeeps
<1>4. ContextTypeOK'
  BY <1>1, <1>2, <1>3 DEF ContextTypeOK
<1>5. Unanswered' /\ Paired(chat)'
  BY <1>3 DEF Unanswered, Newest
<1> QED
  BY <1>2, <1>4, <1>5 DEF ContextInv, ContextSound

LEMMA AskKeeps ==
  ASSUME ContextInv, Ask
  PROVE  ContextInv'
<1> DEFINE ms == Prepared(chat)
           d  == Decision(ms)
<1>1. ContextTypeOK /\ Paired(chat) /\ chat \in Seq(ChatMessages) /\ Unanswered
  BY DEF ContextInv, ContextSound, ContextTypeOK
<1>2. /\ at = "ask" /\ UNCHANGED <<chat, prompt>>
      /\ request' = [messages |-> IF d = "limit" THEN <<>> ELSE IF d = "ok" THEN chat ELSE ms, decision |-> d]
      /\ at' = IF d = "limit" THEN "idle" ELSE "answer"
  BY DEF Ask
<1>3. chat # <<>> /\ Newest(chat).role # "system"
  BY <1>1, <1>2 DEF Unanswered
<1>4. /\ ms \in Seq(ChatMessages) /\ ms # <<>> /\ ms[1] = Message("system", prompt, {})
      /\ Newest(ms) = Newest(chat)
  BY <1>1, <1>3, PreparedKeeps
<1>5. d \in {"ok", "compact", "limit"} /\ (d = "compact" => ~(Estimate(ms) > Threshold))
  BY DEF Decision
<1> HIDE DEF ms, d
<1>6. Estimate(ms) \in Nat /\ Threshold \in Nat
  BY <1>4, EstimateIsNat, ContextAssumption
<1>7. d = "compact" => Estimate(ms) <= Threshold
  BY <1>5, <1>6
<1>8. Head(ms) = ms[1]
  BY <1>4
<1>9. request'.decision = d /\ request' \in [messages : Seq(ChatMessages), decision : {"none", "ok", "compact", "limit"}]
  BY <1>1, <1>2, <1>4, <1>5, EmptySeq
<1>10. d = "ok" => request'.messages = chat
  BY <1>2
<1>11. d = "compact" => request'.messages = ms
  BY <1>2
<1>12. at' = "answer" => d \in {"ok", "compact"}
  BY <1>2, <1>5
<1>13. ContextTypeOK'
  BY <1>1, <1>2, <1>9 DEF ContextTypeOK
<1>14. Unanswered' /\ Paired(chat)'
  BY <1>1, <1>2, <1>3 DEF Unanswered
<1>15. ASSUME at' = "answer"
       PROVE  /\ Newest(request'.messages) = Newest(chat')
              /\ request'.decision = "compact" => /\ Head(request'.messages) = Message("system", prompt', {})
                                                  /\ Estimate(request'.messages) <= Threshold
              /\ request'.decision = "ok" => Paired(request'.messages)
  <2>1. CASE d = "ok"
    BY <1>1, <1>2, <1>9, <1>10, <2>1
  <2>2. CASE d = "compact"
    BY <1>2, <1>4, <1>7, <1>8, <1>9, <1>11, <2>2
  <2> QED
    BY <1>12, <1>15, <2>1, <2>2
<1>16. ContextSound'
  BY <1>13, <1>15 DEF ContextSound
<1> QED
  BY <1>14, <1>16 DEF ContextInv

LEMMA SaysKeeps ==
  ASSUME ContextInv, NEW n \in Sizes, Says(n)
  PROVE  ContextInv'
<1> DEFINE m == Message("assistant", n, {})
<1>1. ContextTypeOK /\ Paired(chat) /\ chat \in Seq(ChatMessages)
  BY DEF ContextInv, ContextSound, ContextTypeOK
<1>2. m \in ChatMessages /\ m.ids = {}
  BY ContextAssumption DEF Message, ChatMessages, Roles
<1>3. chat' = Append(chat, m) /\ at' = "idle" /\ UNCHANGED <<prompt, request>>
  BY DEF Says
<1> HIDE DEF m
<1>4. chat' \in Seq(ChatMessages) /\ Paired(chat')
  BY <1>1, <1>2, <1>3, AppendPaired
<1>5. ContextTypeOK'
  BY <1>1, <1>3, <1>4 DEF ContextTypeOK
<1> QED
  BY <1>3, <1>4, <1>5 DEF ContextInv, ContextSound, Unanswered

LEMMA StoppedKeeps ==
  ASSUME ContextInv, Stopped
  PROVE  ContextInv'
<1>1. ContextTypeOK'
  BY DEF ContextInv, ContextSound, ContextTypeOK, Stopped
<1>2. Paired(chat)' /\ at' = "idle"
  BY DEF ContextInv, Stopped
<1> QED
  BY <1>1, <1>2 DEF ContextInv, ContextSound, Unanswered

LEMMA CallsToolsKeeps ==
  ASSUME ContextInv, NEW sizes \in Seq(Sizes), sizes # <<>>, CallsTools(sizes)
  PROVE  ContextInv'
<1> DEFINE n == Len(chat)
           k == Len(sizes)
           ids == {n + 1 + i : i \in DOMAIN sizes}
           calling == Message("assistant", 1, ids)
           asked == Append(chat, calling)
           tools == [i \in DOMAIN sizes |-> Message("tool", sizes[i], {n + 1 + i})]
<1>1. ContextTypeOK /\ Paired(chat) /\ chat \in Seq(ChatMessages)
  BY DEF ContextInv, ContextSound, ContextTypeOK
<1>2. n \in Nat /\ DOMAIN chat = 1 .. n
  BY <1>1, LenProperties
<1>3. k \in Nat \ {0} /\ DOMAIN sizes = 1 .. k /\ \A i \in 1 .. k : sizes[i] \in Nat \ {0}
  BY EmptySeq, LenProperties, ElementOfSeq, ContextAssumption
<1>4. n + 1 + k <= MaxChat /\ MaxChat \in Nat /\ at' = "ask" /\ UNCHANGED <<prompt, request>>
  BY ContextAssumption DEF CallsTools
<1>5. chat' = asked \o tools
  BY DEF CallsTools
<1>6. ids = {n + 1 + i : i \in 1 .. k}
  BY <1>3
<1>7. tools = [i \in 1 .. k |-> Message("tool", sizes[i], {n + 1 + i})]
  BY <1>3
<1> HIDE DEF n, k, ids, tools
<1>8. calling \in ChatMessages /\ calling.role = "assistant" /\ calling.ids = ids
  <2>1. ids \subseteq 1 .. MaxChat
    BY <1>2, <1>3, <1>4, <1>6
  <2> QED
    BY <2>1 DEF Message, ChatMessages, Roles
<1> HIDE DEF calling
<1>9. /\ tools \in Seq(ChatMessages) /\ Len(tools) = k /\ tools # <<>>
      /\ \A i \in 1 .. k : tools[i].role = "tool" /\ tools[i].ids = {n + 1 + i}
  <2>1. \A i \in 1 .. k : Message("tool", sizes[i], {n + 1 + i}) \in ChatMessages
    <3> TAKE i \in 1 .. k
    <3>1. n + 1 + i \in 1 .. MaxChat /\ sizes[i] \in Nat \ {0}
      BY <1>2, <1>3, <1>4
    <3> QED
      BY <3>1 DEF Message, ChatMessages, Roles
  <2>2. tools \in [1 .. k -> ChatMessages]
    BY <1>7, <2>1
  <2>3. \A i \in 1 .. k : tools[i].role = "tool" /\ tools[i].ids = {n + 1 + i}
    BY <1>7 DEF Message
  <2>4. tools \in Seq(ChatMessages)
    BY <1>3, <2>2, SeqDef
  <2>5. Len(tools) = k
    BY <1>3, <2>2, <2>4, LenProperties
  <2>6. tools # <<>>
    BY <1>3, <2>5, EmptySeq
  <2> QED
    BY <2>3, <2>4, <2>5, <2>6
<1>10. /\ asked \in Seq(ChatMessages) /\ asked # <<>> /\ Len(asked) = n + 1 /\ asked[n + 1] = calling
       /\ \A i \in 1 .. n : asked[i] = chat[i]
  BY <1>1, <1>8, AppendProperties DEF n
<1> HIDE DEF asked
<1>11. chat' \in Seq(ChatMessages) /\ chat' # <<>> /\ Newest(chat') = Newest(tools)
  BY <1>5, <1>9, <1>10, ConcatEnds
<1>12. Newest(chat').role = "tool"
  BY <1>3, <1>9, <1>11 DEF Newest
<1>13. /\ DOMAIN chat' = 1 .. n + 1 + k
       /\ \A i \in 1 .. n : chat'[i] = chat[i]
       /\ chat'[n + 1] = calling
       /\ \A i \in 1 .. k : chat'[n + 1 + i] = tools[i]
  <2>1. /\ Len(chat') = n + 1 + k
        /\ \A i \in 1 .. n + 1 + k : chat'[i] = IF i <= n + 1 THEN asked[i] ELSE tools[i - (n + 1)]
    <3>1. /\ Len(asked \o tools) = Len(asked) + Len(tools)
          /\ \A i \in 1 .. Len(asked) + Len(tools) :
                (asked \o tools)[i] = IF i <= Len(asked) THEN asked[i] ELSE tools[i - Len(asked)]
      BY <1>9, <1>10, ConcatProperties
    <3> QED
      BY <1>5, <1>9, <1>10, <3>1
  <2>2. DOMAIN chat' = 1 .. n + 1 + k
    BY <1>11, <2>1, LenProperties
  <2>3. \A i \in 1 .. n : i \in 1 .. n + 1 + k /\ i <= n + 1
    BY <1>2, <1>3
  <2>4. n + 1 \in 1 .. n + 1 + k /\ n + 1 <= n + 1
    BY <1>2, <1>3
  <2>5. \A i \in 1 .. k : n + 1 + i \in 1 .. n + 1 + k /\ ~(n + 1 + i <= n + 1) /\ (n + 1 + i) - (n + 1) = i
    BY <1>2, <1>3
  <2> QED
    BY <1>10, <2>1, <2>2, <2>3, <2>4, <2>5
<1>14. \A j \in 1 .. n + 1 + k : j \in 1 .. n \/ j = n + 1 \/ \E i \in 1 .. k : j = n + 1 + i
  <2> TAKE j \in 1 .. n + 1 + k
  <2>1. j \in 1 .. n \/ j = n + 1 \/ (j - (n + 1) \in 1 .. k /\ j = n + 1 + (j - (n + 1)))
    BY <1>2, <1>3
  <2> QED
    BY <2>1
<1>15. \A i \in 1 .. k : n + 1 + i \in 1 .. n + 1 + k
  BY <1>2, <1>3
<1>16. n + 1 \in 1 .. n + 1 + k /\ \A i \in 1 .. n : i \in 1 .. n + 1 + k
  BY <1>2, <1>3
<1>17. ASSUME NEW x PROVE x \in IdsOf(chat', "assistant") <=> x \in IdsOf(chat, "assistant") \/ x \in ids
  <2>1. x \in IdsOf(chat', "assistant") <=> \E i \in DOMAIN chat' : chat'[i].role = "assistant" /\ x \in chat'[i].ids
    BY IdsAreOf
  <2>2. x \in IdsOf(chat, "assistant") <=> \E i \in DOMAIN chat : chat[i].role = "assistant" /\ x \in chat[i].ids
    BY IdsAreOf
  <2>3. \A i \in 1 .. k : chat'[n + 1 + i].role = "tool"
    BY <1>9, <1>13
  <2> QED
    BY <1>2, <1>8, <1>13, <1>14, <1>16, <2>1, <2>2, <2>3
<1>18. ASSUME NEW x PROVE x \in IdsOf(chat', "tool") <=> x \in IdsOf(chat, "tool") \/ x \in ids
  <2>1. x \in IdsOf(chat', "tool") <=> \E i \in DOMAIN chat' : chat'[i].role = "tool" /\ x \in chat'[i].ids
    BY IdsAreOf
  <2>2. x \in IdsOf(chat, "tool") <=> \E i \in DOMAIN chat : chat[i].role = "tool" /\ x \in chat[i].ids
    BY IdsAreOf
  <2>3. \A i \in 1 .. k : chat'[n + 1 + i].role = "tool" /\ chat'[n + 1 + i].ids = {n + 1 + i}
    BY <1>9, <1>13
  <2>4. chat'[n + 1].role # "tool"
    BY <1>8, <1>13
  <2>5. x \in ids <=> \E i \in 1 .. k : x = n + 1 + i
    BY <1>6
  <2>6. ASSUME x \in IdsOf(chat', "tool") PROVE x \in IdsOf(chat, "tool") \/ x \in ids
    <3>1. PICK j \in 1 .. n + 1 + k : chat'[j].role = "tool" /\ x \in chat'[j].ids
      BY <1>13, <2>1, <2>6
    <3>2. CASE j \in 1 .. n
      BY <1>2, <1>13, <2>2, <3>1, <3>2
    <3>3. CASE j = n + 1
      BY <2>4, <3>1, <3>3
    <3>4. CASE \E i \in 1 .. k : j = n + 1 + i
      BY <2>3, <2>5, <3>1, <3>4
    <3> QED
      BY <1>14, <3>2, <3>3, <3>4
  <2>7. ASSUME x \in IdsOf(chat, "tool") PROVE x \in IdsOf(chat', "tool")
    BY <1>2, <1>13, <1>16, <2>1, <2>2, <2>7
  <2>8. ASSUME x \in ids PROVE x \in IdsOf(chat', "tool")
    <3>1. PICK i \in 1 .. k : x = n + 1 + i
      BY <2>5, <2>8
    <3>2. n + 1 + i \in DOMAIN chat' /\ chat'[n + 1 + i].role = "tool" /\ x \in chat'[n + 1 + i].ids
      BY <1>13, <1>15, <2>3, <3>1
    <3> QED
      BY <2>1, <3>2
  <2> QED
    BY <2>6, <2>7, <2>8
<1>19. Paired(chat')
  <2>1. \A x : x \in IdsOf(chat', "assistant") <=> x \in IdsOf(chat', "tool")
    BY <1>1, <1>17, <1>18 DEF Paired
  <2> QED
    BY <2>1 DEF Paired
<1>20. ContextTypeOK'
  BY <1>1, <1>4, <1>11 DEF ContextTypeOK
<1>21. Unanswered'
  BY <1>11, <1>12 DEF Unanswered, Newest
<1> QED
  BY <1>4, <1>19, <1>20, <1>21 DEF ContextInv, ContextSound

LEMMA ContextGoesOn == ContextInv /\ [ContextNext]_contextVars => ContextInv'
<1> SUFFICES ASSUME ContextInv, [ContextNext]_contextVars PROVE ContextInv'
  OBVIOUS
<1>1. \A a, b \in Sizes : <<a>> \in Seq(Sizes) /\ <<a>> # <<>> /\ <<a, b>> \in Seq(Sizes) /\ <<a, b>> # <<>>
  OBVIOUS
<1>2. CASE UNCHANGED contextVars
  BY <1>2 DEF contextVars, ContextInv, ContextSound, ContextTypeOK, Unanswered
<1>3. CASE \E n, s \in Sizes : UserTurn(n, s)
  BY <1>3, UserTurnKeeps
<1>4. CASE \E n \in Sizes : Steered(n) \/ Says(n)
  BY <1>4, SteeredKeeps, SaysKeeps
<1>5. CASE \E n \in Sizes : CallsTools(<<n>>)
  BY <1>1, <1>5, CallsToolsKeeps
<1>6. CASE \E m, n \in Sizes : CallsTools(<<m, n>>)
  BY <1>1, <1>6, CallsToolsKeeps
<1>7. CASE Ask
  BY <1>7, AskKeeps
<1>8. CASE Stopped
  BY <1>8, StoppedKeeps
<1> QED
  BY <1>2, <1>3, <1>4, <1>5, <1>6, <1>7, <1>8 DEF ContextNext

\* However a conversation grows, is compacted or cut, a request ends with the newest input or
\* result; a reduced one begins with the system text of now and fits, one that is sent as it is has
\* every call with its result (core/agent.py, context/manager.py, context/compactor.py).
THEOREM RequestsAreSound == ContextSpec => []ContextSound
<1>1. ContextInv => ContextSound
  BY DEF ContextInv
<1> QED
  BY <1>1, ContextStarts, ContextGoesOn, PTL DEF ContextSpec

-----------------------------------------------------------------------------
(* The parts of a turn side by side *)

\* A behaviour of the parts side by side is one of each.
LEMMA EveryPartRuns == MCSpec => SkillRunSpec /\ MountSpec /\ ContextSpec
<1>1. MCInit => SkillRunInit /\ MountInit /\ ContextInit
  BY DEF MCInit
<1>2. [MCNext]_<<part, installVars, skillRunVars, mountVars, contextVars, frameVars, chainVars, sandboxVars>>
      => /\ [SkillRunNext]_<<installVars, skillRunVars>> /\ [MountNext]_mountVars
         /\ [ContextNext]_contextVars
  BY DEF MCNext
<1> QED
  BY <1>1, <1>2, PTL DEF MCSpec, SkillRunSpec, MountSpec, ContextSpec

\* What one turn of an agent relies on: the skill that is installed and seen, the skill that is
\* mounted and the request the model is sent (skills/, sandbox/, context/manager.py).
THEOREM TurnIsSound == MCSpec => []TurnSound
<1>1. (SkillRunTypeOK /\ SkillKept /\ SkillsCurrent) /\ (MountTypeOK /\ MountsWhole) /\ ContextSound => TurnSound
  BY DEF TurnSound
<1> QED
  BY <1>1, EveryPartRuns, SkillsStayCurrent, MountsStayWhole, RequestsAreSound, PTL
=============================================================================
