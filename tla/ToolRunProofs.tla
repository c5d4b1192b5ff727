---------------------------- MODULE ToolRunProofs ----------------------------
(***************************************************************************)
(* What a runner does outside, for any tools, answers of the model, Runs,   *)
(* cancels and crashes: nothing risky happens without the permit of that    *)
(* very call, the intents on disk are true at every step, and a recorded    *)
(* submission is not made again.  The argument follows a call through its   *)
(* job states; what ties a call to its records is that its id is new when   *)
(* the model makes it and that a batch holds no two conflicting calls.      *)
(*                                                                         *)
(* Then what the provider is sent: the conversation is repaired whatever    *)
(* it is, and while no task was cancelled inside a batch every round but    *)
(* the one at work has all its results, in memory and on disk, so that      *)
(* nothing is completed late and the repair drops nothing.                  *)
(***************************************************************************)
EXTENDS ToolRun, FiniteSetTheorems, SequenceTheorems, WellFoundedInduction, TLAPS

-----------------------------------------------------------------------------
(* The invariant *)

\* The calls that are planned or at work, each with an id of its own.
Planned == UNION {todo[k] : k \in DOMAIN todo}

Shape ==
    /\ todo \in Seq(SUBSET Calls)
    /\ job \in [Ids -> JobStates] /\ granted \in [Ids -> Tools \cup {None}]
    /\ asked \subseteq Calls /\ made \in Nat /\ run \in Nat
    /\ pc # "batch" => todo = <<>>
    /\ \A id \in Ids : job[id] # None => \E c \in Batch : c.id = id

\* Ids are used once: a planned call is the only one of its id.
FreshIds ==
    /\ \A c, d \in Planned : c.id = d.id => c = d
    /\ \A c \in Planned \cup asked : c.id <= made
    /\ \A x \in permits \cup intents : x.id <= made

\* A call that writes is alone in its batch.
NoConflicts ==
    \A k \in DOMAIN todo : \A c, d \in todo[k] : c # d => ~Conflict(c, d)

\* What is recorded of a planned call was recorded in this Run.
OfThisRun ==
    /\ \A p \in permits, c \in Planned : p.id = c.id => p.run = run
    /\ \A i \in intents, c \in Planned : i.id = c.id => i.run = run /\ i.tool = c.tool

\* A permit that is remembered was given.
GrantsGiven ==
    \A id \in Ids : granted[id] # None =>
        \E r \in 0 .. run : [run |-> r, id |-> id, tool |-> granted[id]] \in permits

Exec(id) == [run |-> run, id |-> id, tool |-> ToolOf(id)]

\* How far a call is, and what there is of it by then.
Progress ==
    \A id \in Ids :
        /\ job[id] = "running" /\ ToolOf(id) \in Risky => Exec(id) \in permits
        /\ job[id] \in {"waiting", "running"} /\ ToolOf(id) \in Sides =>
              Exec(id) \in {Of(i) : i \in intents}
        /\ job[id] \in {"waiting", "running"} /\ ToolOf(id) \in Submits =>
              <<run, ToolOf(id)>> \notin done
        /\ job[id] = "acted" /\ ToolOf(id) \notin Reads => Exec(id) \in world

RecordsTyped ==
    /\ intents \subseteq [run : Nat, id : Ids, tool : Sides,
                          status : {"intent", "committed", "reconciling"}]
    /\ done \subseteq Nat \X Submits
    /\ permits \subseteq [run : Nat, id : Ids, tool : Tools]

RunInv ==
    /\ Shape /\ FreshIds /\ NoConflicts /\ OfThisRun /\ GrantsGiven
    /\ Progress /\ RecordsTyped /\ ExecutionsAccounted

-----------------------------------------------------------------------------
(* What the operators give *)

LEMMA Constants == /\ Ids \subseteq Nat /\ Submits \subseteq Sides /\ Sides \subseteq Tools
                   /\ Sides \cap Reads = {} /\ MaxTurns \in Nat
BY RunnerConstants, ToolConstants DEF Ids

\* A call at work is planned, and ToolOf gives its tool.
LEMMA CallAtWork ==
  ASSUME Shape, FreshIds, NEW id \in Ids, job[id] # None
  PROVE  /\ [id |-> id, tool |-> ToolOf(id)] \in Batch /\ todo # <<>> /\ ToolOf(id) \in Tools
         /\ [id |-> id, tool |-> ToolOf(id)] \in Planned
         /\ id <= made
<1>1. PICK c \in Batch : c.id = id
  BY DEF Shape
<1>2. todo # <<>> /\ Batch = todo[1] /\ 1 \in DOMAIN todo /\ Batch \subseteq Calls
  BY <1>1 DEF Batch, Shape
<1>3. ToolOf(id) = (CHOOSE d \in Batch : d.id = id).tool
  BY DEF ToolOf
<1>4. PICK d : d \in Batch /\ d.id = id /\ ToolOf(id) = d.tool
  BY <1>1, <1>3
<1>5. d = [id |-> id, tool |-> ToolOf(id)] /\ ToolOf(id) \in Tools
  BY <1>2, <1>4 DEF Calls
<1>6. d \in Planned
  BY <1>2, <1>4 DEF Planned
<1> QED BY <1>2, <1>4, <1>5, <1>6 DEF FreshIds

\* A plan only holds the calls it was made for, none in conflict with another of its batch.
LEMMA PlanHoldsCalls ==
  ASSUME NEW calls \in Seq(Calls), NEW plan \in PlanBatches(calls)
  PROVE  /\ plan \in Seq(SUBSET Calls) /\ plan # <<>>
         /\ \A k \in DOMAIN plan : \A c \in plan[k] : \E n \in DOMAIN calls : c = calls[n]
         /\ \A k \in DOMAIN plan : \A c, d \in plan[k] : c # d => ~Conflict(c, d)
<1>0. PICK m \in DOMAIN calls : \E place \in [DOMAIN calls -> 1 .. m] :
        /\ plan = [k \in 1 .. m |-> {calls[n] : n \in {e \in DOMAIN calls : place[e] = k}}]
        /\ FirstFit(calls, place)
  BY DEF PlanBatches
<1>1. PICK place \in [DOMAIN calls -> 1 .. m] :
        /\ plan = [k \in 1 .. m |-> {calls[n] : n \in {e \in DOMAIN calls : place[e] = k}}]
        /\ FirstFit(calls, place)
  BY <1>0
<1>2. m \in Nat /\ m > 0 /\ DOMAIN calls = 1 .. Len(calls) /\ Len(calls) \in Nat
  OBVIOUS
<1>3. \A k \in 1 .. m : plan[k] \in SUBSET Calls
  BY <1>1, <1>2
<1>4. plan \in Seq(SUBSET Calls) /\ plan # <<>> /\ DOMAIN plan = 1 .. m
  BY <1>1, <1>2, <1>3
<1>5. ASSUME NEW k \in 1 .. m, NEW c \in plan[k], NEW d \in plan[k], c # d
      PROVE  ~Conflict(c, d)
  <2>1. PICK n \in DOMAIN calls, e \in DOMAIN calls :
          c = calls[n] /\ d = calls[e] /\ place[n] = k /\ place[e] = k
    BY <1>1, <1>5
  <2>2. n < e \/ e < n
    BY <1>2, <1>5, <2>1
  <2>3. \A a, b \in DOMAIN calls : b < a /\ place[b] = place[a] => ~Conflict(calls[a], calls[b])
    BY <1>1, <1>2 DEF FirstFit
  <2>4. Conflict(c, d) <=> Conflict(d, c)
    BY DEF Conflict
  <2> QED BY <2>1, <2>2, <2>3, <2>4
<1> QED BY <1>1, <1>2, <1>4, <1>5

\* What a step that leaves the batches alone leaves alone with them.
LEMMA SameBatch ==
  ASSUME UNCHANGED todo
  PROVE  Batch' = Batch /\ Planned' = Planned /\ \A id \in Ids : ToolOf(id)' = ToolOf(id)
BY DEF Batch, Planned, ToolOf

\* Mark changes nothing of an intent but its status, and no committed one.
LEMMA MarkKeepsIntents ==
  ASSUME RecordsTyped, NEW S, NEW s \in {"committed", "reconciling"}, Mark(S, s)
  PROVE  /\ intents' \subseteq [run : Nat, id : Ids, tool : Sides,
                               status : {"intent", "committed", "reconciling"}]
         /\ \A i \in intents' : \E j \in intents : /\ Of(i) = Of(j)
                /\ \/ i.status = j.status
                   \/ i.status = s /\ j.run = run /\ j.id \in S
         /\ {Of(i) : i \in intents'} = {Of(i) : i \in intents}
<1> DEFINE F(i) == IF i.run = run /\ i.id \in S /\ i.status = "intent"
                   THEN [i EXCEPT !.status = s] ELSE i
<1>1. intents' = {F(i) : i \in intents}
  BY DEF Mark
<1>2. ASSUME NEW i \in intents
      PROVE  /\ F(i) \in [run : Nat, id : Ids, tool : Sides,
                          status : {"intent", "committed", "reconciling"}]
             /\ Of(F(i)) = Of(i)
             /\ F(i).status = i.status \/ (F(i).status = s /\ i.run = run /\ i.id \in S)
  BY DEF RecordsTyped, Of
<1> HIDE DEF F
<1>3. \A i \in intents' : \E j \in intents : i = F(j)
  BY <1>1
<1>4. \A j \in intents : F(j) \in intents'
  BY <1>1
<1> QED BY <1>2, <1>3, <1>4

\* Intents that keep what they stand for keep what is said of them.
LEMMA SameOf ==
  ASSUME RecordsTyped, {Of(i) : i \in intents'} = {Of(i) : i \in intents}
  PROVE  \A i \in intents' : \E j \in intents : i.run = j.run /\ i.id = j.id /\ i.tool = j.tool
<1>1. \A i \in intents' : \E j \in intents : Of(i) = Of(j)
  OBVIOUS
<1> QED BY <1>1 DEF Of

-----------------------------------------------------------------------------
(* Steps after which nothing is at work *)

LEMMA NothingAtWork ==
  ASSUME RunInv, todo' = <<>>, job' = NoJobs, asked' \subseteq asked,
         made' \in Nat, made' >= made, run' = run \/ (run' = run + 1),
         granted' \in {granted, [id \in Ids |-> None]},
         RecordsTyped', IntentsTellTruth',
         {Of(i) : i \in intents'} = {Of(i) : i \in intents},
         UNCHANGED <<world, permits>>
  PROVE  RunInv'
<1> USE DEF RunInv
<1>1. Planned' = {} /\ Batch' = {} /\ DOMAIN todo' = {} /\ todo' \in Seq(SUBSET Calls)
  BY DEF Planned, Batch
<1>2. run \in Nat /\ run' \in Nat /\ run' >= run /\ made \in Nat
  BY DEF Shape
<1>3. Shape'
  <2>1. job' \in [Ids -> JobStates] /\ \A id \in Ids : job'[id] = None
    BY DEF NoJobs, JobStates
  <2>2. granted' \in [Ids -> Tools \cup {None}]
    BY DEF Shape
  <2> QED BY <1>1, <1>2, <2>1, <2>2 DEF Shape
<1>4. FreshIds'
  <2>1. \A c \in asked' : c.id <= made'
    BY <1>2 DEF FreshIds, Shape, Calls, Ids
  <2>2. ASSUME NEW x \in permits' \cup intents' PROVE x.id <= made'
    <3>1. PICK y \in permits \cup intents : x.id = y.id
      BY SameOf
    <3>2. y.id <= made
      BY DEF FreshIds
    <3>3. y.id \in Int
      BY DEF RecordsTyped, Ids
    <3> QED BY <1>2, <3>1, <3>2, <3>3
  <2> QED BY <1>1, <2>1, <2>2 DEF FreshIds
<1>5. NoConflicts' /\ OfThisRun'
  BY <1>1 DEF NoConflicts, OfThisRun
<1>6. GrantsGiven'
  BY <1>2 DEF GrantsGiven
<1>7. Progress'
  BY DEF Progress, NoJobs, None
<1>8. ExecutionsAccounted'
  BY DEF ExecutionsAccounted, EveryExecutionPermitted
<1> QED BY <1>3, <1>4, <1>5, <1>6, <1>7, <1>8

-----------------------------------------------------------------------------
(* Steps of one call *)

\* The call id goes to the state s and may have got its intent: what ties the
\* calls to their records is kept.
LEMMA CallStep ==
  ASSUME RunInv, NEW id \in Ids, job[id] # None, NEW s \in JobStates,
         job' = [job EXCEPT ![id] = s],
         UNCHANGED <<pc, todo, run, made, asked, granted, permits>>,
         RecordsTyped',
         \A i \in intents' : Of(i) = Exec(id) \/ \E j \in intents : Of(i) = Of(j)
  PROVE  Shape' /\ FreshIds' /\ NoConflicts' /\ OfThisRun' /\ GrantsGiven'
<1> USE DEF RunInv
<1>1. Batch' = Batch /\ Planned' = Planned /\ \A n \in Ids : ToolOf(n)' = ToolOf(n)
  BY SameBatch
<1>2. /\ [id |-> id, tool |-> ToolOf(id)] \in Planned /\ id <= made
  BY CallAtWork
<1>3. Shape'
  BY <1>1 DEF Shape
<1>4. \A i \in intents' :
         \/ i.id = id /\ i.run = run /\ i.tool = ToolOf(id)
         \/ \E j \in intents : i.id = j.id /\ i.run = j.run /\ i.tool = j.tool
  BY DEF Of, Exec
<1>5. FreshIds'
  BY <1>1, <1>2, <1>4 DEF FreshIds
<1>6. NoConflicts'
  BY DEF NoConflicts
<1>7. OfThisRun'
  <2>1. ASSUME NEW i \in intents', NEW c \in Planned, i.id = c.id
        PROVE  i.run = run /\ i.tool = c.tool
    <3>1. CASE i.id = id /\ i.run = run /\ i.tool = ToolOf(id)
      <4>1. c = [id |-> id, tool |-> ToolOf(id)]
        BY <1>2, <2>1, <3>1 DEF FreshIds
      <4> QED BY <3>1, <4>1
    <3>2. CASE \E j \in intents : i.id = j.id /\ i.run = j.run /\ i.tool = j.tool
      BY <2>1, <3>2 DEF OfThisRun
    <3> QED BY <1>4, <3>1, <3>2
  <2> QED BY <1>1, <2>1 DEF OfThisRun
<1>8. GrantsGiven'
  BY DEF GrantsGiven
<1> QED BY <1>3, <1>5, <1>6, <1>7, <1>8

LEMMA StartCallKeeps == ASSUME RunInv, NEW id \in Ids, StartCall(id) PROVE RunInv'
<1> USE DEF RunInv
<1> DEFINE t == ToolOf(id)
           new == [run |-> run, id |-> id, tool |-> t, status |-> "intent"]
<1>1. job \in [Ids -> JobStates] /\ job[id] = "new" /\ job[id] # None /\ run \in Nat
  BY DEF StartCall, Shape, None
<1>2. t \in Tools
  BY <1>1, CallAtWork
<1>3. PICK s \in {"ok", "waiting", "running"} :
        /\ job' = [job EXCEPT ![id] = s]
        /\ s = "running" => t \notin Risky
        /\ \/ s = "ok" /\ intents' = intents
           \/ /\ ~(t \in Submits /\ <<run, t>> \in done)
              /\ intents' = IF t \in Sides THEN intents \cup {new} ELSE intents
  BY DEF StartCall
<1>4. UNCHANGED <<pc, todo, run, made, asked, granted, permits, done, world>>
  BY DEF StartCall
<1>5. RecordsTyped'
  BY <1>1, <1>3, <1>4 DEF RecordsTyped
<1>6. \A i \in intents' : i = new \/ i \in intents
  BY <1>3
<1>7. Of(new) = Exec(id)
  BY DEF Of, Exec
<1>8. Shape' /\ FreshIds' /\ NoConflicts' /\ OfThisRun' /\ GrantsGiven'
  <2>1. s \in JobStates
    BY DEF JobStates, Ended
  <2>2. \A i \in intents' : Of(i) = Exec(id) \/ \E j \in intents : Of(i) = Of(j)
    BY <1>6, <1>7
  <2> QED BY <1>1, <1>3, <1>4, <1>5, <2>1, <2>2, CallStep
<1>9. \A n \in Ids : ToolOf(n)' = ToolOf(n) /\ Exec(n)' = Exec(n)
  BY <1>4, SameBatch DEF Exec
<1>10. {Of(i) : i \in intents} \subseteq {Of(i) : i \in intents'}
  BY <1>3
<1>11. Progress'
  <2>1. ASSUME NEW n \in Ids, n # id PROVE job'[n] = job[n]
    BY <1>1, <1>3, <2>1
  <2>2. job'[id] = s
    BY <1>1, <1>3
  <2>3. s # "ok" /\ t \in Sides => Exec(id) \in {Of(i) : i \in intents'}
    BY <1>3, <1>7
  <2> QED BY <1>3, <1>4, <1>9, <1>10, <2>1, <2>2, <2>3 DEF Progress
<1>12. ExecutionsAccounted'
  <2>1. IntentsTellTruth'
    BY <1>3, <1>4, <1>6, <1>10 DEF ExecutionsAccounted, IntentsTellTruth
  <2> QED BY <1>4, <2>1 DEF ExecutionsAccounted, EveryExecutionPermitted
<1> QED BY <1>5, <1>8, <1>11, <1>12

\* A step of one call that marks its intent at most: only what is said of this
\* call in its new state is left to show.
LEMMA CallMoves ==
  ASSUME RunInv, NEW id \in Ids, job[id] # None, NEW s \in JobStates,
         job' = [job EXCEPT ![id] = s],
         UNCHANGED <<pc, todo, run, made, asked, granted, permits, done>>,
         \/ UNCHANGED intents
         \/ Mark({id}, "reconciling")
         \/ Mark({id}, "committed") /\ (ToolOf(id) \in Sides => Exec(id) \in world),
         world \subseteq world',
         \A w \in world' \ world : /\ w = Exec(id)
                                   /\ w.tool \in Sides => w \in {Of(i) : i \in intents}
                                   /\ w.tool \in Risky => w \in permits,
         s = "running" => /\ job[id] = "waiting"
                          /\ ToolOf(id) \in Risky => Exec(id) \in permits,
         s # "waiting",
         s = "acted" /\ ToolOf(id) \notin Reads => Exec(id) \in world'
  PROVE  RunInv'
<1> USE DEF RunInv
<1>1. /\ RecordsTyped'
      /\ {Of(i) : i \in intents'} = {Of(i) : i \in intents}
      /\ \A i \in intents' : \E j \in intents : /\ Of(i) = Of(j)
            /\ \/ i.status = j.status
               \/ /\ i.status = "committed" /\ ToolOf(id) \in Sides => Exec(id) \in world
                  /\ j.run = run /\ j.id = id
  <2>1. CASE UNCHANGED intents
    BY <2>1 DEF RecordsTyped
  <2>2. CASE Mark({id}, "reconciling")
    BY <2>2, MarkKeepsIntents DEF RecordsTyped
  <2>3. CASE Mark({id}, "committed") /\ (ToolOf(id) \in Sides => Exec(id) \in world)
    BY <2>3, MarkKeepsIntents DEF RecordsTyped
  <2> QED BY <2>1, <2>2, <2>3
<1>2. Shape' /\ FreshIds' /\ NoConflicts' /\ OfThisRun' /\ GrantsGiven'
  BY <1>1, CallStep
<1>3. \A n \in Ids : ToolOf(n)' = ToolOf(n) /\ Exec(n)' = Exec(n)
  BY SameBatch DEF Exec
<1>4. job \in [Ids -> JobStates]
  BY DEF Shape
<1>5. Progress'
  <2>1. job'[id] = s /\ \A n \in Ids \ {id} : job'[n] = job[n]
    BY <1>4
  <2> QED BY <1>1, <1>3, <2>1 DEF Progress
<1>6. ExecutionsAccounted'
  <2>1. \A w \in world' : w.tool \in Sides => w \in {Of(i) : i \in intents'}
    BY <1>1 DEF ExecutionsAccounted, IntentsTellTruth
  <2>2. ASSUME NEW i \in intents', i.status = "committed" PROVE Of(i) \in world'
    <3>1. PICK j \in intents : /\ Of(i) = Of(j)
            /\ \/ j.status = "committed"
               \/ j.run = run /\ j.id = id /\ (ToolOf(id) \in Sides => Exec(id) \in world)
      BY <1>1, <2>2
    <3>2. CASE j.status = "committed"
      BY <3>1, <3>2 DEF ExecutionsAccounted, IntentsTellTruth
    <3>3. CASE j.run = run /\ j.id = id /\ (ToolOf(id) \in Sides => Exec(id) \in world)
      <4>1. j.tool = ToolOf(id)
        BY <3>3, CallAtWork DEF OfThisRun
      <4>2. j.tool \in Sides
        BY DEF RecordsTyped
      <4> QED BY <3>1, <3>3, <4>1, <4>2 DEF Of, Exec
    <3> QED BY <3>1, <3>2, <3>3
  <2>3. IntentsTellTruth'
    BY <2>1, <2>2 DEF IntentsTellTruth
  <2>4. EveryExecutionPermitted'
    BY DEF ExecutionsAccounted, EveryExecutionPermitted
  <2> QED BY <2>3, <2>4 DEF ExecutionsAccounted
<1> QED BY <1>1, <1>2, <1>5, <1>6

LEMMA TakeAnswerKeeps == ASSUME RunInv, NEW id \in Ids, TakeAnswer(id) PROVE RunInv'
<1> USE DEF RunInv
<1>1. job \in [Ids -> JobStates] /\ job[id] = "waiting" /\ job[id] # None /\ run \in Nat
  BY DEF TakeAnswer, Shape, None
<1>2. UNCHANGED <<pc, todo, run, made, asked, granted, permits, done, world>>
  BY DEF TakeAnswer
<1>3. \/ UNCHANGED <<job, intents>>
      \/ granted[id] = ToolOf(id) /\ job' = [job EXCEPT ![id] = "running"] /\ UNCHANGED intents
      \/ job' = [job EXCEPT ![id] = "denied"] /\ Mark({id}, "reconciling")
  BY DEF TakeAnswer
<1>4. CASE UNCHANGED <<job, intents>>
  <2>1. job' = [job EXCEPT ![id] = "waiting"]
    BY <1>1, <1>4
  <2>2. Batch' = Batch /\ Planned' = Planned /\ \A n \in Ids : ToolOf(n)' = ToolOf(n)
    BY <1>2, SameBatch
  <2>3. Shape' /\ FreshIds' /\ NoConflicts' /\ OfThisRun' /\ GrantsGiven' /\ RecordsTyped'
    BY <1>2, <1>4, <2>2
       DEF Shape, FreshIds, NoConflicts, OfThisRun, GrantsGiven, RecordsTyped
  <2>4. Progress' /\ ExecutionsAccounted'
    BY <1>2, <1>4, <2>2
       DEF Progress, Exec, ExecutionsAccounted, IntentsTellTruth, EveryExecutionPermitted
  <2> QED BY <2>3, <2>4
<1>5. CASE granted[id] = ToolOf(id) /\ job' = [job EXCEPT ![id] = "running"] /\ UNCHANGED intents
  <2>1. ToolOf(id) \in Tools /\ [id |-> id, tool |-> ToolOf(id)] \in Planned
    BY <1>1, CallAtWork
  <2>2. ToolOf(id) # None
    BY <2>1, RunnerConstants
  <2>3. PICK r \in 0 .. run : [run |-> r, id |-> id, tool |-> ToolOf(id)] \in permits
    BY <1>5, <2>2 DEF GrantsGiven
  <2>4. r = run
    BY <2>1, <2>3 DEF OfThisRun
  <2>5. Exec(id) \in permits
    BY <2>3, <2>4 DEF Exec
  <2>6. "running" \in JobStates
    BY DEF JobStates
  <2> QED BY <1>1, <1>2, <1>5, <2>5, <2>6, CallMoves
<1>6. CASE job' = [job EXCEPT ![id] = "denied"] /\ Mark({id}, "reconciling")
  <2>1. "denied" \in JobStates
    BY DEF JobStates, Ended
  <2> QED BY <1>1, <1>2, <1>6, <2>1, CallMoves
<1> QED BY <1>3, <1>4, <1>5, <1>6

LEMMA ActKeeps ==
  ASSUME RunInv, NEW id \in Ids, Act(id)
  PROVE  RunInv' /\ \A w \in world' \ world : <<w.run, w.tool>> \notin done
<1> USE DEF RunInv
<1>1. job[id] = "running" /\ job[id] # None /\ "acted" \in JobStates
  BY DEF Act, None, JobStates
<1>2. /\ UNCHANGED <<pc, todo, run, made, asked, granted, permits, done, intents>>
      /\ job' = [job EXCEPT ![id] = "acted"]
  BY DEF Act
<1>3. world' = IF ToolOf(id) \in Reads THEN world ELSE world \cup {Exec(id)}
  BY DEF Act, Exec
<1>4. Exec(id).tool = ToolOf(id) /\ Exec(id).run = run
  BY DEF Exec
<1>5. \A w \in world' \ world : /\ w = Exec(id)
                                /\ w.tool \in Sides => w \in {Of(i) : i \in intents}
                                /\ w.tool \in Risky => w \in permits
  BY <1>1, <1>3, <1>4 DEF Progress
<1>6. RunInv'
  <2>1. ToolOf(id) \notin Reads => Exec(id) \in world'
    BY <1>3
  <2> QED BY <1>1, <1>2, <1>3, <1>5, <2>1, CallMoves
<1>7. <<run, ToolOf(id)>> \notin done
  <2>1. CASE ToolOf(id) \in Submits
    BY <1>1, <2>1 DEF Progress
  <2>2. CASE ToolOf(id) \notin Submits
    BY <2>2 DEF RecordsTyped
  <2> QED BY <2>1, <2>2
<1> QED BY <1>4, <1>5, <1>6, <1>7

LEMMA CommitKeeps == ASSUME RunInv, NEW id \in Ids, Commit(id) PROVE RunInv'
<1>1. job[id] = "acted" /\ job[id] # None /\ "committed" \in JobStates
  BY DEF Commit, None, JobStates
<1>2. ToolOf(id) \in Sides => Exec(id) \in world
  <2>1. Sides \cap Reads = {}
    BY Constants
  <2> QED BY <1>1, <2>1 DEF RunInv, Progress
<1>3. /\ UNCHANGED <<pc, todo, run, made, asked, granted, permits, done, world>>
      /\ job' = [job EXCEPT ![id] = "committed"] /\ Mark({id}, "committed")
  BY DEF Commit
<1> QED BY <1>1, <1>2, <1>3, CallMoves

LEMMA FailKeeps == ASSUME RunInv, NEW id \in Ids, Fail(id) PROVE RunInv'
<1>1. job[id] # None /\ "fail" \in JobStates
  BY DEF Fail, None, JobStates, Ended
<1>2. /\ UNCHANGED <<pc, todo, run, made, asked, granted, permits, done, world>>
      /\ job' = [job EXCEPT ![id] = "fail"] /\ Mark({id}, "reconciling")
  BY DEF Fail
<1> QED BY <1>1, <1>2, CallMoves

\* Recording a submission disturbs no other call: one that writes is alone.
LEMMA RecordKeeps == ASSUME RunInv, NEW id \in Ids, Record(id) PROVE RunInv'
<1> USE DEF RunInv
<1>1. job \in [Ids -> JobStates] /\ job[id] # None /\ "ok" \in JobStates /\ run \in Nat
  BY DEF Record, None, JobStates, Ended, Shape
<1>2. /\ UNCHANGED <<pc, todo, run, made, asked, granted, permits, intents, world>>
      /\ job' = [job EXCEPT ![id] = "ok"]
      /\ done' = IF ToolOf(id) \in Submits THEN done \cup {<<run, ToolOf(id)>>} ELSE done
  BY DEF Record
<1>3. RecordsTyped'
  BY <1>1, <1>2 DEF RecordsTyped
<1>4. Shape' /\ FreshIds' /\ NoConflicts' /\ OfThisRun' /\ GrantsGiven'
  BY <1>1, <1>2, <1>3, CallStep
<1>5. ASSUME NEW n \in Ids, n # id, job[n] # None, ToolOf(id) \in Submits
      PROVE  ToolOf(n) # ToolOf(id)
  <2>1. todo # <<>> /\ Batch = todo[1] /\ 1 \in DOMAIN todo
    BY <1>1, CallAtWork DEF Batch, Shape
  <2>2. /\ [id |-> id, tool |-> ToolOf(id)] \in Batch
        /\ [id |-> n, tool |-> ToolOf(n)] \in Batch
    BY <1>1, <1>5, CallAtWork
  <2>3. ~Conflict([id |-> id, tool |-> ToolOf(id)], [id |-> n, tool |-> ToolOf(n)])
    BY <1>5, <2>1, <2>2 DEF NoConflicts
  <2>4. ToolOf(id) \in Reads
    BY <2>3 DEF Conflict
  <2> QED BY <1>5, <2>4, Constants
<1>6. Progress'
  <2>1. \A n \in Ids : ToolOf(n)' = ToolOf(n) /\ Exec(n)' = Exec(n)
    BY <1>2, SameBatch DEF Exec
  <2>2. job'[id] = "ok" /\ \A n \in Ids \ {id} : job'[n] = job[n]
    BY <1>1, <1>2
  <2>3. ASSUME NEW n \in Ids, n # id, job[n] \in {"waiting", "running"},
               ToolOf(n) \in Submits
        PROVE  <<run, ToolOf(n)>> \notin done'
    <3>1. job[n] # None
      BY <2>3 DEF None
    <3>2. <<run, ToolOf(n)>> \notin done
      BY <2>3 DEF Progress
    <3> QED BY <1>2, <1>5, <2>3, <3>1, <3>2
  <2> QED BY <1>2, <2>1, <2>2, <2>3 DEF Progress
<1>7. ExecutionsAccounted'
  BY <1>2 DEF ExecutionsAccounted, IntentsTellTruth, EveryExecutionPermitted
<1> QED BY <1>3, <1>4, <1>6, <1>7

-----------------------------------------------------------------------------
(* The batches *)

\* The first batch of bs begins: the calls of bs are new, or were planned before.
LEMMA BatchBegins ==
  ASSUME RunInv, NEW bs \in Seq(SUBSET Calls), bs # <<>>, BeginBatch(bs),
         made' \in Nat, made' >= made, pc' = "batch",
         UNCHANGED <<run, granted, permits, intents, done, world>>,
         \A k \in DOMAIN bs : \A c \in bs[k] :
             /\ c.id <= made'
             /\ \A p \in permits : p.id = c.id => p.run = run
             /\ \A i \in intents : i.id = c.id => i.run = run /\ i.tool = c.tool
             /\ \A l \in DOMAIN bs : \A d \in bs[l] : c.id = d.id => c = d,
         \A k \in DOMAIN bs : \A c, d \in bs[k] : c # d => ~Conflict(c, d)
  PROVE  RunInv'
<1> USE DEF RunInv
<1>1. todo' = bs /\ Batch' = bs[1] /\ 1 \in DOMAIN bs /\ made \in Nat
  BY DEF BeginBatch, Batch, Shape
<1>2. \A c \in Planned' : \E k \in DOMAIN bs : c \in bs[k]
  BY <1>1 DEF Planned
<1>3. job' = [id \in Ids |-> IF \E c \in bs[1] : c.id = id THEN "new" ELSE None]
  BY <1>1 DEF BeginBatch
<1>4. asked' \subseteq asked \cup bs[1] /\ bs[1] \subseteq Calls
  BY <1>1 DEF BeginBatch
<1>5. Shape'
  <2>1. job' \in [Ids -> JobStates]
    BY <1>3 DEF JobStates
  <2>2. \A id \in Ids : job'[id] # None => \E c \in bs[1] : c.id = id
    BY <1>3
  <2> QED BY <1>1, <1>4, <2>1, <2>2 DEF Shape
<1>6. FreshIds'
  <2>1. \A c \in asked' : c.id <= made'
    <3>1. \A c \in asked : c.id \in Int /\ c.id <= made
      BY DEF FreshIds, Shape, Calls, Ids
    <3> QED BY <1>1, <1>4, <3>1
  <2>2. \A x \in permits' \cup intents' : x.id <= made'
    <3>1. \A x \in permits \cup intents : x.id \in Int /\ x.id <= made
      BY DEF FreshIds, RecordsTyped, Ids
    <3> QED BY <1>1, <3>1
  <2> QED BY <1>2, <2>1, <2>2 DEF FreshIds
<1>7. NoConflicts' /\ OfThisRun'
  BY <1>1, <1>2 DEF NoConflicts, OfThisRun
<1>8. GrantsGiven' /\ RecordsTyped'
  BY DEF GrantsGiven, RecordsTyped
<1>9. Progress'
  BY <1>3 DEF Progress, None
<1>10. ExecutionsAccounted'
  BY DEF ExecutionsAccounted, IntentsTellTruth, EveryExecutionPermitted
<1> QED BY <1>5, <1>6, <1>7, <1>8, <1>9, <1>10

\* A Run that ends leaves nothing at work.
LEMMA EndSavedKeeps ==
  ASSUME RunInv, NEW h, EndSaved(h), made' \in Nat, made' >= made,
         UNCHANGED <<run, granted, permits, intents, done, world>>
  PROVE  RunInv'
<1>1. RecordsTyped' /\ IntentsTellTruth' /\ {Of(i) : i \in intents'} = {Of(i) : i \in intents}
  BY DEF RunInv, RecordsTyped, ExecutionsAccounted, IntentsTellTruth
<1>2. todo' = <<>> /\ job' = NoJobs /\ asked' \subseteq asked
  BY DEF EndSaved
<1> QED BY <1>1, <1>2, NothingAtWork

LEMMA ModelCallsKeeps == ASSUME RunInv, NEW tools \in ToolLists, ModelCalls(tools) PROVE RunInv'
<1> USE DEF RunInv
<1> DEFINE calls == [n \in DOMAIN tools |-> [id |-> made + n, tool |-> tools[n]]]
<1>1. PICK size \in 1 .. MaxCalls : tools \in [1 .. size -> Tools]
  BY DEF ToolLists
<1>2. MaxCalls \in Nat /\ made \in Nat /\ MaxIds \in Nat
  BY RunnerConstants DEF Shape
<1>3. tools \in Seq(Tools) /\ DOMAIN tools = 1 .. Len(tools) /\ Len(tools) \in Nat
  BY <1>1, <1>2
<1>4. made + Len(tools) \in 1 .. MaxIds /\ made' = made + Len(tools)
  BY DEF ModelCalls, Ids
<1>5. \A n \in DOMAIN tools : calls[n] \in Calls /\ calls[n].id = made + n
  BY <1>2, <1>3, <1>4 DEF Calls, Ids
<1>6. calls \in Seq(Calls) /\ DOMAIN calls = DOMAIN tools
  BY <1>3, <1>5
<1>7. UNCHANGED <<run, granted, permits, intents, done, world>> /\ made' \in Nat /\ made' >= made
  BY <1>2, <1>3, <1>4 DEF ModelCalls
<1>8. \/ \E h : EndSaved(h)
      \/ pc' = "batch" /\ \E plan \in PlanBatches(calls) : BeginBatch(plan)
  BY DEF ModelCalls
<1> HIDE DEF calls
<1>9. CASE \E h : EndSaved(h)
  BY <1>7, <1>9, EndSavedKeeps
<1>10. CASE pc' = "batch" /\ \E plan \in PlanBatches(calls) : BeginBatch(plan)
  <2>1. PICK plan \in PlanBatches(calls) : BeginBatch(plan)
    BY <1>10
  <2>2. /\ plan \in Seq(SUBSET Calls) /\ plan # <<>>
        /\ \A k \in DOMAIN plan : \A c \in plan[k] : \E n \in DOMAIN calls : c = calls[n]
        /\ \A k \in DOMAIN plan : \A c, d \in plan[k] : c # d => ~Conflict(c, d)
    BY <1>6, PlanHoldsCalls
  <2>3. ASSUME NEW k \in DOMAIN plan, NEW c \in plan[k]
        PROVE  /\ c.id <= made' /\ c.id > made
               /\ \E n \in DOMAIN tools : c = calls[n] /\ c.id = made + n
    BY <1>2, <1>3, <1>4, <1>5, <1>6, <2>2
  <2>4. \A x \in permits \cup intents : x.id \in Int /\ x.id <= made
    BY DEF FreshIds, RecordsTyped, Ids
  <2>5. \A k \in DOMAIN plan : \A c \in plan[k] :
             /\ c.id <= made'
             /\ \A p \in permits : p.id # c.id
             /\ \A i \in intents : i.id # c.id
    BY <1>2, <2>3, <2>4
  <2>6. \A k, l \in DOMAIN plan : \A c \in plan[k], d \in plan[l] : c.id = d.id => c = d
    BY <1>2, <1>3, <2>3
  <2> QED BY <1>7, <1>10, <2>1, <2>2, <2>5, <2>6, BatchBegins
<1> QED BY <1>8, <1>9, <1>10

LEMMA FinishBatchKeeps == ASSUME RunInv, FinishBatch PROVE RunInv'
<1> USE DEF RunInv
<1>1. UNCHANGED <<run, granted, permits, intents, done, world, made>> /\ made \in Nat
  BY DEF FinishBatch, Shape
<1>2. \/ Len(todo) > 1 /\ BeginBatch(Tail(todo)) /\ pc' = "batch"
      \/ \E h : EndSaved(h)
      \/ todo' = <<>> /\ job' = NoJobs /\ UNCHANGED asked
  BY DEF FinishBatch
<1>3. CASE Len(todo) > 1 /\ BeginBatch(Tail(todo)) /\ pc' = "batch"
  <2>1. todo \in Seq(SUBSET Calls)
    BY DEF Shape
  <2>2. Tail(todo) \in Seq(SUBSET Calls) /\ Tail(todo) # <<>>
    <3>1. Tail(todo) \in Seq(SUBSET Calls) /\ Len(Tail(todo)) > 0
      BY <1>3, <2>1
    <3> QED BY <3>1, EmptySeq
  <2>3. \A k \in DOMAIN Tail(todo) : k + 1 \in DOMAIN todo /\ Tail(todo)[k] = todo[k + 1]
    BY <1>3, <2>1
  <2>4. \A k \in DOMAIN Tail(todo) : \A c \in Tail(todo)[k] : c \in Planned
    BY <2>3 DEF Planned
  <2>5. \A k \in DOMAIN Tail(todo) : \A c \in Tail(todo)[k] :
             /\ c.id <= made'
             /\ \A p \in permits : p.id = c.id => p.run = run
             /\ \A i \in intents : i.id = c.id => i.run = run /\ i.tool = c.tool
             /\ \A l \in DOMAIN Tail(todo) : \A d \in Tail(todo)[l] : c.id = d.id => c = d
    BY <1>1, <2>4 DEF FreshIds, OfThisRun
  <2>6. \A k \in DOMAIN Tail(todo) : \A c, d \in Tail(todo)[k] : c # d => ~Conflict(c, d)
    BY <2>3 DEF NoConflicts
  <2>7. made' \in Nat /\ made' >= made
    BY <1>1
  <2> QED BY <1>1, <1>3, <2>2, <2>5, <2>6, <2>7, BatchBegins
<1>4. CASE \E h : EndSaved(h)
  BY <1>1, <1>4, EndSavedKeeps
<1>5. CASE todo' = <<>> /\ job' = NoJobs /\ UNCHANGED asked
  <2>1. RecordsTyped' /\ IntentsTellTruth'
    BY <1>1 DEF RecordsTyped, ExecutionsAccounted, IntentsTellTruth
  <2> QED BY <1>1, <1>5, <2>1, NothingAtWork
<1> QED BY <1>2, <1>3, <1>4, <1>5

-----------------------------------------------------------------------------
(* The user and the machine *)

LEMMA AnswerKeeps ==
  ASSUME RunInv, NEW call \in Calls, NEW ok \in BOOLEAN, Answer(call, ok) PROVE RunInv'
<1> USE DEF RunInv
<1> DEFINE permit == [run |-> run, id |-> call.id, tool |-> call.tool]
<1>1. /\ UNCHANGED <<run, pc, todo, job, intents, done, made, world>>
      /\ call \in asked /\ asked' \subseteq asked
      /\ granted' = IF ok THEN [granted EXCEPT ![call.id] = call.tool] ELSE granted
      /\ permits' = IF ok THEN permits \cup {permit} ELSE permits
  BY DEF Answer
<1>2. Batch' = Batch /\ Planned' = Planned /\ \A n \in Ids : ToolOf(n)' = ToolOf(n)
  BY <1>1, SameBatch
<1>3. call.id \in Ids /\ call.tool \in Tools /\ run \in Nat /\ permit \in permits \cup {permit}
  BY DEF Calls, Shape
<1>4. Shape' /\ NoConflicts' /\ RecordsTyped'
  BY <1>1, <1>2, <1>3 DEF Shape, NoConflicts, RecordsTyped
<1>5. FreshIds' /\ OfThisRun'
  BY <1>1, <1>2 DEF FreshIds, OfThisRun
<1>6. GrantsGiven'
  <2>1. granted \in [Ids -> Tools \cup {None}] /\ run \in 0 .. run
    BY <1>3 DEF Shape
  <2>2. ASSUME NEW id \in Ids, granted'[id] # None
        PROVE  \E r \in 0 .. run : [run |-> r, id |-> id, tool |-> granted'[id]] \in permits'
    <3>1. CASE ok /\ id = call.id
      BY <1>1, <1>3, <2>1, <3>1
    <3>2. CASE ~(ok /\ id = call.id)
      <4>1. granted'[id] = granted[id] /\ permits \subseteq permits'
        BY <1>1, <2>1, <3>2
      <4> QED BY <2>2, <4>1 DEF GrantsGiven
    <3> QED BY <3>1, <3>2
  <2> QED BY <1>1, <2>2 DEF GrantsGiven
<1>7. Progress' /\ ExecutionsAccounted'
  BY <1>1, <1>2
     DEF Progress, Exec, ExecutionsAccounted, IntentsTellTruth, EveryExecutionPermitted
<1> QED BY <1>4, <1>5, <1>6, <1>7

\* Steps that touch none of the calls and none of the records.
LEMMA OthersKeep ==
  ASSUME RunInv, UNCHANGED <<todo, job, run, made, granted, permits, intents, done, world>>,
         asked' \subseteq asked, pc' = pc \/ pc # "batch"
  PROVE  RunInv'
<1> USE DEF RunInv
<1>1. Batch' = Batch /\ Planned' = Planned /\ \A n \in Ids : ToolOf(n)' = ToolOf(n)
  BY SameBatch
<1>2. Shape' /\ FreshIds' /\ NoConflicts' /\ OfThisRun' /\ GrantsGiven' /\ RecordsTyped'
  BY <1>1 DEF Shape, FreshIds, NoConflicts, OfThisRun, GrantsGiven, RecordsTyped
<1>3. Progress' /\ ExecutionsAccounted'
  BY <1>1
     DEF Progress, Exec, ExecutionsAccounted, IntentsTellTruth, EveryExecutionPermitted
<1> QED BY <1>2, <1>3

LEMMA StartRunKeeps == ASSUME RunInv, StartRun PROVE RunInv'
<1> USE DEF RunInv
<1>1. /\ UNCHANGED <<todo, job, asked, made, granted, permits, intents, done, world>>
      /\ pc = "idle" /\ run' = run + 1
  BY DEF StartRun
<1>2. todo = <<>> /\ made \in Nat
  BY <1>1 DEF Shape
<1>3. job = NoJobs
  <2>1. \A id \in Ids : job[id] = None
    BY <1>2 DEF Shape, Batch
  <2> QED BY <2>1 DEF Shape, NoJobs
<1>4. RecordsTyped' /\ IntentsTellTruth' /\ {Of(i) : i \in intents'} = {Of(i) : i \in intents}
  BY <1>1 DEF RecordsTyped, ExecutionsAccounted, IntentsTellTruth
<1> QED BY <1>1, <1>2, <1>3, <1>4, NothingAtWork

LEMMA CancelTaskKeeps == ASSUME RunInv, CancelTask PROVE RunInv'
<1> USE DEF RunInv
<1>1. /\ UNCHANGED <<run, made, granted, permits, done, world>> /\ made \in Nat
      /\ todo' = <<>> /\ job' = NoJobs /\ asked' = {}
  BY DEF CancelTask, Shape
<1>2. PICK S : Mark(S, "reconciling")
  BY DEF CancelTask
<1>3. \A i \in intents' : i.status = "committed" =>
            \E j \in intents : Of(i) = Of(j) /\ j.status = "committed"
  BY <1>2, MarkKeepsIntents
<1>4. RecordsTyped' /\ {Of(i) : i \in intents'} = {Of(i) : i \in intents}
  BY <1>1, <1>2, MarkKeepsIntents DEF RecordsTyped
<1>5. IntentsTellTruth'
  <2>1. \A w \in world' : w.tool \in Sides => w \in {Of(i) : i \in intents'}
    BY <1>1, <1>4 DEF ExecutionsAccounted, IntentsTellTruth
  <2>2. ASSUME NEW i \in intents', i.status = "committed" PROVE Of(i) \in world'
    <3>1. PICK j \in intents : Of(i) = Of(j) /\ j.status = "committed"
      BY <1>3, <2>2
    <3>2. Of(j) \in world
      BY <3>1 DEF ExecutionsAccounted, IntentsTellTruth
    <3> QED BY <1>1, <3>1, <3>2
  <2> QED BY <2>1, <2>2 DEF IntentsTellTruth
<1>6. made' \in Nat /\ made' >= made /\ asked' \subseteq asked
  BY <1>1
<1> QED BY <1>1, <1>4, <1>5, <1>6, NothingAtWork

LEMMA CrashKeeps == ASSUME RunInv, Crash PROVE RunInv'
<1>1. /\ UNCHANGED <<run, made, permits, intents, done, world>> /\ made \in Nat
      /\ todo' = <<>> /\ job' = NoJobs /\ asked' = {}
      /\ granted' = [id \in Ids |-> None]
  BY DEF Crash, RunInv, Shape
<1>2. RecordsTyped' /\ IntentsTellTruth' /\ {Of(i) : i \in intents'} = {Of(i) : i \in intents}
  BY <1>1 DEF RunInv, RecordsTyped, ExecutionsAccounted, IntentsTellTruth
<1> QED BY <1>1, <1>2, NothingAtWork

-----------------------------------------------------------------------------
(* The specification *)

LEMMA InitRunInv == Init => RunInv
<1> SUFFICES ASSUME Init PROVE RunInv
  OBVIOUS
<1>1. Batch = {} /\ Planned = {} /\ DOMAIN todo = {}
  BY DEF Init, Batch, Planned
<1>2. Shape /\ FreshIds /\ NoConflicts
  BY <1>1 DEF Init, Shape, FreshIds, NoConflicts, NoJobs, JobStates
<1>3. OfThisRun /\ GrantsGiven /\ RecordsTyped
  BY <1>1 DEF Init, OfThisRun, GrantsGiven, RecordsTyped
<1>4. Progress /\ ExecutionsAccounted
  BY DEF Init, Progress, NoJobs, None, ExecutionsAccounted, IntentsTellTruth,
         EveryExecutionPermitted
<1> QED BY <1>2, <1>3, <1>4 DEF RunInv

LEMMA StepRunInv == RunInv /\ [Next]_vars => RunInv'
<1> SUFFICES ASSUME RunInv, [Next]_vars PROVE RunInv'
  OBVIOUS
<1>1. CASE StartRun
  BY <1>1, StartRunKeeps
<1>2. CASE AskModel
  <2>1. CASE pc' = "model" /\ pc = "begun"
    BY <1>2, <2>1, OthersKeep DEF AskModel, EndSaved
  <2>2. CASE EndSaved(hist)
    BY <1>2, <2>2, EndSavedKeeps DEF AskModel, RunInv, Shape
  <2> QED BY <1>2, <2>1, <2>2 DEF AskModel
<1>3. CASE ModelSays
  BY <1>3, EndSavedKeeps DEF ModelSays, RunInv, Shape
<1>4. CASE ModelFails
  BY <1>4, OthersKeep DEF ModelFails
<1>5. CASE FinishBatch
  BY <1>5, FinishBatchKeeps
<1>6. ASSUME NEW tools \in ToolLists, ModelCalls(tools) PROVE RunInv'
  BY <1>6, ModelCallsKeeps
<1>7. ASSUME NEW id \in Ids,
             \/ StartCall(id) \/ TakeAnswer(id) \/ Act(id)
             \/ Commit(id) \/ Record(id) \/ Fail(id)
      PROVE  RunInv'
  BY <1>7, StartCallKeeps, TakeAnswerKeeps, ActKeeps, CommitKeeps, RecordKeeps, FailKeeps
<1>8. ASSUME NEW call \in Calls, Answer(call, TRUE) \/ Answer(call, FALSE) PROVE RunInv'
  BY <1>8, AnswerKeeps
<1>9. ASSUME NEW call \in Calls, Expire(call) PROVE RunInv'
  BY <1>9, OthersKeep DEF Expire
<1>10. CASE RequestCancel
  BY <1>10, OthersKeep DEF RequestCancel
<1>11. CASE CancelTask
  BY <1>11, CancelTaskKeeps
<1>12. CASE Crash
  BY <1>12, CrashKeeps
<1>13. CASE Restart
  BY <1>13, OthersKeep DEF Restart
<1>14. CASE UNCHANGED vars
  BY <1>14, OthersKeep DEF vars, memory
<1> QED BY <1>1, <1>2, <1>3, <1>4, <1>5, <1>6, <1>7, <1>8, <1>9, <1>10, <1>11, <1>12,
           <1>13, <1>14 DEF Next

\* Whatever the tools, the answers of the model and of the user, the cancels and the
\* crashes: a side effect that happened has its intent on disk, a committed intent
\* happened, and a risky execution has the user's permit for that very call
\* (_execute_with_intent in runner.py, wait_tool_permit in inbound.py).
THEOREM ExecutionsAreAccounted == Spec => []ExecutionsAccounted
<1>1. RunInv => ExecutionsAccounted
  BY DEF RunInv
<1> QED BY <1>1, InitRunInv, StepRunInv, PTL DEF Spec

\* Only Act reaches the outside.
LEMMA OthersDoNothingOutside ==
  ASSUME [Next]_vars, \A id \in Ids : ~Act(id) PROVE world' = world
<1>1. \A tools \in ToolLists : ModelCalls(tools) => world' = world
  BY DEF ModelCalls
<1>2. \A id \in Ids : StartCall(id) \/ TakeAnswer(id) \/ Commit(id) \/ Record(id) \/ Fail(id)
                        => world' = world
  BY DEF StartCall, TakeAnswer, Commit, Record, Fail
<1>3. \A call \in Calls : Answer(call, TRUE) \/ Answer(call, FALSE) \/ Expire(call)
                            => world' = world
  BY DEF Answer, Expire
<1>4. StartRun \/ AskModel \/ ModelSays \/ ModelFails \/ FinishBatch => world' = world
  BY DEF StartRun, AskModel, ModelSays, ModelFails, FinishBatch
<1>5. RequestCancel \/ CancelTask \/ Crash \/ Restart => world' = world
  BY DEF RequestCancel, CancelTask, Crash, Restart
<1>6. UNCHANGED vars => world' = world
  BY DEF vars
<1> QED BY <1>1, <1>2, <1>3, <1>4, <1>5, <1>6 DEF Next

\* A submission whose success is on record is not made again in its Run, however the
\* calls of its turns are batched and whatever was lost (IdempotencyStore, runner.py).
THEOREM RecordedSubmissionsOnce == Spec => RecordedNotRepeated
<1>1. RunInv /\ [Next]_vars => [\A w \in world' \ world : <<w.run, w.tool>> \notin done]_vars
  <2> SUFFICES ASSUME RunInv, [Next]_vars
               PROVE  \A w \in world' \ world : <<w.run, w.tool>> \notin done
    OBVIOUS
  <2>1. CASE \E id \in Ids : Act(id)
    BY <2>1, ActKeeps
  <2>2. CASE \A id \in Ids : ~Act(id)
    BY <2>2, OthersDoNothingOutside
  <2> QED BY <2>1, <2>2
<1> QED BY <1>1, InitRunInv, StepRunInv, PTL DEF Spec, RecordedNotRepeated

-----------------------------------------------------------------------------
(* What is kept of a sequence, in its order *)

\* Which element of K, counted from below, k is; and the n-th element of K.
Rank(K, k) == Cardinality({j \in K : j <= k})
Place(K, n) == CHOOSE k \in K : Rank(K, k) = n

LEMMA RankFacts ==
  ASSUME NEW K \in SUBSET Nat, IsFiniteSet(K)
  PROVE  /\ Cardinality(K) \in Nat
         /\ \A k \in K : Rank(K, k) \in 1 .. Cardinality(K)
         /\ \A k, l \in K : k < l => Rank(K, k) < Rank(K, l)
         /\ \A n \in 1 .. Cardinality(K) : \E k \in K : Rank(K, k) = n
<1> DEFINE Low(k) == {j \in K : j <= k}
<1>1. Cardinality(K) \in Nat
  BY FS_CardinalityType
<1>2. ASSUME NEW k \in K
      PROVE  /\ IsFiniteSet(Low(k)) /\ Cardinality(Low(k)) \in 1 .. Cardinality(K)
             /\ Rank(K, k) = Cardinality(Low(k))
  <2>1. Low(k) \in SUBSET K /\ k \in Low(k)
    OBVIOUS
  <2>2. IsFiniteSet(Low(k)) /\ Cardinality(Low(k)) <= Cardinality(K)
    BY <2>1, FS_Subset
  <2>3. Cardinality(Low(k)) \in Nat /\ Cardinality(Low(k)) # 0
    BY <2>1, <2>2, FS_CardinalityType, FS_EmptySet
  <2> QED
    BY <1>1, <2>2, <2>3 DEF Rank
<1>3. ASSUME NEW k \in K, NEW l \in K, k < l
      PROVE  Rank(K, k) < Rank(K, l)
  <2>0. k \in Nat /\ l \in Nat
    OBVIOUS
  <2>1. l \in Low(l) /\ l \notin Low(k)
    BY <1>3, <2>0
  <2>3. ASSUME NEW j \in Low(k) PROVE j \in Low(l)
    <3>1. j \in K /\ j \in Nat /\ j <= k
      OBVIOUS
    <3>2. j <= l
      BY <1>3, <2>0, <3>1
    <3> QED
      BY <3>1, <3>2
  <2>4. Low(k) \in SUBSET Low(l)
    BY <2>3
  <2>2. Cardinality(Low(k)) <= Cardinality(Low(l)) /\ Cardinality(Low(k)) # Cardinality(Low(l))
    BY <1>2, <2>1, <2>4, FS_Subset
  <2> QED
    BY <1>2, <2>2
<1> DEFINE f == [k \in K |-> Rank(K, k)]
<1>4. f \in Injection(K, 1 .. Cardinality(K))
  <2>1. f \in [K -> 1 .. Cardinality(K)]
    BY <1>2
  <2>2. \A k, l \in K : f[k] = f[l] => k = l
    <3> SUFFICES ASSUME NEW k \in K, NEW l \in K, k # l PROVE f[k] # f[l]
      OBVIOUS
    <3>1. k < l \/ l < k
      OBVIOUS
    <3>2. f[k] \in Nat /\ f[l] \in Nat /\ f[k] = Rank(K, k) /\ f[l] = Rank(K, l)
      BY <1>1, <2>1
    <3> QED
      BY <1>3, <3>1, <3>2
  <2> QED
    BY <2>1, <2>2 DEF Injection, IsInjective
<1>5. IsFiniteSet(1 .. Cardinality(K)) /\ Cardinality(1 .. Cardinality(K)) = Cardinality(K)
  BY <1>1, FS_Interval
<1>6. f \in Surjection(K, 1 .. Cardinality(K))
  BY <1>4, <1>5, FS_Injection
<1>7. ASSUME NEW n \in 1 .. Cardinality(K)
      PROVE  \E k \in K : Rank(K, k) = n
  BY <1>6 DEF Surjection
<1> QED
  BY <1>1, <1>2, <1>3, <1>7

\* The places of K are K itself, in its order.
LEMMA PlaceFacts ==
  ASSUME NEW K \in SUBSET Nat, IsFiniteSet(K)
  PROVE  /\ Cardinality(K) \in Nat
         /\ \A n \in 1 .. Cardinality(K) : Place(K, n) \in K
         /\ \A k \in K : \E n \in 1 .. Cardinality(K) : Place(K, n) = k
         /\ \A m, n \in 1 .. Cardinality(K) : Place(K, m) < Place(K, n) <=> m < n
<1>1. ASSUME NEW n \in 1 .. Cardinality(K)
      PROVE  Place(K, n) \in K /\ Rank(K, Place(K, n)) = n
  <2>1. \E k \in K : Rank(K, k) = n
    BY RankFacts
  <2> QED
    BY <2>1 DEF Place
<1>2. ASSUME NEW m \in 1 .. Cardinality(K), NEW n \in 1 .. Cardinality(K)
      PROVE  Place(K, m) < Place(K, n) <=> m < n
  <2>1. /\ Place(K, m) \in Nat /\ Place(K, n) \in Nat
        /\ Place(K, m) < Place(K, n) => m < n
        /\ Place(K, n) < Place(K, m) => n < m
    BY <1>1, RankFacts
  <2>2. Place(K, m) = Place(K, n) => m = n
    BY <1>1
  <2>3. m \in Nat /\ n \in Nat /\ Cardinality(K) \in Nat
    BY RankFacts
  <2> QED
    BY <2>1, <2>2, <2>3
<1>3. ASSUME NEW k \in K
      PROVE  \E n \in 1 .. Cardinality(K) : Place(K, n) = k
  <2> DEFINE n == Rank(K, k)
  <2>1. n \in 1 .. Cardinality(K)
    BY RankFacts
  <2>2. Place(K, n) \in K /\ Rank(K, Place(K, n)) = Rank(K, k)
    BY <1>1, <2>1
  <2>3. Place(K, n) = k
    <3>1. Place(K, n) \in Nat /\ k \in Nat
      BY <2>2
    <3>2. ~(Place(K, n) < k) /\ ~(k < Place(K, n))
      BY <2>2, <3>1, RankFacts
    <3> QED
      BY <3>1, <3>2
  <2> QED
    BY <2>1, <2>3
<1> QED
  BY <1>1, <1>2, <1>3, RankFacts

LEMMA AtFacts ==
  ASSUME NEW h, NEW K \in SUBSET Nat, IsFiniteSet(K)
  PROVE  /\ DOMAIN At(h, K) = 1 .. Cardinality(K) /\ Len(At(h, K)) = Cardinality(K)
         /\ \A n \in 1 .. Cardinality(K) : At(h, K)[n] = h[Place(K, n)]
<1>1. At(h, K) = [n \in 1 .. Cardinality(K) |-> h[Place(K, n)]]
  BY DEF At, Place, Rank
<1>2. Cardinality(K) \in Nat
  BY RankFacts
<1> QED
  BY <1>1, <1>2

-----------------------------------------------------------------------------
(* The repair of a conversation *)

\* A conversation: messages of the three roles.
Conversation(h) ==
  /\ Len(h) \in Nat /\ DOMAIN h = 1 .. Len(h)
  /\ \A i \in DOMAIN h : h[i].role \in {"user", "assistant", "tool"}

\* The rounds that are answered.
Whole(h) == {i \in DOMAIN h : h[i].role = "assistant" /\ RoundAnswered(h, i)}

LEMMA KeptFacts ==
  ASSUME NEW h, Conversation(h)
  PROVE  /\ Kept(h) \in SUBSET Nat /\ IsFiniteSet(Kept(h)) /\ Kept(h) \subseteq DOMAIN h
         /\ Whole(h) \subseteq Kept(h) /\ \A i \in Whole(h) : Answers(h, i) \subseteq Kept(h)
         /\ \A i \in Kept(h) : h[i].role = "assistant" => i \in Whole(h)
         /\ \A i \in Kept(h) : h[i].role = "tool" => \E k \in Whole(h) : i \in Answers(h, k)
<1>1. Kept(h) = {i \in DOMAIN h : h[i].role = "user"} \cup Whole(h)
                   \cup UNION {Answers(h, i) : i \in Whole(h)}
  BY DEF Kept, Whole
<1>2. ASSUME NEW k \in DOMAIN h, NEW j \in Answers(h, k)
      PROVE  j \in DOMAIN h /\ h[j].role = "tool"
  <2>1. j \in k + 1 .. Len(h) /\ \A n \in k + 1 .. j : h[n].role = "tool"
    BY DEF Answers, Following
  <2> QED
    BY <2>1 DEF Conversation
<1>3. Kept(h) \subseteq DOMAIN h
  BY <1>1, <1>2 DEF Whole
<1>4. IsFiniteSet(DOMAIN h) /\ DOMAIN h \subseteq Nat
  BY FS_Interval DEF Conversation
<1>5. Kept(h) \in SUBSET Nat /\ IsFiniteSet(Kept(h))
  BY <1>3, <1>4, FS_Subset
<1>6. \A i \in Whole(h) : h[i].role = "assistant" /\ i \in DOMAIN h
  BY DEF Whole
<1> QED
  BY <1>1, <1>2, <1>3, <1>5, <1>6

\* A result that answers a round stands behind its assistant, with results only between.
LEMMA AnswerStands ==
  ASSUME NEW h, Conversation(h), NEW k \in DOMAIN h, NEW j \in Answers(h, k)
  PROVE  /\ j \in DOMAIN h /\ k < j /\ h[j].id \in CallIds(h[k])
         /\ \A n \in DOMAIN h : k < n /\ n <= j => h[n].role = "tool"
<1>1. /\ j \in k + 1 .. Len(h) /\ \A n \in k + 1 .. j : h[n].role = "tool"
      /\ h[j].id \in CallIds(h[k])
  BY DEF Answers, Following
<1> QED
  BY <1>1 DEF Conversation

\* Whatever the conversation is, the provider is sent rounds that are whole.
LEMMA RepairIsWellFormed ==
  ASSUME NEW h, Conversation(h)
  PROVE  WellFormed(Repair(h))
<1> DEFINE K == Kept(h)
           g == Repair(h)
           c == Cardinality(K)
           p(n) == Place(K, n)
<1>1. /\ K \in SUBSET Nat /\ IsFiniteSet(K) /\ K \subseteq DOMAIN h
      /\ Whole(h) \subseteq K /\ \A i \in Whole(h) : Answers(h, i) \subseteq K
      /\ \A i \in K : h[i].role = "assistant" => i \in Whole(h)
      /\ \A i \in K : h[i].role = "tool" => \E k \in Whole(h) : i \in Answers(h, k)
  BY KeptFacts
<1>2. /\ c \in Nat /\ DOMAIN g = 1 .. c /\ Len(g) = c
      /\ \A n \in 1 .. c : g[n] = h[p(n)] /\ p(n) \in K
      /\ \A k \in K : \E n \in 1 .. c : p(n) = k
      /\ \A m, n \in 1 .. c : p(m) < p(n) <=> m < n
  BY <1>1, PlaceFacts, AtFacts DEF Repair
<1>3. /\ DOMAIN h \subseteq Nat /\ Whole(h) \subseteq DOMAIN h
      /\ \A k \in Whole(h) : h[k].role = "assistant" /\ RoundAnswered(h, k)
  BY DEF Whole, Conversation
<1> HIDE DEF K, g, c, p
\* A result that is kept follows its assistant in g too.
<1>4. ASSUME NEW n \in 1 .. c, NEW j \in 1 .. c, p(n) \in Whole(h), p(j) \in Answers(h, p(n))
      PROVE  j \in Following(g, n) /\ n < j
  <2>1. /\ p(n) < p(j) /\ \A m \in DOMAIN h : p(n) < m /\ m <= p(j) => h[m].role = "tool"
    BY <1>3, <1>4, AnswerStands
  <2>2. n < j
    BY <1>2, <2>1
  <2>3. ASSUME NEW m \in n + 1 .. j
        PROVE  g[m].role = "tool"
    <3>1. m \in 1 .. c /\ n < m /\ (m < j \/ m = j)
      BY <1>2, <2>3
    <3>2. p(n) < p(m) /\ (p(m) < p(j) \/ p(m) = p(j)) /\ p(m) \in K
      BY <1>2, <3>1
    <3>3. p(m) \in DOMAIN h /\ p(m) \in Nat /\ p(j) \in Nat
      BY <1>1, <1>2, <1>3, <3>2
    <3>4. p(m) <= p(j)
      BY <3>2, <3>3
    <3> QED
      BY <1>2, <2>1, <3>1, <3>2, <3>3, <3>4
  <2>4. j \in n + 1 .. Len(g)
    BY <1>2, <2>2
  <2> QED
    BY <2>2, <2>3, <2>4 DEF Following
<1>5. ASSUME NEW i \in 1 .. c, g[i].role = "assistant"
      PROVE  CallIds(g[i]) = {g[j].id : j \in Following(g, i)}
  <2>1. p(i) \in Whole(h) /\ g[i] = h[p(i)]
    BY <1>1, <1>2, <1>5
  <2>2. ASSUME NEW x \in CallIds(g[i])
        PROVE  x \in {g[j].id : j \in Following(g, i)}
    <3>1. PICK a \in Answers(h, p(i)) : h[a].id = x
      BY <1>3, <2>1 DEF RoundAnswered
    <3>2. PICK j \in 1 .. c : p(j) = a
      BY <1>1, <1>2, <2>1
    <3> QED
      BY <1>2, <1>4, <2>1, <3>1, <3>2
  <2>3. ASSUME NEW j \in Following(g, i)
        PROVE  g[j].id \in CallIds(g[i])
    <3>1. j \in 1 .. c /\ i < j /\ \A m \in i + 1 .. j : g[m].role = "tool"
      BY <1>2 DEF Following
    <3>2. g[j].role = "tool" /\ p(j) \in K /\ g[j] = h[p(j)]
      BY <1>2, <3>1
    <3>3. PICK k \in Whole(h) : p(j) \in Answers(h, k)
      BY <1>1, <3>2
    <3>4. /\ k < p(j) /\ h[p(j)].id \in CallIds(h[k])
          /\ \A m \in DOMAIN h : k < m /\ m <= p(j) => h[m].role = "tool"
      BY <1>3, <3>3, AnswerStands
    <3>5. PICK n \in 1 .. c : p(n) = k
      BY <1>1, <1>2
    <3>6. n < j /\ g[n].role = "assistant"
      BY <1>2, <1>3, <3>1, <3>4, <3>5
    <3>7. ~(i < n)
      <4>1. n \notin i + 1 .. j
        <5>1. "tool" # "assistant"
          OBVIOUS
        <5> QED
          BY <3>1, <3>6, <5>1
      <4>2. n \in Nat /\ i \in Nat /\ j \in Nat
        BY <1>2, <3>1, <3>5
      <4> QED
        BY <3>6, <4>1, <4>2
    <3>8. ~(n < i)
      <4> SUFFICES ASSUME n < i PROVE FALSE
        OBVIOUS
      <4>1. k < p(i) /\ p(i) < p(j)
        BY <1>2, <3>1, <3>5
      <4>2. p(i) \in DOMAIN h /\ p(i) \in Nat /\ p(j) \in Nat
        BY <1>1, <1>2, <1>3, <2>1, <3>2
      <4>3. h[p(i)].role = "tool"
        BY <3>4, <4>1, <4>2
      <4> QED
        BY <1>3, <2>1, <4>3
    <3>9. n = i
      BY <3>7, <3>8
    <3> QED
      BY <2>1, <3>2, <3>4, <3>5, <3>9
  <2> QED
    BY <2>2, <2>3
<1>6. ASSUME NEW i \in 1 .. c, g[i].role = "tool"
      PROVE  \E k \in 1 .. i - 1 : g[k].role = "assistant" /\ i \in Following(g, k)
  <2>1. p(i) \in K /\ g[i] = h[p(i)]
    BY <1>2
  <2>2. PICK k \in Whole(h) : p(i) \in Answers(h, k)
    BY <1>1, <1>6, <2>1
  <2>3. PICK n \in 1 .. c : p(n) = k
    BY <1>1, <1>2
  <2>4. i \in Following(g, n) /\ n < i
    BY <1>4, <2>2, <2>3
  <2>5. g[n].role = "assistant"
    BY <1>2, <1>3, <2>3
  <2>6. n \in 1 .. i - 1
    BY <2>4
  <2> QED
    BY <2>4, <2>5, <2>6
<1> QED
  BY <1>2, <1>5, <1>6 DEF WellFormed, g

\* A set of numbers that is not empty has a least element.
LEMMA LeastOf ==
  ASSUME NEW B \in SUBSET Nat, B # {}
  PROVE  \E m \in B : \A k \in B : m <= k
<1>1. PICK m \in B : \A k \in B : ~(<<k, m>> \in OpToRel(<, Nat))
  BY WFMin, NatLessThanWellFounded
<1>2. \A a, b \in Nat : a < b => <<a, b>> \in OpToRel(<, Nat)
  BY DEF OpToRel
<1>3. \A k \in B : ~(k < m)
  BY <1>1, <1>2
<1>4. \A k \in B : m <= k
  BY <1>3
<1> QED
  BY <1>4

\* The sequences of q joined up to the i-th.
Joins(f, q, i) == f[i] = IF i = 1 THEN q[i] ELSE f[i - 1] \o q[i]

LEMMA JoinsExist ==
  ASSUME NEW S, NEW q \in Seq(Seq(S))
  PROVE  \E f \in [1 .. Len(q) -> Seq(S)] : \A i \in 1 .. Len(q) : Joins(f, q, i)
<1> DEFINE n == Len(q)
           Good(m) == \E f \in [1 .. m -> Seq(S)] : \A i \in 1 .. m : Joins(f, q, i)
           B == {m \in 0 .. n : ~Good(m)}
<1>1. n \in Nat /\ \A i \in 1 .. n : q[i] \in Seq(S)
  OBVIOUS
<1>0. n \in 0 .. n /\ (Good(n) => \E f \in [1 .. Len(q) -> Seq(S)] : \A i \in 1 .. Len(q) : Joins(f, q, i))
  BY <1>1
<1> HIDE DEF n
<1> SUFFICES ASSUME B # {} PROVE FALSE
  <2>1. B = {} => Good(n)
    BY <1>0
  <2> QED
    BY <1>0, <2>1
<1>2. PICK m \in B : \A k \in B : m <= k
  <2>1. B \in SUBSET Nat
    BY <1>1
  <2> HIDE DEF B
  <2> QED
    BY <2>1, LeastOf
<1>3. m \in 0 .. n /\ ~Good(m)
  BY <1>2
<1>4. m # 0
  <2> SUFFICES ASSUME m = 0 PROVE FALSE
    OBVIOUS
  <2>1. [i \in 1 .. m |-> <<>>] \in [1 .. m -> Seq(S)]
    BY EmptySeq
  <2>2. \A i \in 1 .. m : FALSE
    OBVIOUS
  <2> QED
    BY <1>3, <2>1, <2>2
<1>5. m - 1 \in 0 .. n /\ m \in 1 .. n /\ m \in Nat /\ ~(m <= m - 1)
  BY <1>1, <1>3, <1>4
<1>6. PICK f \in [1 .. m - 1 -> Seq(S)] : \A i \in 1 .. m - 1 : Joins(f, q, i)
  <2>1. m - 1 \notin B
    BY <1>2, <1>5
  <2> QED
    BY <1>5, <2>1
<1> DEFINE last == IF m = 1 THEN q[m] ELSE f[m - 1] \o q[m]
           g == [i \in 1 .. m |-> IF i = m THEN last ELSE f[i]]
<1>7. last \in Seq(S)
  <2>1. CASE m = 1
    BY <1>1, <1>5, <2>1
  <2>2. CASE m # 1
    <3>1. f[m - 1] \in Seq(S) /\ q[m] \in Seq(S)
      BY <1>1, <1>5, <2>2
    <3>2. f[m - 1] \o q[m] \in Seq(S)
      BY <3>1
    <3> QED
      BY <2>2, <3>2
  <2> QED
    BY <2>1, <2>2
<1> HIDE DEF last
<1>8. g \in [1 .. m -> Seq(S)]
  BY <1>5, <1>7
<1>9. g[m] = last /\ \A i \in 1 .. m - 1 : i # m /\ g[i] = f[i]
  BY <1>5
<1> HIDE DEF g
<1>10. \A i \in 1 .. m - 1 : Joins(g, q, i)
  <2> SUFFICES ASSUME NEW i \in 1 .. m - 1 PROVE Joins(g, q, i)
    OBVIOUS
  <2>1. i # 1 => i - 1 \in 1 .. m - 1
    BY <1>5
  <2> QED
    BY <1>6, <1>9, <2>1 DEF Joins
<1>11. Joins(g, q, m)
  <2>1. m # 1 => m - 1 \in 1 .. m - 1
    BY <1>5
  <2> QED
    BY <1>9, <2>1 DEF Joins, last
<1>12. \A i \in 1 .. m : i = m \/ i \in 1 .. m - 1
  BY <1>5
<1> QED
  BY <1>3, <1>8, <1>10, <1>11, <1>12

\* Joined are the elements of all of them.
LEMMA FlattenMembers ==
  ASSUME NEW S, NEW q \in Seq(Seq(S))
  PROVE  /\ FlattenSeq(q) \in Seq(S)
         /\ \A x : x \in ToSet(FlattenSeq(q)) <=> \E i \in 1 .. Len(q) : x \in ToSet(q[i])
<1> DEFINE n == Len(q)
           F == CHOOSE f : f = [i \in 1 .. Len(q) |-> IF i = 1 THEN q[i] ELSE f[i - 1] \o q[i]]
<1>1. n \in Nat /\ \A i \in 1 .. n : q[i] \in Seq(S)
  OBVIOUS
<1>2. CASE n = 0
  <2>1. q = <<>> /\ FlattenSeq(q) = <<>>
    BY <1>2, EmptySeq DEF FlattenSeq
  <2>2. ToSet(FlattenSeq(q)) = {}
    BY <2>1 DEF ToSet
  <2>3. <<>> \in Seq(S)
    BY EmptySeq
  <2>4. \A i \in 1 .. Len(q) : FALSE
    BY <1>2
  <2> QED
    BY <2>1, <2>2, <2>3, <2>4
<1>3. CASE n # 0
  <2>1. FlattenSeq(q) = F[n]
    BY <1>3 DEF FlattenSeq
  <2>2. PICK g \in [1 .. Len(q) -> Seq(S)] : \A i \in 1 .. Len(q) : Joins(g, q, i)
    BY JoinsExist
  <2>3. g = [i \in 1 .. Len(q) |-> IF i = 1 THEN q[i] ELSE g[i - 1] \o q[i]]
    BY <2>2 DEF Joins
  <2>4. F = [i \in 1 .. Len(q) |-> IF i = 1 THEN q[i] ELSE F[i - 1] \o q[i]]
    BY <2>3
  <2> HIDE DEF F
  <2>5. \A i \in 1 .. n : F[i] = IF i = 1 THEN q[i] ELSE F[i - 1] \o q[i]
    BY <2>4
  <2> HIDE DEF n
  <2> DEFINE Upto(i, x) == \E j \in 1 .. i : x \in ToSet(q[j])
             Good(i) == F[i] \in Seq(S) /\ \A x : x \in ToSet(F[i]) <=> Upto(i, x)
             B == {i \in 1 .. n : ~Good(i)}
  <2>6. B = {}
    <3> SUFFICES ASSUME B # {} PROVE FALSE
      OBVIOUS
    <3>1. PICK m \in B : \A k \in B : m <= k
      <4>1. B \in SUBSET Nat
        BY <1>1
      <4> HIDE DEF B
      <4> QED
        BY <4>1, LeastOf
    <3>2. m \in 1 .. n /\ ~Good(m) /\ q[m] \in Seq(S)
      BY <1>1, <3>1
    <3>3. m # 1
      <4> SUFFICES ASSUME m = 1 PROVE FALSE
        OBVIOUS
      <4>1. F[m] = q[m]
        BY <2>5, <3>2
      <4>2. \A x : Upto(m, x) <=> x \in ToSet(q[m])
        OBVIOUS
      <4> QED
        BY <3>2, <4>1, <4>2
    <3>4. m - 1 \in 1 .. n /\ ~(m <= m - 1) /\ m \in Nat
      BY <1>1, <3>2, <3>3
    <3>5. Good(m - 1)
      BY <3>1, <3>4
    <3>6. F[m] = F[m - 1] \o q[m]
      BY <2>5, <3>2, <3>3
    <3>7. F[m - 1] \in Seq(S) /\ \A x : x \in ToSet(F[m - 1]) <=> Upto(m - 1, x)
      BY <3>5
    <3> HIDE DEF Good, B
    <3>8. F[m] \in Seq(S)
      BY <3>2, <3>6, <3>7
    <3>9. \A x : x \in ToSet(F[m - 1] \o q[m]) <=> x \in ToSet(F[m - 1]) \/ x \in ToSet(q[m])
      <4> DEFINE a == F[m - 1]
                 b == q[m]
      <4>0. a \in Seq(S) /\ b \in Seq(S)
        BY <3>2, <3>7
      <4> HIDE DEF a, b
      <4>1. /\ Len(a) \in Nat /\ Len(b) \in Nat
            /\ DOMAIN (a \o b) = 1 .. Len(a) + Len(b)
            /\ \A i \in 1 .. Len(a) + Len(b) :
                  (a \o b)[i] = IF i <= Len(a) THEN a[i] ELSE b[i - Len(a)]
            /\ DOMAIN a = 1 .. Len(a) /\ DOMAIN b = 1 .. Len(b)
        BY <4>0
      <4>2. ASSUME NEW i \in 1 .. Len(a) PROVE i \in 1 .. Len(a) + Len(b) /\ (a \o b)[i] = a[i]
        BY <4>1
      <4>3. ASSUME NEW i \in 1 .. Len(b)
            PROVE  i + Len(a) \in 1 .. Len(a) + Len(b) /\ (a \o b)[i + Len(a)] = b[i]
        BY <4>1
      <4>4. ASSUME NEW i \in 1 .. Len(a) + Len(b)
            PROVE  \/ i \in 1 .. Len(a) /\ (a \o b)[i] = a[i]
                   \/ i - Len(a) \in 1 .. Len(b) /\ (a \o b)[i] = b[i - Len(a)]
        BY <4>1
      <4>5. ToSet(a \o b) = {(a \o b)[i] : i \in 1 .. Len(a) + Len(b)}
            /\ ToSet(a) = {a[i] : i \in 1 .. Len(a)} /\ ToSet(b) = {b[i] : i \in 1 .. Len(b)}
        BY <4>1 DEF ToSet
      <4>6. \A x : x \in ToSet(a \o b) <=> x \in ToSet(a) \/ x \in ToSet(b)
        BY <4>2, <4>3, <4>4, <4>5
      <4> QED
        BY <4>6 DEF a, b
    <3>10. \A x : Upto(m, x) <=> Upto(m - 1, x) \/ x \in ToSet(q[m])
      <4>1. \A j : j \in 1 .. m <=> j \in 1 .. m - 1 \/ j = m
        BY <3>4
      <4> QED
        BY <4>1
    <3>11. \A x : x \in ToSet(F[m]) <=> Upto(m, x)
      BY <3>6, <3>7, <3>9, <3>10
    <3> QED
      BY <3>2, <3>8, <3>11 DEF Good
  <2>7. n \in 1 .. n
    BY <1>1, <1>3
  <2>8. Good(n)
    BY <2>6, <2>7
  <2> QED
    BY <2>1, <2>8 DEF n
<1> QED
  BY <1>2, <1>3

\* Messages as they are made: only an assistant has calls.
Messages == {m \in Message : /\ m.role # "assistant" => m.calls = <<>>
                             /\ m.role = "tool" => m.id \in Ids}

\* The ids that occur in h, of calls and of results.
AllIds(h) == UNION {CallIds(h[i]) : i \in DOMAIN h}
Within(h, top) == \A i \in DOMAIN h :
                      /\ \A x \in CallIds(h[i]) : x <= top
                      /\ h[i].role = "tool" => h[i].id <= top

\* Up to n all rounds of h are answered and all results answer a round.
Settled(h, n) ==
    \A i \in 1 .. n :
        /\ h[i].role = "assistant" =>
             \A x \in CallIds(h[i]) : \E j \in 1 .. n : j \in Answers(h, i) /\ h[j].id = x
        /\ h[i].role = "tool" =>
             \E k \in 1 .. n : h[k].role = "assistant" /\ i \in Answers(h, k)

\* The last round of h still waits for the results of the calls open, and of no others.
OpenRound(h, open) ==
    \E a \in DOMAIN h :
        /\ h[a].role = "assistant" /\ Settled(h, a - 1)
        /\ \A j \in a + 1 .. Len(h) : h[j].role = "tool"
        /\ \A j, k \in a + 1 .. Len(h) : h[j].id = h[k].id => j = k
        /\ \A j \in a + 1 .. Len(h) : h[j].id \notin open
        /\ {h[j].id : j \in a + 1 .. Len(h)} \cup open = CallIds(h[a])

BatchesApart == \A k, l \in DOMAIN todo : k # l => todo[k] \cap todo[l] = {}

OpenIds == {c.id : c \in Planned}

HistInv ==
    /\ hist \in Seq(Messages) /\ disk \in Seq(Messages)
    /\ Within(hist, made) /\ Within(disk, made)
    /\ BatchesApart
    /\ ~torn => /\ Settled(disk, Len(disk))
                /\ IF pc = "batch" THEN OpenRound(hist, OpenIds)
                                   ELSE Settled(hist, Len(hist))

-----------------------------------------------------------------------------
(* Rounds *)

\* Messages make a conversation.
LEMMA MessagesTalk ==
  ASSUME NEW h \in Seq(Messages)
  PROVE  /\ Conversation(h) /\ Len(h) \in Nat /\ DOMAIN h = 1 .. Len(h)
         /\ \A i \in 1 .. Len(h) : h[i] \in Messages
<1>1. Len(h) \in Nat /\ DOMAIN h = 1 .. Len(h) /\ \A i \in 1 .. Len(h) : h[i] \in Messages
  OBVIOUS
<1>2. \A m \in Messages : m.role \in {"user", "assistant", "tool"}
  BY DEF Messages, Message
<1> QED
  BY <1>1, <1>2 DEF Conversation

\* Which results answer a round is settled by what stands up to them.
LEMMA AnswersOfPrefix ==
  ASSUME NEW g, NEW h, NEW n \in Nat, Len(g) \in Nat, Len(h) \in Nat, n <= Len(g), n <= Len(h),
         \A i \in 1 .. n : g[i] = h[i], NEW i \in 1 .. n, NEW j \in 1 .. n, j \in Answers(g, i)
  PROVE  j \in Answers(h, i)
<1>1. /\ j \in i + 1 .. Len(g) /\ \A k \in i + 1 .. j : g[k].role = "tool"
      /\ g[j].id \in CallIds(g[i])
      /\ \A k \in Following(g, i) : k < j => g[k].id # g[j].id
  BY DEF Answers, Following
<1>2. j \in i + 1 .. Len(h) /\ g[i] = h[i] /\ g[j] = h[j]
  BY <1>1
<1>3. \A k \in i + 1 .. j : k \in 1 .. n
  OBVIOUS
<1>4. \A k \in i + 1 .. j : h[k].role = "tool"
  BY <1>1, <1>3
<1>5. ASSUME NEW k \in Following(h, i), k < j
      PROVE  h[k].id # h[j].id
  <2>1. k \in i + 1 .. Len(h)
    BY DEF Following
  <2>2. k \in 1 .. n /\ k \in i + 1 .. Len(g)
    BY <1>5, <2>1
  <2>3. \A l \in i + 1 .. k : l \in i + 1 .. j
    BY <1>5, <2>1
  <2>4. k \in Following(g, i)
    BY <1>1, <2>2, <2>3 DEF Following
  <2> QED
    BY <1>1, <1>2, <1>5, <2>2, <2>4
<1>6. j \in Following(h, i)
  BY <1>2, <1>4 DEF Following
<1> QED
  BY <1>1, <1>2, <1>5, <1>6 DEF Answers

LEMMA SettledOfPrefix ==
  ASSUME NEW g, NEW h, NEW n \in Nat, Len(g) \in Nat, Len(h) \in Nat, n <= Len(g), n <= Len(h),
         \A i \in 1 .. n : g[i] = h[i], Settled(g, n)
  PROVE  Settled(h, n)
<1>1. \A i \in 1 .. n, j \in 1 .. n : j \in Answers(g, i) => j \in Answers(h, i)
  BY AnswersOfPrefix
<1> QED
  BY <1>1 DEF Settled

LEMMA SettledByUser ==
  ASSUME NEW g, NEW m, Len(g) \in Nat, Settled(g, Len(g)), g \in Seq(Messages), m \in Messages,
         m.role = "user"
  PROVE  Settled(Append(g, m), Len(g) + 1)
<1> DEFINE h == Append(g, m)
           n == Len(g)
<1>1. Len(h) = n + 1 /\ h[n + 1] = m /\ \A i \in 1 .. n : h[i] = g[i]
  OBVIOUS
<1> HIDE DEF h
<1>2. Settled(h, n)
  BY <1>1, SettledOfPrefix
<1>3. \A i \in 1 .. n + 1 : i \in 1 .. n \/ i = n + 1
  OBVIOUS
<1>4. \A i \in 1 .. n : i \in 1 .. n + 1
  OBVIOUS
<1>5. h[n + 1].role # "assistant" /\ h[n + 1].role # "tool"
  BY <1>1
<1>6. ASSUME NEW i \in 1 .. n + 1, h[i].role = "assistant", NEW x \in CallIds(h[i])
      PROVE  \E j \in 1 .. n + 1 : j \in Answers(h, i) /\ h[j].id = x
  <2>1. i \in 1 .. n
    BY <1>3, <1>5, <1>6
  <2>2. \E j \in 1 .. n : j \in Answers(h, i) /\ h[j].id = x
    BY <1>2, <1>6, <2>1 DEF Settled
  <2> QED
    BY <1>4, <2>2
<1>7. ASSUME NEW i \in 1 .. n + 1, h[i].role = "tool"
      PROVE  \E k \in 1 .. n + 1 : h[k].role = "assistant" /\ i \in Answers(h, k)
  <2>1. i \in 1 .. n
    BY <1>3, <1>5, <1>7
  <2>2. \E k \in 1 .. n : h[k].role = "assistant" /\ i \in Answers(h, k)
    BY <1>2, <1>7, <2>1 DEF Settled
  <2> QED
    BY <1>4, <2>2
<1>8. Settled(h, n + 1)
  <2> HIDE DEF n
  <2> QED
    BY <1>6, <1>7 DEF Settled
<1> QED
  BY <1>8 DEF h

\* A round whose calls all have their result is settled.
LEMMA RoundCloses ==
  ASSUME NEW h \in Seq(Messages), OpenRound(h, {})
  PROVE  Settled(h, Len(h))
<1>1. PICK a \in DOMAIN h :
        /\ h[a].role = "assistant" /\ Settled(h, a - 1)
        /\ \A j \in a + 1 .. Len(h) : h[j].role = "tool"
        /\ \A j, k \in a + 1 .. Len(h) : h[j].id = h[k].id => j = k
        /\ {h[j].id : j \in a + 1 .. Len(h)} = CallIds(h[a])
  BY DEF OpenRound
<1>2. Len(h) \in Nat /\ a \in 1 .. Len(h)
  BY MessagesTalk
<1>3. Following(h, a) = a + 1 .. Len(h)
  BY <1>1, <1>2 DEF Following
<1>4. ASSUME NEW j \in a + 1 .. Len(h)
      PROVE  j \in Answers(h, a)
  <2>1. h[j].id \in CallIds(h[a])
    BY <1>1
  <2>2. \A k \in a + 1 .. Len(h) : k < j => h[k].id # h[j].id
    BY <1>1, <1>2
  <2> QED
    BY <1>3, <2>1, <2>2 DEF Answers
<1>5. \A x \in CallIds(h[a]) : \E j \in a + 1 .. Len(h) : h[j].id = x
  BY <1>1
<1>6. ASSUME NEW i \in 1 .. Len(h) PROVE i \in 1 .. a - 1 \/ i = a \/ i \in a + 1 .. Len(h)
  BY <1>2
<1>7. \A i \in 1 .. a - 1 : i \in 1 .. Len(h)
  BY <1>2
<1>8. \A i \in a + 1 .. Len(h) : i \in 1 .. Len(h)
  BY <1>2
<1>9. ASSUME NEW i \in 1 .. Len(h), h[i].role = "assistant", NEW x \in CallIds(h[i])
      PROVE  \E j \in 1 .. Len(h) : j \in Answers(h, i) /\ h[j].id = x
  <2>1. CASE i \in 1 .. a - 1
    <3>1. \E j \in 1 .. a - 1 : j \in Answers(h, i) /\ h[j].id = x
      BY <1>1, <1>9, <2>1 DEF Settled
    <3> QED
      BY <1>7, <3>1
  <2>2. CASE i = a
    BY <1>4, <1>5, <1>8, <1>9, <2>2
  <2>3. CASE i \in a + 1 .. Len(h)
    BY <1>1, <1>9, <2>3
  <2> QED
    BY <1>6, <2>1, <2>2, <2>3
<1>10. ASSUME NEW i \in 1 .. Len(h), h[i].role = "tool"
       PROVE  \E k \in 1 .. Len(h) : h[k].role = "assistant" /\ i \in Answers(h, k)
  <2>1. CASE i \in 1 .. a - 1
    BY <1>1, <1>7, <1>10, <2>1 DEF Settled
  <2>2. i # a
    BY <1>1, <1>10
  <2>3. CASE i \in a + 1 .. Len(h)
    BY <1>1, <1>2, <1>4, <2>3
  <2> QED
    BY <1>6, <2>1, <2>2, <2>3
<1> QED
  BY <1>9, <1>10 DEF Settled

\* Results that come for calls that wait, each once, leave the others waiting.
LEMMA RoundGoesOn ==
  ASSUME NEW h \in Seq(Messages), NEW r \in Seq(Messages), NEW open, OpenRound(h, open),
         \A n \in 1 .. Len(r) : r[n].role = "tool" /\ r[n].id \in open,
         \A m, n \in 1 .. Len(r) : r[m].id = r[n].id => m = n
  PROVE  OpenRound(h \o r, open \ {r[n].id : n \in 1 .. Len(r)})
<1> DEFINE g == h \o r
           R == {r[n].id : n \in 1 .. Len(r)}
<1>1. PICK a \in DOMAIN h :
        /\ h[a].role = "assistant" /\ Settled(h, a - 1)
        /\ \A j \in a + 1 .. Len(h) : h[j].role = "tool"
        /\ \A j, k \in a + 1 .. Len(h) : h[j].id = h[k].id => j = k
        /\ \A j \in a + 1 .. Len(h) : h[j].id \notin open
        /\ {h[j].id : j \in a + 1 .. Len(h)} \cup open = CallIds(h[a])
  BY DEF OpenRound
<1>2. Len(h) \in Nat /\ Len(r) \in Nat /\ a \in 1 .. Len(h)
  BY MessagesTalk
<1>3. /\ Len(g) = Len(h) + Len(r) /\ DOMAIN g = 1 .. Len(g)
      /\ \A i \in 1 .. Len(h) : g[i] = h[i]
      /\ \A i \in 1 .. Len(r) : g[Len(h) + i] = r[i]
  OBVIOUS
<1> HIDE DEF g
<1>4. ASSUME NEW i \in a + 1 .. Len(g)
      PROVE  \/ i \in a + 1 .. Len(h) /\ g[i] = h[i]
             \/ \E n \in 1 .. Len(r) : i = Len(h) + n /\ g[i] = r[n]
  <2>1. CASE i <= Len(h)
    <3>1. i \in a + 1 .. Len(h) /\ i \in 1 .. Len(h)
      BY <1>2, <1>3, <2>1
    <3> QED
      BY <1>3, <3>1
  <2>2. CASE ~(i <= Len(h))
    <3>1. i - Len(h) \in 1 .. Len(r) /\ i = Len(h) + (i - Len(h))
      BY <1>2, <1>3, <2>2
    <3> QED
      BY <1>3, <3>1
  <2> QED
    BY <2>1, <2>2
<1>5. /\ \A i \in a + 1 .. Len(h) : i \in 1 .. Len(h) /\ i \in a + 1 .. Len(g)
      /\ \A n \in 1 .. Len(r) : Len(h) + n \in a + 1 .. Len(g)
      /\ a \in DOMAIN g /\ g[a] = h[a]
  BY <1>2, <1>3
<1>6. Settled(g, a - 1)
  <2>1. a - 1 \in Nat /\ a - 1 <= Len(h) /\ a - 1 <= Len(g) /\ Len(g) \in Nat
    BY <1>2, <1>3
  <2>2. \A i \in 1 .. a - 1 : h[i] = g[i]
    BY <1>2, <1>3
  <2> QED
    BY <1>1, <1>2, <2>1, <2>2, SettledOfPrefix
<1>7. ASSUME NEW j \in a + 1 .. Len(g)
      PROVE  /\ g[j].role = "tool" /\ g[j].id \notin open \ R
             /\ g[j].id \in CallIds(h[a])
  <2>1. CASE j \in a + 1 .. Len(h) /\ g[j] = h[j]
    BY <1>1, <2>1
  <2>2. ASSUME NEW n \in 1 .. Len(r), g[j] = r[n]
        PROVE  g[j].role = "tool" /\ g[j].id \in open /\ g[j].id \in R
    BY <2>2
  <2> QED
    BY <1>1, <1>4, <2>1, <2>2
<1>8. ASSUME NEW j \in a + 1 .. Len(g), NEW k \in a + 1 .. Len(g), g[j].id = g[k].id
      PROVE  j = k
  <2> DEFINE Old(i) == i \in a + 1 .. Len(h) /\ g[i] = h[i]
             New(i) == \E n \in 1 .. Len(r) : i = Len(h) + n /\ g[i] = r[n]
  <2>1. (Old(j) \/ New(j)) /\ (Old(k) \/ New(k))
    BY <1>4
  <2>2. CASE Old(j) /\ Old(k)
    BY <1>1, <1>8, <2>2
  <2>3. CASE New(j) /\ New(k)
    BY <1>8, <2>3
  <2>4. \A i : Old(i) => g[i].id \notin open
    BY <1>1
  <2>5. \A i : New(i) => g[i].id \in open
    OBVIOUS
  <2> QED
    BY <1>8, <2>1, <2>2, <2>3, <2>4, <2>5
<1>9. {g[j].id : j \in a + 1 .. Len(g)} \cup (open \ R) = CallIds(g[a])
  <2>1. \A j \in a + 1 .. Len(g) : g[j].id \in CallIds(h[a])
    BY <1>7
  <2>2. ASSUME NEW x \in CallIds(h[a]), x \notin open \ R
        PROVE  \E j \in a + 1 .. Len(g) : g[j].id = x
    <3>1. CASE x \in open
      <4>1. PICK n \in 1 .. Len(r) : r[n].id = x
        BY <2>2, <3>1
      <4> QED
        BY <1>3, <1>5, <4>1
    <3>2. CASE x \notin open
      <4>1. PICK j \in a + 1 .. Len(h) : h[j].id = x
        BY <1>1, <3>2
      <4> QED
        BY <1>3, <1>5, <4>1
    <3> QED
      BY <3>1, <3>2
  <2>3. open \subseteq CallIds(h[a])
    BY <1>1
  <2> QED
    BY <1>5, <2>1, <2>2, <2>3
<1> QED
  BY <1>1, <1>5, <1>6, <1>7, <1>8, <1>9 DEF OpenRound, g

\* An answer with calls opens a round.
LEMMA RoundOpens ==
  ASSUME NEW h \in Seq(Messages), Settled(h, Len(h)), NEW m \in Messages, m.role = "assistant"
  PROVE  OpenRound(Append(h, m), CallIds(m))
<1> DEFINE g == Append(h, m)
           a == Len(h) + 1
<1>1. Len(h) \in Nat /\ Len(g) = a /\ g[a] = m /\ \A i \in 1 .. Len(h) : g[i] = h[i]
      /\ DOMAIN g = 1 .. a
  BY MessagesTalk
<1>2. a - 1 = Len(h) /\ a \in DOMAIN g /\ a \in Nat
  BY <1>1
<1>3. Settled(g, Len(h))
  <2> HIDE DEF g
  <2> QED
    BY <1>1, SettledOfPrefix
<1>4. a + 1 .. Len(g) = {}
  BY <1>1
<1> QED
  BY <1>1, <1>2, <1>3, <1>4 DEF OpenRound

\* Nothing of a settled conversation is dropped, nothing is missing.
LEMMA SettledKept ==
  ASSUME NEW h \in Seq(Messages), Settled(h, Len(h))
  PROVE  /\ \A i \in DOMAIN h : h[i].role = "tool" => i \in Kept(h)
         /\ AllIds(h) \subseteq Fulfilled(h)
<1>1. DOMAIN h = 1 .. Len(h) /\ Conversation(h)
  BY MessagesTalk
<1>2. ASSUME NEW i \in DOMAIN h, h[i].role = "assistant"
      PROVE  RoundAnswered(h, i)
  BY <1>1, <1>2 DEF Settled, RoundAnswered
<1>3. ASSUME NEW i \in DOMAIN h, h[i].role = "tool"
      PROVE  i \in Kept(h)
  <2>1. PICK k \in DOMAIN h : h[k].role = "assistant" /\ i \in Answers(h, k)
    BY <1>1, <1>3 DEF Settled
  <2>2. k \in Whole(h)
    BY <1>2, <2>1 DEF Whole
  <2> QED
    BY <1>1, <2>1, <2>2, KeptFacts
<1>4. ASSUME NEW x \in AllIds(h)
      PROVE  x \in Fulfilled(h)
  <2>1. PICK i \in DOMAIN h : x \in CallIds(h[i])
    BY DEF AllIds
  <2>2. h[i].role = "assistant"
    <3>1. h[i] \in Messages
      BY <1>1, MessagesTalk
    <3>2. h[i].calls = <<>> => CallIds(h[i]) = {}
      BY DEF CallIds, ToSet
    <3> QED
      BY <2>1, <3>1, <3>2 DEF Messages
  <2>3. PICK j \in 1 .. Len(h) : j \in Answers(h, i) /\ h[j].id = x
    BY <1>1, <2>1, <2>2 DEF Settled
  <2>4. h[j].role = "tool"
    <3>1. j \in i + 1 .. Len(h) /\ \A n \in i + 1 .. j : h[n].role = "tool"
      BY <2>3 DEF Answers, Following
    <3>2. j \in i + 1 .. j
      BY <1>1, <3>1
    <3> QED
      BY <3>1, <3>2
  <2> QED
    BY <1>1, <2>3, <2>4 DEF Fulfilled
<1> QED
  BY <1>3, <1>4

\* The placeholders: one for each call that has no result, no call twice.
LEMMA Completed ==
  ASSUME NEW h \in Seq(Messages)
  PROVE  \E r \in Seq(Messages) :
            /\ CompleteOrphans(h) = h \o r
            /\ \A n \in 1 .. Len(r) : r[n].role = "tool"
            /\ \A m, n \in 1 .. Len(r) : r[m].id = r[n].id => m = n
            /\ {r[n].id : n \in 1 .. Len(r)} = AllIds(h) \ Fulfilled(h)
<1> DEFINE q == [i \in DOMAIN h |-> h[i].calls]
           all == CallsOf(h)
           missed == {n \in DOMAIN all : /\ all[n].id \notin Fulfilled(h)
                                         /\ \A m \in 1 .. n - 1 : all[m].id # all[n].id}
           calls == At(all, missed)
           r == [n \in DOMAIN calls |-> Result(calls[n].id, "none")]
           c == Cardinality(missed)
<1>1. /\ Len(h) \in Nat /\ DOMAIN h = 1 .. Len(h)
      /\ \A i \in 1 .. Len(h) : h[i] \in Messages
  BY MessagesTalk
<1>2. q \in Seq(Seq(Calls)) /\ Len(q) = Len(h) /\ \A i \in 1 .. Len(h) : q[i] = h[i].calls
  <2>1. \A i \in 1 .. Len(h) : h[i].calls \in Seq(Calls)
    BY <1>1 DEF Messages, Message
  <2> QED
    BY <1>1, <2>1
<1>3. /\ all \in Seq(Calls)
      /\ \A x : x \in ToSet(all) <=> \E i \in 1 .. Len(h) : x \in ToSet(h[i].calls)
  <2>1. all = FlattenSeq(q)
    BY DEF CallsOf
  <2> HIDE DEF all, q
  <2>2. /\ FlattenSeq(q) \in Seq(Calls)
        /\ \A x : x \in ToSet(FlattenSeq(q)) <=> \E i \in 1 .. Len(q) : x \in ToSet(q[i])
    BY <1>2, FlattenMembers
  <2> QED
    BY <1>2, <2>1, <2>2
<1>4. /\ Len(all) \in Nat /\ DOMAIN all = 1 .. Len(all)
      /\ \A n \in 1 .. Len(all) : all[n] \in Calls /\ all[n].id \in Ids
  <2> HIDE DEF all
  <2>1. Len(all) \in Nat /\ DOMAIN all = 1 .. Len(all) /\ \A n \in 1 .. Len(all) : all[n] \in Calls
    BY <1>3
  <2>2. \A x \in Calls : x.id \in Ids
    BY DEF Calls
  <2> QED
    BY <2>1, <2>2
<1>5. \A x : x \in AllIds(h) <=> \E n \in 1 .. Len(all) : all[n].id = x
  <2>1. \A x : x \in AllIds(h) <=> \E i \in 1 .. Len(h) : \E k \in ToSet(h[i].calls) : k.id = x
    BY <1>1 DEF AllIds, CallIds
  <2>2. \A x : (\E i \in 1 .. Len(h) : \E k \in ToSet(h[i].calls) : k.id = x)
                 <=> \E k \in ToSet(all) : k.id = x
    BY <1>3
  <2>3. \A x : (\E k \in ToSet(all) : k.id = x) <=> \E n \in 1 .. Len(all) : all[n].id = x
    BY <1>4 DEF ToSet
  <2> QED
    BY <2>1, <2>2, <2>3
<1> HIDE DEF all
<1>6. missed \in SUBSET Nat /\ IsFiniteSet(missed)
  <2>1. missed \subseteq 1 .. Len(all) /\ IsFiniteSet(1 .. Len(all))
    BY <1>4, FS_Interval
  <2> QED
    BY <1>4, <2>1, FS_Subset
<1>7. /\ c \in Nat /\ DOMAIN calls = 1 .. c
      /\ \A n \in 1 .. c : calls[n] = all[Place(missed, n)] /\ Place(missed, n) \in missed
      /\ \A k \in missed : \E n \in 1 .. c : Place(missed, n) = k
      /\ \A m, n \in 1 .. c : Place(missed, m) < Place(missed, n) <=> m < n
  <2> HIDE DEF missed
  <2> QED
    BY <1>6, PlaceFacts, AtFacts
<1>8. \A m, n \in missed : all[m].id = all[n].id => m = n
  <2> SUFFICES ASSUME NEW m \in missed, NEW n \in missed, all[m].id = all[n].id, m # n
               PROVE  FALSE
    OBVIOUS
  <2>1. m \in Nat /\ n \in Nat /\ m \in 1 .. Len(all) /\ n \in 1 .. Len(all)
    BY <1>4
  <2>2. m \in 1 .. n - 1 \/ n \in 1 .. m - 1
    BY <2>1
  <2> QED
    BY <2>2
<1>9. \A n \in missed : all[n].id \in AllIds(h) \ Fulfilled(h) /\ all[n].id \in Ids
  BY <1>4, <1>5
<1>10. ASSUME NEW x \in AllIds(h), x \notin Fulfilled(h)
       PROVE  \E n \in missed : all[n].id = x
  <2> DEFINE B == {n \in 1 .. Len(all) : all[n].id = x}
  <2>1. B \in SUBSET Nat /\ B # {}
    BY <1>4, <1>5
  <2>2. PICK n \in B : \A k \in B : n <= k
    <3> HIDE DEF B
    <3> QED
      BY <2>1, LeastOf
  <2>3. n \in 1 .. Len(all) /\ all[n].id = x /\ n \in Nat
    BY <1>4, <2>2
  <2>4. \A m \in 1 .. n - 1 : m \in 1 .. Len(all) /\ ~(n <= m)
    BY <1>4, <2>3
  <2>5. \A m \in 1 .. n - 1 : all[m].id # x
    BY <2>2, <2>4
  <2> QED
    BY <1>4, <1>10, <2>3, <2>5
<1> HIDE DEF missed
<1>11. r = [n \in 1 .. c |-> Result(all[Place(missed, n)].id, "none")]
  BY <1>7
<1> HIDE DEF calls, c
<1>12. \A n \in 1 .. c : /\ r[n] \in Messages
                        /\ r[n].role = "tool" /\ r[n].id = all[Place(missed, n)].id
  <2>1. \A x \in Ids : /\ Result(x, "none") \in Messages
                       /\ Result(x, "none").role = "tool" /\ Result(x, "none").id = x
    <3>1. \A x \in Ids : Result(x, "none") \in Message
      BY EmptySeq DEF Result, Message
    <3> QED
      BY <3>1 DEF Result, Messages
  <2> QED
    BY <1>7, <1>9, <1>11, <2>1
<1>13. r \in Seq(Messages) /\ Len(r) = c
  <2>1. r = [n \in 1 .. c |-> r[n]]
    BY <1>11
  <2> HIDE DEF r
  <2>2. r \in [1 .. c -> Messages]
    BY <1>12, <2>1
  <2> QED
    BY <1>7, <2>2
<1>14. CompleteOrphans(h) = h \o r
  BY DEF CompleteOrphans, r, calls, missed, all
<1> HIDE DEF r
<1>15. ASSUME NEW m \in 1 .. c, NEW n \in 1 .. c, r[m].id = r[n].id
       PROVE  m = n
  <2>1. Place(missed, m) = Place(missed, n)
    BY <1>7, <1>8, <1>12, <1>15
  <2>2. Place(missed, m) \in Nat
    BY <1>6, <1>7
  <2>3. ~(m < n) /\ ~(n < m)
    BY <1>7, <2>1, <2>2
  <2> QED
    BY <1>7, <2>3
<1>16. {r[n].id : n \in 1 .. c} = AllIds(h) \ Fulfilled(h)
  <2>1. \A n \in 1 .. c : r[n].id \in AllIds(h) \ Fulfilled(h)
    BY <1>7, <1>9, <1>12
  <2>2. \A x \in AllIds(h) \ Fulfilled(h) : \E n \in 1 .. c : r[n].id = x
    BY <1>7, <1>10, <1>12
  <2> QED
    BY <2>1, <2>2
<1> QED
  BY <1>12, <1>13, <1>14, <1>15, <1>16

\* Where nothing is missing nothing is added.
LEMMA SettledComplete ==
  ASSUME NEW h \in Seq(Messages), Settled(h, Len(h))
  PROVE  CompleteOrphans(h) = h
<1>1. PICK r \in Seq(Messages) :
        CompleteOrphans(h) = h \o r /\ {r[n].id : n \in 1 .. Len(r)} = AllIds(h) \ Fulfilled(h)
  BY Completed
<1>2. AllIds(h) \ Fulfilled(h) = {}
  BY SettledKept
<1>3. Len(r) = 0
  <2>1. Len(r) \in Nat
    OBVIOUS
  <2>2. \A n \in 1 .. Len(r) : r[n].id \in {r[m].id : m \in 1 .. Len(r)}
    OBVIOUS
  <2>3. \A n \in 1 .. Len(r) : FALSE
    BY <1>1, <1>2, <2>2
  <2> QED
    BY <2>1, <2>3
<1>4. h \o r = h
  BY <1>3
<1> QED
  BY <1>1, <1>4

\* An element of two joined sequences is one of the first or of the second.
LEMMA JoinedParts ==
  ASSUME NEW S, NEW h \in Seq(S), NEW r \in Seq(S)
  PROVE  \A i \in DOMAIN (h \o r) : \/ i \in DOMAIN h /\ (h \o r)[i] = h[i]
                                   \/ \E n \in 1 .. Len(r) : (h \o r)[i] = r[n]
<1> SUFFICES ASSUME NEW i \in DOMAIN (h \o r)
             PROVE  \/ i \in DOMAIN h /\ (h \o r)[i] = h[i]
                    \/ \E n \in 1 .. Len(r) : (h \o r)[i] = r[n]
  OBVIOUS
<1>1. i \in 1 .. Len(h) + Len(r) /\ Len(h) \in Nat /\ Len(r) \in Nat /\ DOMAIN h = 1 .. Len(h)
  OBVIOUS
<1>2. CASE i <= Len(h)
  BY <1>1, <1>2
<1>3. CASE ~(i <= Len(h))
  <2>1. i - Len(h) \in 1 .. Len(r) /\ (h \o r)[i] = r[i - Len(h)]
    BY <1>1, <1>3
  <2> QED
    BY <2>1
<1> QED
  BY <1>2, <1>3

\* A completed conversation only has ids it had.
LEMMA CompletedWithin ==
  ASSUME NEW h \in Seq(Messages), NEW top, Within(h, top)
  PROVE  CompleteOrphans(h) \in Seq(Messages) /\ Within(CompleteOrphans(h), top)
<1>1. PICK r \in Seq(Messages) :
        /\ CompleteOrphans(h) = h \o r
        /\ \A n \in 1 .. Len(r) : r[n].role = "tool"
        /\ {r[n].id : n \in 1 .. Len(r)} = AllIds(h) \ Fulfilled(h)
  BY Completed
<1>2. \A x \in AllIds(h) : x <= top
  BY DEF AllIds, Within
<1>3. \A n \in 1 .. Len(r) : r[n].id <= top
  BY <1>1, <1>2
<1>4. \A n \in 1 .. Len(r) : CallIds(r[n]) = {}
  <2>1. \A n \in 1 .. Len(r) : r[n] \in Messages /\ r[n].role = "tool"
    BY <1>1
  <2>2. \A m \in Messages : m.role = "tool" => m.calls = <<>>
    BY DEF Messages
  <2>3. \A m : m.calls = <<>> => CallIds(m) = {}
    BY DEF CallIds, ToSet
  <2> QED
    BY <2>1, <2>2, <2>3
<1>5. \A i \in DOMAIN (h \o r) : \/ i \in DOMAIN h /\ (h \o r)[i] = h[i]
                               \/ \E n \in 1 .. Len(r) : (h \o r)[i] = r[n]
  BY JoinedParts
<1>6. Within(h \o r, top)
  <2>1. \A i \in DOMAIN (h \o r) :
            /\ \A x \in CallIds((h \o r)[i]) : x <= top
            /\ (h \o r)[i].role = "tool" => (h \o r)[i].id <= top
    <3>1. ASSUME NEW i \in DOMAIN (h \o r)
          PROVE  /\ \A x \in CallIds((h \o r)[i]) : x <= top
                 /\ (h \o r)[i].role = "tool" => (h \o r)[i].id <= top
      <4>1. CASE i \in DOMAIN h /\ (h \o r)[i] = h[i]
        BY <4>1 DEF Within
      <4>2. CASE \E n \in 1 .. Len(r) : (h \o r)[i] = r[n]
        BY <1>3, <1>4, <4>2
      <4> QED
        BY <1>5, <4>1, <4>2
    <3> QED
      BY <3>1
  <2> QED
    BY <2>1 DEF Within
<1> QED
  BY <1>1, <1>6

\* A round whose calls all wait is completed by its placeholders.
LEMMA RoundCompleted ==
  ASSUME NEW h \in Seq(Messages), NEW open, OpenRound(h, open), open = AllIds(h) \ Fulfilled(h)
  PROVE  Settled(CompleteOrphans(h), Len(CompleteOrphans(h)))
<1>1. PICK r \in Seq(Messages) :
        /\ CompleteOrphans(h) = h \o r
        /\ \A n \in 1 .. Len(r) : r[n].role = "tool"
        /\ \A m, n \in 1 .. Len(r) : r[m].id = r[n].id => m = n
        /\ {r[n].id : n \in 1 .. Len(r)} = AllIds(h) \ Fulfilled(h)
  BY Completed
<1>2. \A n \in 1 .. Len(r) : r[n].role = "tool" /\ r[n].id \in open
  BY <1>1
<1>3. OpenRound(h \o r, open \ {r[n].id : n \in 1 .. Len(r)})
  BY <1>1, <1>2, RoundGoesOn
<1>4. OpenRound(h \o r, {})
  <2>1. open \ {r[n].id : n \in 1 .. Len(r)} = {}
    BY <1>1
  <2> QED
    BY <1>3, <2>1
<1>5. h \o r \in Seq(Messages)
  OBVIOUS
<1>6. Settled(h \o r, Len(h \o r))
  BY <1>4, <1>5, RoundCloses
<1> QED
  BY <1>1, <1>6

-----------------------------------------------------------------------------
(* Steps *)

\* What is said of the ids of a conversation stays true when the provider makes more.
LEMMA StillWithin ==
  ASSUME NEW h \in Seq(Messages), NEW low \in Nat, NEW top \in Nat, low <= top, Within(h, low)
  PROVE  Within(h, top)
<1>1. \A i \in DOMAIN h : h[i] \in Messages
  BY MessagesTalk
<1>2. \A m \in Messages : /\ m.role = "tool" => m.id \in Nat
                          /\ \A x \in CallIds(m) : x \in Nat
  <2>1. \A m \in Messages : m.calls \in Seq(Calls) /\ (m.role = "tool" => m.id \in Ids)
    BY DEF Messages, Message
  <2>2. \A s \in Seq(Calls) : \A c \in ToSet(s) : c \in Calls
    BY DEF ToSet
  <2>3. \A c \in Calls : c.id \in Nat
    BY DEF Calls, Ids
  <2> QED
    BY <2>1, <2>2, <2>3 DEF CallIds, Ids
<1> QED
  BY <1>1, <1>2 DEF Within

\* Another message of known ids.
LEMMA WithinAppend ==
  ASSUME NEW h \in Seq(Messages), NEW m \in Messages, NEW top, Within(h, top),
         \A x \in CallIds(m) : x <= top, m.role = "tool" => m.id <= top
  PROVE  Append(h, m) \in Seq(Messages) /\ Within(Append(h, m), top)
<1> DEFINE g == Append(h, m)
<1>1. g \in Seq(Messages)
  OBVIOUS
<1>2. \A i \in DOMAIN g : (i \in DOMAIN h /\ g[i] = h[i]) \/ g[i] = m
  OBVIOUS
<1> HIDE DEF g
<1>3. Within(g, top)
  BY <1>2 DEF Within
<1> QED
  BY <1>1, <1>3 DEF g

\* What the messages of a step are.
LEMMA NewMessages ==
  /\ User \in Messages /\ User.role = "user" /\ CallIds(User) = {}
  /\ \A s \in Seq(Calls) : Assistant(s) \in Messages /\ Assistant(s).role = "assistant"
  /\ Assistant(<<>>) \in Messages /\ Assistant(<<>>).role = "assistant"
  /\ CallIds(Assistant(<<>>)) = {}
<1>1. <<>> \in Seq(Calls)
  BY EmptySeq
<1>2. \A s \in Seq(Calls) : Assistant(s) \in Messages /\ Assistant(s).role = "assistant"
  BY DEF Assistant, Messages, Message
<1>3. User \in Messages /\ User.role = "user"
  BY <1>1 DEF User, Messages, Message
<1>4. CallIds(User) = {} /\ CallIds(Assistant(<<>>)) = {}
  BY DEF CallIds, ToSet, User, Assistant
<1> QED
  BY <1>1, <1>2, <1>3, <1>4

\* Steps that leave the conversation and the batches alone.
LEMMA SameTalk ==
  ASSUME HistInv, UNCHANGED <<hist, disk, todo, made, torn>>,
         pc' = pc \/ (pc # "batch" /\ pc' # "batch")
  PROVE  HistInv'
<1>1. OpenIds' = OpenIds /\ BatchesApart'
  BY DEF HistInv, OpenIds, Planned, BatchesApart
<1>2. Within(hist', made') /\ Within(disk', made')
  BY DEF HistInv
<1>3. ~torn' => /\ Settled(disk', Len(disk'))
                /\ IF pc' = "batch" THEN OpenRound(hist', OpenIds') ELSE Settled(hist', Len(hist'))
  BY <1>1 DEF HistInv
<1> QED
  BY <1>1, <1>2, <1>3 DEF HistInv

\* The Run ends with the conversation h, settled once it is completed.
LEMMA EndSettled ==
  ASSUME HistInv, NEW h \in Seq(Messages), EndSaved(h), UNCHANGED torn, Within(h, made'),
         ~torn => Settled(CompleteOrphans(h), Len(CompleteOrphans(h)))
  PROVE  HistInv'
<1>1. hist' = CompleteOrphans(h) /\ disk' = hist' /\ pc' = "idle" /\ todo' = <<>>
  BY DEF EndSaved
<1>2. /\ hist' \in Seq(Messages) /\ disk' \in Seq(Messages)
      /\ Within(hist', made') /\ Within(disk', made')
  BY <1>1, CompletedWithin
<1>3. BatchesApart'
  BY <1>1 DEF BatchesApart
<1>4. ~torn' => Settled(disk', Len(disk')) /\ Settled(hist', Len(hist')) /\ pc' # "batch"
  BY <1>1
<1> QED
  BY <1>2, <1>3, <1>4 DEF HistInv

LEMMA StartRunSettled == ASSUME RunInv, HistInv, StartRun PROVE HistInv'
<1>1. /\ UNCHANGED <<disk, todo, made, torn>> /\ hist' = Append(hist, User)
      /\ pc = "idle" /\ pc' = "begun"
  BY DEF StartRun
<1>2. hist' \in Seq(Messages) /\ Within(hist', made')
  <2>1. \A x \in CallIds(User) : x <= made
    BY NewMessages
  <2> QED
    BY <1>1, <2>1, NewMessages, WithinAppend DEF HistInv
<1>3. ~torn' => Settled(hist', Len(hist'))
  <2> SUFFICES ASSUME ~torn PROVE Settled(hist', Len(hist'))
    BY <1>1
  <2>1. Len(hist) \in Nat /\ hist \in Seq(Messages) /\ Settled(hist, Len(hist))
    BY <1>1 DEF HistInv
  <2>2. Settled(Append(hist, User), Len(hist) + 1)
    BY <2>1, NewMessages, SettledByUser
  <2>3. Len(Append(hist, User)) = Len(hist) + 1
    BY <2>1
  <2> QED
    BY <1>1, <2>2, <2>3
<1>4. BatchesApart'
  BY <1>1 DEF HistInv, BatchesApart
<1> QED
  BY <1>1, <1>2, <1>3, <1>4 DEF HistInv

LEMMA AskModelSettled == ASSUME RunInv, HistInv, AskModel PROVE HistInv'
<1>1. CASE EndSaved(hist)
  <2>1. UNCHANGED <<torn, made>> /\ pc = "begun"
    BY DEF AskModel
  <2>2. hist \in Seq(Messages) /\ Within(hist, made') /\ (~torn => Settled(hist, Len(hist)))
    BY <2>1 DEF HistInv
  <2>3. ~torn => CompleteOrphans(hist) = hist
    BY <2>2, SettledComplete
  <2> QED
    BY <1>1, <2>1, <2>2, <2>3, EndSettled
<1>2. CASE ~EndSaved(hist)
  BY <1>2, SameTalk DEF AskModel
<1> QED
  BY <1>1, <1>2

\* The answer of the model, completed: each of its calls has its placeholder.
LEMMA AnswerCompletes ==
  ASSUME HistInv, ~torn, pc # "batch", NEW m \in Messages, m.role = "assistant",
         \A x \in CallIds(m) : ~(x <= made), made \in Nat
  PROVE  Settled(CompleteOrphans(Append(hist, m)), Len(CompleteOrphans(Append(hist, m))))
<1> DEFINE h == Append(hist, m)
           open == CallIds(m)
<1>1. hist \in Seq(Messages) /\ Settled(hist, Len(hist)) /\ Within(hist, made)
  BY DEF HistInv
<1>2. OpenRound(h, open)
  BY <1>1, RoundOpens
<1>3. /\ h \in Seq(Messages) /\ Len(hist) \in Nat
      /\ DOMAIN h = 1 .. Len(hist) + 1 /\ DOMAIN hist = 1 .. Len(hist)
      /\ h[Len(hist) + 1] = m /\ \A i \in DOMAIN hist : h[i] = hist[i]
  BY <1>1
<1>4. \A i \in DOMAIN h : i \in DOMAIN hist \/ i = Len(hist) + 1
  BY <1>3
<1>5. DOMAIN hist \subseteq DOMAIN h /\ Len(hist) + 1 \in DOMAIN h
  BY <1>3
<1> HIDE DEF h, open
<1>6. AllIds(h) = AllIds(hist) \cup open
  BY <1>3, <1>4, <1>5 DEF AllIds, open
<1>7. Fulfilled(h) = Fulfilled(hist)
  <2>1. \A i \in DOMAIN h : h[i].role = "tool" => i \in DOMAIN hist
    BY <1>3, <1>4
  <2> QED
    BY <1>3, <1>5, <2>1 DEF Fulfilled
<1>8. AllIds(hist) \subseteq Fulfilled(hist)
  BY <1>1, SettledKept
<1>9. \A x \in Fulfilled(hist) : x <= made
  BY <1>1 DEF Fulfilled, Within
<1>10. open = AllIds(h) \ Fulfilled(h)
  BY <1>6, <1>7, <1>8, <1>9 DEF open
<1> QED
  BY <1>2, <1>3, <1>10, RoundCompleted DEF h

LEMMA ModelSaysSettled == ASSUME RunInv, HistInv, ModelSays PROVE HistInv'
<1> DEFINE m == Assistant(<<>>)
<1>1. /\ UNCHANGED <<made, torn>> /\ pc = "model" /\ EndSaved(Append(hist, m))
      /\ made \in Nat
  BY DEF ModelSays, RunInv, Shape
<1>2. m \in Messages /\ m.role = "assistant" /\ CallIds(m) = {}
  BY NewMessages
<1> HIDE DEF m
<1>3. Append(hist, m) \in Seq(Messages) /\ Within(Append(hist, m), made')
  <2>1. m.role # "tool" /\ hist \in Seq(Messages) /\ Within(hist, made)
    BY <1>2 DEF HistInv
  <2> QED
    BY <1>1, <1>2, <2>1, WithinAppend
<1>4. ~torn => Settled(CompleteOrphans(Append(hist, m)), Len(CompleteOrphans(Append(hist, m))))
  BY <1>1, <1>2, AnswerCompletes
<1> QED
  BY <1>1, <1>3, <1>4, EndSettled

\* A plan holds every call, in one batch.
LEMMA PlanHoldsAll ==
  ASSUME NEW calls \in Seq(Calls), NEW plan \in PlanBatches(calls),
         \A e, n \in DOMAIN calls : calls[e] = calls[n] => e = n
  PROVE  /\ \A n \in DOMAIN calls : \E k \in DOMAIN plan : calls[n] \in plan[k]
         /\ \A k, l \in DOMAIN plan : k # l => plan[k] \cap plan[l] = {}
<1>1. PICK m \in DOMAIN calls : \E place \in [DOMAIN calls -> 1 .. m] :
        plan = [k \in 1 .. m |-> {calls[n] : n \in {e \in DOMAIN calls : place[e] = k}}]
  BY DEF PlanBatches
<1>2. PICK place \in [DOMAIN calls -> 1 .. m] :
        plan = [k \in 1 .. m |-> {calls[n] : n \in {e \in DOMAIN calls : place[e] = k}}]
  BY <1>1
<1>3. DOMAIN plan = 1 .. m
  BY <1>2
<1>4. ASSUME NEW n \in DOMAIN calls
      PROVE  \E k \in DOMAIN plan : calls[n] \in plan[k]
  <2>1. place[n] \in 1 .. m
    OBVIOUS
  <2> QED
    BY <1>2, <1>3, <2>1
<1>5. ASSUME NEW k \in 1 .. m, NEW l \in 1 .. m, NEW c \in plan[k], c \in plan[l]
      PROVE  k = l
  <2>1. PICK e \in DOMAIN calls, n \in DOMAIN calls :
          c = calls[e] /\ c = calls[n] /\ place[e] = k /\ place[n] = l
    BY <1>2, <1>5
  <2> QED
    BY <2>1
<1> QED
  BY <1>3, <1>4, <1>5

LEMMA ModelCallsSettled ==
  ASSUME RunInv, HistInv, NEW tools \in ToolLists, ModelCalls(tools) PROVE HistInv'
<1> DEFINE calls == [n \in DOMAIN tools |-> [id |-> made + n, tool |-> tools[n]]]
           m == Assistant(calls)
<1>1. PICK size \in 1 .. MaxCalls : tools \in [1 .. size -> Tools]
  BY DEF ToolLists
<1>2. MaxCalls \in Nat /\ made \in Nat /\ MaxIds \in Nat
  BY RunnerConstants DEF RunInv, Shape
<1>3. tools \in Seq(Tools) /\ DOMAIN tools = 1 .. Len(tools) /\ Len(tools) \in Nat
  BY <1>1, <1>2
<1>4. made + Len(tools) \in 1 .. MaxIds /\ made' = made + Len(tools)
  BY DEF ModelCalls, Ids
<1>5. \A n \in DOMAIN tools : calls[n] \in Calls /\ calls[n].id = made + n
  BY <1>2, <1>3, <1>4 DEF Calls, Ids
<1>6. calls \in Seq(Calls) /\ DOMAIN calls = DOMAIN tools
  BY <1>3, <1>5
<1>7. /\ pc = "model" /\ UNCHANGED torn
      /\ \/ EndSaved(Append(hist, m))
         \/ /\ hist' = Append(hist, m) /\ pc' = "batch" /\ UNCHANGED disk
            /\ \E plan \in PlanBatches(calls) : BeginBatch(plan)
  BY DEF ModelCalls
<1>8. m \in Messages /\ m.role = "assistant" /\ m.calls = calls
  BY <1>6, NewMessages DEF Assistant
<1>9. CallIds(m) = {calls[n].id : n \in DOMAIN calls}
  <2>1. ToSet(calls) = {calls[n] : n \in DOMAIN calls}
    BY DEF ToSet
  <2> HIDE DEF calls, m
  <2> QED
    BY <1>8, <2>1 DEF CallIds
<1>10. \A n \in DOMAIN calls : calls[n].id \in Nat /\ ~(calls[n].id <= made) /\ calls[n].id <= made'
  BY <1>2, <1>3, <1>4, <1>5, <1>6
<1>11. \A e, n \in DOMAIN calls : calls[e].id = calls[n].id => e = n
  BY <1>2, <1>3, <1>5, <1>6
<1> HIDE DEF calls, m
<1>12. \A x \in CallIds(m) : ~(x <= made) /\ x <= made'
  BY <1>9, <1>10
<1>13. hist \in Seq(Messages) /\ disk \in Seq(Messages) /\ Within(hist, made') /\ Within(disk, made')
  <2>1. made' \in Nat /\ made <= made'
    BY <1>2, <1>3, <1>4
  <2> QED
    BY <1>2, <2>1, StillWithin DEF HistInv
<1>14. Append(hist, m) \in Seq(Messages) /\ Within(Append(hist, m), made')
  <2>1. m.role # "tool"
    BY <1>8
  <2> QED
    BY <1>8, <1>12, <1>13, <2>1, WithinAppend
<1>15. CASE EndSaved(Append(hist, m))
  <2>1. ~torn => Settled(CompleteOrphans(Append(hist, m)), Len(CompleteOrphans(Append(hist, m))))
    BY <1>2, <1>7, <1>8, <1>12, AnswerCompletes
  <2> QED
    BY <1>7, <1>14, <1>15, <2>1, EndSettled
<1>16. ASSUME hist' = Append(hist, m), pc' = "batch", UNCHANGED disk,
              NEW plan \in PlanBatches(calls), BeginBatch(plan)
       PROVE  HistInv'
  <2>1. todo' = plan
    BY <1>16 DEF BeginBatch
  <2>2. \A e, n \in DOMAIN calls : calls[e] = calls[n] => e = n
    BY <1>11
  <2>3. /\ \A n \in DOMAIN calls : \E k \in DOMAIN plan : calls[n] \in plan[k]
        /\ \A k, l \in DOMAIN plan : k # l => plan[k] \cap plan[l] = {}
    BY <1>6, <2>2, PlanHoldsAll
  <2>4. \A k \in DOMAIN plan : \A c \in plan[k] : \E n \in DOMAIN calls : c = calls[n]
    BY <1>6, PlanHoldsCalls
  <2>5. OpenIds' = CallIds(m)
    <3>1. Planned' = {calls[n] : n \in DOMAIN calls}
      BY <2>1, <2>3, <2>4 DEF Planned
    <3> QED
      BY <1>9, <3>1 DEF OpenIds
  <2>6. ~torn => OpenRound(hist', OpenIds')
    <3>1. ~torn => Settled(hist, Len(hist))
      BY <1>7 DEF HistInv
    <3> QED
      BY <1>8, <1>13, <1>16, <2>5, <3>1, RoundOpens
  <2>7. BatchesApart'
    BY <2>1, <2>3 DEF BatchesApart
  <2>8. ~torn => Settled(disk, Len(disk))
    BY DEF HistInv
  <2> QED
    BY <1>7, <1>13, <1>14, <1>16, <2>6, <2>7, <2>8 DEF HistInv
<1> QED
  BY <1>7, <1>15, <1>16

\* The results of a batch, in the order of their ids.
LEMMA BatchResults ==
  ASSUME Shape, NEW S \in SUBSET Ids, \A id \in S : job[id] \in Ended
  PROVE  LET r == At([id \in Ids |-> Result(id, job[id])], S)
         IN  /\ r \in Seq(Messages)
             /\ \A n \in 1 .. Len(r) : r[n].role = "tool" /\ r[n].id \in S
             /\ \A m, n \in 1 .. Len(r) : r[m].id = r[n].id => m = n
             /\ {r[n].id : n \in 1 .. Len(r)} = S
<1> DEFINE f == [id \in Ids |-> Result(id, job[id])]
           r == At(f, S)
           c == Cardinality(S)
<1>1. S \in SUBSET Nat /\ IsFiniteSet(S)
  <2>1. MaxIds \in Nat
    BY RunnerConstants
  <2>2. IsFiniteSet(Ids) /\ Ids \subseteq Nat
    BY <2>1, FS_Interval DEF Ids
  <2> QED
    BY <2>2, FS_Subset
<1>2. /\ c \in Nat /\ DOMAIN r = 1 .. c /\ Len(r) = c
      /\ \A n \in 1 .. c : r[n] = f[Place(S, n)] /\ Place(S, n) \in S
      /\ \A k \in S : \E n \in 1 .. c : Place(S, n) = k
      /\ \A m, n \in 1 .. c : Place(S, m) < Place(S, n) <=> m < n
  <2> HIDE DEF f
  <2> QED
    BY <1>1, PlaceFacts, AtFacts
<1>3. \A id \in S : f[id] \in Messages /\ f[id].role = "tool" /\ f[id].id = id
  <2> SUFFICES ASSUME NEW id \in S
               PROVE  f[id] \in Messages /\ f[id].role = "tool" /\ f[id].id = id
    OBVIOUS
  <2>1. f[id] = Result(id, job[id]) /\ id \in Ids /\ job[id] \in Ended
    OBVIOUS
  <2>2. Result(id, job[id]) \in Message
    BY <2>1, EmptySeq DEF Result, Message
  <2> QED
    BY <2>1, <2>2 DEF Result, Messages
<1>4. r = [n \in 1 .. c |-> r[n]]
  BY DEF At
<1> HIDE DEF f, r
<1>5. \A n \in 1 .. c : r[n] \in Messages /\ r[n].role = "tool" /\ r[n].id = Place(S, n)
  BY <1>2, <1>3
<1>6. r \in Seq(Messages)
  <2>1. r \in [1 .. c -> Messages]
    BY <1>4, <1>5
  <2> QED
    BY <1>2, <2>1
<1>7. \A m, n \in 1 .. c : r[m].id = r[n].id => m = n
  <2> SUFFICES ASSUME NEW m \in 1 .. c, NEW n \in 1 .. c, Place(S, m) = Place(S, n) PROVE m = n
    BY <1>5
  <2>1. Place(S, m) \in Nat
    BY <1>1, <1>2
  <2>2. ~(m < n) /\ ~(n < m)
    BY <1>2, <2>1
  <2> QED
    BY <1>2, <2>2
<1>8. {r[n].id : n \in 1 .. c} = S
  BY <1>2, <1>5
<1> QED
  BY <1>2, <1>5, <1>6, <1>7, <1>8 DEF f, r

LEMMA FinishBatchSettled == ASSUME RunInv, HistInv, FinishBatch PROVE HistInv'
<1> DEFINE S == {c.id : c \in Batch}
           r == At([id \in Ids |-> Result(id, job[id])], S)
           h == hist \o r
<1>1. /\ UNCHANGED <<made, torn>> /\ pc = "batch" /\ todo # <<>> /\ todo \in Seq(SUBSET Calls)
      /\ \A c \in Batch : job[c.id] \in Ended
      /\ \/ Len(todo) > 1 /\ hist' = h /\ BeginBatch(Tail(todo)) /\ UNCHANGED <<disk, pc>>
         \/ Len(todo) = 1 /\ EndSaved(h)
         \/ /\ Len(todo) = 1 /\ hist' = h /\ disk' \in {h, disk}
            /\ pc' = "model" /\ todo' = <<>>
  <2>1. /\ UNCHANGED <<made, torn>> /\ pc = "batch"
        /\ \A c \in Batch : job[c.id] \in Ended
        /\ \/ Len(todo) > 1 /\ hist' = h /\ BeginBatch(Tail(todo)) /\ UNCHANGED <<disk, pc>>
           \/ Len(todo) = 1 /\ EndSaved(h)
           \/ /\ Len(todo) = 1 /\ hist' = h /\ disk' \in {h, disk}
              /\ pc' = "model" /\ todo' = <<>>
    BY DEF FinishBatch
  <2>2. todo \in Seq(SUBSET Calls)
    BY DEF RunInv, Shape
  <2>3. Len(todo) >= 1
    BY <2>1, <2>2
  <2>4. todo # <<>>
    BY <2>3
  <2> QED
    BY <2>1, <2>2, <2>4
<1>2. Batch = todo[1] /\ Batch \subseteq Calls /\ 1 \in DOMAIN todo
  BY <1>1 DEF Batch
<1>3. S \in SUBSET Ids /\ \A id \in S : job[id] \in Ended
  BY <1>1, <1>2 DEF Calls
<1> HIDE DEF S
<1>4. /\ r \in Seq(Messages)
      /\ \A n \in 1 .. Len(r) : r[n].role = "tool" /\ r[n].id \in S
      /\ \A m, n \in 1 .. Len(r) : r[m].id = r[n].id => m = n
      /\ {r[n].id : n \in 1 .. Len(r)} = S
  BY <1>3, BatchResults DEF RunInv
<1> HIDE DEF r
<1>5. Batch \subseteq Planned /\ S \subseteq OpenIds /\ \A x \in S : x <= made
  <2>1. Batch \subseteq Planned
    BY <1>2 DEF Planned
  <2>2. \A c \in Planned : c.id <= made
    BY DEF RunInv, FreshIds
  <2> QED
    BY <2>1, <2>2 DEF S, OpenIds
<1>6. hist \in Seq(Messages) /\ disk \in Seq(Messages) /\ Within(hist, made) /\ Within(disk, made)
  BY DEF HistInv
<1>7. h \in Seq(Messages)
  BY <1>4, <1>6
<1>8. Within(h, made)
  <2>1. \A n \in 1 .. Len(r) : CallIds(r[n]) = {} /\ r[n].id <= made
    <3>1. \A n \in 1 .. Len(r) : r[n] \in Messages /\ r[n].role = "tool"
      BY <1>4
    <3>2. \A m \in Messages : m.role = "tool" => m.calls = <<>>
      BY DEF Messages
    <3>3. \A m : m.calls = <<>> => CallIds(m) = {}
      BY DEF CallIds, ToSet
    <3> QED
      BY <1>4, <1>5, <3>1, <3>2, <3>3
  <2>2. \A i \in DOMAIN h : \/ i \in DOMAIN hist /\ h[i] = hist[i]
                            \/ \E n \in 1 .. Len(r) : h[i] = r[n]
    BY <1>4, <1>6, JoinedParts
  <2> HIDE DEF h
  <2> QED
    BY <1>6, <2>1, <2>2 DEF Within
<1>9. ~torn => OpenRound(h, OpenIds \ S) /\ Settled(disk, Len(disk))
  <2> SUFFICES ASSUME ~torn PROVE OpenRound(h, OpenIds \ S) /\ Settled(disk, Len(disk))
    OBVIOUS
  <2>1. OpenRound(hist, OpenIds) /\ Settled(disk, Len(disk))
    BY <1>1 DEF HistInv
  <2>2. \A n \in 1 .. Len(r) : r[n].role = "tool" /\ r[n].id \in OpenIds
    BY <1>4, <1>5
  <2>3. OpenRound(h, OpenIds \ {r[n].id : n \in 1 .. Len(r)})
    BY <1>4, <1>6, <2>1, <2>2, RoundGoesOn
  <2> QED
    BY <1>4, <2>1, <2>3
<1> HIDE DEF h
<1>10. CASE Len(todo) > 1 /\ hist' = h /\ BeginBatch(Tail(todo)) /\ UNCHANGED <<disk, pc>>
  <2>1. todo' = Tail(todo)
    BY <1>10 DEF BeginBatch
  <2>2. /\ \A k \in DOMAIN todo' : k + 1 \in DOMAIN todo /\ k + 1 # 1 /\ todo'[k] = todo[k + 1]
        /\ \A k, l \in DOMAIN todo' : k # l => k + 1 # l + 1
        /\ \A k \in DOMAIN todo : k # 1 => k - 1 \in DOMAIN todo' /\ todo'[k - 1] = todo[k]
    BY <1>1, <1>10, <2>1
  <2>3. BatchesApart'
    BY <2>2 DEF HistInv, BatchesApart
  <2>4. Planned' = Planned \ Batch
    <3>1. \A k \in DOMAIN todo : k # 1 => todo[k] \cap Batch = {}
      BY <1>2 DEF HistInv, BatchesApart
    <3>2. \A c : c \in Planned' <=> \E k \in DOMAIN todo' : c \in todo'[k]
      BY DEF Planned
    <3>3. \A c : c \in Planned <=> \E k \in DOMAIN todo : c \in todo[k]
      BY DEF Planned
    <3>4. ASSUME NEW c, c \in Planned' PROVE c \in Planned \ Batch
      BY <2>2, <3>1, <3>2, <3>3, <3>4
    <3>5. ASSUME NEW c, c \in Planned, c \notin Batch PROVE c \in Planned'
      BY <1>2, <2>2, <3>2, <3>3, <3>5
    <3> QED
      BY <3>4, <3>5
  <2>5. OpenIds' = OpenIds \ S
    <3>1. \A c, d \in Planned : c.id = d.id => c = d
      BY DEF RunInv, FreshIds
    <3> QED
      BY <1>5, <2>4, <3>1 DEF OpenIds, S
  <2>6. ~torn' => OpenRound(hist', OpenIds') /\ Settled(disk', Len(disk'))
    BY <1>1, <1>9, <1>10, <2>5
  <2> QED
    BY <1>1, <1>6, <1>7, <1>8, <1>10, <2>3, <2>6 DEF HistInv
<1>11. CASE Len(todo) = 1
  <2>1. Planned = Batch
    <3>1. DOMAIN todo = {1}
      BY <1>1, <1>11
    <3> QED
      BY <1>2, <3>1 DEF Planned
  <2>2. OpenIds \ S = {}
    BY <2>1 DEF OpenIds, S
  <2>3. ~torn => Settled(h, Len(h))
    BY <1>7, <1>9, <2>2, RoundCloses
  <2>4. CASE EndSaved(h)
    <3>1. ~torn => CompleteOrphans(h) = h
      BY <1>7, <2>3, SettledComplete
    <3>2. Within(h, made')
      BY <1>1, <1>8
    <3> QED
      BY <1>1, <1>7, <2>3, <2>4, <3>1, <3>2, EndSettled
  <2>5. CASE hist' = h /\ disk' \in {h, disk} /\ pc' = "model" /\ todo' = <<>>
    <3>1. BatchesApart'
      BY <2>5 DEF BatchesApart
    <3>2. disk' \in Seq(Messages) /\ Within(disk', made) /\ (~torn => Settled(disk', Len(disk')))
      BY <1>6, <1>7, <1>8, <1>9, <2>3, <2>5
    <3> QED
      BY <1>1, <1>7, <1>8, <2>3, <2>5, <3>1, <3>2 DEF HistInv
  <2> QED
    BY <1>1, <1>11, <2>4, <2>5
<1> QED
  BY <1>1, <1>10, <1>11

LEMMA CancelTaskSettled == ASSUME RunInv, HistInv, CancelTask PROVE HistInv'
<1>1. /\ UNCHANGED <<hist, disk, made>> /\ pc' = "idle" /\ todo' = <<>>
      /\ torn' = (torn \/ pc = "batch")
  BY DEF CancelTask
<1>2. BatchesApart'
  BY <1>1 DEF BatchesApart
<1>3. ~torn' => Settled(disk', Len(disk')) /\ Settled(hist', Len(hist')) /\ pc' # "batch"
  BY <1>1 DEF HistInv
<1> QED
  BY <1>1, <1>2, <1>3 DEF HistInv

\* No conversation is a settled one.
LEMMA EmptySettled ==
  <<>> \in Seq(Messages) /\ Len(<<>>) = 0 /\ Settled(<<>>, Len(<<>>)) /\ \A top : Within(<<>>, top)
<1>1. <<>> \in Seq(Messages) /\ Len(<<>>) = 0 /\ DOMAIN <<>> = {}
  BY EmptySeq
<1>2. \A i \in 1 .. 0 : FALSE
  OBVIOUS
<1> QED
  BY <1>1, <1>2 DEF Settled, Within

LEMMA CrashSettled == ASSUME RunInv, HistInv, Crash PROVE HistInv'
<1>1. UNCHANGED <<disk, made, torn>> /\ pc' = "down" /\ todo' = <<>> /\ hist' = <<>>
  BY DEF Crash
<1>2. BatchesApart'
  BY <1>1 DEF BatchesApart
<1>3. ~torn' => Settled(disk', Len(disk')) /\ Settled(hist', Len(hist')) /\ pc' # "batch"
  BY <1>1, EmptySettled DEF HistInv
<1>4. hist' \in Seq(Messages) /\ Within(hist', made')
  BY <1>1, EmptySettled
<1> QED
  BY <1>1, <1>2, <1>3, <1>4 DEF HistInv

LEMMA RestartSettled == ASSUME RunInv, HistInv, Restart PROVE HistInv'
<1>1. /\ UNCHANGED <<todo, made, torn>> /\ pc' = "idle" /\ hist' = disk'
      /\ disk' \in {disk, CompleteOrphans(disk)}
  BY DEF Restart
<1>2. disk \in Seq(Messages) /\ Within(disk, made) /\ (~torn => Settled(disk, Len(disk)))
  BY DEF HistInv
<1>3. disk' \in Seq(Messages) /\ Within(disk', made)
  BY <1>1, <1>2, CompletedWithin
<1>4. ~torn => disk' = disk
  BY <1>1, <1>2, SettledComplete
<1>5. BatchesApart'
  BY <1>1 DEF HistInv, BatchesApart
<1> QED
  BY <1>1, <1>2, <1>3, <1>4, <1>5 DEF HistInv

-----------------------------------------------------------------------------
(* The specification *)

LEMMA InitHistInv == Init => HistInv
<1> SUFFICES ASSUME Init PROVE HistInv
  OBVIOUS
<1>1. hist = <<>> /\ disk = <<>> /\ todo = <<>> /\ pc = "idle"
  BY DEF Init
<1>2. BatchesApart
  BY <1>1 DEF BatchesApart
<1> QED
  BY <1>1, <1>2, EmptySettled DEF HistInv

LEMMA StepHistInv == RunInv /\ HistInv /\ [Next]_vars => HistInv'
<1> SUFFICES ASSUME RunInv, HistInv, [Next]_vars PROVE HistInv'
  OBVIOUS
<1>1. CASE UNCHANGED vars
  BY <1>1, SameTalk DEF vars, memory
<1>2. CASE ModelFails \/ RequestCancel
  BY <1>2, SameTalk DEF ModelFails, RequestCancel
<1>3. ASSUME NEW id \in Ids,
             StartCall(id) \/ TakeAnswer(id) \/ Act(id) \/ Commit(id) \/ Record(id) \/ Fail(id)
      PROVE  HistInv'
  <2>1. UNCHANGED <<hist, disk, todo, made, torn, pc>>
    BY <1>3 DEF StartCall, TakeAnswer, Act, Commit, Record, Fail
  <2> QED
    BY <2>1, SameTalk
<1>4. ASSUME NEW call \in Calls, Answer(call, TRUE) \/ Answer(call, FALSE) \/ Expire(call)
      PROVE  HistInv'
  <2>1. UNCHANGED <<hist, disk, todo, made, torn, pc>>
    BY <1>4 DEF Answer, Expire
  <2> QED
    BY <2>1, SameTalk
<1>5. ASSUME NEW tools \in ToolLists, ModelCalls(tools) PROVE HistInv'
  BY <1>5, ModelCallsSettled
<1>6. CASE StartRun
  BY <1>6, StartRunSettled
<1>7. CASE AskModel
  BY <1>7, AskModelSettled
<1>8. CASE ModelSays
  BY <1>8, ModelSaysSettled
<1>9. CASE FinishBatch
  BY <1>9, FinishBatchSettled
<1>10. CASE CancelTask
  BY <1>10, CancelTaskSettled
<1>11. CASE Crash
  BY <1>11, CrashSettled
<1>12. CASE Restart
  BY <1>12, RestartSettled
<1> QED
  BY <1>1, <1>2, <1>3, <1>4, <1>5, <1>6, <1>7, <1>8, <1>9, <1>10, <1>11, <1>12 DEF Next

\* Whatever is cancelled, fails, crashes or is loaded again, the provider is never
\* sent a call without its result or a result without its call, and as long as no
\* task was cancelled inside a batch no result a tool gave is missing from what it
\* is sent (repair_openai_tool_sequence, complete_orphan_tool_results, message.py).
THEOREM HistoryIsRepaired == Spec => []HistoryRepaired
<1>1. Spec => [](RunInv /\ HistInv)
  BY InitRunInv, StepRunInv, InitHistInv, StepHistInv, PTL DEF Spec
<1>2. RunInv /\ HistInv => HistoryRepaired
  <2> SUFFICES ASSUME HistInv PROVE HistoryRepaired
    OBVIOUS
  <2>1. RequestWellFormed
    <3>1. Conversation(hist)
      BY MessagesTalk DEF HistInv
    <3> QED
      BY <3>1, RepairIsWellFormed DEF RequestWellFormed
  <2>2. ResultsStayVisible
    <3> SUFFICES ASSUME pc = "model", ~torn
                 PROVE  \A i \in DOMAIN hist : hist[i].role = "tool" => i \in Kept(hist)
      BY DEF ResultsStayVisible
    <3>1. hist \in Seq(Messages) /\ Settled(hist, Len(hist))
      BY DEF HistInv
    <3> QED
      BY <3>1, SettledKept
  <2> QED
    BY <2>1, <2>2 DEF HistoryRepaired
<1> QED
  BY <1>1, <1>2, PTL
=============================================================================
