----------------------------- MODULE ToolCalls -----------------------------
(***************************************************************************)
(* The data of a Run's tool calls: the conversation with its rounds of     *)
(* calls and results (core/message.py) and the batches the calls of one    *)
(* model answer are cut into (execution/tool_scheduler.py).                *)
(*                                                                         *)
(* A conversation is a sequence of messages as the provider sees them: the *)
(* rows of one assistant turn are one message with its calls, in order.    *)
(* What a message says is not modelled, only what pairs it with others.    *)
(***************************************************************************)
EXTENDS Integers, Sequences, FiniteSets, SequencesExt

CONSTANTS
    Tools,      \* a tool together with its arguments
    Reads,      \* the tools of a READ_* effect
    Resource    \* Resource[t]: the path a tool reads or writes

ASSUME ToolConstants ==
    /\ Reads \subseteq Tools
    /\ Tools \subseteq DOMAIN Resource

User == [role |-> "user", calls |-> <<>>, id |-> 0, out |-> ""]
Assistant(calls) == [role |-> "assistant", calls |-> calls, id |-> 0, out |-> ""]
Result(id, out) == [role |-> "tool", calls |-> <<>>, id |-> id, out |-> out]

CallIds(m) == {c.id : c \in ToSet(m.calls)}

-----------------------------------------------------------------------------
(* repair_openai_tool_sequence *)

\* The tool messages that follow message i without a gap.
Following(h, i) ==
    {j \in i + 1 .. Len(h) : \A k \in i + 1 .. j : h[k].role = "tool"}

\* The results among them that answer a call of message i, the first of each id.
Answers(h, i) ==
    {j \in Following(h, i) :
        /\ h[j].id \in CallIds(h[i])
        /\ \A k \in Following(h, i) : k < j => h[k].id # h[j].id}

\* Mutant: a round counts as answered as soon as one of its calls is.
RoundAnsweredOnce(h, i) ==
    CallIds(h[i]) = {} \/ CallIds(h[i]) \cap {h[j].id : j \in Answers(h, i)} # {}

RoundAnswered(h, i) == CallIds(h[i]) \subseteq {h[j].id : j \in Answers(h, i)}

Kept(h) ==
    LET whole == {i \in DOMAIN h : h[i].role = "assistant" /\ RoundAnswered(h, i)}
    IN  {i \in DOMAIN h : h[i].role = "user"} \cup whole
            \cup UNION {Answers(h, i) : i \in whole}

\* The messages of h at the positions K, in their order.
At(h, K) ==
    [n \in 1 .. Cardinality(K) |->
        h[CHOOSE k \in K : Cardinality({j \in K : j <= k}) = n]]

Repair(h) == At(h, Kept(h))

\* What the provider accepts: every call is answered at once, every result
\* answers a call of the round it stands in.
WellFormed(h) ==
    \A i \in DOMAIN h :
        /\ h[i].role = "assistant" =>
             CallIds(h[i]) = {h[j].id : j \in Following(h, i)}
        /\ h[i].role = "tool" =>
             \E k \in 1 .. i - 1 : /\ h[k].role = "assistant"
                                   /\ i \in Following(h, k)

-----------------------------------------------------------------------------
(* complete_orphan_tool_results *)

CallsOf(h) == FlattenSeq([i \in DOMAIN h |-> h[i].calls])
Fulfilled(h) == {h[i].id : i \in {j \in DOMAIN h : h[j].role = "tool"}}

\* The placeholders go to the end of the conversation, wherever the call stands.
CompleteOrphans(h) ==
    LET all    == CallsOf(h)
        missed == {n \in DOMAIN all :
                     /\ all[n].id \notin Fulfilled(h)
                     /\ \A m \in 1 .. n - 1 : all[m].id # all[n].id}
        calls  == At(all, missed)
    IN  h \o [n \in DOMAIN calls |-> Result(calls[n].id, "none")]

-----------------------------------------------------------------------------
(* ToolScheduler *)

\* Mutant: a write conflicts with the reads, but not with another write.
ConflictWithReads(a, b) ==
    \/ (a.tool \in Reads) # (b.tool \in Reads)
    \/ a.tool \in Reads /\ Resource[a.tool] = Resource[b.tool]

\* effects_conflict, or a resource in common: only two reads of different
\* resources run side by side.
Conflict(a, b) ==
    \/ a.tool \notin Reads
    \/ b.tool \notin Reads
    \/ Resource[a.tool] = Resource[b.tool]

\* The calls, in the order of the model, each go into the first batch they have no
\* conflict with: into batch place[n] the call n, which may be a new batch.
FirstFit(calls, place) ==
    \A n \in DOMAIN calls :
        /\ \A e \in 1 .. n - 1 : place[e] = place[n] => ~Conflict(calls[n], calls[e])
        /\ \A k \in 1 .. place[n] - 1 :
              \E e \in 1 .. n - 1 : place[e] = k /\ Conflict(calls[n], calls[e])

\* The plans of calls: sequences of batches. There is one plan for each sequence of calls.
PlanBatches(calls) ==
    UNION {{[k \in 1 .. m |-> {calls[n] : n \in {e \in DOMAIN calls : place[e] = k}}] :
              place \in {p \in [DOMAIN calls -> 1 .. m] :
                           FirstFit(calls, p) /\ \E n \in DOMAIN calls : p[n] = m}} :
             m \in DOMAIN calls}
=============================================================================
