--------------------------- MODULE ContextWindow ---------------------------
(***************************************************************************)
(* What a Run sends to its model (core/agent.py, context/): the budget of  *)
(* the conversation, its compaction and truncation, and the refusal of a   *)
(* request that stays too large.                                           *)
(*                                                                         *)
(* "chat" is the conversation as Messages.to_openai gives it: a round of   *)
(* calls without all its results is not in it (see ToolCalls).  A message  *)
(* is its role, its size in tokens and, for calls and results, their ids.  *)
(***************************************************************************)
EXTENDS Naturals, Sequences

CONSTANTS
    Threshold,      \* 85 % of the model's window
    Reserve,        \* RESERVE_TOKENS: room for the answer and the tools
    KeepRecent,     \* keep_recent_turns of the Compactor
    KeepTail,       \* messages _truncate_safely keeps
    SummarySize,    \* bound of a summary's text
    Sizes,          \* bound: sizes of inputs, answers, results and system prompts
    MaxChat,        \* bound: messages of a conversation
    MaxTokens       \* bound: inputs are added to conversations smaller than this

ASSUME ContextAssumption ==
    /\ {Threshold, Reserve, SummarySize, MaxChat, MaxTokens} \subseteq Nat
    /\ {KeepRecent, KeepTail} \subseteq Nat \ {0}
    /\ Sizes \subseteq Nat \ {0}

VARIABLES
    chat,       \* the conversation
    prompt,     \* size of agent.system
    at,         \* "idle", "ask": before a request, "answer": the model is at work
    request     \* the last request: its messages and the budget's decision

contextVars == <<chat, prompt, at, request>>

Roles == {"system", "user", "assistant", "tool"}
ChatMessages == [role : Roles, size : Nat \ {0}, ids : SUBSET (1 .. MaxChat)]
Message(role, size, ids) == [role |-> role, size |-> size, ids |-> ids]
NoRequest == [messages |-> <<>>, decision |-> "none"]

ContextTypeOK ==
    /\ chat \in Seq(ChatMessages)
    /\ prompt \in Sizes
    /\ at \in {"idle", "ask", "answer"}
    /\ request \in [messages : Seq(ChatMessages), decision : {"none", "ok", "compact", "limit"}]

\* The tokens of a list of messages.
Estimate(ms) ==
    LET upTo[i \in 0 .. Len(ms)] == IF i = 0 THEN 0 ELSE upTo[i - 1] + ms[i].size
    IN  upTo[Len(ms)]

\* The messages that have one of the roles, in their order.
OfRoles(ms, roles) ==
    LET kept[i \in 0 .. Len(ms)] ==
          IF i = 0 THEN <<>>
          ELSE IF ms[i].role \in roles THEN Append(kept[i - 1], ms[i]) ELSE kept[i - 1]
    IN  kept[Len(ms)]

SystemsOf(ms) == OfRoles(ms, {"system"})
OthersOf(ms) == OfRoles(ms, Roles \ {"system"})
Newest(ms) == ms[Len(ms)]
LastOf(ms, n) == SubSeq(ms, IF Len(ms) > n THEN Len(ms) - n + 1 ELSE 1, Len(ms))

\* decide_context_budget
Decision(ms) ==
    IF Estimate(ms) > Threshold THEN "limit"
    ELSE IF Estimate(ms) + Reserve > Threshold THEN "compact" ELSE "ok"

\* _assemble: the agent's system text of today in front of the conversation, whose own
\* system message stays.
Assembled(ms) == <<Message("system", prompt, {})>> \o ms

Smaller(a, b) == IF a < b THEN a ELSE b

\* Compactor.compact: all but the last messages become one summary; nothing is pinned.
Compacted(ms) ==
    LET recent == LastOf(ms, KeepRecent)
        old    == OthersOf(SubSeq(ms, 1, Len(ms) - Len(recent)))
        summary == Message("user", 1 + Smaller(Estimate(old), SummarySize), {})
    IN  IF old = <<>> THEN ms
        ELSE SystemsOf(ms) \o <<summary>> \o recent

\* _truncate_safely: the system messages and the last others, summary or not.
Truncated(ms) == SystemsOf(ms) \o LastOf(OthersOf(ms), KeepTail)

\* ContextManager.prepare: compaction, then truncation of what is still too large.  What
\* is too large from the start is only truncated.
Prepared(ms) ==
    LET first  == Assembled(ms)
        second == IF Decision(first) = "compact" THEN Compacted(first) ELSE first
    IN  IF Decision(second) = "limit" THEN Truncated(second) ELSE second

ContextInit ==
    /\ chat = <<>> /\ prompt \in Sizes /\ at = "idle" /\ request = NoRequest

\* Consecutive user rows are one message.
WithUser(ms, size) ==
    IF ms # <<>> /\ Newest(ms).role = "user"
    THEN [ms EXCEPT ![Len(ms)].size = @ + size]
    ELSE Append(ms, Message("user", size, {}))

\* before_user_turn may change the system text; ensure_system adds it to an empty
\* conversation only.
UserTurn(size, system) ==
    /\ at = "idle" /\ Len(chat) < MaxChat /\ Estimate(chat) < MaxTokens
    /\ prompt' = system
    /\ chat' = WithUser(IF chat = <<>> THEN <<Message("system", system, {})>> ELSE chat, size)
    /\ at' = "ask"
    /\ UNCHANGED request

\* An immediate input at a checkpoint before the next request.
Steered(size) ==
    /\ at = "ask" /\ Len(chat) < MaxChat /\ Estimate(chat) < MaxTokens
    /\ chat' = WithUser(chat, size)
    /\ UNCHANGED <<prompt, at, request>>

\* generate_messages: a limit refuses the request and ends the Run, "ok" sends the
\* conversation as it is, whatever was prepared from it.
Ask ==
    LET ms == Prepared(chat)
        d  == Decision(ms)
    IN  /\ at = "ask"
        /\ request' = [messages |-> IF d = "limit" THEN <<>>
                                    ELSE IF d = "ok" THEN chat ELSE ms,
                       decision |-> d]
        /\ at' = IF d = "limit" THEN "idle" ELSE "answer"
        /\ UNCHANGED <<chat, prompt>>

\* The model answers in words: the Run ends.
Says(size) ==
    /\ at = "answer" /\ Len(chat) < MaxChat
    /\ chat' = Append(chat, Message("assistant", size, {}))
    /\ at' = "idle"
    /\ UNCHANGED <<prompt, request>>

\* It calls tools, whose results follow at once.
CallsTools(sizes) ==
    LET ids == {Len(chat) + 1 + i : i \in DOMAIN sizes} IN
    /\ at = "answer" /\ Len(chat) + 1 + Len(sizes) <= MaxChat
    /\ chat' = Append(chat, Message("assistant", 1, ids))
                 \o [i \in DOMAIN sizes |-> Message("tool", sizes[i], {Len(chat) + 1 + i})]
    /\ at' = "ask"
    /\ UNCHANGED <<prompt, request>>

\* The Run fails or is cancelled: a round it leaves torn is not sent again.
Stopped ==
    /\ at \in {"ask", "answer"} /\ at' = "idle"
    /\ UNCHANGED <<chat, prompt, request>>

ContextNext ==
    \/ \E n, s \in Sizes : UserTurn(n, s)
    \/ \E n \in Sizes : Steered(n) \/ Says(n)
    \/ \E n \in Sizes : CallsTools(<<n>>)
    \/ \E m, n \in Sizes : CallsTools(<<m, n>>)
    \/ Ask \/ Stopped

ContextSpec == ContextInit /\ [][ContextNext]_contextVars

-----------------------------------------------------------------------------
IdsOf(ms, role) == UNION {ms[i].ids : i \in {j \in DOMAIN ms : ms[j].role = role}}

\* Every call is answered and every result answers a call.
Paired(ms) == IdsOf(ms, "assistant") = IdsOf(ms, "tool")

\* However the conversation grew, a request ends with the newest input or result; one
\* that was reduced begins with the agent's system text of now and lies within the
\* threshold; one that was not is the conversation, with its rounds whole.
ContextSound ==
    /\ ContextTypeOK
    /\ at = "answer" =>
        /\ Newest(request.messages) = Newest(chat)
        /\ request.decision = "compact" =>
              /\ Head(request.messages) = Message("system", prompt, {})
              /\ Estimate(request.messages) <= Threshold
        /\ request.decision = "ok" => Paired(request.messages)

\* Not so: "the whole history is not sent unconditionally, above 85 % it is compacted
\* first" (context/manager.py:17).  When the truncated messages are small enough, the
\* conversation itself is sent.
SentWithinThreshold ==
    at = "answer" => Estimate(request.messages) <= Threshold

\* Not so: "pairs of call and result stay whole when compacted" (context/compactor.py:7).
CompactedPaired ==
    at = "answer" => Paired(request.messages)

\* Not so: a conversation within the threshold may be refused when its summary is longer
\* than what it stands for.
FittingIsSent ==
    at = "ask" /\ Estimate(Assembled(chat)) <= Threshold => Decision(Prepared(chat)) # "limit"

\* Not so: a changed system text reaches the model only in a reduced request.
SystemCurrent ==
    at = "answer" => \E i \in DOMAIN request.messages :
        request.messages[i] = Message("system", prompt, {})
=============================================================================
