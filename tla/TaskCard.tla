------------------------------ MODULE TaskCard ------------------------------
(***************************************************************************)
(* One agent card of the desktop workspace and the task record behind it:   *)
(* what handleAgentEvent (hooks/useSynthesis.ts) does to them for each event *)
(* the runner yields, through updateTaskStep and updateTaskStatus of         *)
(* stores/nodesStore.ts.  The module has no variables: a card is a value,    *)
(* and every operator returns the card after one event.                      *)
(*                                                                          *)
(* Texts are left out.  A block keeps the marks the code tells blocks apart  *)
(* by: an intermediate block (_isIntermediate, _toolStepId) is "running" or  *)
(* "settled"; a "rich" block is built from a tool result; "patch" blocks are *)
(* pushed by the agent; "you" is the user's reply, "redo" one that asks to   *)
(* start over; "final" blocks are those of the generated card, "older" and   *)
(* "drawn" what an earlier run had left.                                     *)
(*                                                                          *)
(* Of the A2UI state of a card only its surface is kept, which is drawn when *)
(* a root and a surface are set: "none", an "older" run's or the run's own   *)
(* ("drawn").                                                               *)
(***************************************************************************)
EXTENDS Naturals, Sequences, SequencesExt, FiniteSetsExt

CONSTANT Tools      \* the tool names of the kernel's agents

NoTool == "none"
StepKinds == {"llm_reasoning", "tool_call", "absent"}
StepStatuses == {"running", "completed", "waiting_approval", "absent"}
ReasonStep(n) == <<"step", n>>
ApprovalStep(k) == <<"approval", k>>

Step(i, k, s, t) == [id |-> i, kind |-> k, status |-> s, tool |-> t]
NoStep == Step(<<"none", 0>>, "absent", "absent", NoTool)
Block(s, i, t) == [sort |-> s, step |-> i, tool |-> t]
Plain(s) == Block(s, NoStep.id, NoTool)

\* AgentRunEvent: the events the runner yields, with the fields the card uses.
Event(y, s, t, b) == [type |-> y, step |-> s, tool |-> t, blocks |-> b]
Signal(y) == Event(y, NoStep, NoTool, <<>>)

\* The messages of an agent_a2ui_message event: one that sets a root and a surface,
\* one that fills or touches a surface whichever is shown (surfaceUpdate,
\* dataModelUpdate, endRendering, a deletion elsewhere), and the deletion of the
\* surface that is shown.  The event goes by the name of its message.
A2UIMessages == {"beginRendering", "surfaceUpdate", "deleteSurface"}

NewCard ==
    [node |-> "synthesizing",       \* node.status
     shown |-> "running",           \* node.taskStatus
     task |-> "running",            \* task.status in the store
     steps |-> <<>>,                \* task.steps
     blocks |-> <<>>,               \* node.content.blocks
     streaming |-> FALSE,           \* streamingReasoning or streamingContent
     a2ui |-> "none",               \* the surface of a2uiState
     drawn |-> FALSE]               \* cardGeneratedForRef has this node

\* The last index of sequence s whose element satisfies P, 0 if none does.
FindLast(s, P(_)) == Max({0} \cup {i \in DOMAIN s : P(s[i])})

\* The elements of s that satisfy P, in their order: SelectSeq, spelt out because
\* the provers know nothing of it.  The k-th one is the one of rank k.
Rank(S, i) == Cardinality({j \in S : j <= i})
Filtered(s, P(_)) ==
    LET S == {i \in DOMAIN s : P(s[i])}
    IN  [k \in 1 .. Cardinality(S) |-> s[CHOOSE i \in S : Rank(S, i) = k]]

-----------------------------------------------------------------------------
(* nodesStore.updateTaskStep: merge into the step with this id, or append.   *)
(* Fields the event does not carry are "absent" and leave the old value.     *)
MergeStep(steps, s) ==
    LET i == FindLast(steps, LAMBDA x : x.id = s.id)
    IN  IF i = 0 THEN Append(steps, s)
        ELSE [steps EXCEPT ![i] =
                 Step(s.id,
                      IF s.kind = "absent" THEN @.kind ELSE s.kind,
                      IF s.status = "absent" THEN @.status ELSE s.status,
                      IF s.tool = NoTool THEN @.tool ELSE s.tool)]

UpdateTaskStep(c, s) == [c EXCEPT !.steps = MergeStep(@, s)]
UpdateTaskStatus(c, st) == [c EXCEPT !.task = st]

\* lib/agent/intermediateBlocks.ts: transient blocks of a tool step.
IsIntermediate(b) == b.sort \in {"running", "settled"}
BuildIntermediateBlock(s) ==
    IF s.kind # "tool_call" \/ s.tool = NoTool THEN <<>>
    ELSE CASE s.status = "running" -> <<Block("running", s.id, s.tool)>>
           [] s.status = "completed" -> <<Block("settled", s.id, s.tool)>>
           [] OTHER -> <<>>

-----------------------------------------------------------------------------
(* The cases of handleAgentEvent.                                           *)

TaskStarted(c) == [UpdateTaskStatus(c, "running") EXCEPT !.shown = "running"]

StepStarted(c, s) ==
    [UpdateTaskStep(c, s) EXCEPT
        !.blocks = @ \o BuildIntermediateBlock(s),
        !.streaming = @ /\ s.kind # "tool_call"]

StepProgress(c, s) == UpdateTaskStep(c, s)

\* Replace the block of this step, or add one.
StepCompleted(c, s) ==
    LET new == BuildIntermediateBlock(s)
        i == FindLast(c.blocks, LAMBDA b : b.step = s.id)
    IN  [UpdateTaskStep(c, s) EXCEPT
            !.blocks = IF new = <<>> THEN @
                       ELSE IF i > 0 THEN [@ EXCEPT ![i] = new[1]] ELSE @ \o new]

ApprovalRequired(c, s) ==
    [UpdateTaskStep(c, s) EXCEPT !.shown = "waiting_approval"]

TaskCompleted(c) ==
    [UpdateTaskStatus(c, "completed") EXCEPT
        !.shown = "completed", !.streaming = FALSE,
        !.node = IF @ = "synthesizing" THEN "active" ELSE @]

TaskFailed(c) ==
    [UpdateTaskStatus(c, "failed") EXCEPT
        !.shown = "failed", !.node = "active", !.streaming = FALSE]

\* The user's replies, and whether the first one asks to add to the card.
IsReply(b) == b.sort \in {"you", "redo"}
WantsMore(old) ==
    LET replies == {i \in DOMAIN old : IsReply(old[i])}
    IN  replies # {} /\ old[Min(replies)].sort = "you"

\* Mutant of FinalBlocks: the new blocks are used only on a fresh run.
FinalBlocksForgotten(old, new) ==
    IF WantsMore(old) THEN old ELSE Filtered(old, IsIntermediate) \o new

(* The blocks of a generated card: after a reply, what the card had without  *)
(* transient blocks and replies, then the new ones; on a fresh run, and when *)
(* the reply asks to start over, the transient blocks and the new ones.      *)
FinalBlocks(old, new) ==
    IF WantsMore(old)
    THEN Filtered(old, LAMBDA b : ~IsIntermediate(b) /\ ~IsReply(b)) \o new
    ELSE Filtered(old, IsIntermediate) \o new

\* hasA2UI: the card draws a surface, an older run's too.
HasSurface(c) == c.a2ui # "none"

(* card_generated, dropped when this node had one before (in this session).  *)
(* The new blocks are left out when the card has a surface.                  *)
CardGenerated(c, new) ==
    IF c.drawn THEN c
    ELSE [c EXCEPT !.drawn = TRUE, !.node = "active", !.shown = "completed",
                   !.streaming = FALSE,
                   !.blocks = IF HasSurface(c) \/ new = <<>> THEN @ ELSE FinalBlocks(@, new)]

AgentStream(c) ==
    IF c.node = "synthesizing" \/ c.shown \in {"running", "planning"}
    THEN [c EXCEPT !.streaming = TRUE] ELSE c

AgentUiPatch(c, new) == [c EXCEPT !.blocks = @ \o new]

\* applyA2UIMessage: the root and the surface are set by beginRendering, cleared by
\* the deletion of that surface, and by nothing else.
AgentA2UIMessage(c, m) ==
    [c EXCEPT !.a2ui = CASE m = "beginRendering" -> "drawn"
                         [] m = "deleteSurface" -> "none"
                         [] OTHER -> @]

\* buildRichBlockFromToolResult: one block for every tool, failed or not; the
\* tools differ in its layout only, and it is not transient.
RichBlock(t) == Block("rich", NoStep.id, t)

(* agent_tool_result: the rich block replaces the transient block of the     *)
(* same tool, else any transient block, else it is appended.                 *)
AgentToolResult(c, t) ==
    LET same == FindLast(c.blocks, LAMBDA b : IsIntermediate(b) /\ b.tool = t)
        i == IF same > 0 THEN same ELSE FindLast(c.blocks, IsIntermediate)
    IN  [c EXCEPT !.blocks = IF i > 0 THEN [@ EXCEPT ![i] = RichBlock(t)]
                                       ELSE Append(@, RichBlock(t))]

HandleAgentEvent(c, e) ==
    CASE e.type = "task_started" -> TaskStarted(c)
      [] e.type = "step_started" -> StepStarted(c, e.step)
      [] e.type = "step_progress" -> StepProgress(c, e.step)
      [] e.type = "step_completed" -> StepCompleted(c, e.step)
      [] e.type = "approval_required" -> ApprovalRequired(c, e.step)
      [] e.type = "task_completed" -> TaskCompleted(c)
      [] e.type = "task_failed" -> TaskFailed(c)
      [] e.type = "card_generated" -> CardGenerated(c, e.blocks)
      [] e.type = "agent_stream" -> AgentStream(c)
      [] e.type = "agent_ui_patch" -> AgentUiPatch(c, e.blocks)
      [] e.type \in A2UIMessages -> AgentA2UIMessage(c, e.type)
      [] e.type = "agent_tool_result" -> AgentToolResult(c, e.tool)
      [] OTHER -> c

-----------------------------------------------------------------------------
(* What a run does to the card outside its events.                          *)

\* handleQuery with a target node: the card is taken again for a reply, and keeps
\* its content, its surface too.
ResumeCard(c, reply) ==
    [c EXCEPT !.node = "synthesizing", !.shown = "running", !.task = "running",
              !.steps = <<>>, !.blocks = Append(@, Plain(reply))]

\* handleCancelTask.
CancelCard(c) ==
    [UpdateTaskStatus(c, "cancelled") EXCEPT !.node = "active", !.shown = "cancelled"]

\* handleApproveStep and handleRejectStep after the kernel's reply.
DecidedCard(c) == [UpdateTaskStatus(c, "running") EXCEPT !.shown = "running"]

(* HybridAgentCard.pendingApprovalStep: the step its prompt is about, the    *)
(* first one that waits for an approval.                                     *)
PendingApproval(c) ==
    LET waiting == {i \in DOMAIN c.steps : c.steps[i].status = "waiting_approval"}
    IN  IF waiting = {} THEN NoStep ELSE c.steps[Min(waiting)]

\* HybridAgentCard offers Cancel while the task record says that it runs.
CanCancel(c) == c.task = "running"
=============================================================================
