------------------------------ MODULE AgentRun ------------------------------
(***************************************************************************)
(* One run of an agent as the desktop sees it: runAgentClient               *)
(* (lib/client/agentRunner.ts) with the kernel's agent on one side and the   *)
(* consumer in hooks/useSynthesis.ts on the other.  Listeners (Tauri IPC) or *)
(* an EventSource (remote clients) translate the kernel's events into a      *)
(* queue; a generator submits the task, then drains the queue into           *)
(* handleAgentEvent (a card, module TaskCard) or handleOsQuery (the chat).   *)
(*                                                                          *)
(* JavaScript runs a task and the microtasks it wakes to the end before the  *)
(* next one, so once the generator drains, a pushed event reaches the card   *)
(* before anything else happens; events pile up only while the submission    *)
(* is pending.  An emission of the kernel and its delivery are one step: the *)
(* kernel does not look at the frontend, so a late delivery is a late kernel.*)
(* The SSE stream may lose events (the broadcast lags), Tauri's does not.    *)
(***************************************************************************)
EXTENDS TaskCard

CONSTANTS
    Transports,     \* "tauri", "sse": the clients considered
    Modes,          \* "task", "os": handleQuery or handleOsQuery
    Destructive,    \* the tools the kernel asks an approval for
    MaxRounds,      \* bound: rounds of tools of the agent
    MaxSteps,       \* its max_steps, in rounds
    MaxBatch,       \* bound: tools of one round
    MaxLost         \* bound: events the SSE stream loses

ASSUME AgentRunAssumption ==
    /\ Transports \subseteq {"tauri", "sse"}
    /\ Modes \subseteq {"task", "os"}
    /\ Destructive \subseteq Tools
    /\ IsFiniteSet(Tools) /\ NoTool \notin Tools
    /\ MaxRounds \in Nat /\ MaxSteps \in Nat /\ MaxBatch \in Nat /\ MaxLost \in Nat

VARIABLES
    transport,  \* isTauri()
    mode,       \* params.mode
    kernel,     \* the agent: where it is, the calls left, the approval it waits on
    run,        \* the locals of runAgentClient
    card,       \* the node and task the events go to
    replies,    \* assistant messages handleOsQuery added
    aborted,    \* requestController.signal.aborted
    prompt,     \* InlineApproval: has its user decided, is a reply pending
    outcomes,   \* history: terminal events pushed or yielded
    early,      \* history: the run finished while the submission was pending
    lost,       \* history: the events the stream lost
    stale       \* history: a verdict reached a kernel that was not waiting for it

vars == <<transport, mode, kernel, run, card, replies, aborted, prompt,
          outcomes, early, lost, stale>>
uiVars == <<card, replies, aborted, prompt, stale>>
historyVars == <<outcomes, early, lost>>

Terminal == {"task_completed", "task_failed"}

Over == run.phase \in {"over", "failed", "thrown"}
\* No microtask is due: a draining generator has nothing to drain.
Quiet == run.phase = "draining" => run.queue = <<>>

-----------------------------------------------------------------------------
(* What the listeners push.  They are operators on the locals of the run: r  *)
(* is run, and the result is run after the listener.                         *)

Push(r, evts) == [r EXCEPT !.queue = @ \o evts]
Finish(r) == [r EXCEPT !.finished = TRUE]
NextStep(r) == [r EXCEPT !.idx = @ + 1]
Started(n, k, t) == Event("step_started", Step(ReasonStep(n), k, "running", t), NoTool, <<>>)
Completed(n, k, t) == Event("step_completed", Step(ReasonStep(n), k, "completed", t), NoTool, <<>>)
Progress(n) == Event("step_progress", Step(ReasonStep(n), "absent", "absent", NoTool), NoTool, <<>>)
ToolResult(t) == Event("agent_tool_result", NoStep, t, <<>>)
ApprovalFor(k, t) ==
    Event("approval_required", Step(ApprovalStep(k), "tool_call", "waiting_approval", t), NoTool, <<>>)

\* The answer of a run: a chat message or a card, then the completion.
Answer(blocks) ==
    <<IF mode = "os" THEN Signal("conversation_message")
                     ELSE Event("card_generated", NoStep, NoTool, blocks),
      Signal("task_completed")>>

\* hadA2UIMessages, as more than a flag: "no" message was pushed, or what those
\* pushed come to, a "surface" or "other" (none was begun, or it was deleted).
HadA2UI(r) == r.a2ui # "no"
Comes(a, m) ==
    CASE m = "beginRendering" -> "surface"
      [] m = "deleteSurface" -> "other"
      [] OTHER -> IF a = "no" THEN "other" ELSE a
PushA2UI(r, m) == [Push(r, <<Signal(m)>>) EXCEPT !.a2ui = Comes(@, m)]

(* extractA2UIMessages and parseStructuredCardResponse: a response is empty, *)
(* a text or card (its blocks), or A2UI messages that begin a surface or only*)
(* fill one.  Once there were A2UI messages, those of the response are taken *)
(* for a repetition, and its text is no block of the card.                   *)
Responses == {"empty", "text", "beginRendering", "surfaceUpdate"}
ResponseBlocks(r, e) == IF HadA2UI(r) \/ e.body # "text" THEN <<>> ELSE <<Plain("final")>>
A2UIOf(r, e) ==
    IF e.body \in A2UIMessages /\ ~HadA2UI(r) THEN PushA2UI(r, e.body) ELSE r

\* Tauri, "agent-status-update".
TauriStatus(r, e) ==
    IF r.finished THEN r
    ELSE CASE e.state = "STARTING" ->
                NextStep(Push(r, <<Signal("task_started"), Started(r.idx, "llm_reasoning", NoTool)>>))
           [] e.state = "THINKING" -> Push(r, <<Progress(r.idx)>>)
           [] e.state = "ACTING" ->
                NextStep(Push(r, <<Completed(r.idx, "llm_reasoning", NoTool),
                                   Started(r.idx + 1, "tool_call", e.tool)>>))
           [] e.state = "COMPLETE" -> Push(r, <<Completed(r.idx, "llm_reasoning", NoTool)>>)
           [] e.state = "ERROR" -> Finish(Push(r, <<Signal("task_failed")>>))
           [] OTHER -> r

\* Tauri, "agent-stream": the one listener with "agent-response" that does not
\* look at finished.
TauriStream(r) == Push(r, <<Signal("agent_stream")>>)

\* Tauri, "agent-response".
TauriResponse(r, e) ==
    LET q == A2UIOf(r, e) IN Finish(Push(q, Answer(ResponseBlocks(q, e))))

\* Tauri, "agent-ui-patch" and "agent-a2ui-message".
TauriUiPatch(r) ==
    IF r.finished THEN r
    ELSE Push(r, <<Event("agent_ui_patch", NoStep, NoTool, <<Plain("patch")>>)>>)
TauriA2UIMessage(r, e) == IF r.finished THEN r ELSE PushA2UI(r, e.state)

\* Mutant of TauriToolResult: the tool's step is completed after the increment.
TauriToolResultLate(r, e) ==
    IF r.finished THEN r
    ELSE NextStep(Push(r, <<ToolResult(e.tool), Completed(r.idx + 1, "tool_call", e.tool),
                            Started(r.idx + 1, "llm_reasoning", NoTool)>>))

\* Tauri, "agent-tool-result".
TauriToolResult(r, e) ==
    IF r.finished THEN r
    ELSE NextStep(Push(r, <<Completed(r.idx, "tool_call", e.tool), ToolResult(e.tool),
                            Started(r.idx + 1, "llm_reasoning", NoTool)>>))

\* Mutant of TauriApproval: the step number stays.
TauriApprovalSameKey(r, e) ==
    IF r.finished THEN r
    ELSE NextStep(Push(r, <<Completed(r.idx, "llm_reasoning", NoTool), ApprovalFor(0, e.tool)>>))

\* Tauri, "agent-approval-request".
TauriApproval(r, e) ==
    IF r.finished THEN r
    ELSE NextStep(Push(r, <<Completed(r.idx, "llm_reasoning", NoTool), ApprovalFor(e.key, e.tool)>>))

\* Tauri, "intent-cache-hit" and "intent-cache-result".
TauriCacheHit(r, e) ==
    IF r.finished THEN r ELSE Push(r, <<Started(r.idx, "tool_call", e.tool)>>)
TauriCacheResult(r, e) ==
    IF r.finished THEN r
    ELSE Finish(Push(r, <<Completed(r.idx, "tool_call", e.tool), ToolResult(e.tool)>>
                        \o Answer(<<Plain("final")>>)))

CloseSource(r) == [r EXCEPT !.source = IF @ = "open" THEN "closed" ELSE @]

\* Mutant of SseStatus: a completion waits for the response only.
SseStatusNoFallback(r, e) ==
    IF r.finished THEN r
    ELSE CASE e.state = "ERROR" ->
                CloseSource([Finish(Push(r, <<Signal("task_failed")>>)) EXCEPT !.timer = FALSE])
           [] OTHER -> Push(r, <<Progress(r.idx)>>)

\* SSE, "agent-status-update": a completion only arms the 500 ms fallback.
SseStatus(r, e) ==
    IF r.finished THEN r
    ELSE CASE e.state = "STARTING" ->
                NextStep(Push(r, <<Signal("task_started"), Started(r.idx, "llm_reasoning", NoTool)>>))
           [] e.state = "ERROR" ->
                CloseSource([Finish(Push(r, <<Signal("task_failed")>>)) EXCEPT !.timer = FALSE])
           [] e.state = "COMPLETE" -> [r EXCEPT !.timer = TRUE]
           [] OTHER -> Push(r, <<Progress(r.idx)>>)

\* SSE, "agent-response".
SseResponse(r, e) ==
    IF r.finished THEN r
    ELSE LET q == A2UIOf([r EXCEPT !.timer = FALSE], e)
         IN  CloseSource(Finish(Push(q, Answer(ResponseBlocks(q, e)))))

\* SSE, "agent-tool-result".
SseToolResult(r, e) ==
    IF r.finished THEN r
    ELSE NextStep(Push(r, <<Completed(r.idx, "tool_call", e.tool), ToolResult(e.tool),
                            Started(r.idx + 1, "llm_reasoning", NoTool)>>))

\* SSE, "agent-approval-request": no step is completed, the number stays.
SseApproval(r, e) ==
    IF r.finished THEN r ELSE Push(r, <<ApprovalFor(e.key, e.tool)>>)

\* Mutant of SseFallback: the run is not marked finished, nor the source closed.
SseFallbackOpen(r) == [Push(r, Answer(<<Plain("final")>>)) EXCEPT !.timer = FALSE]

\* The fallback of COMPLETE, when the response did not come in time.
SseFallback(r) == CloseSource([Finish(Push(r, Answer(<<Plain("final")>>))) EXCEPT !.timer = FALSE])

\* es.onerror.
SseError(r) ==
    CloseSource(IF r.finished THEN r
                ELSE [Finish(Push(r, <<Signal("task_failed")>>)) EXCEPT !.timer = FALSE])

OnTauri(r, e) ==
    CASE e.name = "agent-status-update" -> TauriStatus(r, e)
      [] e.name = "agent-stream" -> TauriStream(r)
      [] e.name = "agent-response" -> TauriResponse(r, e)
      [] e.name = "agent-ui-patch" -> TauriUiPatch(r)
      [] e.name = "agent-a2ui-message" -> TauriA2UIMessage(r, e)
      [] e.name = "agent-tool-result" -> TauriToolResult(r, e)
      [] e.name = "agent-approval-request" -> TauriApproval(r, e)
      [] e.name = "intent-cache-hit" -> TauriCacheHit(r, e)
      [] e.name = "intent-cache-result" -> TauriCacheResult(r, e)

\* Remote clients listen to four of these events.
OnSse(r, e) ==
    CASE e.name = "agent-status-update" -> SseStatus(r, e)
      [] e.name = "agent-response" -> SseResponse(r, e)
      [] e.name = "agent-tool-result" -> SseToolResult(r, e)
      [] e.name = "agent-approval-request" -> SseApproval(r, e)
      [] OTHER -> r

-----------------------------------------------------------------------------
(* The kernel's agent, as far as its events go (crates/kernel/src/agent.rs). *)

\* An event of the kernel; a field it does not carry is empty.
KernelEvent(n, s, t, k, b) == [name |-> n, state |-> s, tool |-> t, key |-> k, body |-> b]
Status(s) == KernelEvent("agent-status-update", s, NoTool, 0, "empty")
ActingOn(t) == KernelEvent("agent-status-update", "ACTING", t, 0, "empty")
Bare(n) == KernelEvent(n, "", NoTool, 0, "empty")
A2UIEvent(m) == KernelEvent("agent-a2ui-message", m, NoTool, 0, "empty")
\* What an event tells of the end of the run.
Kind(e) ==
    CASE e.name = "agent-status-update" /\ e.state \in {"COMPLETE", "ERROR"} -> e.state
      [] e.name = "agent-response" -> e.name
      [] OTHER -> "progress"

Received(r) ==
    /\ run' = r
    /\ early' = (early \/ (r.finished /\ run.phase = "submitting"))
    /\ UNCHANGED lost

\* An event reaches the listeners, is lost on the stream, or nobody listens.
Emit(e) ==
    /\ \/ transport = "tauri" /\ run.listening /\ Received(OnTauri(run, e))
       \/ transport = "sse" /\ run.source = "open" /\ Received(OnSse(run, e))
       \/ /\ transport = "sse" /\ run.source = "open" /\ Len(lost) < MaxLost
          /\ lost' = Append(lost, Kind(e))
          /\ UNCHANGED <<run, early>>
       \/ /\ ~run.listening /\ run.source # "open"
          /\ UNCHANGED <<run, early, lost>>
    /\ UNCHANGED <<transport, mode, outcomes, uiVars>>

KernelAt(at) == Quiet /\ kernel.at = at
Goto(at) == kernel' = [kernel EXCEPT !.at = at]

\* submit_agent_task spawns the agent, or finds the query in the intent cache.
KernelAccepts ==
    /\ KernelAt("sent") /\ Goto("boot")
    /\ UNCHANGED <<transport, mode, run, uiVars, historyVars>>

CacheHit ==
    /\ KernelAt("sent") /\ transport = "tauri"
    /\ \E t \in Tools :
          /\ kernel' = [kernel EXCEPT !.at = "cache", !.todo = <<t>>]
          /\ Emit(KernelEvent("intent-cache-hit", "", t, 0, "empty"))

\* No arguments could be extracted: the agent runs after all.
CacheMiss ==
    /\ KernelAt("cache")
    /\ kernel' = [kernel EXCEPT !.at = "boot", !.todo = <<>>]
    /\ UNCHANGED <<transport, mode, run, uiVars, historyVars>>

CacheResult ==
    /\ KernelAt("cache")
    /\ kernel' = [kernel EXCEPT !.at = "done", !.todo = <<>>]
    /\ Emit(KernelEvent("intent-cache-result", "", kernel.todo[1], 0, "text"))

AgentStarts == KernelAt("boot") /\ Goto("reason") /\ Emit(Status("STARTING"))
AgentThinks == KernelAt("reason") /\ Goto("stream") /\ Emit(Status("THINKING"))

\* Tokens, interface patches and A2UI messages of one LLM call, or none.  They are
\* emitted to the desktop's windows and not broadcast to remote clients.
AgentStreams ==
    /\ KernelAt("stream") /\ Goto("choose")
    /\ \/ transport = "tauri" /\ \E n \in {"agent-stream", "agent-ui-patch"} : Emit(Bare(n))
       \/ transport = "tauri" /\ \E m \in A2UIMessages : Emit(A2UIEvent(m))
       \/ UNCHANGED <<transport, mode, run, uiVars, historyVars>>

\* The calls of a round: the safe ones together, then the destructive ones.
AgentActs ==
    /\ KernelAt("choose") /\ kernel.round < MaxRounds
    /\ \E batch \in SUBSET Tools :
          /\ Cardinality(batch) \in 1 .. MaxBatch
          /\ kernel' = [kernel EXCEPT !.at = "tools", !.round = @ + 1,
                           !.todo = SetToSeq(batch \ Destructive) \o SetToSeq(batch \cap Destructive)]
          /\ \E first \in batch : Emit(ActingOn(first))

AgentAsks ==
    /\ KernelAt("tools") /\ kernel.todo # <<>> /\ kernel.todo[1] \in Destructive
    /\ kernel' = [kernel EXCEPT !.at = "asked", !.asks = @ + 1]
    /\ Emit(KernelEvent("agent-approval-request", "", kernel.todo[1], kernel.asks + 1, "empty"))

ApprovalTimesOut ==
    /\ KernelAt("asked") /\ Goto("refused")
    /\ UNCHANGED <<transport, mode, run, uiVars, historyVars>>

ApprovedActs == KernelAt("approved") /\ Goto("result") /\ Emit(ActingOn(kernel.todo[1]))

ToolReturns ==
    /\ Quiet /\ kernel.todo # <<>>
    /\ \/ kernel.at \in {"result", "refused"}
       \/ kernel.at = "tools" /\ kernel.todo[1] \notin Destructive
    /\ kernel' = [kernel EXCEPT !.at = "tools", !.todo = Tail(@)]
    /\ Emit(KernelEvent("agent-tool-result", "", kernel.todo[1], 0, "empty"))

\* A text is cut at a fixed number of bytes, which panics inside a character that
\* takes several: a value of the A2UI data model that the model wrote (choose), the
\* preview of a destructive call before its prompt, the result of a call (tools,
\* result).  The panic ends the agent's task, and nothing tells anyone.
AgentPanics ==
    /\ \/ KernelAt("choose") \/ KernelAt("result")
       \/ KernelAt("tools") /\ kernel.todo # <<>>
    /\ Goto("panicked")
    /\ UNCHANGED <<transport, mode, run, uiVars, historyVars>>

RoundEnds ==
    /\ KernelAt("tools") /\ kernel.todo = <<>> /\ Goto("reason")
    /\ UNCHANGED <<transport, mode, run, uiVars, historyVars>>

AgentCompletes ==
    /\ KernelAt("choose") /\ Goto("respond") /\ Emit(Status("COMPLETE"))

\* After its loop an agent at max_steps answers, even one that has answered, unless
\* the cut of the summary of its answer has ended it.
AfterLoop == IF kernel.round >= MaxSteps THEN "forced" ELSE "done"
AgentResponds ==
    /\ KernelAt("respond")
    /\ \E b \in Responses, at \in {AfterLoop, "done"} :
          /\ kernel' = [kernel EXCEPT !.at = at, !.said = b]
          /\ Emit(KernelEvent("agent-response", "", NoTool, 0, b))
AgentFails == KernelAt("choose") /\ Goto(AfterLoop) /\ Emit(Status("ERROR"))
ForcedCompletes == KernelAt("forced") /\ Goto("forced response") /\ Emit(Status("COMPLETE"))
ForcedResponds ==
    /\ KernelAt("forced response") /\ Goto("done")
    /\ Emit(KernelEvent("agent-response", "", NoTool, 0, "text"))

-----------------------------------------------------------------------------
(* The generator and its consumer.                                          *)

\* Attach the listeners, or open the EventSource.
Subscribe ==
    /\ run.phase = "setup"
    /\ run' = [run EXCEPT !.phase = "subscribed",
                          !.listening = (transport = "tauri"),
                          !.source = IF transport = "sse" THEN "open" ELSE @]
    /\ UNCHANGED <<transport, mode, kernel, uiVars, historyVars>>

\* No token: getKernelEventsUrl returns null, and handleQuery's catch removes
\* the card unless the run was aborted.
SubscribeFails ==
    /\ run.phase = "setup" /\ transport = "sse"
    /\ run' = [run EXCEPT !.phase = "thrown"]
    /\ card' = IF aborted THEN card ELSE [card EXCEPT !.node = "removed"]
    /\ UNCHANGED <<transport, mode, kernel, replies, aborted, prompt, stale, historyVars>>

\* The first event is yielded.  A consumer that sees the abort returns, and at
\* this yield the generator has no finally clause.
YieldStarted ==
    /\ run.phase = "subscribed"
    /\ IF aborted
       THEN /\ run' = [run EXCEPT !.phase = "over"]
            /\ UNCHANGED <<card, kernel>>
       ELSE /\ run' = [run EXCEPT !.phase = "submitting"]
            /\ kernel' = [kernel EXCEPT !.at = "sent"]
            /\ card' = IF mode = "os" THEN card
                       ELSE HandleAgentEvent(card, Signal("task_started"))
    /\ UNCHANGED <<transport, mode, replies, aborted, prompt, stale, historyVars>>

\* Mutant of Release: the event source is left open.
ReleaseListeners(r) == [r EXCEPT !.phase = "over", !.listening = FALSE, !.queue = <<>>]

\* The finally clause: unlisten, clear the timer's use, close the source.
Release(r) == CloseSource([r EXCEPT !.phase = "over", !.listening = FALSE, !.queue = <<>>])

\* kernelInvoke returned; the loop is not entered when the run was aborted.
SubmitReturns ==
    /\ run.phase = "submitting" /\ kernel.at \notin {"sent", "cache"}
    /\ run' = IF aborted THEN Release(run) ELSE [run EXCEPT !.phase = "draining"]
    /\ UNCHANGED <<transport, mode, kernel, uiVars, historyVars>>

\* kernelInvoke threw (HTTP), before or after the kernel took the task: the
\* failure is yielded and the Tauri listeners, not the source, are released.
SubmitFails ==
    /\ run.phase = "submitting" /\ transport = "sse"
    /\ run' = [run EXCEPT !.phase = "failed", !.listening = FALSE]
    /\ kernel' = IF kernel.at = "sent" THEN [kernel EXCEPT !.at = "done"] ELSE kernel
    /\ IF aborted THEN UNCHANGED <<card, replies, outcomes>>
       ELSE /\ outcomes' = outcomes + 1
            /\ card' = IF mode = "os" THEN card ELSE HandleAgentEvent(card, Signal("task_failed"))
            /\ replies' = IF mode = "os" THEN 1 ELSE replies
    /\ UNCHANGED <<transport, mode, aborted, prompt, stale, early, lost>>

\* An abort is noticed when the next event wakes the loop.
DrainAborted ==
    /\ run.phase = "draining" /\ run.queue # <<>> /\ aborted
    /\ run' = Release(run)
    /\ UNCHANGED <<transport, mode, kernel, uiVars, historyVars>>

\* Mutant of Emptied: the loop ends as soon as the run is finished.
EmptiedAtOnce(finished) == finished

\* The loop's condition: go on while not finished or something is queued.
Emptied(finished) == finished /\ Len(run.queue) = 1

\* handleQuery takes one event; those queued after a terminal event come too.
DrainToCard ==
    LET e == Head(run.queue)
        finished == run.finished \/ e.type \in Terminal
    IN  /\ run.phase = "draining" /\ run.queue # <<>> /\ ~aborted /\ mode = "task"
        /\ card' = HandleAgentEvent(card, e)
        /\ outcomes' = outcomes + (IF e.type \in Terminal THEN 1 ELSE 0)
        /\ run' = IF Emptied(finished) THEN Release(run)
                  ELSE [run EXCEPT !.queue = Tail(@), !.finished = finished]
        /\ UNCHANGED <<transport, mode, kernel, replies, aborted, prompt, stale, early, lost>>

\* The assistant messages handleOsQuery adds for an event: the answer, or, if
\* there was none (sawAssistantMessage), an apology for a terminal event.
OsReplies(e) ==
    IF e.type = "conversation_message" \/ (e.type \in Terminal /\ replies = 0) THEN 1 ELSE 0

\* handleOsQuery takes one event and stops at a terminal one.
DrainToChat ==
    LET e == Head(run.queue)
    IN  /\ run.phase = "draining" /\ run.queue # <<>> /\ ~aborted /\ mode = "os"
        /\ replies' = replies + OsReplies(e)
        /\ outcomes' = outcomes + (IF e.type \in Terminal THEN 1 ELSE 0)
        /\ run' = IF e.type \in Terminal THEN Release(run) ELSE [run EXCEPT !.queue = Tail(@)]
        /\ UNCHANGED <<transport, mode, kernel, card, aborted, prompt, stale, early, lost>>

FallbackFires ==
    /\ Quiet /\ run.timer
    /\ Received(IF run.finished THEN [run EXCEPT !.timer = FALSE] ELSE SseFallback(run))
    /\ UNCHANGED <<transport, mode, kernel, outcomes, uiVars>>

ConnectionLost ==
    /\ Quiet /\ run.source = "open"
    /\ Received(SseError(run))
    /\ UNCHANGED <<transport, mode, kernel, outcomes, uiVars>>

-----------------------------------------------------------------------------
(* The user.                                                                *)

\* Cancel on the card (handleCancelTask), or cancelAllActive for the chat.
Cancel ==
    /\ Quiet
    /\ \/ mode = "task" /\ CanCancel(card) /\ card' = CancelCard(card)
       \/ mode = "os" /\ ~Over /\ ~aborted /\ UNCHANGED card
    /\ aborted' = (aborted \/ ~Over)
    /\ UNCHANGED <<transport, mode, kernel, run, replies, prompt, stale, historyVars>>

\* Mutant of AfterVerdict: the verdict is taken for the next state.
AfterVerdictRaw(approve) == IF approve THEN "approved" ELSE "rejected"

\* Where the agent goes on after a verdict.
AfterVerdict(approve) == IF approve THEN "approved" ELSE "refused"

\* A click on Approve or Reject.  The command exists for Tauri clients only.
Decide(approve) ==
    LET step == PendingApproval(card) IN
    /\ Quiet /\ mode = "task" /\ card.node # "removed"
    /\ step # NoStep /\ ~prompt.decided
    /\ prompt' = [decided |-> TRUE, reply |-> prompt.reply \/ transport = "tauri"]
    /\ kernel' = IF transport = "tauri" /\ kernel.at = "asked" /\ step.id = ApprovalStep(kernel.asks)
                 THEN [kernel EXCEPT !.at = AfterVerdict(approve)]
                 ELSE kernel
    /\ UNCHANGED <<transport, mode, run, card, replies, aborted, stale, historyVars>>

\* The command returns; whether the kernel still waited is not looked at.
DecisionReturns ==
    /\ Quiet /\ prompt.reply
    /\ prompt' = [prompt EXCEPT !.reply = FALSE]
    /\ card' = DecidedCard(card)
    /\ stale' = (stale \/ Over \/ aborted)
    /\ UNCHANGED <<transport, mode, kernel, run, replies, aborted, historyVars>>

\* The card is taken off the screen and put back (minimised, other space).
Remount ==
    /\ Quiet /\ prompt.decided
    /\ prompt' = [prompt EXCEPT !.decided = FALSE]
    /\ UNCHANGED <<transport, mode, kernel, run, card, replies, aborted, stale, historyVars>>

-----------------------------------------------------------------------------

\* What an earlier run has left on a card, in this session (drawn) or in one before
\* it (the set of drawn nodes is not stored): blocks, or a surface.
LeftBlocks(d) == [NewCard EXCEPT !.blocks = <<Plain(IF d THEN "drawn" ELSE "older")>>, !.drawn = d]
LeftSurface(d) == [NewCard EXCEPT !.a2ui = "older", !.drawn = d]

\* A new card, or a reply on a card an earlier run has left.  What the reply asks for
\* is looked at on a card that was not generated yet only.
Cards ==
    LET left == {LeftBlocks(FALSE), LeftSurface(FALSE)}
        drawn == {LeftBlocks(TRUE), LeftSurface(TRUE)}
    IN  {NewCard} \cup {ResumeCard(c, "you") : c \in left \cup drawn}
                  \cup {ResumeCard(c, "redo") : c \in left}

NewRun == [phase |-> "setup", queue |-> <<>>, finished |-> FALSE, idx |-> 0,
           a2ui |-> "no", timer |-> FALSE, source |-> "none", listening |-> FALSE]

Init ==
    /\ transport \in Transports /\ mode \in Modes
    /\ card \in IF mode = "os" THEN {NewCard} ELSE Cards
    /\ kernel = [at |-> "off", todo |-> <<>>, asks |-> 0, round |-> 0,
                 said |-> "none"]
    /\ run = NewRun
    /\ replies = 0 /\ aborted = FALSE
    /\ prompt = [decided |-> FALSE, reply |-> FALSE]
    /\ outcomes = 0 /\ early = FALSE /\ lost = <<>> /\ stale = FALSE

KernelStep ==
    \/ KernelAccepts \/ CacheHit \/ CacheMiss \/ CacheResult
    \/ AgentStarts \/ AgentThinks \/ AgentStreams \/ AgentActs \/ AgentAsks
    \/ ApprovalTimesOut \/ ApprovedActs \/ ToolReturns \/ AgentPanics \/ RoundEnds
    \/ AgentCompletes \/ AgentResponds \/ AgentFails
    \/ ForcedCompletes \/ ForcedResponds

RunStep ==
    \/ Subscribe \/ SubscribeFails \/ YieldStarted \/ SubmitReturns \/ SubmitFails
    \/ DrainAborted \/ DrainToCard \/ DrainToChat \/ FallbackFires

UserStep == Cancel \/ DecisionReturns \/ Remount \/ \E a \in BOOLEAN : Decide(a)

Next == KernelStep \/ RunStep \/ ConnectionLost \/ UserStep

\* The runtime runs what is due and the agent goes on (its wait is bounded by a
\* timeout) or panics; the user and the network owe nothing.
Fairness == WF_vars(KernelStep) /\ WF_vars(RunStep) /\ WF_vars(DecisionReturns)

Spec == Init /\ [][Next]_vars /\ Fairness

-----------------------------------------------------------------------------
(* Properties.                                                              *)

Ats == {"off", "sent", "cache", "boot", "reason", "stream", "choose", "tools", "asked",
        "approved", "refused", "result", "panicked", "respond", "forced", "forced response", "done"}

TypeOK ==
    /\ transport \in Transports /\ mode \in Modes
    /\ kernel \in [at : Ats, todo : Seq(Tools), asks : Nat, round : Nat,
                    said : Responses \cup {"none"}]
    /\ run.phase \in {"setup", "subscribed", "submitting", "draining", "over", "failed", "thrown"}
    /\ run.finished \in BOOLEAN /\ run.timer \in BOOLEAN /\ run.listening \in BOOLEAN
    /\ run.a2ui \in {"no", "surface", "other"} /\ card.a2ui \in {"none", "older", "drawn"}
    /\ run.idx \in Nat /\ run.source \in {"none", "open", "closed"}
    /\ replies \in Nat /\ outcomes \in Nat
    /\ {aborted, early, stale} \subseteq BOOLEAN

(* A run tells its consumer one outcome: "Yield events until the agent       *)
(* reaches a terminal state".  COMPLETE, the response that follows it, the   *)
(* fallback timer, an error and a lost connection compete for it.  Only the  *)
(* Tauri response, which does not look at finished, can add one, and only to *)
(* an error that was pushed before the submission returned.                  *)
OneOutcome == outcomes <= 1 \/ (transport = "tauri" /\ early)

(* Each question of the chat gets one assistant message, whatever the agent, *)
(* the stream and the fallback do, unless the user stopped it.               *)
OneReply ==
    mode = "os" /\ run.phase \in {"over", "failed"} /\ ~aborted => replies = 1

(* The consumer of a run is told the end once, whichever way it came.         *)
ToldOnce == OneOutcome /\ OneReply

(* A run that ended well has put the agent's answer on the card, through     *)
(* every order of stream, response, fallback and error.  A surface that the  *)
(* run's A2UI messages began, and did not delete, is drawn.  The text of a   *)
(* run without such messages is among the blocks, unless the card was        *)
(* generated before in this session ("drawn") or still draws the surface of  *)
(* an older run: card_generated drops these answers.  The runner drops the   *)
(* text when A2UI messages came that left no surface: of these runs nothing  *)
(* is said.                                                                  *)
AnswerOnCard ==
    mode = "task" /\ run.phase = "over" /\ card.task = "completed" /\ kernel.said # "empty"
        => /\ run.a2ui = "surface" => card.a2ui = "drawn"
           /\ run.a2ui = "no" /\ card.a2ui # "older"
                => \E i \in DOMAIN card.blocks : card.blocks[i].sort \in {"final", "drawn"}

(* The listeners and the event source are released when the run is over,     *)
(* except after an abort before the first event (no finally clause is active *)
(* there) and, for the source, after a failed submission.                    *)
SubscriptionsReleased ==
    Over => \/ ~run.listening /\ run.source # "open"
            \/ aborted /\ kernel.at = "off"
            \/ ~run.listening /\ run.phase = "failed"

(* On Tauri the steps of a run that completed are closed, through rounds of  *)
(* parallel calls and approvals, although the runner numbers them without    *)
(* looking at the kernel's numbers.  The exception is the first one: it is   *)
(* started as step 0 when the counter already says 1, and nothing completes  *)
(* it.                                                                       *)
StepsClosed ==
    transport = "tauri" /\ run.phase = "over" /\ card.task = "completed" /\ ~early
        => \A i \in DOMAIN card.steps :
              card.steps[i].status = "running" => card.steps[i].id = ReasonStep(0)

(* The first approval the kernel waits for is the one the card's prompt is   *)
(* about, as soon as the event has reached the card.                         *)
Offered ==
    transport = "tauri" /\ mode = "task" /\ run.phase = "draining" /\ ~aborted /\ Quiet
      /\ kernel.at = "asked"
        => PendingApproval(card).id = ApprovalStep(kernel.asks)
FirstApprovalOffered == kernel.asks = 1 => Offered

(* A card whose run is over is not shown as running, unless a verdict's      *)
(* reply was applied after the end, or the run never got its event source.   *)
RunningHasRun ==
    mode = "task" /\ Over /\ card.task = "running" => stale \/ run.phase = "thrown"

(* A run ends, and with it the slot it holds: after an abort too, although   *)
(* only the next event wakes the loop, and with the network losing events.   *)
(* Not when every event that says so was lost, and not when the agent        *)
(* panicked: nothing watches its task, and the run waits for ever.           *)
TerminalLost ==
    LET gone == {lost[i] : i \in DOMAIN lost}
    IN  "ERROR" \in gone \/ {"COMPLETE", "agent-response"} \subseteq gone
RunEnds == <>(Over \/ TerminalLost \/ kernel.at = "panicked")

=============================================================================
