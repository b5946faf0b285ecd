# TLA+ models of Synthesis OS

This directory is a verification project for the repository: TLA+ modules that
model its core protocols, in the Rust kernel and in the desktop's TypeScript,
TLC configurations that check them on small instances, and TLAPS proofs, for
instances of every size, of every safety property that the passing runs check.
Paths below are relative to the repository; `kernel/` stands for
`crates/kernel/src/` and `desktop/` for `apps/desktop/src/`.

## The system

Synthesis OS is a desktop application: a Rust kernel (`kernel/`) inside a
Tauri shell (`apps/desktop/src-tauri/src/lib.rs`) with a React frontend
(`desktop/`).  Everything an agent does is a *syscall*, a message with a
oneshot reply channel, sent to one scheduler.

| Component | State | Operations | Interacts by |
| --- | --- | --- | --- |
| Dispatcher, `kernel/scheduler.rs:1393-1517` | per-agent LLM queues, agent order, policy | receive and route, 50 ms tick, policy switch | bounded channels: one in (100), three out (50 each) |
| Workers, `kernel/scheduler.rs:237-1160` | one call in service each, ToolManager lock, tool cache | LLM call, tool execution, storage/memory/context handlers | channels in, oneshot replies out; storage tools send syscalls back in |
| LSFS, `kernel/storage.rs` | SQLite tables `files`, `file_versions`, `permissions`; content files by hash | create, write, read, delete, rollback, share, retention | called by the memory worker only |
| Approval gate, `kernel/approval_gate.rs`, `kernel/agent.rs:1440-1489` | map of pending requests | request, resolve, sweep, time out | oneshot to the waiting agent, event to the frontend, command back |
| Agent, `kernel/agent.rs` | step, observations, tool steps, session | plan, ReAct loop, tool dispatch, final answer, fact extraction | syscalls, events |
| Intent cache, `kernel/intent_cache.rs`, `submit_agent_task` | table of learned (query, tool) rows | find, extract arguments, execute directly, learn | syscalls |
| Tool cache, `kernel/tool_cache.rs` | responses with 45 s TTL, at most 500 | get, set, evict | inside the tool worker |
| Memory manager, `kernel/memory.rs`; reflection worker | LanceDB table, RAM cache | read, write, upsert, deduplicate, retrieve, delete; reflect and clean up | memory syscalls |
| Context manager, `kernel/context.rs` | messages with a token budget, checkpoints | add, compact, checkpoint, restore | context syscalls |
| Accounts, `kernel/auth.rs`, `kernel/http_server.rs`; `desktop/context/`, `LoginView.tsx` | users, their documents, JWT secret; token, user and profiles of each page | setup, login, check, impersonate, reset, restart | HTTP, React effects |
| Agent runner, `desktop/lib/client/agentRunner.ts` | event queue, step counter, fallback timer, finished flag | one listener per kernel event, submit, drain, release | Tauri events or SSE in; a generator its consumer drains |
| Task cards, `desktop/hooks/useSynthesis.ts:684-1130`, `HybridAgentCard.tsx` | node, task record with steps, blocks, approval prompt | one case per event, approve, reject, cancel | events of the runner; a Tauri command back |
| Workspace, `desktop/stores/nodesStore.ts`, `desktop/hooks/useSynthesis.ts` | nodes, edges, per-space caches, runs, slots, query in flight | add, close, minimise, link, switch space, start and end runs, cancel | one store shared by user, runs and sync |
| Cross-device sync, `desktop/hooks/useUserSyncState.ts`, `SyncStateContext.tsx` | document, last change, local copy | load, apply, debounce, push, poll | HTTP |
| Others: LLM adapters, tools, prompts, most settings, rendering | | | I/O, text, tables |

What makes them correct, and what is hard about it:

* **Scheduler.** A call is in one place and is answered; agents take turns;
  priorities hold within an agent.  Hard: the dispatcher awaits a send while it
  has taken a call out of its queue and not yet updated the order; two books
  (`llm_queues`, `agent_order`) are kept by hand on six paths; the policy
  changes under them; workers send syscalls back to the dispatcher that feeds
  them.
* **LSFS.** Acknowledged writes are read back, history is kept, the pointer
  refers to a version.  Hard: several SQL statements and a file write with no
  transaction; content files shared by hash; two notions of "current".
* **Approval.** Nothing destructive runs without a yes to that very call; every
  request is decided.  Hard: two timers, late and repeated answers, sweeps done
  by other agents, a second path that bypasses the agent.
* **Agent run.** One outcome per task, on the right card, with every listener
  released.  Hard: the kernel's agent, the listeners, the fallback timer, the
  consumer and the user each end a run in their own way and none knows of the
  others; the stream may lose events; the runner numbers steps by counting.
* **Workspace.** Nothing the user made is lost, nothing stays busy.  Hard: runs
  end while their card is closed, minimised, cached with another space or
  cancelled, and share one counter, one spinner and one duplicate guard.
* **Sync.** No device's work is overwritten before it was sent.  Hard: whole
  documents, last writer wins, answers that race changes, agents and the load.
* **Accounts.** A page shows the account its requests act for.  Hard: token
  checks, logins, resets and restarts overlap and finish in any order.
* **Memory, caches.** A read returns the last write; nothing is lost when one
  of two steps fails.

`PROJECT.json` lists every hazard at its line with the properties that cover it
and, for the open ones, the module planned for it.

## Modules

| Module | Models |
| --- | --- |
| `SyscallScheduler` | dispatcher, channels, workers and their callers |
| `MCSyscallScheduler` | two agents, three callers, for TLC |
| `SyscallSchedulerProofs` | its types, queues, turns and priorities, where calls are, and when it cannot deadlock, proved |
| `VersionedStore` | abstract: what LSFS promises about history |
| `Lsfs` | `StorageManager`, statement by statement, with errors and crashes |
| `MCLsfs` | symmetry sets for TLC |
| `LsfsProofs` | its invariants, what a reply promises and the refinement of `VersionedStore`, proved |
| `ApprovalGate` | intent cache, an agent's tool step, the gate, the user, the clock |
| `MCApprovalGate` | two tasks, two destructive tools, for TLC |
| `ApprovalGateProofs` | its safety invariants, proved |
| `TaskCard` | operators: what each runner event does to a card and its task record |
| `AgentRun` | the kernel's agent, both transports, the generator, its consumer and the user, for one run; extends `TaskCard` |
| `MCAgentRun` | a safe and two destructive tools, for TLC |
| `AgentRunProofs` | all its safety invariants, proved |
| `Workspace` | cards, spaces, links, and all runs with their slots |
| `MCWorkspace` | ids and symmetry for TLC |
| `WorkspaceProofs` | its types, slots, what blocks the input bar, and that cards and links are kept, proved |
| `WorkspaceBusyProofs` | that a busy card has a run, proved |
| `Sync` | one page, its local copy, the server's document, the other devices |
| `MCSync` | names for TLC |
| `SyncProofs` | its safety invariants, proved |
| `Accounts` | the server's accounts and documents, and the sessions of several devices |
| `MCAccounts` | a desktop and a remote browser, symmetric account ids, for TLC |
| `AccountsProofs` | its invariants, proved |

### SyscallScheduler

A *call* is one `Syscall` with its reply channel: who sent it, its number, its
kind and priority.  `main`, `chan` are the tokio channels; `disp` and `hand`
are the dispatcher's program counter and the call it is sending; `llm_queues`
and `agent_order` are the maps of the code; `busy` and `phase` are the workers.
`LoopTop` is the top of the loop, where `try_lock` may or may not succeed in
taking over the requested policy and where the `select!` is polled.  Because
the sleep is created anew there, `Tick` is possible only if the main channel was
empty at that poll.  `Receive` enqueues an LLM call and re-sorts, or begins to
forward; `Forward` is the completion of the awaited send together with the
bookkeeping that follows it without another await.  A worker takes a call,
executes it, replies.  The storage tools run `NestedSend`: their thread holds
the ToolManager lock and blocks until the memory worker has answered a syscall
that goes through the dispatcher like any other.  `Abandon` is a caller whose
timeout drops the receiver.

Left out: payloads, statistics, logging.  Worker I/O is assumed to return.

### Lsfs and VersionedStore

The memory worker serves one storage syscall at a time, so operations do not
overlap; the steps within one do meet errors and crashes.  `op` is the syscall
being served with the stage it is in; `record` is `files.current_version`,
`versions` is `file_versions`, `content` is each content file as absent, torn
(truncated, not yet written) or full.  `CreateFile`, `WriteVersion` and
`WriteInPlace` do the lookups; `TruncateContent`, `WriteContent`,
`InsertVersion`, `UpdateVersion`, `PointToVersion`, `PruneVersions`, `Finish`
are the statements in order.  `Fail` returns early from any of them, `Crash`
forgets the operation and re-reads the configuration.  `read` and
`read_version` change nothing and are the operators `ReadResult`,
`ReadVersionResult`.

A path stands for (agent, path).  The 64-bit content hash is taken as
injective.  `delete` fails while a version refers to the file, as foreign keys
are enforced by the bundled SQLite.

`VersionedStore` says what callers may rely on: a new version goes on top,
a recorded version keeps its content while versioning is on, pruning takes the
oldest and leaves one.  The refinement maps `log` to `versions`.

### ApprovalGate

`at` is where each task is, from `submit_agent_task` to its end.  With the
cache on, `FindIntent`, `ExtractArguments` and `ExecuteCached` are the direct
path.  Otherwise the agent's step is `CallTools` (the LLM's tool calls split in
safe and destructive), `SafeReturns`, `JoinAll`, then for each destructive call
`RequestApproval` (sweep, insert), `AskUser` (emit, start waiting),
`Approved` / `GiveUp`, `Execute`; `LeaveLoop` and `LearnIntents` end the task.
`PanicOnPreview` is the byte slice at `agent.rs:1470` falling inside a
character.  `Respond` is a click in any dialog ever shown, at any time, as
often as the user likes.  `Tick` ages entries and waiting agents.

The user is free: no fairness is assumed of `Respond`.  The branch that allows
the tool when there is no `KernelState` (`agent.rs:1455-1460`) is not modelled,
since the shell manages it before a command can run.  What the LLM calls and in
which order is nondeterministic.  Guardrails and step limits of the loop are
abstracted to "the loop may be left after any step".

### TaskCard and AgentRun

`TaskCard` has no variables: a card is a record and each case of
`handleAgentEvent` an operator from card and event to card.  `MergeStep` is
`updateTaskStep`; the block rules (`BuildIntermediateBlock`, `FinalBlocks`,
`AgentToolResult`) keep of a block only what the code tells blocks apart by.

`AgentRun` composes four parties.  `kernel` is the agent as far as its events
go: rounds of tool calls, approvals, COMPLETE then response, a forced answer
after its loop, the intent cache's two events.  `run` holds the locals of
`runAgentClient`; `Tauri...` and `Sse...` are its listeners, operators on those
locals, as a listener runs inside the step that emits its event.  `Subscribe`,
`YieldStarted`, `SubmitReturns`, `DrainToCard`, `DrainToChat` are the pieces of
the generator between awaits, `Release` its finally clause, `FallbackFires` the
500 ms timer.  `Cancel`, `Decide`, `DecisionReturns`, `Remount` are the user at
the card.  `Quiet` is the rule of the JavaScript runtime that due microtasks run
before the next task: once the generator drains, an event reaches the card
before anything else happens.  While the submission is pending they pile up.

An answer is empty, a text, or A2UI messages, and the code decides three times
what becomes of it.  The runner (`HadA2UI`) gives a card no blocks once it has
pushed an A2UI message of any kind (`agentRunner.ts:540-559`).  The card draws a
surface only when a root and a surface are set, which `beginRendering` does and
a deletion undoes (`AgentA2UIMessage`, `lib/a2ui/renderer.tsx:105-165`).  And
`card_generated` leaves the blocks out when the card has a surface
(`HasSurface`), one of an older run too, since a reply keeps the card's content
(`ResumeCard`).  So `card.a2ui` is `none`, `older` or `drawn`, and `run.a2ui`
says what the run's own messages come to: `no` message, a `surface`, or `other`.
`Cards` are the cards a run may start with: new, or with blocks or a surface an
earlier run has left, drawn in this session or before it, and a reply that adds
to them or asks to start over (`WantsMore`).  Streams, patches and A2UI messages
are emitted to the desktop's windows alone, so a remote client gets only the
A2UI messages in a response.

The kernel cuts texts at byte offsets: a value of the A2UI data model (`agent.rs`
526), the result of a call (1377), the preview of a destructive call (1423,
1470), the summary of an answer (1270).  `AgentPanics`, and the second outcome of
`AgentResponds`, are a cut inside a character: the agent's task ends and tells
nobody.

Left out: texts, JSON extraction, the WAITING_APPROVAL status that goes with an
approval's event, the stream of a forced answer, a second reply to a card whose
first was not answered, and `onApprovalRequired`, which no caller passes.

### Workspace

`nodes`, `edges`, `spaceCache`, `linkMode`, `activeSpaceId` are the store's
fields of these names; `runs` are the pending calls of `handleQuery`,
`handleSearch`, `handleOsQuery` and of the refinement, with the controller's
`aborted` and whether `cancelAllActive` can see it (`listed`).  Each handler is
an action, and each `catch`/`finally` pair an ending: `TaskSucceeds`,
`TaskFails`, `TaskThrows`, `AbortSeen`, `ChatEnds`, `SearchSucceeds`,
`SearchFails`, `RefineEnds`, with `Finally` as the clause they share.
`CleanEdges` is the effect that follows a change of the nodes.  Of a run's
events only the last matters here; the others are in `AgentRun`.

The settings page deletes a card, or all of them, with their tasks: `DeleteCard`
and `ClearAllCards` filter the board only, so a card that is in a cache comes
back, without its task.

History variables record what the properties are about and what they except:
`made` are the ids in use; `gone` the cards a user closed or a run removed, and
those a cache lost when it was overwritten (`clearOnSwitch` turned off over a
full cache); `links` the links a user drew whose cards are not gone; `missed`
the cards that were busy in a cache when their run ended (the updaters map over
the board only); `overrun` that everything was cancelled while a run held a
slot.

### Sync

`page` is what React holds on one device, `stored` its local copy, `server` the
document kept for the user; `get` and `puts` are requests under way.  A document
is a set of cards, each running or done.  `Answer` is all of `doFetch` after its
`await`, with the effects that run because of it: apply or not (`MayApply`),
hydrate or load the local copy (`Loaded`), arm the write.  A document that is
applied and has cards takes two steps, `AnswerTaken` and `TasksSaved`, because
its task records are awaited one by one (`useUserSyncState.ts:126`) before the
page is hydrated and the load counts as attempted; a record that cannot be saved
fails the request with the cards in place (`Fails`).  `Changed` is what any
change of the cards triggers.  `Elsewhere` is another device: it writes any
document of cards it has seen or made.  Time is the order of the delays: `Quiet`
(three seconds without a change) comes after the 500 ms timers.

Left out: the task records themselves.  `setTasks` replaces all of them after
the wait, those of agents started meanwhile too; no decision of the model reads
them.

### Accounts

A device is a tab with its providers.  `page[d]` is React state, `browser[d]`
the storage that survives it, `call[d]`, `me[d]`, `reset[d]` the requests out.
A request that changes nothing on the server is evaluated when its answer
comes; `auth_setup` and the PUT of a document are two steps each, because the
code awaits between check and change.  The account a request acts for is that of
its token or the one impersonated (`Effective`), for a PUT as for a check.  `Restart` draws a new JWT secret
(`epoch`) and drops what the server was doing.  Loss of an answer and an error
answer are one action, as they are to the page.

## Runs

| Run | Question | Bounds | Result |
| --- | --- | --- | --- |
| `scheduler_routing` | is every call in one place and answered, do the queues keep order and turns, does no cycle of waits close? | every kind that blocks another, 3 callers (two share an agent), one call each, 2 priorities, channels of 1 and 2 | holds, 437k states, with liveness |
| `scheduler_deadlock` | can the nested syscall close a cycle of waits? | 3 storage calls, tool channel of 1 | violated |
| `lsfs` | is history kept, do acknowledged writes last, does nothing dangle? | 2 paths, 2 contents, 3 versions, retention 0 and 1, one fault | holds, 1.69M states |
| `lsfs_rollback` | is a rollback read? (`test_rollback`) | 1 path, no faults | violated |
| `approval` | does only what was approved run, and is every request decided? | 2 tasks, up to 2 calls each of one destructive tool, timeout of 2 ticks | holds, 295k states, with liveness |
| `approval_bypass` | does every destructive tool need a confirmation? (README) | as `approval`, 2 destructive tools | violated |
| `agent_run` | one outcome, on the card, steps closed, all released, and an end? | both transports, both consumers, one round of up to 2 tools, 2 lost events, cards with what an earlier run left | holds, 3.03M states, with liveness |
| `agent_approvals` | is every approval offered to the user? | Tauri, one round of 2 destructive tools | violated |
| `workspace` | is the board kept, are the slots counted, is nothing busy for good? | 2 cards, 2 spaces, 2 runs of any kind, one slot, one link | holds, 2.28M states |
| `sync` | do running and unsent cards survive every document, and does the load end? | a card of this device, one of another, one document on its way and none left by a closed page | holds, 1.77M states, with liveness |
| `sync_login` | is the server's document shown after login? | as `sync` | violated |
| `accounts` | does a page show its token's account, is no document orphaned, no spinner endless? | 2 devices, 2 account ids, 2 profiles, one restart | holds, 2.20M states |

Why the bounds suffice.  The queue hazards need a queue of two, a channel that
is full and two agents, one with concurrent callers; the deadlock needs one
call executing, `ToolCap` in the channel and one in the dispatcher's hand, so
`ToolCap + 2` callers, and `scheduler_routing` has one caller fewer: it shows
that below that number nothing blocks.  At the code's capacity of 50 the number
is 52.  The LSFS hazards need a shared content, a pointer that is not the
newest, and one fault; a second fault meets a state that the first already
reaches.  The approval hazards need a stale and a fresh entry of one task and
another task that sweeps them.  Those of a run need two calls in one round (a
step closed under another's number), an approval followed by more events, and
two losses, one for each event that would end the run.  The workspace needs two
runs, one of which ends while the other's card is elsewhere, and a limit that
two runs reach.  Sync needs one card that a document does not know and one that
it brings; `MaxLeft` is 0: a document that a closed page has left
arrives at the server like one of `Elsewhere`, but for cards of this device that
never reached it.  Accounts need two setups at once, and a token that another device's
reset or the restart makes invalid.

Deadlock is checked in the scheduler and LSFS runs, where the tick and new
syscalls are always possible.  In the others the system really may stop: all
tasks over, the run over, every id used up, the user idle.

**Fairness.**

* `SyscallScheduler!FairSpec`: weak fairness of each of the four tasks on the
  tokio runtime.  It does not ask the timer to win against a main channel that
  is never empty: `EveryCallAnswered` holds because each caller issues at most
  `MaxCalls` calls, and would not hold under endless traffic.
* `ApprovalGate!FairSpec`: weak fairness of the clock and of each task; it
  relies on the agent's own timer and asks nothing of the user.
* `AgentRun!Spec`: weak fairness of the kernel's agent (its waits are bounded by
  timeouts; it may panic instead of going on), of the generator with its timer, and of the return of a command.
  The user and the network owe nothing; `RunEnds` excepts a stream that lost
  every event that says the end, and an agent that panicked, whose run the code
  leaves open.
* `Sync!FairSpec`: weak fairness of a request under way and of the local load.
  Nobody has to poll, click or change anything.

### What the violations show

1. `scheduler_deadlock`: dispatcher and tool worker wait for each other
   (`scheduler.rs:1456`, `tools.rs:2836-2858`).  The same shape exists with the
   LLM channel: the reflection worker's request has no tool list, so the LLM
   worker waits for the lock the tool thread holds.
2. `lsfs_rollback`: `rollback` moves a pointer that `read` ignores and that
   overwriting follows (`storage.rs:199`, `316-338`, `438-470`).  The
   repository's own test asserts the opposite.
3. `approval_bypass`: a cached intent executes a destructive tool with no
   approval, even one learned from a call the user rejected.
4. `agent_approvals`: the card's prompt is about the first step that waits for
   an approval, and no event ever ends that state, so the second destructive
   call of a task is never offered and times out (`HybridAgentCard.tsx:870`).
5. `sync_login`: mounting counts as a change, so a document that arrives within
   three seconds is marked as applied and not shown; the settings that came with
   it then send the empty workspace to the server (`useUserSyncState.ts:65`).

What the passing properties except, and why, is in the comments on them: each
exception is something the code does (a second COMPLETE of an agent at its step
limit, a card that is cached when its run ends, a card that still draws an older
run's surface, a run whose agent panicked, step 0 that nothing completes).

## Proofs

`tlapm` checks every obligation from nothing; assumptions are only the named
`ASSUME`s of the modules (`SchedulerAssumption`, `LsfsAssumption`,
`ApprovalAssumption`, `AgentRunAssumption`, `WorkspaceAssumption`,
`SyncAssumption`, `AccountsAssumption`), which TLC evaluates in the runs.

**SyscallSchedulerProofs.**  `TypeCorrect`, `QueuesNeverOrphaned` and the action
property `TurnsAreKept`, from `Invariance`: `Spec => []IInv`.  `OrderMatchesQueues` is not inductive alone:
while the dispatcher waits for room in the LLM channel, what `Forward` will do
to the order depends on the agent whose call is in hand.  `IInv` adds `HandOK`:
a call is in hand exactly while the dispatcher is forwarding, a call for the
LLM worker comes from a caller, and under FIFO its agent is still at the front
of the order.  The types of the dispatcher's variables and of the others are
proved apart, one lemma per action; lemmas about `Append`, `Tail`, `SubSeq` and
`Retain` on injective sequences carry the queue steps.  For `TurnsAreKept`, one
lemma shows that a step leaves the order alone, pops its front or appends an
agent that is not in it, a second that none of these moves anyone back.

`CallsAreNowhereTwice` says of positions in five kinds of sequence what is easier
to say of the sets they hold: `Container` are the places by name, `Held` what is in
each.  Its invariant `PlaceInv` has `NoRepeats` within a container, `HeldOnce` across
them, `AwaitedIsHeld` and `HeldIsAwaited` (a call of a patient caller is
somewhere exactly while that caller waits for it), the same of the nested call,
`WasIssued` (a call about to be issued is nowhere yet) and `Routed`.  A step
moves one call from one container to another, and one lemma per kind of move
carries all of them.  `QueuesAreSorted` and `OnlyHigherOvertakes` rest on it:
the code's stable sort, `Insert`, keeps a sorted queue sorted and puts the new
call behind all of its rank, which needs the call to be new to the queue.
`FewCallersNeverDeadlock` counts: when the cycle closes, every call in the full
channel, in service and in hand is of another caller who cannot have given up.
For the tool channel that is `ToolCap + 2` callers, and `scheduler_deadlock` closes
the cycle with just as many; for the LLM channel `LlmCap + 3`.  With fewer,
`NoCircularWait` holds for all capacities.  That bound on the callers is a
hypothesis of the theorem, not of the code, which has no such bound: with the
code's channels of 50 it says how far the program is from the deadlock.

**LsfsProofs.**  `TypeCorrect`, `NoReferenceDangles` (with its halves
`PointerNeverDangles` and `StoredBeforeRecorded`) and `Refinement`, from one `Invariance`.  The strengthening is `FreshPointer` (a
file without versions points at 1) and `OpOK`, what the handler has established
at each stage: before the insertion the version is the next one, at `stored` its
content is full, after the insertion it is recorded and the newest, and when
pruning starts the file points at it.  With it the pruning step keeps the row
the pointer is on.  Refinement maps each statement to a step of
`VersionedStore` or to a stutter.

`EveryVersionReadable`, `WriteIsRead` and `LimitRespected` are about the moment a
syscall ends.  `ReplyInv` adds what is true before it: without a fault every
recorded content is full, except for the one the handler has truncated and is
about to write (`FullUnlessWriting`), whose handler will not get past the write
with it torn; and after the insertion a read finds the new version, as it is the
newest, though the pointer may still be elsewhere (`WriteOK`).  Pruning is
counted: what it leaves has at most `max_versions` rows whatever it found.

**ApprovalGateProofs.**  `ApprovalIsRequired`, `OneAnswerPerKey`,
`VerdictStands`, `AnswerInTimeIsHeard` and `TypeCorrect`, from one `Invariance`.
`GateInv` ties the four places in which a call may be known to each other: an
entry of the map belongs to a call that reached the gate and is at least as old
as its agent's wait (`EntriesOK`), a dialog shows a call that reached the user
with the tool at the head of the agent's list (`ShownOK`, `ShownOnce`), an
answered key has left the map (`RepliesOK`), an approved receiver is one the user
said yes to (`ReceiverOK`), and verdicts and runs are about finished calls
(`HistoryOK`).  `EntriesOK` is where the two timers meet: the agent gives up
only when its entry has expired too.  `CallsLeft` bounds the list of an agent's
step and is there for the types.  A lemma per action proves each of the three
groups types, gate, promises.

**AgentRunProofs.**  `TypeCorrect`, `Releases`, `OneEnd`, `NoRunnerlessCard`,
`AnswerArrives`, `StepsAreClosed`, `PromptIsForTheFirst`, from one
`AgentInvariance`.  Events pass through a queue of any length, so nothing about
the card is inductive by itself: each group says of a fact that it is on the
card or in the queue before the event that needs it.

* `RunInv` is about the runner's locals.  Over Tauri no event is lost, so the
  run has finished exactly when the agent is past its answer; over SSE nothing
  ties the two, and the next two groups hold of whatever arrives.  The last two
  are about Tauri only.
* `QueueInv` and `Replies`: a terminal event is queued exactly when the run has
  finished, last and alone, and a chat's message stands right before it.  The
  exception, a Tauri run that finished before its submission returned, is where
  the queue may end twice (`Doubled`).
* `AnswerInv`: a queued completion has its card before it, and a queued card has
  the answer, unless A2UI messages were pushed.  `SurfaceInv`: when the run's
  messages come to a surface, the queue begins it, or the card draws it and the
  queue does not delete it.  Both are needed: a queued card decides by what the
  card draws when it arrives, and that is what is queued before it.
* `StepsInv`: for every running step but step 0 and the current one the
  completion is in the queue (`OpenInv`); after COMPLETE nothing is started any
  more, and once the completion of the task is all that counts, everything is
  closed (`ClosedInv`).  It needs that no two steps have one id, because
  `updateTaskStep` merges by id.
* `AskInv`: an approval step on the card or in the queue was asked for by the
  kernel, and the one it waits for now is on one of the two; with one question
  asked, the first waiting step is that one.

Three layers keep the cases apart.  A lemma per listener says what an event does
to the run (`TauriHears`, `SseHears`: what is queued, whether it ends the run,
what it answers); `Moves` says what the kernel does and emits; `Outside` joins
them, and each part of the invariant is proved against `Outside`, against the
consumer taking one event (`Takes`) and against the user.  What the card does
with an event is in turn a relation per part (`CardStep`, `KeepsAnswer`,
`StepsFrom`).  `Filtered` is spelt out in `TaskCard` because the provers know
nothing of `SelectSeq`.

**WorkspaceProofs.**  `SlotsAreCounted` (with its halves `SlotsAreNotLeaked` and
`LimitIsRespected`) and `OnlyRunsBlock`, from the lemma `Inductive`.  The counter is
compared with the cardinality of a set that is not a variable, the runs that
hold a slot.  `IInv` says that until everything was cancelled over a live run
the two are equal, that afterwards the counter is at most the number of holders,
and that a query in flight belongs to a live task or reply: `BlockedByRun` allows
any run with that query, which an ending run of another kind would not preserve.
A lemma for each way a run starts or ends says what it does to `Holders`;
the cardinality facts come from `FiniteSetTheorems`.

`TypeCorrect` and `BoardIsKept` come from `BoardInvariance`.  `BoardKept` alone does not survive a switch of spaces: that a
link is kept needs to know where its cards are.  `Linked` says that a link is
where both its cards are, on the board with both of one space or with both in
one cache, and `Places` that a card is in one place; a link then leaves and
returns as its cards do, although the snapshot takes every edge that touches a
leaving card.  `SwitchEffect` and `LeftOK` describe the switch once for all
conjuncts.

**WorkspaceBusyProofs.**  `BusyCardsHaveRuns`.  `BusyInv` speaks of cards in the
caches too, where they keep their status and no run reaches them, and of runs
that were not cancelled, since a cancelled one lives on without touching its
card.  The cancel button takes the run from the card it is on, so `TasksOwned`
says that the task a card shows as running is that card's own, and
`RefinesGoOn` that nothing cancels a refinement.  Most actions are `Calm`: they
make no card busy and give none a task; `CalmKeeps` is what remains to show for
the others.

**AccountsProofs.**  `TypeCorrect`, `PagesOwnTheirTokens`, `NoOrphanDocuments`
and `SpinnersEnd`.  A page's user is that of its token because each check that
is out was sent with the token the page still has, or its answer will be
dropped; the invariant says so per device, and apart from what the server holds,
so that an action of one device is proved for it (`OneDevice`) and leaves the
others alone.

**SyncProofs.**  `TypeCorrect`, `AgentsKeepCards`, `NothingUnsentLost`,
`LoadBeforeWrite`.  The strengthening is `Attempts` (nothing is armed, hydrated
or known before a load was attempted) and `NotQuiet`: a card that is in no
document sent was made less than three seconds ago, because the write it armed
comes first, so an answer that is applied cannot take it away.  The lemmas about
`Changed`, `Hydrated` and `Loaded` say what each keeps of a page.

Not proved, and model-checked only: liveness (`EveryCallAnswered`,
`EveryRequestDecided`, `RunEnds`, `FirstLoadEnds`), which is out of the prover's
reach; and `NoCircularWait` above the bound of `FewCallers`, where it is false.
`VersionedStore` is so far the only abstract specification; what the
other components promise is stated as invariants and action properties.

## Plan

Done: scheduler, storage, approval gate, agent runs and cards, workspace, sync,
accounts.  Next, in this order:

1. `MemoryStore`: RAM cache against table, delete-then-insert upsert,
   deduplication, with the reflection worker as a second actor; its abstract
   specification is a register.
2. `ToolCache` over the abstract `VersionedStore`: staleness of cached storage
   reads, eviction at capacity.
3. `ContextWindow`: token budget, compaction, checkpoint and restore.
4. Proofs about those, and the abstract specifications of the scheduler (a call
   is issued, answered once or given up) and of the gate (a request is decided
   once), with their refinements.

## Not modelled

* LLM adapters, prompts, embeddings, tools as such, most settings, the HTTP
  routes that hand a call to the kernel, rendering, layout and animation: I/O,
  text or plain tables without shared state.  This is most of the TypeScript by
  lines: `SettingsView.tsx`, `HybridAgentCard.tsx`, `WorkspaceView.tsx` and the
  views are markup around handlers, and of them the handlers that touch modelled
  state are actions.
* Memory manager, reflection worker, tool cache, context manager, session
  memory: see the plan.
* Kernel code that is not wired into the program: `scheduler_qos.rs` (the
  dispatcher ignores the policies that `set_scheduler_policy` names, which the
  model shows as `Unsupported`), `agent_runtime.rs`, `terminal.rs`,
  `manager.rs`, `memory_ext.rs`.
* Frontend code that nothing imports: `cardTemplates.ts`,
  `useSynthesisNodes.ts`, `useSynthesisOsEvents`, `policy.ts`, the plugin
  registry, the response cache and others listed in `PROJECT.json`.  The pending
  halves of the approval and question stores have no caller that fills them.

## Running

    tlc -workers 2 -config lsfs.cfg MCLsfs.tla
    tlapm LsfsProofs.tla
