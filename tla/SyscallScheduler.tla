-------------------------- MODULE SyscallScheduler --------------------------
(***************************************************************************)
(* The kernel's syscall scheduler (scheduler.rs): one bounded main channel *)
(* that every caller sends into, one dispatcher task that routes, three    *)
(* bounded worker channels and three strictly sequential workers (LLM,     *)
(* tool, memory/storage).  LLM requests wait in per-agent priority queues  *)
(* inside the dispatcher; the others are forwarded at once, and the        *)
(* dispatcher blocks while the target channel is full.  The storage_*      *)
(* tools run inside the tool worker and issue a syscall of their own.      *)
(*                                                                         *)
(* A call stands for one Syscall with its oneshot reply channel.  Prompts, *)
(* arguments, results and statistics are abstracted away.                  *)
(***************************************************************************)
EXTENDS Integers, Sequences, FiniteSets, Functions

CONSTANTS
    Agents,      \* agent ids, the keys of llm_queues
    Clients,     \* caller tasks: an agent loop, one parallel tool call, a UI command
    Owner,       \* [Clients -> Agents], the agent id a caller puts in its syscalls
    ToolThread,  \* the blocking thread of the tool worker, caller of nested syscalls
    Kinds,       \* the kinds of syscalls the callers issue, a subset of AllKinds
    Priorities,  \* the priorities the callers use, a subset of 0 .. 3 (Low .. Critical)
    MainCap, LlmCap, ToolCap, MemCap,  \* channel capacities
    MaxCalls     \* bound: the calls one client issues

LlmKinds == {"llm",           \* LlmRequest with its own tool list, LlmBatchRequest
             "llm_defs"}      \* LlmRequest with tool_definitions = None
ToolKinds == {"tool",           \* a read-only tool: cacheable, no syscall of its own
              "storage_read",   \* cacheable, issues StorageRead, StorageList or Versions
              "storage_write"}  \* never cached, issues a mutating storage syscall
DefsKinds == {"get_defs"}     \* GetToolDefinitions
MemKinds == {"memory"}        \* every memory, storage, context and config syscall
AllKinds == LlmKinds \cup ToolKinds \cup DefsKinds \cup MemKinds

Cacheable == {"tool", "storage_read"}
Nesting == {"storage_read", "storage_write"}

ASSUME SchedulerAssumption ==
    /\ Owner \in [Clients -> Agents]
    /\ ToolThread \notin Clients
    /\ Kinds \subseteq AllKinds
    /\ Priorities \subseteq 0 .. 3
    /\ {MainCap, LlmCap, ToolCap, MemCap} \subseteq Nat \ {0}
    /\ MaxCalls \in Nat

VARIABLES
    main,        \* syscall_tx/syscall_rx: calls sent and not yet received
    disp,        \* where the dispatcher task is in its loop
    hand,        \* the call the dispatcher is sending to a worker channel, and to which
    policy,      \* Scheduler.policy, the policy in effect
    requested,   \* KernelStats.policy, what the UI asked for
    llm_queues,  \* HashMap agent id -> VecDeque of LLM calls
    agent_order, \* VecDeque of agent ids
    chan,        \* the three worker channels
    busy,        \* the call each worker is serving
    phase,       \* where each worker is with it
    waiting,     \* the call a client awaits the reply of, NoCall when it awaits none
    issued       \* how many calls a client has issued

dispatcher == <<disp, hand, policy, llm_queues, agent_order>>
workers == <<chan, busy, phase>>
clients == <<waiting, issued>>
vars == <<main, disp, hand, policy, requested, llm_queues, agent_order,
          chan, busy, phase, waiting, issued>>

Workers == {"llm", "tool", "mem"}
\* Mutant of Cap: the tool channel created with the LLM channel's capacity.
SwappedCap == [llm |-> ToolCap, tool |-> LlmCap, mem |-> MemCap]
Cap == [llm |-> LlmCap, tool |-> ToolCap, mem |-> MemCap]

NestedCall == [client |-> ToolThread, n |-> 0, kind |-> "memory", prio |-> 1]
NoCall == [client |-> ToolThread, n |-> 0, kind |-> "none", prio |-> 0]
ClientCall == [client : Clients, n : 1 .. MaxCalls, kind : Kinds, prio : Priorities]
Call == ClientCall \cup {NestedCall}

AgentOf(call) == Owner[call.client]
Policies == {"FIFO", "RoundRobin"}
\* Stands for the other names set_scheduler_policy lists; the dispatcher ignores them.
Unsupported == {"WeightedFairQueue"}

Idle == [to |-> "none", call |-> NoCall]

-----------------------------------------------------------------------------
Init ==
    /\ main = <<>>
    /\ disp = "top"
    /\ hand = Idle
    /\ policy = "FIFO"
    /\ requested \in Policies \cup Unsupported
    /\ llm_queues = [a \in {} |-> <<>>]
    /\ agent_order = <<>>
    /\ chan = [w \in Workers |-> <<>>]
    /\ busy = [w \in Workers |-> NoCall]
    /\ phase = [w \in Workers |-> "idle"]
    /\ waiting = [c \in Clients |-> NoCall]
    /\ issued = [c \in Clients |-> 0]

-----------------------------------------------------------------------------
(* Callers.                                                                *)

\* Only the priority of an LLM call is ever read; the others carry a fixed one here.
SomePriority == CHOOSE prio \in Priorities : TRUE

\* A caller sends one syscall into the main channel and awaits its oneshot.
\* The send awaits while the channel is full.
Issue(c, kind, prio) ==
    /\ waiting[c] = NoCall
    /\ issued[c] < MaxCalls
    /\ kind \in LlmKinds \/ prio = SomePriority
    /\ Len(main) < MainCap
    /\ LET call == [client |-> c, n |-> issued[c] + 1, kind |-> kind, prio |-> prio]
       IN  /\ main' = Append(main, call)
           /\ waiting' = [waiting EXCEPT ![c] = call]
    /\ issued' = [issued EXCEPT ![c] = @ + 1]
    /\ UNCHANGED <<dispatcher, requested, workers>>

\* The memory lookups of an agent run under timeouts, and the reflection worker
\* drops some receivers at once: the caller goes on, its call stays in the kernel.
Abandon(c) ==
    /\ waiting[c].kind \in MemKinds
    /\ waiting' = [waiting EXCEPT ![c] = NoCall]
    /\ UNCHANGED <<main, dispatcher, requested, workers, issued>>

\* The UI command: it only writes KernelStats.policy.
SetSchedulerPolicy(p) ==
    /\ requested' = p
    /\ UNCHANGED <<main, dispatcher, workers, clients>>

-----------------------------------------------------------------------------
(* The dispatcher.                                                         *)

\* Mutant of LoopTop: the requested policy is taken over unchecked.
UncheckedLoopTop ==
    /\ disp = "top"
    /\ policy' = requested
    /\ disp' = IF main = <<>> THEN "parked" ELSE "polled"
    /\ UNCHANGED <<main, hand, requested, llm_queues, agent_order, workers, clients>>

\* The top of the loop: take over the requested policy (unless the try_lock on the
\* statistics fails), then poll the select! once.  The 50 ms sleep is created anew
\* here, so it can only fire when the main channel was empty at this poll.
LoopTop ==
    /\ disp = "top"
    /\ policy' \in {policy} \cup ({requested} \cap Policies)
    /\ disp' = IF main = <<>> THEN "parked" ELSE "polled"
    /\ UNCHANGED <<main, hand, requested, llm_queues, agent_order, workers, clients>>

QueueOf(a) == IF a \in DOMAIN llm_queues THEN llm_queues[a] ELSE <<>>

\* llm_queues with the queue of agent a replaced (entry(), insert).
WithQueue(a, q) == [b \in DOMAIN llm_queues \cup {a} |->
                       IF b = a THEN q ELSE llm_queues[b]]
WithoutQueue(a) == [b \in DOMAIN llm_queues \ {a} |-> llm_queues[b]]

\* Mutant of IsPlaceFor: the sort puts a new call ahead of its equals.
UnstablePlaceFor(call, q, k) ==
    /\ \A i \in 1 .. k : q[i].prio > call.prio
    /\ \A i \in k + 1 .. Len(q) : q[i].prio <= call.prio

\* push_back followed by the stable sort by descending priority: the new call goes
\* behind every call of its own priority or a higher one.
IsPlaceFor(call, q, k) ==
    /\ \A i \in 1 .. k : q[i].prio >= call.prio
    /\ \A i \in k + 1 .. Len(q) : q[i].prio < call.prio
Insert(call, q, k) == SubSeq(q, 1, k) \o <<call>> \o SubSeq(q, k + 1, Len(q))

EnqueueLlm(call) ==
    LET a == AgentOf(call)
        q == QueueOf(a)
    IN  /\ \E k \in 0 .. Len(q) :
              /\ IsPlaceFor(call, q, k)
              /\ llm_queues' = WithQueue(a, Insert(call, q, k))
        /\ agent_order' = IF a \in DOMAIN llm_queues THEN agent_order
                          ELSE Append(agent_order, a)
        /\ disp' = "top"
        /\ UNCHANGED hand

\* tool_tx.send(..).await or mem_tx.send(..).await begins: the dispatcher holds the
\* call until the channel has room.
BeginForward(call) ==
    /\ hand' = [to |-> IF call.kind \in MemKinds THEN "mem" ELSE "tool", call |-> call]
    /\ disp' = "forward"
    /\ UNCHANGED <<llm_queues, agent_order>>

\* rx.recv() is ready.
Receive ==
    /\ disp \in {"polled", "parked"}
    /\ main # <<>>
    /\ main' = Tail(main)
    /\ IF Head(main).kind \in LlmKinds THEN EnqueueLlm(Head(main))
                                       ELSE BeginForward(Head(main))
    /\ UNCHANGED <<policy, requested, workers, clients>>

\* The 50 ms sleep fires: take the next LLM call of the agent in front.  RoundRobin
\* takes the agent out of the order, FIFO leaves it there.
Tick ==
    /\ disp = "parked"
    /\ IF agent_order = <<>> \/ QueueOf(Head(agent_order)) = <<>>
       THEN /\ disp' = "top"
            /\ UNCHANGED <<hand, llm_queues>>
       ELSE LET a == Head(agent_order)
            IN  /\ hand' = [to |-> "llm", call |-> Head(llm_queues[a])]
                /\ llm_queues' = WithQueue(a, Tail(llm_queues[a]))
                /\ disp' = "forward"
    /\ agent_order' = IF policy = "RoundRobin" /\ agent_order # <<>>
                      THEN Tail(agent_order) ELSE agent_order
    /\ UNCHANGED <<main, policy, requested, workers, clients>>

\* agent_order.retain(|id| id != a); the common case, a in front and nowhere else,
\* is spelt out.
Retain(s, a) ==
    IF s # <<>> /\ Head(s) = a /\ a \notin Range(Tail(s))
    THEN Tail(s)
    ELSE SelectSeq(s, LAMBDA id : id # a)

\* Mutants of AfterLlmSend: the order is not pruned; the agent is not requeued; the
\* agent is requeued in front.
UnprunedAfterSend(a) ==
    IF llm_queues[a] = <<>>
    THEN llm_queues' = WithoutQueue(a) /\ UNCHANGED agent_order
    ELSE /\ agent_order' = IF policy = "FIFO" THEN agent_order ELSE Append(agent_order, a)
         /\ UNCHANGED llm_queues
ForgetfulAfterSend(a) ==
    IF llm_queues[a] = <<>>
    THEN /\ llm_queues' = WithoutQueue(a)
         /\ agent_order' = IF policy = "FIFO" THEN Retain(agent_order, a) ELSE agent_order
    ELSE UNCHANGED <<llm_queues, agent_order>>
GreedyAfterSend(a) ==
    IF llm_queues[a] = <<>>
    THEN /\ llm_queues' = WithoutQueue(a)
         /\ agent_order' = IF policy = "FIFO" THEN Retain(agent_order, a) ELSE agent_order
    ELSE /\ agent_order' = IF policy = "FIFO" THEN agent_order ELSE <<a>> \o agent_order
         /\ UNCHANGED llm_queues

\* What follows llm_tx.send(..).await: requeue the agent, or forget it when its
\* queue is drained.
AfterLlmSend(a) ==
    IF llm_queues[a] = <<>>
    THEN /\ llm_queues' = WithoutQueue(a)
         /\ agent_order' = IF policy = "FIFO" THEN Retain(agent_order, a) ELSE agent_order
    ELSE /\ agent_order' = IF policy = "FIFO" THEN agent_order ELSE Append(agent_order, a)
         /\ UNCHANGED llm_queues

\* The channel has room: the send completes and the loop starts over.
Forward ==
    /\ disp = "forward"
    /\ Len(chan[hand.to]) < Cap[hand.to]
    /\ chan' = [chan EXCEPT ![hand.to] = Append(@, hand.call)]
    /\ IF hand.to = "llm" THEN AfterLlmSend(AgentOf(hand.call))
                          ELSE UNCHANGED <<llm_queues, agent_order>>
    /\ hand' = Idle
    /\ disp' = "top"
    /\ UNCHANGED <<main, policy, requested, busy, phase, clients>>

-----------------------------------------------------------------------------
(* The workers: each serves one call at a time, in channel order.          *)

Take(w) ==
    /\ phase[w] = "idle"
    /\ chan[w] # <<>>
    /\ busy' = [busy EXCEPT ![w] = Head(chan[w])]
    /\ phase' = [phase EXCEPT ![w] = "taken"]
    /\ chan' = [chan EXCEPT ![w] = Tail(@)]
    /\ UNCHANGED <<main, dispatcher, requested, clients>>

\* response_tx.send(..): the caller, if it still waits for this call, goes on.
Answer(call) ==
    waiting' = [c \in Clients |-> IF waiting[c] = call THEN NoCall ELSE waiting[c]]

\* Worker w answers its call and loops.
Reply(w) ==
    /\ busy' = [busy EXCEPT ![w] = NoCall]
    /\ phase' = [phase EXCEPT ![w] = "idle"]
    /\ Answer(busy[w])
    /\ UNCHANGED <<main, dispatcher, requested, chan, issued>>

\* The tokio mutex around the ToolManager: held for the whole of execute().
ToolManagerLocked == phase["tool"] \in {"exec", "nested_send", "nested_wait"}

\* An LlmRequest without a tool list reads the definitions from the ToolManager.
LlmCallModel ==
    /\ phase["llm"] = "taken"
    /\ busy["llm"].kind = "llm_defs" => ~ToolManagerLocked
    /\ phase' = [phase EXCEPT !["llm"] = "exec"]
    /\ UNCHANGED <<main, dispatcher, requested, chan, busy, clients>>

LlmReply == phase["llm"] = "exec" /\ Reply("llm")

\* A fresh entry in the response cache: answered without executing the tool.
ToolCacheHit ==
    /\ phase["tool"] = "taken"
    /\ busy["tool"].kind \in Cacheable
    /\ Reply("tool")

ToolDefinitions ==
    /\ phase["tool"] = "taken"
    /\ busy["tool"].kind \in DefsKinds
    /\ Reply("tool")

\* spawn_blocking: lock the ToolManager and execute.  A storage tool sends a syscall
\* of its own, unless its arguments do not parse.
ToolExecute ==
    /\ phase["tool"] = "taken"
    /\ busy["tool"].kind \in ToolKinds
    /\ \E next \in {"exec"} \cup (IF busy["tool"].kind \in Nesting THEN {"nested_send"} ELSE {}) :
          phase' = [phase EXCEPT !["tool"] = next]
    /\ UNCHANGED <<main, dispatcher, requested, chan, busy, clients>>

\* Mutant of NestedSend: the tool thread does not wait for the answer.
DetachedNestedSend ==
    /\ phase["tool"] = "nested_send"
    /\ Len(main) < MainCap
    /\ main' = Append(main, NestedCall)
    /\ phase' = [phase EXCEPT !["tool"] = "exec"]
    /\ UNCHANGED <<dispatcher, requested, chan, busy, clients>>

\* send_syscall in tools.rs: into the same main channel, blocking the tool thread.
NestedSend ==
    /\ phase["tool"] = "nested_send"
    /\ Len(main) < MainCap
    /\ main' = Append(main, NestedCall)
    /\ phase' = [phase EXCEPT !["tool"] = "nested_wait"]
    /\ UNCHANGED <<dispatcher, requested, chan, busy, clients>>

ToolReply == phase["tool"] = "exec" /\ Reply("tool")

\* The memory worker; its answer to the nested call lets the tool thread go on.
MemReply ==
    /\ phase["mem"] = "taken"
    /\ busy' = [busy EXCEPT !["mem"] = NoCall]
    /\ phase' = [phase EXCEPT !["mem"] = "idle",
                              !["tool"] = IF busy["mem"] = NestedCall THEN "exec" ELSE @]
    /\ Answer(busy["mem"])
    /\ UNCHANGED <<main, dispatcher, requested, chan, issued>>

-----------------------------------------------------------------------------
Caller == \E c \in Clients :
             \/ \E kind \in Kinds, prio \in Priorities : Issue(c, kind, prio)
             \/ Abandon(c)

UserInterface == \E p \in Policies \cup Unsupported : SetSchedulerPolicy(p)

Dispatcher == LoopTop \/ Receive \/ Tick \/ Forward
LlmWorker == Take("llm") \/ LlmCallModel \/ LlmReply
ToolWorker == \/ Take("tool") \/ ToolCacheHit \/ ToolDefinitions \/ ToolExecute
              \/ NestedSend \/ ToolReply
MemWorker == Take("mem") \/ MemReply

Next == Caller \/ UserInterface \/ Dispatcher \/ LlmWorker \/ ToolWorker \/ MemWorker

Spec == Init /\ [][Next]_vars

\* The four tasks are spawned on the tokio runtime, which runs a ready task
\* eventually; a worker's I/O is assumed to return.  The timer fires only when the
\* dispatcher stays parked, so LoopTop, Receive and Tick are one task's steps.
Fairness == WF_vars(Dispatcher) /\ WF_vars(LlmWorker) /\ WF_vars(ToolWorker)
            /\ WF_vars(MemWorker)
FairSpec == Spec /\ Fairness

-----------------------------------------------------------------------------
(* Properties.                                                             *)

LlmCallsOf(a) == {x \in ClientCall : x.kind \in LlmKinds /\ AgentOf(x) = a}

\* Every variable has its type: the channels respect their capacities, only LLM
\* calls wait in agent queues and each sits in the queue of its own agent.
TypeOK ==
    /\ main \in Seq(Call) /\ Len(main) <= MainCap
    /\ disp \in {"top", "polled", "parked", "forward"}
    /\ hand \in [to : Workers, call : Call] \cup {Idle}
    /\ policy \in Policies
    /\ requested \in Policies \cup Unsupported
    /\ DOMAIN llm_queues \subseteq Agents
    /\ \A a \in DOMAIN llm_queues : llm_queues[a] \in Seq(LlmCallsOf(a))
    /\ agent_order \in Seq(Agents)
    /\ chan \in [Workers -> Seq(Call)] /\ \A w \in Workers : Len(chan[w]) <= Cap[w]
    /\ busy \in [Workers -> Call \cup {NoCall}]
    /\ phase \in [Workers -> {"idle", "taken", "exec", "nested_send", "nested_wait"}]
    /\ waiting \in [Clients -> ClientCall \cup {NoCall}]
    /\ issued \in [Clients -> 0 .. MaxCalls]

HandAgent == IF hand.to = "llm" THEN {AgentOf(hand.call)} ELSE {}

\* agent_order and the keys of llm_queues are two books of the same agents, kept by
\* hand on every path: each agent with a queue has exactly one turn, except the agent
\* RoundRobin is serving, and no queue but the one being served is empty.  An agent
\* with a queue and no turn would never be served again, since only a new key gets one.
OrderMatchesQueues ==
    /\ IsInjective(agent_order)
    /\ Range(agent_order) =
          IF policy = "FIFO" THEN DOMAIN llm_queues ELSE DOMAIN llm_queues \ HandAgent
    /\ HandAgent \subseteq DOMAIN llm_queues
    /\ \A a \in DOMAIN llm_queues : llm_queues[a] = <<>> => a \in HandAgent

Positions(s, x) == {i \in DOMAIN s : s[i] = x}
PlacesInMain(x) == {"main"} \X Positions(main, x)
PlacesInHand(x) == IF hand.call = x THEN {<<"hand", 0>>} ELSE {}
PlacesInQueues(x) == UNION {{a} \X Positions(llm_queues[a], x) : a \in DOMAIN llm_queues}
PlacesInChans(x) == UNION {{w} \X Positions(chan[w], x) : w \in Workers}
PlacesInService(x) == {<<w, 0>> : w \in {v \in Workers : busy[v] = x}}
Places(x) == PlacesInMain(x) \cup PlacesInHand(x) \cup PlacesInQueues(x)
             \cup PlacesInChans(x) \cup PlacesInService(x)

\* A call travels through a channel, the dispatcher's hand, an agent queue and a worker
\* by moves of an owned value: while its caller waits it is in exactly one of them, and
\* the tool thread's own call is somewhere exactly while that thread waits for it.
ExactlyOnePlace ==
    /\ \A c \in Clients : waiting[c] # NoCall => Cardinality(Places(waiting[c])) = 1
    /\ Cardinality(Places(NestedCall)) = IF phase["tool"] = "nested_wait" THEN 1 ELSE 0

\* Within one agent's queue the order changes only in favour of urgency: a call that is
\* taken out has no call of higher priority left behind it and nobody ahead of it, and
\* a call that comes to stand before another one overtook it by a higher priority.
OvertakenOnlyByHigher ==
    [][\A a \in DOMAIN llm_queues :
          LET q == llm_queues[a]
              r == QueueOf(a)'
          IN  /\ \A i \in DOMAIN q : q[i] \in Range(r) \/
                    (i = 1 /\ hand'.call = q[1] /\ \A j \in DOMAIN r : r[j].prio <= q[1].prio)
              /\ \A i, j \in DOMAIN r : (i < j /\ r[j] \in Range(q)) =>
                    \/ r[i].prio > r[j].prio
                    \/ \E k, l \in DOMAIN q : k < l /\ q[k] = r[i] /\ q[l] = r[j]]_vars

\* No step of the dispatcher moves a waiting agent further back in agent_order: under
\* RoundRobin an agent waits for at most one call of each agent before it.
AgentsKeepTheirTurn ==
    [][\A i \in DOMAIN agent_order, j \in DOMAIN agent_order' :
          agent_order[i] = agent_order'[j] => j <= i]_vars

\* The tool thread waits for a syscall that only the dispatcher can route.
NestedCallStuck == \/ phase["tool"] = "nested_wait" /\ NestedCall \in Range(main)
                   \/ phase["tool"] = "nested_send" /\ Len(main) = MainCap

\* "Without deadlocking or mixing channels" (the doc comment of test_concurrency): the
\* dispatcher does not wait for room in a full channel whose worker waits for it: the
\* tool worker in a nested syscall, or the LLM worker for the lock held meanwhile.
NoCircularWait ==
    ~ /\ disp = "forward"
      /\ Len(chan[hand.to]) = Cap[hand.to]
      /\ NestedCallStuck
      /\ \/ hand.to = "tool"
         \/ hand.to = "llm" /\ phase["llm"] = "taken" /\ busy["llm"].kind = "llm_defs"

\* Every call of a caller that keeps waiting is answered in the end, whatever policy
\* the user switches to and however the traffic, which stops in the end, interleaves.
EveryCallAnswered ==
    \A c \in Clients : (waiting[c] # NoCall) ~> (waiting[c] = NoCall)
=============================================================================
