----------------------- MODULE SyscallSchedulerProofs -----------------------
(***************************************************************************)
(* Proofs about SyscallScheduler for every set of agents and callers,      *)
(* every capacity and every bound: its types; that the agent order and the *)
(* agent queues never disagree and no agent loses its turn; that a call is *)
(* in one place at a time; that the queues stay sorted and only a higher   *)
(* priority overtakes; and how many callers a circular wait takes.         *)
(***************************************************************************)
EXTENDS SyscallScheduler, SequenceTheorems, FiniteSetTheorems, TLAPS

-----------------------------------------------------------------------------
(* Sequences.                                                              *)

\* Cutting a queue at any place and putting a call there gives a nonempty queue.
LEMMA InsertType ==
    ASSUME NEW S, NEW q \in Seq(S), NEW x \in S, NEW k \in 0 .. Len(q)
    PROVE  Insert(x, q, k) \in Seq(S) /\ Insert(x, q, k) # <<>>
<1> DEFINE l == SubSeq(q, 1, k)
           r == SubSeq(q, k + 1, Len(q))
<1>1. \A i \in 1 .. Len(q) : q[i] \in S
  BY ElementOfSeq
<1>2. Len(q) \in Nat
  BY LenProperties
<1>3. l \in Seq(S)
  BY <1>1, <1>2, SubSeqProperties
<1>4. r \in Seq(S)
  BY <1>1, <1>2, SubSeqProperties
<1>5. <<x>> \in Seq(S) /\ Len(<<x>>) = 1
  OBVIOUS
<1>6. l \o <<x>> \in Seq(S) /\ Len(l \o <<x>>) = Len(l) + 1
  BY <1>3, <1>5, ConcatProperties
<1>7. (l \o <<x>>) \o r \in Seq(S) /\ Len((l \o <<x>>) \o r) = Len(l) + 1 + Len(r)
  BY <1>4, <1>6, ConcatProperties
<1>8. Len(l) \in Nat /\ Len(r) \in Nat
  BY <1>3, <1>4, LenProperties
<1> HIDE DEF l, r
<1>9. (l \o <<x>>) \o r # <<>>
  BY <1>7, <1>8, EmptySeq
<1> QED
  BY <1>7, <1>9 DEF Insert, l, r

\* Appending a new element keeps a sequence free of duplicates.
LEMMA AppendNew ==
    ASSUME NEW S, NEW s \in Seq(S), NEW x \in S, IsInjective(s), x \notin Range(s)
    PROVE  IsInjective(Append(s, x)) /\ Range(Append(s, x)) = Range(s) \cup {x}
<1> DEFINE t == Append(s, x)
<1>1. /\ t \in Seq(S) /\ Len(t) = Len(s) + 1
      /\ \A i \in 1 .. Len(s) : t[i] = s[i]
      /\ t[Len(s) + 1] = x
  BY AppendProperties
<1>2. Len(s) \in Nat /\ DOMAIN s = 1 .. Len(s) /\ DOMAIN t = 1 .. Len(s) + 1
  BY <1>1, LenProperties
<1>3. \A i \in 1 .. Len(s) : s[i] # x
  BY <1>2 DEF Range
<1> HIDE DEF t
<1>4. IsInjective(t)
  BY <1>1, <1>2, <1>3 DEF IsInjective
<1>5. Range(t) = Range(s) \cup {x}
  BY <1>1, <1>2 DEF Range
<1> QED
  BY <1>4, <1>5 DEF t

\* Popping the front of a sequence free of duplicates takes exactly that element out.
LEMMA TailOfInjective ==
    ASSUME NEW S, NEW s \in Seq(S), s # <<>>, IsInjective(s)
    PROVE  /\ IsInjective(Tail(s)) /\ Tail(s) \in Seq(S)
           /\ Range(Tail(s)) = Range(s) \ {Head(s)}
           /\ Head(s) \in Range(s)
<1> DEFINE t == Tail(s)
<1>1. /\ t \in Seq(S) /\ Len(t) = Len(s) - 1
      /\ \A i \in 1 .. Len(t) : t[i] = s[i + 1]
  BY HeadTailProperties
<1>2. Len(s) \in Nat \ {0} /\ DOMAIN s = 1 .. Len(s) /\ DOMAIN t = 1 .. Len(s) - 1
  BY <1>1, LenProperties, EmptySeq
<1>3. Head(s) = s[1]
  OBVIOUS
<1> HIDE DEF t
<1>4. IsInjective(t)
  BY <1>1, <1>2 DEF IsInjective
<1>5. \A i \in 1 .. Len(s) : i # 1 => (i - 1 \in 1 .. Len(t) /\ t[i - 1] = s[i])
  BY <1>1, <1>2
<1>6. \A i \in 1 .. Len(t) : i + 1 \in 1 .. Len(s) /\ t[i] = s[i + 1] /\ s[i + 1] # s[1]
  BY <1>1, <1>2 DEF IsInjective
<1>7. Range(t) \subseteq Range(s) \ {s[1]}
  BY <1>1, <1>2, <1>6 DEF Range
<1>8. Range(s) \ {s[1]} \subseteq Range(t)
  <2> SUFFICES ASSUME NEW x \in Range(s), x # s[1]
               PROVE  x \in Range(t)
    OBVIOUS
  <2>1. PICK i \in 1 .. Len(s) : x = s[i]
    BY <1>2 DEF Range
  <2>2. i - 1 \in DOMAIN t /\ t[i - 1] = x
    BY <1>1, <1>2, <1>5, <2>1
  <2> QED
    BY <2>2 DEF Range
<1>9. Head(s) \in Range(s)
  BY <1>2, <1>3 DEF Range
<1> QED
  BY <1>1, <1>3, <1>4, <1>7, <1>8, <1>9 DEF t

-----------------------------------------------------------------------------
(* The inductive invariant.                                                *)

\* What the dispatcher holds while it waits for room in a worker channel; under FIFO
\* the agent it serves is still in front of the order.
HandOK ==
    /\ (disp = "forward") = (hand # Idle)
    /\ hand.to = "llm" => hand.call \in ClientCall
    /\ (hand.to = "llm" /\ policy = "FIFO") =>
          agent_order # <<>> /\ Head(agent_order) = AgentOf(hand.call)

IInv == TypeOK /\ HandOK /\ OrderMatchesQueues

\* The agent a caller names in its syscalls is one of the agents.
LEMMA AgentOfType ==
    ASSUME NEW call \in ClientCall
    PROVE  AgentOf(call) \in Agents
  BY SchedulerAssumption DEF AgentOf, ClientCall

\* A call of an LLM kind is a caller's: the nested call of a storage tool is not.
LEMMA LlmCallsAreClientCalls ==
    ASSUME NEW call \in Call, call.kind \in LlmKinds
    PROVE  call \in ClientCall
  BY DEF Call, NestedCall, LlmKinds

\* The empty scheduler satisfies the invariant.
LEMMA InitIInv == Init => IInv
<1> SUFFICES ASSUME Init PROVE IInv
  OBVIOUS
<1> USE SchedulerAssumption DEF Init
<1>0. <<>> \in Seq(Call) /\ <<>> \in Seq(Agents) /\ Len(<<>>) = 0
  OBVIOUS
<1>1. \A w \in Workers : Cap[w] \in Nat
  BY DEF Cap, Workers
<1>2. TypeOK
  BY <1>0, <1>1 DEF TypeOK, Policies, Unsupported, Workers
<1>3. HandOK
  BY DEF HandOK, Idle
<1>4. OrderMatchesQueues
  BY DEF OrderMatchesQueues, HandAgent, Idle, Range, IsInjective
<1> QED
  BY <1>2, <1>3, <1>4 DEF IInv

\* A step that leaves the dispatcher's own state alone keeps its two books in order.
LEMMA DispatcherUntouched ==
    ASSUME IInv, UNCHANGED dispatcher
    PROVE  HandOK' /\ OrderMatchesQueues'
<1>1. HandOK'
  BY DEF IInv, HandOK, dispatcher, Idle
<1>2. HandAgent' = HandAgent
  BY DEF HandAgent, dispatcher, AgentOf
<1>3. OrderMatchesQueues'
  BY <1>2 DEF IInv, OrderMatchesQueues, dispatcher, Range, IsInjective
<1> QED
  BY <1>1, <1>3

\* The part of TypeOK about the dispatcher's own variables.
DispatcherTypeOK ==
    /\ disp \in {"top", "polled", "parked", "forward"}
    /\ hand \in [to : Workers, call : Call] \cup {Idle}
    /\ policy \in Policies
    /\ DOMAIN llm_queues \subseteq Agents
    /\ \A a \in DOMAIN llm_queues : llm_queues[a] \in Seq(LlmCallsOf(a))
    /\ agent_order \in Seq(Agents)

LEMMA DispatcherTypeUntouched ==
    ASSUME IInv, UNCHANGED dispatcher
    PROVE  DispatcherTypeOK'
  BY DEF IInv, TypeOK, DispatcherTypeOK, dispatcher, Idle

\* The part of TypeOK about channels, workers and callers.
OthersTypeOK ==
    /\ main \in Seq(Call) /\ Len(main) <= MainCap
    /\ requested \in Policies \cup Unsupported
    /\ chan \in [Workers -> Seq(Call)] /\ \A w \in Workers : Len(chan[w]) <= Cap[w]
    /\ busy \in [Workers -> Call \cup {NoCall}]
    /\ phase \in [Workers -> {"idle", "taken", "exec", "nested_send", "nested_wait"}]
    /\ waiting \in [Clients -> ClientCall \cup {NoCall}]
    /\ issued \in [Clients -> 0 .. MaxCalls]

LEMMA TypeParts == TypeOK = (DispatcherTypeOK /\ OthersTypeOK)
  BY DEF TypeOK, DispatcherTypeOK, OthersTypeOK

LEMMA IssueStep ==
    ASSUME IInv, NEW c \in Clients, NEW kind \in Kinds, NEW prio \in Priorities,
           Issue(c, kind, prio)
    PROVE  OthersTypeOK' /\ UNCHANGED dispatcher
<1> DEFINE call == [client |-> c, n |-> issued[c] + 1, kind |-> kind, prio |-> prio]
<1>0. OthersTypeOK
  BY TypeParts DEF IInv
<1>1. issued[c] + 1 \in 1 .. MaxCalls
  BY <1>0, SchedulerAssumption DEF Issue, OthersTypeOK
<1>2. call \in ClientCall
  BY <1>1 DEF ClientCall
<1> HIDE DEF call
<1>3. main' \in Seq(Call) /\ Len(main') <= MainCap
  <2>1. main' = Append(main, call) /\ Len(main) < MainCap
    BY DEF Issue, call
  <2>2. Len(main') = Len(main) + 1 /\ main' \in Seq(Call)
    BY <1>0, <1>2, <2>1, AppendProperties DEF OthersTypeOK, Call
  <2> QED
    BY <1>0, <2>1, <2>2, LenProperties, SchedulerAssumption DEF OthersTypeOK
<1>4. waiting' \in [Clients -> ClientCall \cup {NoCall}]
  BY <1>0, <1>2 DEF Issue, OthersTypeOK, call
<1>5. issued' \in [Clients -> 0 .. MaxCalls]
  BY <1>0, <1>1 DEF Issue, OthersTypeOK
<1> QED
  BY <1>0, <1>3, <1>4, <1>5 DEF Issue, OthersTypeOK, workers

LEMMA AbandonStep ==
    ASSUME IInv, NEW c \in Clients, Abandon(c)
    PROVE  OthersTypeOK' /\ UNCHANGED dispatcher
  BY TypeParts DEF IInv, Abandon, OthersTypeOK, workers

LEMMA SetPolicyStep ==
    ASSUME IInv, NEW p \in Policies \cup Unsupported, SetSchedulerPolicy(p)
    PROVE  OthersTypeOK' /\ UNCHANGED dispatcher
  BY TypeParts DEF IInv, SetSchedulerPolicy, OthersTypeOK, workers, clients

LEMMA TakeStep ==
    ASSUME IInv, NEW w \in Workers, Take(w)
    PROVE  OthersTypeOK' /\ UNCHANGED dispatcher
<1>0. OthersTypeOK
  BY TypeParts DEF IInv
<1>1. chan[w] \in Seq(Call) /\ chan[w] # <<>>
  BY <1>0 DEF OthersTypeOK, Take
<1>2. /\ Head(chan[w]) \in Call /\ Tail(chan[w]) \in Seq(Call)
      /\ Len(Tail(chan[w])) = Len(chan[w]) - 1
  BY <1>1, HeadTailProperties
<1>3. chan' \in [Workers -> Seq(Call)]
  BY <1>0, <1>2 DEF OthersTypeOK, Take
<1>4. \A v \in Workers : Len(chan'[v]) <= Cap[v]
  <2> SUFFICES ASSUME NEW v \in Workers PROVE Len(chan'[v]) <= Cap[v]
    OBVIOUS
  <2>1. CASE v = w
    <3>1. chan'[v] = Tail(chan[w]) /\ Len(chan[w]) <= Cap[w]
      BY <1>0, <2>1 DEF OthersTypeOK, Take
    <3>2. Len(chan[w]) \in Nat /\ Cap[w] \in Nat
      BY <1>1, LenProperties, SchedulerAssumption DEF Cap, Workers
    <3> QED
      BY <1>2, <2>1, <3>1, <3>2
  <2>2. CASE v # w
    BY <1>0, <2>2 DEF OthersTypeOK, Take
  <2> QED
    BY <2>1, <2>2
<1>5. busy' \in [Workers -> Call \cup {NoCall}]
  BY <1>0, <1>2 DEF OthersTypeOK, Take
<1>6. phase' \in [Workers -> {"idle", "taken", "exec", "nested_send", "nested_wait"}]
  BY <1>0 DEF OthersTypeOK, Take
<1> QED
  BY <1>0, <1>3, <1>4, <1>5, <1>6 DEF OthersTypeOK, Take, clients

\* Answering a call releases callers; it gives none of them a new call to wait for.
LEMMA AnswerType ==
    ASSUME OthersTypeOK, NEW call, Answer(call)
    PROVE  waiting' \in [Clients -> ClientCall \cup {NoCall}]
  BY DEF OthersTypeOK, Answer

LEMMA ReplyStep ==
    ASSUME IInv, NEW w \in Workers, Reply(w)
    PROVE  OthersTypeOK' /\ UNCHANGED dispatcher
<1>0. OthersTypeOK
  BY TypeParts DEF IInv
<1>1. waiting' \in [Clients -> ClientCall \cup {NoCall}]
  BY <1>0, AnswerType DEF Reply
<1>2. busy' \in [Workers -> Call \cup {NoCall}]
  BY <1>0 DEF OthersTypeOK, Reply
<1>3. phase' \in [Workers -> {"idle", "taken", "exec", "nested_send", "nested_wait"}]
  BY <1>0 DEF OthersTypeOK, Reply
<1> QED
  BY <1>0, <1>1, <1>2, <1>3 DEF OthersTypeOK, Reply

LEMMA LlmWorkerStep ==
    ASSUME IInv, LlmWorker
    PROVE  OthersTypeOK' /\ UNCHANGED dispatcher
<1>1. CASE Take("llm")
  BY <1>1, TakeStep DEF Workers
<1>2. CASE LlmCallModel
  BY <1>2, TypeParts DEF IInv, LlmCallModel, OthersTypeOK, clients
<1>3. CASE LlmReply
  BY <1>3, ReplyStep DEF LlmReply, Workers
<1> QED
  BY <1>1, <1>2, <1>3 DEF LlmWorker

\* The nested call is a call like any other, so the main channel keeps its type.
LEMMA NestedSendStep ==
    ASSUME IInv, NestedSend
    PROVE  OthersTypeOK' /\ UNCHANGED dispatcher
<1>0. OthersTypeOK
  BY TypeParts DEF IInv
<1>1. NestedCall \in Call
  BY DEF Call
<1>2. Len(main') = Len(main) + 1 /\ main' \in Seq(Call)
  BY <1>0, <1>1, AppendProperties DEF OthersTypeOK, NestedSend
<1>3. Len(main') <= MainCap
  BY <1>0, <1>2, LenProperties, SchedulerAssumption DEF OthersTypeOK, NestedSend
<1>4. phase' \in [Workers -> {"idle", "taken", "exec", "nested_send", "nested_wait"}]
  BY <1>0 DEF OthersTypeOK, NestedSend
<1> QED
  BY <1>0, <1>2, <1>3, <1>4 DEF OthersTypeOK, NestedSend, clients

LEMMA ToolWorkerStep ==
    ASSUME IInv, ToolWorker
    PROVE  OthersTypeOK' /\ UNCHANGED dispatcher
<1>1. CASE Take("tool")
  BY <1>1, TakeStep DEF Workers
<1>2. CASE ToolCacheHit \/ ToolDefinitions \/ ToolReply
  BY <1>2, ReplyStep DEF ToolCacheHit, ToolDefinitions, ToolReply, Workers
<1>3. CASE ToolExecute
  BY <1>3, TypeParts DEF IInv, ToolExecute, OthersTypeOK, clients
<1>4. CASE NestedSend
  BY <1>4, NestedSendStep
<1> QED
  BY <1>1, <1>2, <1>3, <1>4 DEF ToolWorker

LEMMA MemWorkerStep ==
    ASSUME IInv, MemWorker
    PROVE  OthersTypeOK' /\ UNCHANGED dispatcher
<1>1. CASE Take("mem")
  BY <1>1, TakeStep DEF Workers
<1>2. CASE MemReply
  <2>0. OthersTypeOK
    BY TypeParts DEF IInv
  <2>1. waiting' \in [Clients -> ClientCall \cup {NoCall}]
    BY <1>2, <2>0, AnswerType DEF MemReply
  <2>2. busy' \in [Workers -> Call \cup {NoCall}]
    BY <1>2, <2>0 DEF OthersTypeOK, MemReply
  <2>3. phase' \in [Workers -> {"idle", "taken", "exec", "nested_send", "nested_wait"}]
    BY <1>2, <2>0 DEF OthersTypeOK, MemReply
  <2> QED
    BY <1>2, <2>0, <2>1, <2>2, <2>3 DEF OthersTypeOK, MemReply
<1> QED
  BY <1>1, <1>2 DEF MemWorker

-----------------------------------------------------------------------------
(* The dispatcher's steps.                                                 *)

\* Outside "forward" nobody is being served, so either policy reads the books alike.
LEMMA LoopTopStep ==
    ASSUME IInv, LoopTop
    PROVE  IInv'
<1>1. hand = Idle /\ hand' = Idle /\ disp' # "forward"
  BY DEF IInv, HandOK, LoopTop
<1>2. TypeOK'
  BY <1>1 DEF IInv, TypeOK, LoopTop, workers, clients, Policies, Idle
<1>3. HandOK'
  BY <1>1 DEF HandOK, Idle
<1>4. HandAgent = {} /\ HandAgent' = {}
  BY <1>1 DEF HandAgent, Idle
<1>5. OrderMatchesQueues'
  BY <1>4 DEF IInv, OrderMatchesQueues, LoopTop, IsInjective, Range
<1> QED
  BY <1>2, <1>3, <1>5 DEF IInv

\* The first call of an agent gives it a turn; a later one does not give it another.
LEMMA EnqueueStep ==
    ASSUME IInv, Receive, Head(main).kind \in LlmKinds
    PROVE  DispatcherTypeOK' /\ HandOK' /\ OrderMatchesQueues'
<1> DEFINE call == Head(main)
           a == AgentOf(call)
           q == QueueOf(a)
<1>1. call \in ClientCall /\ call \in LlmCallsOf(a)
  <2>1. main \in Seq(Call) /\ main # <<>>
    BY DEF IInv, TypeOK, Receive
  <2>2. call \in Call
    BY <2>1, HeadTailProperties
  <2> QED
    BY <2>2, LlmCallsAreClientCalls DEF LlmCallsOf
<1>2. a \in Agents
  BY <1>1, AgentOfType
<1>3. q \in Seq(LlmCallsOf(a))
  BY DEF IInv, TypeOK, QueueOf
<1>4. EnqueueLlm(call) /\ UNCHANGED policy
  BY DEF Receive
<1> HIDE DEF call, a, q
<1>5. PICK k \in 0 .. Len(q) : llm_queues' = WithQueue(a, Insert(call, q, k))
  BY <1>4 DEF EnqueueLlm, a, q
<1>6. Insert(call, q, k) \in Seq(LlmCallsOf(a)) /\ Insert(call, q, k) # <<>>
  BY <1>1, <1>3, InsertType
<1>7. /\ DOMAIN llm_queues' = DOMAIN llm_queues \cup {a}
      /\ \A b \in DOMAIN llm_queues' :
            llm_queues'[b] = IF b = a THEN Insert(call, q, k) ELSE llm_queues[b]
  BY <1>5 DEF WithQueue
<1>8. hand = Idle /\ hand' = Idle /\ disp' = "top"
  BY <1>4 DEF IInv, HandOK, Receive, EnqueueLlm
<1>9. HandAgent = {} /\ HandAgent' = {}
  BY <1>8 DEF HandAgent, Idle
<1>10. agent_order \in Seq(Agents) /\ IsInjective(agent_order)
       /\ Range(agent_order) = DOMAIN llm_queues
  BY <1>9 DEF IInv, TypeOK, OrderMatchesQueues
<1>11. agent_order' = IF a \in DOMAIN llm_queues THEN agent_order ELSE Append(agent_order, a)
  BY <1>4 DEF EnqueueLlm, a
<1>12. agent_order' \in Seq(Agents) /\ IsInjective(agent_order')
       /\ Range(agent_order') = DOMAIN llm_queues'
  <2>1. CASE a \in DOMAIN llm_queues
    BY <1>7, <1>10, <1>11, <2>1
  <2>2. CASE a \notin DOMAIN llm_queues
    BY <1>2, <1>7, <1>10, <1>11, <2>2, AppendNew, AppendProperties
  <2> QED
    BY <2>1, <2>2
<1>13. DispatcherTypeOK'
  BY <1>2, <1>4, <1>6, <1>7, <1>8, <1>12 DEF DispatcherTypeOK, IInv, TypeOK, Idle
<1>14. HandOK'
  BY <1>8 DEF HandOK, Idle
<1>15. OrderMatchesQueues'
  BY <1>6, <1>7, <1>9, <1>12 DEF OrderMatchesQueues, IInv, IsInjective, Range
<1> QED
  BY <1>13, <1>14, <1>15

\* Routing a tool or memory call does not touch the books.
LEMMA RouteStep ==
    ASSUME IInv, Receive, Head(main).kind \notin LlmKinds
    PROVE  DispatcherTypeOK' /\ HandOK' /\ OrderMatchesQueues'
<1>1. BeginForward(Head(main)) /\ UNCHANGED policy
  BY DEF Receive
<1>2. hand = Idle
  BY DEF IInv, HandOK, Receive
<1>3. Head(main) \in Call
  BY HeadTailProperties DEF IInv, TypeOK, Receive
<1>4. hand' \in [to : {"mem", "tool"}, call : Call]
  BY <1>1, <1>3 DEF BeginForward
<1>5. HandAgent = {} /\ HandAgent' = {}
  BY <1>2, <1>4 DEF HandAgent, Idle
<1>6. DispatcherTypeOK'
  BY <1>1, <1>4 DEF DispatcherTypeOK, IInv, TypeOK, BeginForward, Workers
<1>7. HandOK'
  BY <1>1, <1>4 DEF HandOK, BeginForward, Idle
<1>8. OrderMatchesQueues'
  BY <1>1, <1>5 DEF OrderMatchesQueues, IInv, BeginForward, IsInjective, Range
<1> QED
  BY <1>6, <1>7, <1>8

LEMMA ReceiveStep ==
    ASSUME IInv, Receive
    PROVE  IInv'
<1>1. DispatcherTypeOK' /\ HandOK' /\ OrderMatchesQueues'
  BY EnqueueStep, RouteStep
<1>2. OthersTypeOK
  BY TypeParts DEF IInv
<1>3. main' \in Seq(Call) /\ Len(main') = Len(main) - 1 /\ Len(main) \in Nat
  BY <1>2, HeadTailProperties, LenProperties DEF OthersTypeOK, Receive
<1>4. Len(main') <= MainCap
  BY <1>2, <1>3, SchedulerAssumption DEF OthersTypeOK
<1>5. OthersTypeOK'
  BY <1>2, <1>3, <1>4 DEF OthersTypeOK, Receive, workers, clients
<1>6. TypeOK'
  BY <1>1, <1>5 DEF TypeOK, DispatcherTypeOK, OthersTypeOK
<1> QED
  BY <1>1, <1>6 DEF IInv

\* The front agent's next call is taken in hand: RoundRobin takes its turn with it.
LEMMA TickStep ==
    ASSUME IInv, Tick
    PROVE  IInv'
<1>1. hand = Idle
  BY DEF IInv, HandOK, Tick
<1>2. HandAgent = {}
  BY <1>1 DEF HandAgent, Idle
<1>3. agent_order \in Seq(Agents) /\ IsInjective(agent_order)
      /\ Range(agent_order) = DOMAIN llm_queues
  BY <1>2 DEF IInv, TypeOK, OrderMatchesQueues
<1>4. OthersTypeOK'
  BY TypeParts DEF IInv, Tick, OthersTypeOK, workers, clients
<1>5. CASE agent_order = <<>>
  <2>1. hand' = Idle /\ disp' = "top" /\ UNCHANGED <<llm_queues, agent_order, policy>>
    BY <1>1, <1>5 DEF Tick
  <2>2. HandAgent' = {}
    BY <2>1 DEF HandAgent, Idle
  <2>3. DispatcherTypeOK'
    BY <2>1 DEF DispatcherTypeOK, IInv, TypeOK, Idle
  <2>4. HandOK'
    BY <2>1 DEF HandOK, Idle
  <2>5. OrderMatchesQueues'
    BY <1>2, <2>1, <2>2 DEF OrderMatchesQueues, IInv, IsInjective, Range
  <2> QED
    BY <1>4, <2>3, <2>4, <2>5 DEF IInv, TypeOK, DispatcherTypeOK, OthersTypeOK
<1>6. CASE agent_order # <<>>
  <2> DEFINE a == Head(agent_order)
             q == llm_queues[a]
  <2>1. /\ a \in DOMAIN llm_queues /\ a \in Range(agent_order)
        /\ Tail(agent_order) \in Seq(Agents) /\ IsInjective(Tail(agent_order))
        /\ Range(Tail(agent_order)) = DOMAIN llm_queues \ {a}
    BY <1>3, <1>6, TailOfInjective
  <2>2. q \in Seq(LlmCallsOf(a)) /\ q # <<>>
    BY <1>2, <2>1 DEF IInv, TypeOK, OrderMatchesQueues
  <2>3. q = QueueOf(Head(agent_order))
    BY <2>1 DEF QueueOf
  <2>4. /\ hand' = [to |-> "llm", call |-> Head(q)]
        /\ llm_queues' = WithQueue(a, Tail(q))
        /\ disp' = "forward"
        /\ agent_order' = IF policy = "RoundRobin" THEN Tail(agent_order) ELSE agent_order
        /\ UNCHANGED policy
    BY <1>6, <2>2, <2>3 DEF Tick
  <2>5. Head(q) \in LlmCallsOf(a) /\ Tail(q) \in Seq(LlmCallsOf(a))
    BY <2>2, HeadTailProperties
  <2>6. Head(q) \in ClientCall /\ AgentOf(Head(q)) = a
    BY <2>5 DEF LlmCallsOf
  <2> HIDE DEF q
  <2>7. HandAgent' = {a} /\ hand' # Idle /\ hand' \in [to : Workers, call : Call]
    BY <2>4, <2>6 DEF HandAgent, AgentOf, Idle, Workers, Call
  <2>8. /\ DOMAIN llm_queues' = DOMAIN llm_queues
        /\ \A b \in DOMAIN llm_queues :
              llm_queues'[b] = IF b = a THEN Tail(q) ELSE llm_queues[b]
    BY <2>1, <2>4 DEF WithQueue
  <2>9. DispatcherTypeOK'
    BY <1>3, <2>1, <2>4, <2>5, <2>7, <2>8 DEF DispatcherTypeOK, IInv, TypeOK
  <2>10. HandOK'
    BY <1>6, <2>4, <2>6, <2>7 DEF HandOK, IInv, TypeOK, Policies, AgentOf
  <2>11. IsInjective(agent_order')
    BY <1>3, <2>1, <2>4
  <2>12. Range(agent_order') = IF policy' = "FIFO" THEN DOMAIN llm_queues'
                               ELSE DOMAIN llm_queues' \ {a}
    BY <1>3, <2>1, <2>4, <2>8 DEF IInv, TypeOK, Policies
  <2>13. OrderMatchesQueues'
    BY <1>2, <2>1, <2>7, <2>8, <2>11, <2>12 DEF OrderMatchesQueues, IInv
  <2> QED
    BY <1>4, <2>9, <2>10, <2>13 DEF IInv, TypeOK, DispatcherTypeOK, OthersTypeOK
<1> QED
  BY <1>5, <1>6

LEMMA ForwardChannelType ==
    ASSUME IInv, Forward
    PROVE  OthersTypeOK'
<1> DEFINE w == hand.to
<1>0. OthersTypeOK
  BY TypeParts DEF IInv
<1>1. w \in Workers /\ hand.call \in Call
  BY DEF IInv, TypeOK, HandOK, Forward
<1>2. chan[w] \in Seq(Call) /\ Len(chan[w]) < Cap[w]
  BY <1>0, <1>1 DEF OthersTypeOK, Forward
<1>3. /\ Append(chan[w], hand.call) \in Seq(Call)
      /\ Len(Append(chan[w], hand.call)) = Len(chan[w]) + 1
      /\ Len(chan[w]) \in Nat
  BY <1>1, <1>2, AppendProperties, LenProperties
<1>4. Cap[w] \in Nat
  BY <1>1, SchedulerAssumption DEF Cap, Workers
<1>5. Len(Append(chan[w], hand.call)) <= Cap[w]
  BY <1>2, <1>3, <1>4
<1>6. chan' = [chan EXCEPT ![w] = Append(chan[w], hand.call)]
  BY DEF Forward
<1> HIDE DEF w
<1>7. chan' \in [Workers -> Seq(Call)]
  BY <1>0, <1>3, <1>6 DEF OthersTypeOK
<1>8. \A v \in Workers : Len(chan'[v]) <= Cap[v]
  BY <1>0, <1>1, <1>5, <1>6 DEF OthersTypeOK
<1> QED
  BY <1>0, <1>7, <1>8 DEF OthersTypeOK, Forward, clients

\* After a send the served agent is requeued, stays in front, or is forgotten in both
\* books at once.
LEMMA AfterLlmSendStep ==
    ASSUME IInv, Forward, hand.to = "llm"
    PROVE  DispatcherTypeOK' /\ OrderMatchesQueues'
<1> DEFINE a == AgentOf(hand.call)
<1>1. AfterLlmSend(a) /\ UNCHANGED policy /\ hand' = Idle /\ disp' = "top"
  BY DEF Forward
<1>2. HandAgent = {a} /\ HandAgent' = {}
  BY <1>1 DEF HandAgent, Idle
<1>3. a \in DOMAIN llm_queues /\ a \in Agents
  BY <1>2 DEF IInv, OrderMatchesQueues, TypeOK
<1>4. agent_order \in Seq(Agents) /\ IsInjective(agent_order)
  BY DEF IInv, TypeOK, OrderMatchesQueues
<1>5. \A b \in DOMAIN llm_queues : llm_queues[b] = <<>> => b = a
  BY <1>2 DEF IInv, OrderMatchesQueues
<1>6. ASSUME policy = "FIFO"
      PROVE  agent_order # <<>> /\ Head(agent_order) = a
             /\ Range(agent_order) = DOMAIN llm_queues
  BY <1>6 DEF IInv, HandOK, OrderMatchesQueues
<1>7. ASSUME policy # "FIFO"
      PROVE  Range(agent_order) = DOMAIN llm_queues \ {a}
  BY <1>2, <1>7 DEF IInv, OrderMatchesQueues
<1> HIDE DEF a
<1>8. /\ agent_order' \in Seq(Agents) /\ IsInjective(agent_order')
      /\ Range(agent_order') = DOMAIN llm_queues'
      /\ DOMAIN llm_queues' \subseteq Agents
      /\ \A b \in DOMAIN llm_queues' : b \in DOMAIN llm_queues
                                     /\ llm_queues'[b] = llm_queues[b]
                                     /\ llm_queues[b] # <<>>
  <2>0. DOMAIN llm_queues \subseteq Agents
    BY DEF IInv, TypeOK
  <2>1. CASE llm_queues[a] = <<>>
    <3>1. llm_queues' = WithoutQueue(a)
      BY <1>1, <2>1 DEF AfterLlmSend
    <3>2. /\ DOMAIN llm_queues' = DOMAIN llm_queues \ {a}
          /\ \A b \in DOMAIN llm_queues' : llm_queues'[b] = llm_queues[b]
      BY <3>1 DEF WithoutQueue
    <3>3. CASE policy = "FIFO"
      <4>1. agent_order' = Retain(agent_order, a)
        BY <1>1, <2>1, <3>3 DEF AfterLlmSend
      <4>2. agent_order' = Tail(agent_order)
        BY <1>4, <1>6, <3>3, <4>1, TailOfInjective DEF Retain
      <4> QED
        BY <1>4, <1>5, <1>6, <2>0, <3>2, <3>3, <4>2, TailOfInjective
    <3>4. CASE policy # "FIFO"
      <4>1. agent_order' = agent_order
        BY <1>1, <2>1, <3>4 DEF AfterLlmSend
      <4> QED
        BY <1>4, <1>5, <1>7, <2>0, <3>2, <3>4, <4>1
    <3> QED
      BY <3>3, <3>4
  <2>2. CASE llm_queues[a] # <<>>
    <3>1. llm_queues' = llm_queues
      BY <1>1, <2>2 DEF AfterLlmSend
    <3>2. CASE policy = "FIFO"
      <4>1. agent_order' = agent_order
        BY <1>1, <2>2, <3>2 DEF AfterLlmSend
      <4> QED
        BY <1>4, <1>5, <1>6, <2>0, <2>2, <3>1, <3>2, <4>1
    <3>3. CASE policy # "FIFO"
      <4>1. agent_order' = Append(agent_order, a)
        BY <1>1, <2>2, <3>3 DEF AfterLlmSend
      <4>2. /\ IsInjective(agent_order') /\ agent_order' \in Seq(Agents)
            /\ Range(agent_order') = DOMAIN llm_queues
        <5>1. Range(agent_order) = DOMAIN llm_queues \ {a}
          BY <1>7, <3>3
        <5>2. IsInjective(agent_order') /\ Range(agent_order') = Range(agent_order) \cup {a}
          BY <1>3, <1>4, <4>1, <5>1, AppendNew
        <5>3. agent_order' \in Seq(Agents)
          BY <1>3, <1>4, <4>1, AppendProperties
        <5> QED
          BY <1>3, <5>1, <5>2, <5>3
      <4> QED
        BY <1>5, <2>0, <2>2, <3>1, <4>2
    <3> QED
      BY <3>2, <3>3
  <2> QED
    BY <2>1, <2>2
<1>9. DispatcherTypeOK'
  BY <1>1, <1>8 DEF DispatcherTypeOK, IInv, TypeOK, Idle
<1>10. OrderMatchesQueues'
  BY <1>2, <1>8 DEF OrderMatchesQueues
<1> QED
  BY <1>9, <1>10

LEMMA ForwardStep ==
    ASSUME IInv, Forward
    PROVE  IInv'
<1>1. OthersTypeOK'
  BY ForwardChannelType
<1>2. hand' = Idle /\ disp' = "top" /\ UNCHANGED policy
  BY DEF Forward
<1>3. HandOK'
  BY <1>2 DEF HandOK, Idle
<1>4. CASE hand.to = "llm"
  BY <1>1, <1>3, <1>4, AfterLlmSendStep DEF IInv, TypeOK, DispatcherTypeOK, OthersTypeOK
<1>5. CASE hand.to # "llm"
  <2>1. UNCHANGED <<llm_queues, agent_order>>
    BY <1>5 DEF Forward
  <2>2. HandAgent = {} /\ HandAgent' = {}
    BY <1>2, <1>5 DEF HandAgent, Idle
  <2>3. DispatcherTypeOK'
    BY <1>2, <2>1 DEF DispatcherTypeOK, IInv, TypeOK, Idle
  <2>4. OrderMatchesQueues'
    BY <1>2, <2>1, <2>2 DEF OrderMatchesQueues, IInv, IsInjective, Range
  <2> QED
    BY <1>1, <1>3, <2>3, <2>4 DEF IInv, TypeOK, DispatcherTypeOK, OthersTypeOK
<1> QED
  BY <1>4, <1>5

-----------------------------------------------------------------------------
(* The theorems.                                                           *)

\* Steps of callers, workers and the user interface leave the dispatcher alone.
LEMMA OutsideStep ==
    ASSUME IInv, OthersTypeOK', UNCHANGED dispatcher
    PROVE  IInv'
<1>1. HandOK' /\ OrderMatchesQueues'
  BY DispatcherUntouched
<1>2. DispatcherTypeOK'
  BY DispatcherTypeUntouched
<1> QED
  BY <1>1, <1>2 DEF IInv, TypeOK, DispatcherTypeOK, OthersTypeOK

\* IInv is inductive: one step per task of the system.
LEMMA NextIInv == IInv /\ [Next]_vars => IInv'
<1> SUFFICES ASSUME IInv, [Next]_vars PROVE IInv'
  OBVIOUS
<1>1. CASE Caller
  <2>1. ASSUME NEW c \in Clients, NEW kind \in Kinds, NEW prio \in Priorities,
               Issue(c, kind, prio)
        PROVE  IInv'
    BY <2>1, IssueStep, OutsideStep
  <2>2. ASSUME NEW c \in Clients, Abandon(c)
        PROVE  IInv'
    BY <2>2, AbandonStep, OutsideStep
  <2> QED
    BY <1>1, <2>1, <2>2 DEF Caller
<1>2. CASE UserInterface
  BY <1>2, SetPolicyStep, OutsideStep DEF UserInterface
<1>3. CASE Dispatcher
  BY <1>3, LoopTopStep, ReceiveStep, TickStep, ForwardStep DEF Dispatcher
<1>4. CASE LlmWorker
  BY <1>4, LlmWorkerStep, OutsideStep
<1>5. CASE ToolWorker
  BY <1>5, ToolWorkerStep, OutsideStep
<1>6. CASE MemWorker
  BY <1>6, MemWorkerStep, OutsideStep
<1>7. CASE UNCHANGED vars
  <2>1. OthersTypeOK'
    BY <1>7, TypeParts DEF IInv, OthersTypeOK, vars
  <2>2. UNCHANGED dispatcher
    BY <1>7 DEF vars, dispatcher
  <2> QED
    BY <2>1, <2>2, OutsideStep
<1> QED
  BY <1>1, <1>2, <1>3, <1>4, <1>5, <1>6, <1>7 DEF Next

\* The inductive invariant holds in every reachable state of every instance.
THEOREM Invariance == Spec => []IInv
  BY InitIInv, NextIInv, PTL DEF Spec

\* Type correctness: no channel exceeds its capacity, and only LLM calls of an agent
\* ever wait in that agent's queue.
THEOREM TypeCorrect == Spec => []TypeOK
<1>1. IInv => TypeOK
  BY DEF IInv
<1> QED
  BY <1>1, Invariance, PTL

\* For any number of agents and callers and any switching between the two policies,
\* every agent with waiting LLM calls has exactly one turn in agent_order, or is the
\* one RoundRobin is serving: no agent's queue is ever orphaned.
THEOREM QueuesNeverOrphaned == Spec => []OrderMatchesQueues
<1>1. IInv => OrderMatchesQueues
  BY DEF IInv
<1> QED
  BY <1>1, Invariance, PTL

-----------------------------------------------------------------------------
(* Turns.                                                                  *)

\* What one step can do to the order: nothing, pop the front, or push a newcomer.
OrderStep ==
    \/ agent_order' = agent_order
    \/ agent_order # <<>> /\ agent_order' = Tail(agent_order)
    \/ \E a \in Agents : a \notin Range(agent_order) /\ agent_order' = Append(agent_order, a)

LEMMA DispatcherOrderStep ==
    ASSUME IInv, Dispatcher
    PROVE  OrderStep
<1>1. CASE LoopTop
  BY <1>1 DEF LoopTop, OrderStep
<1>2. CASE Receive
  <2>1. CASE Head(main).kind \in LlmKinds
    <3> DEFINE a == AgentOf(Head(main))
    <3>1. Head(main) \in Call
      BY <1>2, HeadTailProperties DEF IInv, TypeOK, Receive
    <3>2. a \in Agents
      BY <2>1, <3>1, AgentOfType, LlmCallsAreClientCalls
    <3>3. agent_order' = IF a \in DOMAIN llm_queues THEN agent_order ELSE Append(agent_order, a)
      BY <1>2, <2>1 DEF Receive, EnqueueLlm
    <3>4. Range(agent_order) \subseteq DOMAIN llm_queues
      BY DEF IInv, OrderMatchesQueues
    <3> QED
      BY <3>2, <3>3, <3>4 DEF OrderStep
  <2>2. CASE Head(main).kind \notin LlmKinds
    BY <1>2, <2>2 DEF Receive, BeginForward, OrderStep
  <2> QED
    BY <2>1, <2>2
<1>3. CASE Tick
  BY <1>3 DEF Tick, OrderStep
<1>4. CASE Forward
  <2>1. CASE hand.to = "llm"
    <3> DEFINE a == AgentOf(hand.call)
    <3>1. AfterLlmSend(a) /\ HandAgent = {a}
      BY <1>4, <2>1 DEF Forward, HandAgent
    <3>2. a \in Agents
      BY <3>1 DEF IInv, TypeOK, OrderMatchesQueues
    <3>3. CASE policy = "FIFO"
      <4>1. /\ agent_order \in Seq(Agents) /\ IsInjective(agent_order)
            /\ agent_order # <<>> /\ Head(agent_order) = a
        BY <1>4, <2>1, <3>3 DEF IInv, TypeOK, HandOK, OrderMatchesQueues, Forward
      <4>2. Retain(agent_order, a) = Tail(agent_order)
        BY <4>1, TailOfInjective DEF Retain
      <4> QED
        BY <3>1, <3>3, <4>1, <4>2 DEF AfterLlmSend, OrderStep
    <3>4. CASE policy # "FIFO"
      <4>1. a \notin Range(agent_order)
        BY <3>1, <3>4 DEF IInv, OrderMatchesQueues
      <4> QED
        BY <3>1, <3>2, <3>4, <4>1 DEF AfterLlmSend, OrderStep
    <3> QED
      BY <3>3, <3>4
  <2>2. CASE hand.to # "llm"
    BY <1>4, <2>2 DEF Forward, OrderStep
  <2> QED
    BY <2>1, <2>2
<1> QED
  BY <1>1, <1>2, <1>3, <1>4 DEF Dispatcher

LEMMA NextOrderStep ==
    ASSUME IInv, [Next]_vars
    PROVE  OrderStep
<1>1. CASE Dispatcher
  BY <1>1, DispatcherOrderStep
<1>2. CASE Caller
  BY <1>2 DEF Caller, Issue, Abandon, dispatcher, OrderStep
<1>3. CASE UserInterface
  BY <1>3 DEF UserInterface, SetSchedulerPolicy, dispatcher, OrderStep
<1>4. CASE LlmWorker
  BY <1>4, LlmWorkerStep DEF dispatcher, OrderStep
<1>5. CASE ToolWorker
  BY <1>5, ToolWorkerStep DEF dispatcher, OrderStep
<1>6. CASE MemWorker
  BY <1>6, MemWorkerStep DEF dispatcher, OrderStep
<1>7. CASE UNCHANGED vars
  BY <1>7 DEF vars, OrderStep
<1> QED
  BY <1>1, <1>2, <1>3, <1>4, <1>5, <1>6, <1>7 DEF Next

\* Whatever is done to the order, no agent in it moves back.
LEMMA OrderStepKeepsTurns ==
    ASSUME IInv, OrderStep,
           NEW i \in DOMAIN agent_order, NEW j \in DOMAIN agent_order',
           agent_order[i] = agent_order'[j]
    PROVE  j <= i
<1> DEFINE s == agent_order
<1>1. s \in Seq(Agents) /\ IsInjective(s)
  BY DEF IInv, TypeOK, OrderMatchesQueues
<1>2. Len(s) \in Nat /\ DOMAIN s = 1 .. Len(s)
  BY <1>1, LenProperties
<1>3. CASE agent_order' = s
  BY <1>1, <1>2, <1>3 DEF IsInjective
<1>4. CASE s # <<>> /\ agent_order' = Tail(s)
  <2>1. DOMAIN Tail(s) = 1 .. Len(s) - 1 /\ \A k \in 1 .. Len(s) - 1 : Tail(s)[k] = s[k + 1]
    BY <1>1, <1>2, <1>4, HeadTailProperties, LenProperties
  <2>2. j \in 1 .. Len(s) - 1 /\ j + 1 \in DOMAIN s /\ s[i] = s[j + 1]
    BY <1>2, <1>4, <2>1
  <2>3. i = j + 1
    BY <1>1, <2>2 DEF IsInjective
  <2> QED
    BY <2>2, <2>3
<1>5. ASSUME NEW a \in Agents, a \notin Range(s), agent_order' = Append(s, a)
      PROVE  j <= i
  <2>1. /\ DOMAIN agent_order' = 1 .. Len(s) + 1 /\ agent_order'[Len(s) + 1] = a
        /\ \A k \in 1 .. Len(s) : agent_order'[k] = s[k]
    BY <1>1, <1>2, <1>5, AppendProperties, LenProperties
  <2>2. j # Len(s) + 1
    BY <1>5, <2>1 DEF Range
  <2>3. j \in DOMAIN s /\ s[i] = s[j]
    BY <1>2, <2>1, <2>2
  <2>4. i = j
    BY <1>1, <2>3 DEF IsInjective
  <2> QED
    BY <1>2, <2>3, <2>4
<1> QED
  BY <1>3, <1>4, <1>5 DEF OrderStep

\* For any number of agents, policies and switches between them: no agent with a turn
\* ever moves back in the order, so under RoundRobin nobody is overtaken by a newcomer.
THEOREM TurnsAreKept == Spec => AgentsKeepTheirTurn
<1>1. IInv /\ [Next]_vars =>
        [\A i \in DOMAIN agent_order, j \in DOMAIN agent_order' :
            agent_order[i] = agent_order'[j] => j <= i]_vars
  BY NextOrderStep, OrderStepKeepsTurns
<1> QED
  BY <1>1, Invariance, PTL DEF Spec, AgentsKeepTheirTurn

-----------------------------------------------------------------------------
(* Places.  A container is anything that owns calls; Held says which calls *)
(* each of them owns.                                                      *)

InMain == <<"main", "main">>
InHand == <<"hand", "hand">>
InQueue(a) == <<"queue", a>>
InChan(w) == <<"chan", w>>
InService(w) == <<"busy", w>>

Container == {InMain, InHand} \cup {InQueue(a) : a \in Agents}
             \cup {InChan(w) : w \in Workers} \cup {InService(w) : w \in Workers}

Held == [k \in Container |->
            IF k[1] = "main" THEN Range(main)
            ELSE IF k[1] = "hand" THEN {hand.call} \ {NoCall}
            ELSE IF k[1] = "queue" THEN Range(QueueOf(k[2]))
            ELSE IF k[1] = "chan" THEN Range(chan[k[2]])
            ELSE {busy[k[2]]} \ {NoCall}]

Somewhere(x) == \E k \in Container : x \in Held[k]

\* No call is twice in one channel or queue ..
NoRepeats ==
    /\ IsInjective(main)
    /\ \A a \in Agents : IsInjective(QueueOf(a))
    /\ \A w \in Workers : IsInjective(chan[w])

\* .. nor in two containers.
HeldOnce == \A k, l \in Container : \A x \in Held[k] \cap Held[l] : k = l

\* Every call in the kernel was issued, so the next call of a caller is a new one.
WasIssued == \A k \in Container : \A x \in Held[k] \cap ClientCall : x.n <= issued[x.client]

\* What a caller waits for is its own call, and the kernel has it.
AwaitedIsHeld ==
    \A c \in Clients : waiting[c] # NoCall => waiting[c].client = c /\ Somewhere(waiting[c])

\* Only the calls of the memory worker can be abandoned.
HeldIsAwaited ==
    \A k \in Container : \A x \in Held[k] \cap ClientCall :
        x.kind \notin MemKinds => waiting[x.client] = x

\* The tool thread waits exactly while its call is in the kernel.
NestedIsAwaited == (phase["tool"] = "nested_wait") <=> Somewhere(NestedCall)

CallsOK == HeldOnce /\ WasIssued /\ AwaitedIsHeld /\ HeldIsAwaited /\ NestedIsAwaited

\* The calls of the memory worker, and no others, go its way.
Routed ==
    /\ hand # Idle => (hand.to = "mem" <=> hand.call.kind \in MemKinds)
    /\ \A w \in Workers : \A x \in Held[InChan(w)] \cup Held[InService(w)] :
          w = "mem" <=> x.kind \in MemKinds

\* A worker is idle exactly when it has no call.
BusyMatchesPhase == \A w \in Workers : phase[w] = "idle" <=> busy[w] = NoCall

PlaceInv == NoRepeats /\ CallsOK /\ Routed /\ BusyMatchesPhase

\* What the containers own, before and after a step.
LEMMA HeldAt ==
    /\ Held[InMain] = Range(main) /\ Held'[InMain] = Range(main')
    /\ Held[InHand] = {hand.call} \ {NoCall} /\ Held'[InHand] = {hand'.call} \ {NoCall}
    /\ \A a \in Agents : /\ Held[InQueue(a)] = Range(QueueOf(a))
                         /\ Held'[InQueue(a)] = Range(QueueOf(a)')
    /\ \A w \in Workers : /\ Held[InChan(w)] = Range(chan[w])
                          /\ Held'[InChan(w)] = Range(chan'[w])
    /\ \A w \in Workers : /\ Held[InService(w)] = {busy[w]} \ {NoCall}
                          /\ Held'[InService(w)] = {busy'[w]} \ {NoCall}
<1>1. /\ InMain \in Container /\ InHand \in Container
      /\ \A a \in Agents : InQueue(a) \in Container
      /\ \A w \in Workers : InChan(w) \in Container /\ InService(w) \in Container
  BY DEF Container
<1>2. /\ InMain[1] = "main" /\ InHand[1] = "hand"
      /\ \A a : InQueue(a)[1] = "queue" /\ InQueue(a)[2] = a
      /\ \A w : InChan(w)[1] = "chan" /\ InChan(w)[2] = w
      /\ \A w : InService(w)[1] = "busy" /\ InService(w)[2] = w
  BY DEF InMain, InHand, InQueue, InChan, InService
<1> QED
  BY <1>1, <1>2 DEF Held

LEMMA HeldAtWorker ==
    ASSUME NEW w \in Workers
    PROVE  /\ chan'[w] = chan[w] => Held'[InChan(w)] = Held[InChan(w)]
           /\ busy'[w] = busy[w] => Held'[InService(w)] = Held[InService(w)]
<1>1. Held[InChan(w)] = Range(chan[w]) /\ Held'[InChan(w)] = Range(chan'[w])
  BY HeldAt
<1>2. /\ Held[InService(w)] = {busy[w]} \ {NoCall}
      /\ Held'[InService(w)] = {busy'[w]} \ {NoCall}
  BY HeldAt
<1> QED
  BY <1>1, <1>2

LEMMA ContainerKinds ==
    /\ InMain \in Container /\ InHand \in Container
    /\ \A a \in Agents : InQueue(a) \in Container
    /\ \A w \in Workers : InChan(w) \in Container /\ InService(w) \in Container
    /\ \A k \in Container : \/ k = InMain \/ k = InHand
                            \/ \E a \in Agents : k = InQueue(a)
                            \/ \E w \in Workers : k = InChan(w)
                            \/ \E w \in Workers : k = InService(w)
  BY DEF Container

LEMMA ContainersDiffer ==
    /\ InMain # InHand
    /\ \A a \in Agents : InMain # InQueue(a) /\ InHand # InQueue(a)
    /\ \A w \in Workers : /\ InMain # InChan(w) /\ InHand # InChan(w)
                          /\ InMain # InService(w) /\ InHand # InService(w)
    /\ \A a, b \in Agents : InQueue(a) = InQueue(b) => a = b
    /\ \A v, w \in Workers : /\ InChan(v) = InChan(w) => v = w
                             /\ InService(v) = InService(w) => v = w
                             /\ InChan(v) # InService(w)
    /\ \A a \in Agents, w \in Workers : InQueue(a) # InChan(w) /\ InQueue(a) # InService(w)
  BY DEF InMain, InHand, InQueue, InChan, InService

\* A call is never the mark for "no call".
LEMMA CallsAreCalls == NoCall \notin Call
  BY SchedulerAssumption DEF NoCall, Call, ClientCall, NestedCall, AllKinds, LlmKinds, ToolKinds,
     DefsKinds, MemKinds

LEMMA NestedIsNotClients == NestedCall \notin ClientCall
  BY SchedulerAssumption DEF NestedCall, ClientCall

\* The elements of a queue into which a call was inserted.
Inserted(t, x, q, k) ==
    /\ Len(t) = Len(q) + 1
    /\ \A i \in 1 .. k : t[i] = q[i]
    /\ t[k + 1] = x
    /\ \A i \in k + 2 .. Len(q) + 1 : t[i] = q[i - 1]

LEMMA InsertElements ==
    ASSUME NEW S, NEW q \in Seq(S), NEW x \in S, NEW k \in 0 .. Len(q)
    PROVE  Insert(x, q, k) \in Seq(S) /\ Inserted(Insert(x, q, k), x, q, k)
<1> DEFINE l == SubSeq(q, 1, k)
           r == SubSeq(q, k + 1, Len(q))
           m == l \o <<x>>
<1>1. \A i \in 1 .. Len(q) : q[i] \in S
  BY ElementOfSeq
<1>2. Len(q) \in Nat
  BY LenProperties
<1>3. l \in Seq(S) /\ Len(l) = k /\ \A i \in 1 .. k : l[i] = q[i]
  BY <1>1, <1>2, SubSeqProperties
<1>4. r \in Seq(S) /\ Len(r) = Len(q) - k /\ \A i \in 1 .. Len(q) - k : r[i] = q[k + i]
  <2>1. r \in Seq(S) /\ Len(r) = IF k + 1 <= Len(q) THEN Len(q) - (k + 1) + 1 ELSE 0
    BY <1>1, <1>2, SubSeqProperties
  <2>2. \A i \in 1 .. Len(q) - (k + 1) + 1 : r[i] = q[(k + 1) + i - 1]
    BY <1>1, <1>2, SubSeqProperties
  <2> HIDE DEF r
  <2> QED
    BY <1>2, <2>1, <2>2
<1>5. <<x>> \in Seq(S) /\ Len(<<x>>) = 1 /\ <<x>>[1] = x
  OBVIOUS
<1> HIDE DEF l, r
<1>6. /\ m \in Seq(S) /\ Len(m) = k + 1
      /\ \A i \in 1 .. k : m[i] = q[i]
      /\ m[k + 1] = x
  <2>1. m \in Seq(S) /\ Len(m) = Len(l) + 1
        /\ \A i \in 1 .. Len(l) + 1 : m[i] = IF i <= Len(l) THEN l[i] ELSE <<x>>[i - Len(l)]
    BY <1>3, <1>5, ConcatProperties
  <2> HIDE DEF m
  <2>2. \A i \in 1 .. k : i \in 1 .. k + 1 /\ i <= k
    BY <1>2
  <2>3. k + 1 \in 1 .. k + 1 /\ ~(k + 1 <= k) /\ (k + 1) - k = 1
    BY <1>2
  <2>4. \A i \in 1 .. k : m[i] = q[i]
    BY <1>3, <2>1, <2>2
  <2>5. m[k + 1] = <<x>>[(k + 1) - k]
    BY <1>3, <2>1, <2>3
  <2> QED
    BY <1>3, <1>5, <2>1, <2>3, <2>4, <2>5
<1> HIDE DEF m
<1>7. /\ m \o r \in Seq(S) /\ Len(m \o r) = Len(q) + 1
      /\ \A i \in 1 .. Len(q) + 1 : (m \o r)[i] = IF i <= k + 1 THEN m[i] ELSE r[i - (k + 1)]
  <2>1. m \o r \in Seq(S) /\ Len(m \o r) = Len(m) + Len(r)
        /\ \A i \in 1 .. Len(m) + Len(r) : (m \o r)[i] = IF i <= Len(m) THEN m[i] ELSE r[i - Len(m)]
    BY <1>4, <1>6, ConcatProperties
  <2>2. Len(m) + Len(r) = Len(q) + 1
    BY <1>2, <1>4, <1>6
  <2> QED
    BY <1>6, <2>1, <2>2
<1>8. \A i \in 1 .. k : (m \o r)[i] = q[i]
  BY <1>2, <1>6, <1>7
<1>9. (m \o r)[k + 1] = x
  BY <1>2, <1>6, <1>7
<1>10. \A i \in k + 2 .. Len(q) + 1 : (m \o r)[i] = q[i - 1]
  <2> SUFFICES ASSUME NEW i \in k + 2 .. Len(q) + 1
               PROVE  (m \o r)[i] = q[i - 1]
    OBVIOUS
  <2>1. (m \o r)[i] = r[i - (k + 1)]
    BY <1>2, <1>7
  <2>2. i - (k + 1) \in 1 .. Len(q) - k /\ k + (i - (k + 1)) = i - 1
    BY <1>2
  <2>3. r[i - (k + 1)] = q[k + (i - (k + 1))]
    BY <1>4, <2>2
  <2> QED
    BY <2>1, <2>2, <2>3
<1> QED
  BY <1>7, <1>8, <1>9, <1>10 DEF Insert, Inserted, l, m, r

\* A new call is inserted once, and nothing is lost.
LEMMA InsertNew ==
    ASSUME NEW S, NEW q \in Seq(S), NEW x \in S, NEW k \in 0 .. Len(q),
           IsInjective(q), x \notin Range(q)
    PROVE  IsInjective(Insert(x, q, k)) /\ Range(Insert(x, q, k)) = Range(q) \cup {x}
<1> DEFINE t == Insert(x, q, k)
<1>0. t \in Seq(S) /\ Inserted(t, x, q, k)
  BY InsertElements
<1> HIDE DEF t
<1>1. /\ t \in Seq(S) /\ Len(t) = Len(q) + 1
      /\ \A i \in 1 .. k : t[i] = q[i]
      /\ t[k + 1] = x
      /\ \A i \in k + 2 .. Len(q) + 1 : t[i] = q[i - 1]
  BY <1>0 DEF Inserted
<1>2. Len(q) \in Nat /\ DOMAIN q = 1 .. Len(q) /\ DOMAIN t = 1 .. Len(q) + 1
  BY <1>1, LenProperties
<1>3. \A i \in 1 .. Len(q) : q[i] # x
  BY <1>2 DEF Range
<1>4. \A i \in 1 .. Len(q) + 1 : \/ i \in 1 .. k /\ t[i] = q[i]
                                 \/ i = k + 1 /\ t[i] = x
                                 \/ i \in k + 2 .. Len(q) + 1 /\ i - 1 \in 1 .. Len(q)
                                    /\ t[i] = q[i - 1]
  BY <1>1, <1>2
<1>5. \A i, j \in 1 .. Len(q) : q[i] = q[j] => i = j
  BY <1>2 DEF IsInjective
<1>6. \A i, j \in 1 .. Len(q) + 1 : t[i] = t[j] => i = j
  BY <1>2, <1>3, <1>4, <1>5
<1>7. IsInjective(t)
  BY <1>2, <1>6 DEF IsInjective
<1>8. Range(t) \subseteq Range(q) \cup {x}
  BY <1>2, <1>4 DEF Range
<1>9. \A i \in 1 .. Len(q) : \E j \in 1 .. Len(q) + 1 : t[j] = q[i]
  <2> SUFFICES ASSUME NEW i \in 1 .. Len(q)
               PROVE  \E j \in 1 .. Len(q) + 1 : t[j] = q[i]
    OBVIOUS
  <2>1. CASE i <= k
    BY <1>1, <1>2, <2>1
  <2>2. CASE ~(i <= k)
    <3>1. i + 1 \in k + 2 .. Len(q) + 1 /\ (i + 1) - 1 = i
      BY <1>2, <2>2
    <3>2. t[i + 1] = q[(i + 1) - 1]
      BY <1>1, <3>1
    <3> QED
      BY <1>2, <3>1, <3>2
  <2> QED
    BY <2>1, <2>2
<1>10. Range(q) \cup {x} \subseteq Range(t)
  <2>1. x \in Range(t)
    BY <1>1, <1>2 DEF Range
  <2>2. Range(q) \subseteq Range(t)
    BY <1>2, <1>9 DEF Range
  <2> QED
    BY <2>1, <2>2
<1> QED
  BY <1>7, <1>8, <1>10 DEF t

-----------------------------------------------------------------------------
(* What a step does to the calls: it moves one, takes one in, lets one go. *)

LEMMA CallsStay ==
    ASSUME CallsOK, \A k \in Container : Held'[k] = Held[k], UNCHANGED clients,
           (phase'["tool"] = "nested_wait") <=> (phase["tool"] = "nested_wait")
    PROVE  CallsOK'
<1>1. \A x : Somewhere(x)' <=> Somewhere(x)
  BY DEF Somewhere
<1>2. HeldOnce' /\ WasIssued' /\ HeldIsAwaited' /\ NestedIsAwaited'
  BY <1>1 DEF CallsOK, HeldOnce, WasIssued, HeldIsAwaited, NestedIsAwaited, clients
<1>3. AwaitedIsHeld'
  BY <1>1 DEF CallsOK, AwaitedIsHeld, Somewhere, clients
<1> QED
  BY <1>2, <1>3 DEF CallsOK

LEMMA CallsMove ==
    ASSUME CallsOK, NEW s \in Container, NEW d \in Container, s # d, NEW x \in Held[s],
           Held'[s] = Held[s] \ {x}, Held'[d] = Held[d] \cup {x},
           \A k \in Container : k # s /\ k # d => Held'[k] = Held[k],
           UNCHANGED clients,
           (phase'["tool"] = "nested_wait") <=> (phase["tool"] = "nested_wait")
    PROVE  CallsOK'
<1>1. \A k \in Container : \A y \in Held'[k] : \/ y \in Held[k]
                                               \/ y = x /\ k = d
  OBVIOUS
<1>2. \A y : (\E k \in Container : y \in Held'[k]) <=> Somewhere(y)
  BY DEF Somewhere
<1>3. HeldOnce'
  BY <1>1 DEF CallsOK, HeldOnce
<1>4. WasIssued' /\ HeldIsAwaited'
  BY <1>1 DEF CallsOK, WasIssued, HeldIsAwaited, clients
<1>5. AwaitedIsHeld'
  BY <1>2 DEF CallsOK, AwaitedIsHeld, Somewhere, clients
<1>6. NestedIsAwaited'
  BY <1>2 DEF CallsOK, NestedIsAwaited, Somewhere
<1> QED
  BY <1>3, <1>4, <1>5, <1>6 DEF CallsOK

\* A worker lets its call go and answers it.
LEMMA CallsDrop ==
    ASSUME CallsOK, TypeOK, NEW w \in Workers, NEW x \in Call,
           Held[InService(w)] = {x}, Held'[InService(w)] = {},
           \A k \in Container : k # InService(w) => Held'[k] = Held[k],
           Answer(x), UNCHANGED issued,
           (phase'["tool"] = "nested_wait") <=> (phase["tool"] = "nested_wait" /\ x # NestedCall)
    PROVE  CallsOK'
<1>0. InService(w) \in Container
  BY ContainerKinds
<1>1. \A k \in Container : \A y : y \in Held'[k] <=> y \in Held[k] /\ y # x
  BY <1>0 DEF CallsOK, HeldOnce
<1>2. \A y : (\E k \in Container : y \in Held'[k]) <=> Somewhere(y) /\ y # x
  BY <1>1 DEF Somewhere
<1>3. HeldOnce'
  BY <1>1 DEF CallsOK, HeldOnce
<1>4. WasIssued'
  BY <1>1 DEF CallsOK, WasIssued
<1>5. \A c \in Clients : waiting'[c] = IF waiting[c] = x THEN NoCall ELSE waiting[c]
  BY DEF Answer
<1>6. AwaitedIsHeld'
  <2> SUFFICES ASSUME NEW c \in Clients, waiting'[c] # NoCall
               PROVE  waiting'[c].client = c /\ \E k \in Container : waiting'[c] \in Held'[k]
    BY DEF AwaitedIsHeld, Somewhere
  <2>1. waiting'[c] = waiting[c] /\ waiting[c] # x /\ waiting[c] # NoCall
    BY <1>5
  <2> QED
    BY <1>2, <2>1 DEF CallsOK, AwaitedIsHeld
<1>7. HeldIsAwaited'
  <2> SUFFICES ASSUME NEW k \in Container, NEW y \in Held'[k] \cap ClientCall,
                      y.kind \notin MemKinds
               PROVE  waiting'[y.client] = y
    BY DEF HeldIsAwaited
  <2>1. y \in Held[k] /\ y # x /\ y.client \in Clients
    BY <1>1 DEF ClientCall
  <2>2. waiting[y.client] = y
    BY <2>1 DEF CallsOK, HeldIsAwaited
  <2> QED
    BY <1>5, <2>1, <2>2
<1>8. NestedIsAwaited'
  BY <1>2 DEF CallsOK, NestedIsAwaited, Somewhere
<1> QED
  BY <1>3, <1>4, <1>6, <1>7, <1>8 DEF CallsOK

\* A new call enters the main channel.
LEMMA MainTakesIn ==
    ASSUME IInv, PlaceInv, NEW x \in Call, ~Somewhere(x), main' = Append(main, x),
           UNCHANGED <<dispatcher, chan, busy>>
    PROVE  /\ NoRepeats' /\ Routed' /\ HeldOnce'
           /\ \A y : (\E k \in Container : y \in Held'[k]) <=> Somewhere(y) \/ y = x
           /\ \A k \in Container : \A y \in Held'[k] : y \in Held[k] \/ y = x
<1>1. main \in Seq(Call) /\ IsInjective(main)
  BY DEF IInv, TypeOK, PlaceInv, NoRepeats
<1>2. x \notin Range(main)
  BY HeldAt, ContainerKinds DEF Somewhere
<1>3. IsInjective(main') /\ Range(main') = Range(main) \cup {x}
  BY <1>1, <1>2, AppendNew
<1>4. \A a \in Agents : QueueOf(a)' = QueueOf(a)
  BY DEF QueueOf, dispatcher
<1>5. hand' = hand /\ chan' = chan /\ busy' = busy
  BY DEF dispatcher
<1>6. Held'[InMain] = Held[InMain] \cup {x}
      /\ \A k \in Container : k # InMain => Held'[k] = Held[k]
  <2>1. Held'[InMain] = Held[InMain] \cup {x}
    BY <1>3, HeldAt
  <2>2. /\ Held'[InHand] = Held[InHand]
        /\ \A w \in Workers : Held'[InChan(w)] = Held[InChan(w)]
        /\ \A w \in Workers : Held'[InService(w)] = Held[InService(w)]
    BY <1>5, HeldAt
  <2>3. \A a \in Agents : Held'[InQueue(a)] = Held[InQueue(a)]
    BY <1>4, HeldAt
  <2> QED
    BY <2>1, <2>2, <2>3, ContainerKinds
<1>7. NoRepeats'
  BY <1>3, <1>4, <1>5 DEF PlaceInv, NoRepeats
<1>8. Routed'
  BY <1>5, <1>6, ContainerKinds, ContainersDiffer DEF PlaceInv, Routed, Idle
<1>9. HeldOnce'
  BY <1>6 DEF PlaceInv, CallsOK, HeldOnce, Somewhere
<1> QED
  BY <1>6, <1>7, <1>8, <1>9, ContainerKinds DEF Somewhere

-----------------------------------------------------------------------------
(* Every step keeps each call in one place.                                *)

LEMMA InitPlaceInv == Init => PlaceInv
<1> SUFFICES ASSUME Init PROVE PlaceInv
  OBVIOUS
<1>1. /\ main = <<>> /\ hand = Idle
      /\ \A a \in Agents : QueueOf(a) = <<>>
      /\ \A w \in Workers : chan[w] = <<>> /\ busy[w] = NoCall /\ phase[w] = "idle"
      /\ \A c \in Clients : waiting[c] = NoCall
  BY DEF Init, QueueOf
<1>2. Range(<<>>) = {} /\ IsInjective(<<>>)
  BY DEF Range, IsInjective
<1>3. \A k \in Container : Held[k] = {}
  BY <1>1, <1>2, HeldAt, ContainerKinds DEF Idle
<1>4. NoRepeats
  BY <1>1, <1>2 DEF NoRepeats
<1>5. "tool" \in Workers
  BY DEF Workers
<1>6. CallsOK
  BY <1>1, <1>3, <1>5 DEF CallsOK, HeldOnce, WasIssued, AwaitedIsHeld, HeldIsAwaited,
     NestedIsAwaited, Somewhere
<1>7. Routed
  BY <1>1, <1>3, ContainerKinds DEF Routed
<1>8. BusyMatchesPhase
  BY <1>1 DEF BusyMatchesPhase
<1> QED
  BY <1>4, <1>6, <1>7, <1>8 DEF PlaceInv

\* A step that leaves every container alone.
LEMMA ContainersUntouched ==
    ASSUME UNCHANGED <<main, hand, llm_queues, chan, busy>>
    PROVE  \A k \in Container : Held'[k] = Held[k]
<1>1. \A a \in Agents : QueueOf(a)' = QueueOf(a)
  BY DEF QueueOf
<1>2. Held'[InMain] = Held[InMain] /\ Held'[InHand] = Held[InHand]
  BY HeldAt
<1>3. \A a \in Agents : Held'[InQueue(a)] = Held[InQueue(a)]
  BY <1>1, HeldAt
<1>4. \A w \in Workers : /\ Held'[InChan(w)] = Held[InChan(w)]
                         /\ Held'[InService(w)] = Held[InService(w)]
  BY HeldAt
<1> QED
  BY <1>2, <1>3, <1>4, ContainerKinds

LEMMA RoutedUntouched ==
    ASSUME PlaceInv, UNCHANGED <<main, hand, llm_queues, chan, busy>>
    PROVE  NoRepeats' /\ Routed'
<1>1. \A k \in Container : Held'[k] = Held[k]
  BY ContainersUntouched
<1>2. NoRepeats'
  BY DEF PlaceInv, NoRepeats, QueueOf
<1>3. Routed'
  BY <1>1, ContainerKinds DEF PlaceInv, Routed, Idle
<1> QED
  BY <1>2, <1>3

\* A step in which only a phase, the policy or the dispatcher's place in its loop changes.
LEMMA PlacesUntouched ==
    ASSUME PlaceInv, UNCHANGED <<main, hand, llm_queues, chan, busy, clients>>,
           (phase'["tool"] = "nested_wait") <=> (phase["tool"] = "nested_wait"),
           BusyMatchesPhase'
    PROVE  PlaceInv'
<1>1. CallsOK'
  BY ContainersUntouched, CallsStay DEF PlaceInv
<1> QED
  BY <1>1, RoutedUntouched DEF PlaceInv

LEMMA IssuePlace ==
    ASSUME IInv, PlaceInv, NEW c \in Clients, NEW kind \in Kinds, NEW prio \in Priorities,
           Issue(c, kind, prio)
    PROVE  PlaceInv'
<1>1. PICK x \in ClientCall :
         /\ x.client = c /\ x.n = issued[c] + 1
         /\ main' = Append(main, x)
         /\ waiting' = [waiting EXCEPT ![c] = x]
  <2> DEFINE call == [client |-> c, n |-> issued[c] + 1, kind |-> kind, prio |-> prio]
  <2>1. issued[c] + 1 \in 1 .. MaxCalls
    BY SchedulerAssumption DEF Issue, IInv, TypeOK
  <2>2. call \in ClientCall
    BY <2>1 DEF ClientCall
  <2> QED
    BY <2>2 DEF Issue
<1>2. /\ issued' = [issued EXCEPT ![c] = @ + 1] /\ waiting[c] = NoCall
      /\ UNCHANGED <<dispatcher, chan, busy, phase>>
  BY DEF Issue, workers
<1>3. \A b \in Clients : /\ issued[b] \in Nat
                         /\ issued'[b] = IF b = c THEN issued[b] + 1 ELSE issued[b]
                         /\ waiting'[b] = IF b = c THEN x ELSE waiting[b]
  BY <1>1, <1>2, SchedulerAssumption DEF IInv, TypeOK
<1>4. ~Somewhere(x)
  <2> SUFFICES ASSUME NEW k \in Container, x \in Held[k] PROVE FALSE
    BY DEF Somewhere
  <2>1. x.n <= issued[c]
    BY <1>1 DEF PlaceInv, CallsOK, WasIssued
  <2> QED
    BY <1>1, <1>3, <2>1
<1>5. x \in Call /\ x # NoCall /\ x # NestedCall
  BY CallsAreCalls, NestedIsNotClients DEF Call
<1>6. /\ NoRepeats' /\ Routed' /\ HeldOnce'
      /\ \A y : (\E k \in Container : y \in Held'[k]) <=> Somewhere(y) \/ y = x
      /\ \A k \in Container : \A y \in Held'[k] : y \in Held[k] \/ y = x
  BY <1>1, <1>2, <1>4, <1>5, MainTakesIn
<1>7. WasIssued'
  <2> SUFFICES ASSUME NEW k \in Container, NEW y \in Held'[k] \cap ClientCall
               PROVE  y.n <= issued'[y.client]
    BY DEF WasIssued
  <2>1. y.client \in Clients /\ y.n \in Nat
    BY SchedulerAssumption DEF ClientCall
  <2>2. CASE y = x
    BY <1>1, <1>3, <2>2
  <2>3. CASE y \in Held[k]
    <3>1. y.n <= issued[y.client]
      BY <2>3 DEF PlaceInv, CallsOK, WasIssued
    <3> QED
      BY <1>3, <2>1, <3>1
  <2> QED
    BY <1>6, <2>2, <2>3
<1>8. AwaitedIsHeld'
  <2> SUFFICES ASSUME NEW b \in Clients, waiting'[b] # NoCall
               PROVE  waiting'[b].client = b /\ \E k \in Container : waiting'[b] \in Held'[k]
    BY DEF AwaitedIsHeld, Somewhere
  <2>1. CASE b = c
    BY <1>1, <1>3, <1>6, <2>1
  <2>2. CASE b # c
    BY <1>3, <1>6, <2>2 DEF PlaceInv, CallsOK, AwaitedIsHeld
  <2> QED
    BY <2>1, <2>2
<1>9. HeldIsAwaited'
  <2> SUFFICES ASSUME NEW k \in Container, NEW y \in Held'[k] \cap ClientCall,
                      y.kind \notin MemKinds
               PROVE  waiting'[y.client] = y
    BY DEF HeldIsAwaited
  <2>1. y.client \in Clients
    BY DEF ClientCall
  <2>2. CASE y = x
    BY <1>1, <1>3, <2>2
  <2>3. CASE y \in Held[k]
    <3>1. waiting[y.client] = y
      BY <2>3 DEF PlaceInv, CallsOK, HeldIsAwaited
    <3>2. y # NoCall
      BY CallsAreCalls DEF Call
    <3> QED
      BY <1>2, <1>3, <2>1, <3>1, <3>2
  <2> QED
    BY <1>6, <2>2, <2>3
<1>10. NestedIsAwaited'
  BY <1>2, <1>5, <1>6 DEF PlaceInv, CallsOK, NestedIsAwaited, Somewhere
<1>11. BusyMatchesPhase'
  BY <1>2 DEF PlaceInv, BusyMatchesPhase
<1> QED
  BY <1>6, <1>7, <1>8, <1>9, <1>10, <1>11 DEF PlaceInv, CallsOK

\* An abandoned call stays in the kernel, but it is one of the memory worker's.
LEMMA AbandonPlace ==
    ASSUME IInv, PlaceInv, NEW c \in Clients, Abandon(c)
    PROVE  PlaceInv'
<1>1. /\ waiting[c].kind \in MemKinds
      /\ UNCHANGED <<main, hand, llm_queues, chan, busy, phase, issued>>
  BY DEF Abandon, dispatcher, workers
<1>2. \A b \in Clients : waiting'[b] = IF b = c THEN NoCall ELSE waiting[b]
  BY DEF Abandon, IInv, TypeOK
<1>3. \A k \in Container : Held'[k] = Held[k]
  BY <1>1, ContainersUntouched
<1>4. HeldOnce' /\ WasIssued' /\ NestedIsAwaited'
  BY <1>1, <1>3 DEF PlaceInv, CallsOK, HeldOnce, WasIssued, NestedIsAwaited, Somewhere
<1>5. AwaitedIsHeld'
  BY <1>2, <1>3 DEF PlaceInv, CallsOK, AwaitedIsHeld, Somewhere
<1>6. HeldIsAwaited'
  <2> SUFFICES ASSUME NEW k \in Container, NEW y \in Held[k] \cap ClientCall,
                      y.kind \notin MemKinds
               PROVE  waiting'[y.client] = y
    BY <1>3 DEF HeldIsAwaited
  <2>1. waiting[y.client] = y /\ y.client \in Clients
    BY DEF PlaceInv, CallsOK, HeldIsAwaited, ClientCall
  <2> QED
    BY <1>1, <1>2, <2>1
<1>7. BusyMatchesPhase'
  BY <1>1 DEF PlaceInv, BusyMatchesPhase
<1> QED
  BY <1>1, <1>4, <1>5, <1>6, <1>7, RoutedUntouched DEF PlaceInv, CallsOK

LEMMA NestedSendPlace ==
    ASSUME IInv, PlaceInv, NestedSend
    PROVE  PlaceInv'
<1>1. /\ phase["tool"] = "nested_send" /\ main' = Append(main, NestedCall)
      /\ phase' = [phase EXCEPT !["tool"] = "nested_wait"]
      /\ UNCHANGED <<dispatcher, chan, busy, clients>>
  BY DEF NestedSend
<1>2. "tool" \in Workers /\ phase'["tool"] = "nested_wait"
      /\ \A w \in Workers : phase'[w] = IF w = "tool" THEN "nested_wait" ELSE phase[w]
  BY <1>1 DEF IInv, TypeOK, Workers
<1>3. ~Somewhere(NestedCall)
  BY <1>1 DEF PlaceInv, CallsOK, NestedIsAwaited
<1>4. NestedCall \in Call
  BY DEF Call
<1>5. /\ NoRepeats' /\ Routed' /\ HeldOnce'
      /\ \A y : (\E k \in Container : y \in Held'[k]) <=> Somewhere(y) \/ y = NestedCall
      /\ \A k \in Container : \A y \in Held'[k] : y \in Held[k] \/ y = NestedCall
  BY <1>1, <1>3, <1>4, MainTakesIn
<1>6. WasIssued' /\ HeldIsAwaited'
  BY <1>1, <1>5, NestedIsNotClients DEF PlaceInv, CallsOK, WasIssued, HeldIsAwaited, clients
<1>7. AwaitedIsHeld'
  BY <1>1, <1>5 DEF PlaceInv, CallsOK, AwaitedIsHeld, Somewhere, clients
<1>8. NestedIsAwaited'
  BY <1>2, <1>5 DEF NestedIsAwaited, Somewhere
<1>9. BusyMatchesPhase'
  BY <1>1, <1>2 DEF PlaceInv, BusyMatchesPhase
<1> QED
  BY <1>5, <1>6, <1>7, <1>8, <1>9 DEF PlaceInv, CallsOK

\* The dispatcher takes the call in front of the main channel: into a queue ..
LEMMA EnqueuePlace ==
    ASSUME IInv, PlaceInv, Receive, Head(main).kind \in LlmKinds
    PROVE  PlaceInv'
<1>1. main \in Seq(Call) /\ main # <<>> /\ IsInjective(main)
  BY DEF IInv, TypeOK, PlaceInv, NoRepeats, Receive
<1>2. PICK x \in Call : x = Head(main) /\ x.kind \in LlmKinds
  BY <1>1, HeadTailProperties
<1>3. x \in ClientCall
  BY <1>2, LlmCallsAreClientCalls
<1>4. PICK a \in Agents : a = AgentOf(x)
  BY <1>3, AgentOfType
<1>5. /\ EnqueueLlm(x) /\ main' = Tail(main)
      /\ UNCHANGED <<policy, requested, chan, busy, phase, clients>>
  BY <1>2 DEF Receive, workers
<1>6. QueueOf(a) \in Seq(LlmCallsOf(a)) /\ IsInjective(QueueOf(a)) /\ x \in LlmCallsOf(a)
  <2>1. QueueOf(a) \in Seq(LlmCallsOf(a))
    BY DEF IInv, TypeOK, QueueOf
  <2>2. IsInjective(QueueOf(a))
    BY DEF PlaceInv, NoRepeats
  <2>3. x \in LlmCallsOf(a)
    BY <1>2, <1>3, <1>4 DEF LlmCallsOf
  <2> QED
    BY <2>1, <2>2, <2>3
<1>7. PICK i \in 0 .. Len(QueueOf(a)) : llm_queues' = WithQueue(a, Insert(x, QueueOf(a), i))
  BY <1>4, <1>5 DEF EnqueueLlm
<1>8. /\ QueueOf(a)' = Insert(x, QueueOf(a), i)
      /\ \A b \in Agents : b # a => QueueOf(b)' = QueueOf(b)
  BY <1>7 DEF WithQueue, QueueOf
<1>9. hand' = hand /\ chan' = chan /\ busy' = busy
  BY <1>5 DEF EnqueueLlm
<1>10. /\ IsInjective(main') /\ Range(main') = Range(main) \ {x} /\ x \in Range(main)
  BY <1>1, <1>2, <1>5, TailOfInjective
<1>11. x \in Held[InMain] /\ InMain \in Container /\ InQueue(a) \in Container
       /\ InMain # InQueue(a)
  BY <1>10, HeldAt, ContainerKinds, ContainersDiffer
<1>12. x \notin Range(QueueOf(a))
  BY <1>11, HeldAt DEF PlaceInv, CallsOK, HeldOnce
<1>13. IsInjective(QueueOf(a)') /\ Range(QueueOf(a)') = Range(QueueOf(a)) \cup {x}
  BY <1>6, <1>8, <1>12, InsertNew
<1>14. /\ Held'[InMain] = Held[InMain] \ {x}
       /\ Held'[InQueue(a)] = Held[InQueue(a)] \cup {x}
  BY <1>10, <1>13, HeldAt
<1>15. \A k \in Container : k # InMain /\ k # InQueue(a) => Held'[k] = Held[k]
  <2>1. /\ Held'[InHand] = Held[InHand]
        /\ \A w \in Workers : Held'[InChan(w)] = Held[InChan(w)]
        /\ \A w \in Workers : Held'[InService(w)] = Held[InService(w)]
    BY <1>9, HeldAt
  <2>2. \A b \in Agents : b # a => Held'[InQueue(b)] = Held[InQueue(b)]
    BY <1>8, HeldAt
  <2> QED
    BY <2>1, <2>2, ContainerKinds
<1>16. CallsOK'
  BY <1>5, <1>11, <1>14, <1>15, CallsMove DEF PlaceInv
<1>17. NoRepeats'
  <2>1. \A b \in Agents : IsInjective(QueueOf(b)')
    BY <1>8, <1>13 DEF PlaceInv, NoRepeats
  <2> QED
    BY <1>9, <1>10, <2>1 DEF PlaceInv, NoRepeats
<1>18. Routed'
  <2>1. \A w \in Workers : /\ Held'[InChan(w)] = Held[InChan(w)]
                           /\ Held'[InService(w)] = Held[InService(w)]
    BY <1>9, HeldAt
  <2> QED
    BY <1>9, <2>1 DEF PlaceInv, Routed, Idle
<1>19. BusyMatchesPhase'
  BY <1>5 DEF PlaceInv, BusyMatchesPhase
<1> QED
  BY <1>16, <1>17, <1>18, <1>19 DEF PlaceInv

\* .. or into its hand.
LEMMA PickUpPlace ==
    ASSUME IInv, PlaceInv, Receive, Head(main).kind \notin LlmKinds
    PROVE  PlaceInv'
<1>1. main \in Seq(Call) /\ main # <<>> /\ IsInjective(main)
  BY DEF IInv, TypeOK, PlaceInv, NoRepeats, Receive
<1>2. PICK x \in Call : x = Head(main)
  BY <1>1, HeadTailProperties
<1>3. /\ BeginForward(x) /\ main' = Tail(main) /\ disp # "forward"
      /\ UNCHANGED <<policy, requested, chan, busy, phase, clients>>
  BY <1>2 DEF Receive, workers
<1>4. /\ hand = Idle /\ hand'.call = x /\ (hand'.to = "mem" <=> x.kind \in MemKinds)
      /\ UNCHANGED llm_queues
  BY <1>3 DEF BeginForward, IInv, HandOK
<1>5. IsInjective(main') /\ Range(main') = Range(main) \ {x} /\ x \in Range(main)
  BY <1>1, <1>2, <1>3, TailOfInjective
<1>6. x \in Held[InMain] /\ InMain \in Container /\ InHand \in Container /\ InMain # InHand
  BY <1>5, HeldAt, ContainerKinds, ContainersDiffer
<1>7. Held[InHand] = {} /\ Held'[InHand] = {x} /\ Held'[InMain] = Held[InMain] \ {x}
  BY <1>4, <1>5, HeldAt, CallsAreCalls DEF Idle
<1>8. \A a \in Agents : QueueOf(a)' = QueueOf(a)
  BY <1>4 DEF QueueOf
<1>9. \A w \in Workers : /\ Held'[InChan(w)] = Held[InChan(w)]
                         /\ Held'[InService(w)] = Held[InService(w)]
  BY <1>3, HeldAt
<1>10. \A k \in Container : k # InMain /\ k # InHand => Held'[k] = Held[k]
  <2>1. \A a \in Agents : Held'[InQueue(a)] = Held[InQueue(a)]
    BY <1>8, HeldAt
  <2> QED
    BY <1>9, <2>1, ContainerKinds
<1>11. CallsOK'
  BY <1>3, <1>6, <1>7, <1>10, CallsMove DEF PlaceInv
<1>12. NoRepeats'
  BY <1>3, <1>5, <1>8 DEF PlaceInv, NoRepeats
<1>13. Routed'
  BY <1>4, <1>9 DEF PlaceInv, Routed
<1>14. BusyMatchesPhase'
  BY <1>3 DEF PlaceInv, BusyMatchesPhase
<1> QED
  BY <1>11, <1>12, <1>13, <1>14 DEF PlaceInv

\* The timer puts the first call of the agent in front into the dispatcher's hand.
LEMMA TickPlace ==
    ASSUME IInv, PlaceInv, Tick
    PROVE  PlaceInv'
<1>1. disp # "forward" /\ UNCHANGED <<main, policy, requested, chan, busy, phase, clients>>
  BY DEF Tick, workers
<1>2. hand = Idle
  BY <1>1 DEF IInv, HandOK
<1>3. BusyMatchesPhase'
  BY <1>1 DEF PlaceInv, BusyMatchesPhase
<1>4. CASE agent_order = <<>> \/ QueueOf(Head(agent_order)) = <<>>
  <2>1. UNCHANGED <<hand, llm_queues>>
    BY <1>4 DEF Tick
  <2> QED
    BY <1>1, <1>3, <2>1, PlacesUntouched
<1>5. CASE ~(agent_order = <<>> \/ QueueOf(Head(agent_order)) = <<>>)
  <2>1. PICK a : a = Head(agent_order)
    OBVIOUS
  <2>2. a \in DOMAIN llm_queues /\ a \in Agents /\ llm_queues[a] = QueueOf(a)
        /\ QueueOf(a) # <<>>
    BY <1>5, <2>1 DEF QueueOf, IInv, TypeOK
  <2>3. QueueOf(a) \in Seq(LlmCallsOf(a)) /\ IsInjective(QueueOf(a))
    BY <2>2 DEF IInv, TypeOK, PlaceInv, NoRepeats
  <2>4. PICK x \in LlmCallsOf(a) : x = Head(QueueOf(a))
    BY <2>2, <2>3, HeadTailProperties
  <2>5. hand' = [to |-> "llm", call |-> x] /\ llm_queues' = WithQueue(a, Tail(QueueOf(a)))
    BY <1>5, <2>1, <2>2, <2>4 DEF Tick
  <2>6. x \in ClientCall /\ x \in Call /\ x.kind \in LlmKinds
    BY DEF LlmCallsOf, Call
  <2>7. /\ QueueOf(a)' = Tail(QueueOf(a))
        /\ \A b \in Agents : b # a => QueueOf(b)' = QueueOf(b)
    BY <2>5 DEF WithQueue, QueueOf
  <2>8. /\ IsInjective(QueueOf(a)') /\ Range(QueueOf(a)') = Range(QueueOf(a)) \ {x}
        /\ x \in Range(QueueOf(a))
    BY <2>2, <2>3, <2>4, <2>7, TailOfInjective
  <2>9. x \in Held[InQueue(a)] /\ InQueue(a) \in Container /\ InHand \in Container
        /\ InQueue(a) # InHand
    BY <2>2, <2>8, HeldAt, ContainerKinds, ContainersDiffer
  <2>10. Held[InHand] = {} /\ Held'[InHand] = {x}
         /\ Held'[InQueue(a)] = Held[InQueue(a)] \ {x}
    BY <1>2, <2>2, <2>5, <2>6, <2>8, HeldAt, CallsAreCalls DEF Idle
  <2>11. \A w \in Workers : /\ Held'[InChan(w)] = Held[InChan(w)]
                            /\ Held'[InService(w)] = Held[InService(w)]
    BY <1>1, HeldAt
  <2>12. \A k \in Container : k # InQueue(a) /\ k # InHand => Held'[k] = Held[k]
    <3>1. Held'[InMain] = Held[InMain]
      BY <1>1, HeldAt
    <3>2. \A b \in Agents : b # a => Held'[InQueue(b)] = Held[InQueue(b)]
      BY <2>7, HeldAt
    <3> QED
      BY <2>11, <3>1, <3>2, ContainerKinds
  <2>13. CallsOK'
    BY <1>1, <2>9, <2>10, <2>12, CallsMove DEF PlaceInv
  <2>14. NoRepeats'
    <3>1. \A b \in Agents : IsInjective(QueueOf(b)')
      BY <2>7, <2>8 DEF PlaceInv, NoRepeats
    <3> QED
      BY <1>1, <3>1 DEF PlaceInv, NoRepeats
  <2>15. Routed'
    <3>1. hand'.to # "mem" /\ hand'.call.kind \notin MemKinds
      BY <2>5, <2>6 DEF LlmKinds, MemKinds
    <3> QED
      BY <2>11, <3>1 DEF PlaceInv, Routed
  <2> QED
    BY <1>3, <2>13, <2>14, <2>15 DEF PlaceInv
<1> QED
  BY <1>4, <1>5

\* Forgetting a drained queue loses no call.
LEMMA AfterSendKeepsQueues ==
    ASSUME NEW b, AfterLlmSend(b)
    PROVE  \A a \in Agents : QueueOf(a)' = QueueOf(a)
<1>1. CASE llm_queues[b] = <<>>
  <2>1. llm_queues' = WithoutQueue(b)
    BY <1>1 DEF AfterLlmSend
  <2> QED
    BY <1>1, <2>1 DEF WithoutQueue, QueueOf
<1>2. CASE llm_queues[b] # <<>>
  BY <1>2 DEF AfterLlmSend, QueueOf
<1> QED
  BY <1>1, <1>2

LEMMA ForwardPlace ==
    ASSUME IInv, PlaceInv, Forward
    PROVE  PlaceInv'
<1>1. /\ disp = "forward" /\ hand' = Idle
      /\ chan' = [chan EXCEPT ![hand.to] = Append(@, hand.call)]
      /\ UNCHANGED <<main, policy, requested, busy, phase, clients>>
  BY DEF Forward
<1>2. PICK v \in Workers, x \in Call : v = hand.to /\ x = hand.call
  BY <1>1 DEF IInv, TypeOK, HandOK
<1>3. chan[v] \in Seq(Call) /\ IsInjective(chan[v])
  BY DEF IInv, TypeOK, PlaceInv, NoRepeats
<1>4. chan'[v] = Append(chan[v], x) /\ \A w \in Workers : w # v => chan'[w] = chan[w]
  BY <1>1, <1>2 DEF IInv, TypeOK
<1>5. \A a \in Agents : QueueOf(a)' = QueueOf(a)
  BY AfterSendKeepsQueues DEF Forward, QueueOf
<1>6. x \in Held[InHand] /\ Held[InHand] = {x} /\ Held'[InHand] = {}
      /\ InHand \in Container /\ InChan(v) \in Container /\ InHand # InChan(v)
  BY <1>1, <1>2, HeldAt, CallsAreCalls, ContainerKinds, ContainersDiffer DEF Idle
<1>7. x \notin Range(chan[v])
  BY <1>6, HeldAt DEF PlaceInv, CallsOK, HeldOnce
<1>8. IsInjective(chan'[v]) /\ Range(chan'[v]) = Range(chan[v]) \cup {x}
  BY <1>3, <1>4, <1>7, AppendNew
<1>9. Held'[InChan(v)] = Held[InChan(v)] \cup {x} /\ Held'[InHand] = Held[InHand] \ {x}
  BY <1>6, <1>8, HeldAt
<1>10. \A w \in Workers : /\ w # v => Held'[InChan(w)] = Held[InChan(w)]
                          /\ Held'[InService(w)] = Held[InService(w)]
  <2> SUFFICES ASSUME NEW w \in Workers
               PROVE  /\ w # v => Held'[InChan(w)] = Held[InChan(w)]
                      /\ Held'[InService(w)] = Held[InService(w)]
    OBVIOUS
  <2>1. w # v => chan'[w] = chan[w]
    BY <1>4
  <2>2. busy'[w] = busy[w]
    BY <1>1
  <2> QED
    BY <2>1, <2>2, HeldAtWorker
<1>11. \A k \in Container : k # InHand /\ k # InChan(v) => Held'[k] = Held[k]
  <2>1. Held'[InMain] = Held[InMain]
    BY <1>1, HeldAt
  <2>2. \A a \in Agents : Held'[InQueue(a)] = Held[InQueue(a)]
    BY <1>5, HeldAt
  <2> QED
    BY <1>10, <2>1, <2>2, ContainerKinds
<1>12. CallsOK'
  BY <1>1, <1>6, <1>9, <1>11, CallsMove DEF PlaceInv
<1>13. NoRepeats'
  BY <1>1, <1>4, <1>5, <1>8 DEF PlaceInv, NoRepeats
<1>14. Routed'
  <2>1. v = "mem" <=> x.kind \in MemKinds
    BY <1>1, <1>2 DEF PlaceInv, Routed, IInv, HandOK
  <2> QED
    BY <1>1, <1>9, <1>10, <2>1 DEF PlaceInv, Routed
<1>15. BusyMatchesPhase'
  BY <1>1 DEF PlaceInv, BusyMatchesPhase
<1> QED
  BY <1>12, <1>13, <1>14, <1>15 DEF PlaceInv

LEMMA TakePlace ==
    ASSUME IInv, PlaceInv, NEW v \in Workers, Take(v)
    PROVE  PlaceInv'
<1>1. /\ phase[v] = "idle" /\ chan[v] # <<>>
      /\ UNCHANGED <<main, dispatcher, requested, clients>>
  BY DEF Take
<1>2. chan[v] \in Seq(Call) /\ IsInjective(chan[v])
  BY DEF IInv, TypeOK, PlaceInv, NoRepeats
<1>3. PICK x \in Call : x = Head(chan[v])
  BY <1>1, <1>2, HeadTailProperties
<1>4. /\ chan'[v] = Tail(chan[v]) /\ busy'[v] = x /\ phase'[v] = "taken"
      /\ \A w \in Workers : w # v => /\ chan'[w] = chan[w] /\ busy'[w] = busy[w]
                                     /\ phase'[w] = phase[w]
  BY <1>3 DEF Take, IInv, TypeOK
<1>5. busy[v] = NoCall
  BY <1>1 DEF PlaceInv, BusyMatchesPhase
<1>6. \A a \in Agents : QueueOf(a)' = QueueOf(a)
  BY <1>1 DEF QueueOf, dispatcher
<1>7. /\ IsInjective(chan'[v]) /\ Range(chan'[v]) = Range(chan[v]) \ {x}
      /\ x \in Range(chan[v])
  BY <1>1, <1>2, <1>3, <1>4, TailOfInjective
<1>8. x \in Held[InChan(v)] /\ InChan(v) \in Container /\ InService(v) \in Container
      /\ InChan(v) # InService(v)
  BY <1>7, HeldAt, ContainerKinds, ContainersDiffer
<1>9. /\ Held'[InChan(v)] = Held[InChan(v)] \ {x}
      /\ Held[InService(v)] = {} /\ Held'[InService(v)] = {x}
  BY <1>4, <1>5, <1>7, HeldAt, CallsAreCalls
<1>10. \A w \in Workers : w # v => /\ Held'[InChan(w)] = Held[InChan(w)]
                                   /\ Held'[InService(w)] = Held[InService(w)]
  <2> SUFFICES ASSUME NEW w \in Workers, w # v
               PROVE  /\ Held'[InChan(w)] = Held[InChan(w)]
                      /\ Held'[InService(w)] = Held[InService(w)]
    OBVIOUS
  <2>1. chan'[w] = chan[w] /\ busy'[w] = busy[w]
    BY <1>4
  <2> QED
    BY <2>1, HeldAtWorker
<1>11. \A k \in Container : k # InChan(v) /\ k # InService(v) => Held'[k] = Held[k]
  <2>1. Held'[InMain] = Held[InMain] /\ Held'[InHand] = Held[InHand]
    BY <1>1, HeldAt DEF dispatcher
  <2>2. \A a \in Agents : Held'[InQueue(a)] = Held[InQueue(a)]
    BY <1>6, HeldAt
  <2> QED
    BY <1>10, <2>1, <2>2, ContainerKinds
<1>12. (phase'["tool"] = "nested_wait") <=> (phase["tool"] = "nested_wait")
  <2>1. "tool" \in Workers
    BY DEF Workers
  <2> QED
    BY <1>1, <1>4, <2>1
<1>13. CallsOK'
  BY <1>1, <1>8, <1>9, <1>11, <1>12, CallsMove DEF PlaceInv
<1>14. NoRepeats'
  BY <1>1, <1>4, <1>6, <1>7 DEF PlaceInv, NoRepeats
<1>15. Routed'
  <2>1. v = "mem" <=> x.kind \in MemKinds
    BY <1>8 DEF PlaceInv, Routed
  <2>2. hand' = hand
    BY <1>1 DEF dispatcher
  <2>3. \A w \in Workers : \A y \in Held'[InChan(w)] \cup Held'[InService(w)] :
           y \in Held[InChan(w)] \cup Held[InService(w)] \/ (w = v /\ y = x)
    BY <1>9, <1>10
  <2> QED
    BY <2>1, <2>2, <2>3 DEF PlaceInv, Routed, Idle
<1>16. BusyMatchesPhase'
  BY <1>4, CallsAreCalls DEF PlaceInv, BusyMatchesPhase
<1> QED
  BY <1>13, <1>14, <1>15, <1>16 DEF PlaceInv

\* A worker answers its call: it leaves the kernel and its caller is released.
LEMMA ServedLeaves ==
    ASSUME IInv, PlaceInv, NEW v \in Workers, busy[v] # NoCall,
           busy' = [busy EXCEPT ![v] = NoCall], Answer(busy[v]),
           UNCHANGED <<main, dispatcher, chan, issued>>,
           (phase'["tool"] = "nested_wait") <=>
               (phase["tool"] = "nested_wait" /\ busy[v] # NestedCall),
           BusyMatchesPhase'
    PROVE  PlaceInv'
<1>1. PICK x \in Call : x = busy[v]
  BY DEF IInv, TypeOK
<1>2. busy'[v] = NoCall /\ \A w \in Workers : w # v => busy'[w] = busy[w]
  BY DEF IInv, TypeOK
<1>3. \A a \in Agents : QueueOf(a)' = QueueOf(a)
  BY DEF QueueOf, dispatcher
<1>4. Held[InService(v)] = {x} /\ Held'[InService(v)] = {}
  BY <1>1, <1>2, HeldAt
<1>5. \A w \in Workers : /\ Held'[InChan(w)] = Held[InChan(w)]
                         /\ w # v => Held'[InService(w)] = Held[InService(w)]
  <2> SUFFICES ASSUME NEW w \in Workers
               PROVE  /\ Held'[InChan(w)] = Held[InChan(w)]
                      /\ w # v => Held'[InService(w)] = Held[InService(w)]
    OBVIOUS
  <2>1. chan'[w] = chan[w] /\ (w # v => busy'[w] = busy[w])
    BY <1>2
  <2> QED
    BY <2>1, HeldAtWorker
<1>6. \A k \in Container : k # InService(v) => Held'[k] = Held[k]
  <2>1. Held'[InMain] = Held[InMain] /\ Held'[InHand] = Held[InHand]
    BY HeldAt DEF dispatcher
  <2>2. \A a \in Agents : Held'[InQueue(a)] = Held[InQueue(a)]
    BY <1>3, HeldAt
  <2> QED
    BY <1>5, <2>1, <2>2, ContainerKinds
<1>7. CallsOK'
  BY <1>1, <1>4, <1>6, CallsDrop DEF PlaceInv, IInv
<1>8. NoRepeats'
  BY <1>3 DEF PlaceInv, NoRepeats
<1>9. Routed'
  <2>1. hand' = hand
    BY DEF dispatcher
  <2>2. \A w \in Workers : Held'[InService(w)] \subseteq Held[InService(w)]
    BY <1>4, <1>5
  <2> QED
    BY <1>5, <2>1, <2>2 DEF PlaceInv, Routed, Idle
<1> QED
  BY <1>7, <1>8, <1>9 DEF PlaceInv

LEMMA ReplyPlace ==
    ASSUME IInv, PlaceInv, NEW v \in {"llm", "tool"}, phase[v] \in {"taken", "exec"}, Reply(v)
    PROVE  PlaceInv'
<1>1. v \in Workers /\ v # "mem" /\ "tool" \in Workers
  BY DEF Workers
<1>2. busy[v] # NoCall
  BY <1>1 DEF PlaceInv, BusyMatchesPhase
<1>3. busy[v] # NestedCall
  <2>1. busy[v] \in Held[InService(v)]
    BY <1>1, <1>2, HeldAt
  <2>2. busy[v].kind \notin MemKinds
    BY <1>1, <2>1 DEF PlaceInv, Routed
  <2> QED
    BY <2>2 DEF NestedCall, MemKinds
<1>4. /\ phase'[v] = "idle" /\ busy'[v] = NoCall
      /\ \A w \in Workers : w # v => phase'[w] = phase[w] /\ busy'[w] = busy[w]
  BY <1>1 DEF Reply, IInv, TypeOK
<1>5. (phase'["tool"] = "nested_wait") <=> (phase["tool"] = "nested_wait" /\ busy[v] # NestedCall)
  BY <1>1, <1>3, <1>4
<1>6. BusyMatchesPhase'
  BY <1>4 DEF PlaceInv, BusyMatchesPhase
<1> QED
  BY <1>1, <1>2, <1>5, <1>6, ServedLeaves DEF Reply

LEMMA MemReplyPlace ==
    ASSUME IInv, PlaceInv, MemReply
    PROVE  PlaceInv'
<1>1. "mem" \in Workers /\ "tool" \in Workers
  BY DEF Workers
<1>2. busy["mem"] # NoCall
  BY <1>1 DEF MemReply, PlaceInv, BusyMatchesPhase
<1>3. /\ busy'["mem"] = NoCall
      /\ \A w \in Workers : w # "mem" => busy'[w] = busy[w]
  BY <1>1 DEF MemReply, IInv, TypeOK
<1>4. /\ phase'["mem"] = "idle"
      /\ phase'["tool"] = IF busy["mem"] = NestedCall THEN "exec" ELSE phase["tool"]
      /\ \A w \in Workers : w # "mem" /\ w # "tool" => phase'[w] = phase[w]
  BY <1>1 DEF MemReply, IInv, TypeOK
<1>5. busy["mem"] = NestedCall => phase["tool"] = "nested_wait"
  <2> SUFFICES ASSUME busy["mem"] = NestedCall PROVE Somewhere(NestedCall)
    BY DEF PlaceInv, CallsOK, NestedIsAwaited
  <2>1. NestedCall \in Held[InService("mem")]
    BY <1>1, <1>2, HeldAt
  <2> QED
    BY <1>1, <2>1, ContainerKinds DEF Somewhere
<1>6. BusyMatchesPhase'
  <2> SUFFICES ASSUME NEW w \in Workers
               PROVE  phase'[w] = "idle" <=> busy'[w] = NoCall
    BY DEF BusyMatchesPhase
  <2>1. phase[w] = "idle" <=> busy[w] = NoCall
    BY DEF PlaceInv, BusyMatchesPhase
  <2> QED
    BY <1>3, <1>4, <1>5, <2>1
<1>7. (phase'["tool"] = "nested_wait") <=>
         (phase["tool"] = "nested_wait" /\ busy["mem"] # NestedCall)
  BY <1>4
<1> QED
  BY <1>1, <1>2, <1>6, <1>7, ServedLeaves DEF MemReply

\* The steps in which only the phase of a worker changes.
LEMMA WorkPlace ==
    ASSUME IInv, PlaceInv, LlmCallModel \/ ToolExecute
    PROVE  PlaceInv'
<1>1. "llm" \in Workers /\ "tool" \in Workers
  BY DEF Workers
<1>2. UNCHANGED <<main, hand, llm_queues, chan, busy, clients>>
  BY DEF LlmCallModel, ToolExecute, dispatcher
<1>3. PICK v \in {"llm", "tool"}, at \in {"exec", "nested_send"} :
         phase[v] = "taken" /\ phase' = [phase EXCEPT ![v] = at]
  BY DEF LlmCallModel, ToolExecute
<1>4. \A w \in Workers : phase'[w] = IF w = v THEN at ELSE phase[w]
  BY <1>1, <1>3 DEF IInv, TypeOK
<1>5. BusyMatchesPhase'
  BY <1>2, <1>3, <1>4 DEF PlaceInv, BusyMatchesPhase
<1> QED
  BY <1>1, <1>2, <1>3, <1>4, <1>5, PlacesUntouched

LEMMA NextPlaceInv == IInv /\ PlaceInv /\ [Next]_vars => PlaceInv'
<1> SUFFICES ASSUME IInv, PlaceInv, [Next]_vars PROVE PlaceInv'
  OBVIOUS
<1>1. CASE Caller
  BY <1>1, IssuePlace, AbandonPlace DEF Caller
<1>2. CASE UserInterface \/ LoopTop \/ UNCHANGED vars
  <2>1. UNCHANGED <<main, hand, llm_queues, chan, busy, phase, clients>>
    BY <1>2 DEF UserInterface, SetSchedulerPolicy, LoopTop, vars, dispatcher, workers, clients
  <2>2. BusyMatchesPhase'
    BY <2>1 DEF PlaceInv, BusyMatchesPhase
  <2> QED
    BY <2>1, <2>2, PlacesUntouched
<1>3. CASE Receive \/ Tick \/ Forward
  BY <1>3, EnqueuePlace, PickUpPlace, TickPlace, ForwardPlace
<1>4. CASE LlmWorker
  <2>1. CASE Take("llm")
    BY <2>1, TakePlace DEF Workers
  <2>2. CASE LlmReply
    BY <2>2, ReplyPlace DEF LlmReply
  <2> QED
    BY <1>4, <2>1, <2>2, WorkPlace DEF LlmWorker
<1>5. CASE ToolWorker
  <2>1. CASE Take("tool")
    BY <2>1, TakePlace DEF Workers
  <2>2. CASE ToolCacheHit \/ ToolDefinitions \/ ToolReply
    BY <2>2, ReplyPlace DEF ToolCacheHit, ToolDefinitions, ToolReply
  <2> QED
    BY <1>5, <2>1, <2>2, WorkPlace, NestedSendPlace DEF ToolWorker
<1>6. CASE MemWorker
  <2>1. CASE Take("mem")
    BY <2>1, TakePlace DEF Workers
  <2> QED
    BY <1>6, <2>1, MemReplyPlace DEF MemWorker
<1> QED
  BY <1>1, <1>2, <1>3, <1>4, <1>5, <1>6 DEF Next, Dispatcher

\* Every call in the kernel is in one place, and the kernel has every call awaited.
THEOREM PlaceInvariance == Spec => []PlaceInv
  BY InitPlaceInv, NextPlaceInv, Invariance, PTL DEF Spec

\* Where an element stands in a sequence free of duplicates.
LEMMA PositionsIn ==
    ASSUME NEW S, NEW s \in Seq(S), IsInjective(s), NEW x
    PROVE  /\ x \notin Range(s) => Positions(s, x) = {}
           /\ x \in Range(s) => \E i : Positions(s, x) = {i}
<1>1. ASSUME x \in Range(s)
      PROVE  \E i : Positions(s, x) = {i}
  <2>1. PICK i \in DOMAIN s : s[i] = x
    BY <1>1 DEF Range
  <2>2. Positions(s, x) = {i}
    BY <2>1 DEF Positions, IsInjective
  <2> QED
    BY <2>2
<1>2. ASSUME x \notin Range(s)
      PROVE  Positions(s, x) = {}
  BY <1>2 DEF Positions, Range
<1> QED
  BY <1>1, <1>2

LEMMA NotHeldNoPlace ==
    ASSUME IInv, PlaceInv, NEW x \in Call
    PROVE  /\ x \notin Held[InMain] => PlacesInMain(x) = {}
           /\ x \notin Held[InHand] => PlacesInHand(x) = {}
           /\ (\A a \in Agents : x \notin Held[InQueue(a)]) => PlacesInQueues(x) = {}
           /\ (\A w \in Workers : x \notin Held[InChan(w)]) => PlacesInChans(x) = {}
           /\ (\A w \in Workers : x \notin Held[InService(w)]) => PlacesInService(x) = {}
<1>1. x # NoCall
  BY CallsAreCalls
<1>2. ASSUME x \notin Held[InMain] PROVE PlacesInMain(x) = {}
  <2>1. Positions(main, x) = {}
    BY <1>2, HeldAt DEF Positions, Range
  <2> QED
    BY <2>1 DEF PlacesInMain
<1>3. ASSUME x \notin Held[InHand] PROVE PlacesInHand(x) = {}
  BY <1>1, <1>3, HeldAt DEF PlacesInHand
<1>4. ASSUME \A a \in Agents : x \notin Held[InQueue(a)] PROVE PlacesInQueues(x) = {}
  <2>1. \A a \in DOMAIN llm_queues : a \in Agents /\ llm_queues[a] = QueueOf(a)
    BY DEF QueueOf, IInv, TypeOK
  <2>2. \A a \in DOMAIN llm_queues : Positions(llm_queues[a], x) = {}
    BY <1>4, <2>1, HeldAt DEF Positions, Range
  <2> QED
    BY <2>2 DEF PlacesInQueues
<1>5. ASSUME \A w \in Workers : x \notin Held[InChan(w)] PROVE PlacesInChans(x) = {}
  <2>1. \A w \in Workers : Positions(chan[w], x) = {}
    BY <1>5, HeldAt DEF Positions, Range
  <2> QED
    BY <2>1 DEF PlacesInChans
<1>6. ASSUME \A w \in Workers : x \notin Held[InService(w)] PROVE PlacesInService(x) = {}
  BY <1>1, <1>6, HeldAt DEF PlacesInService
<1> QED
  BY <1>2, <1>3, <1>4, <1>5, <1>6

LEMMA HeldOnePlace ==
    ASSUME IInv, PlaceInv, NEW x \in Call, Somewhere(x)
    PROVE  \E t : Places(x) = {t}
<1>0. PICK k \in Container : x \in Held[k]
  BY DEF Somewhere
<1>1. \A l \in Container : l # k => x \notin Held[l]
  BY <1>0 DEF PlaceInv, CallsOK, HeldOnce
<1>2. x # NoCall
  BY CallsAreCalls
<1>3. CASE k = InMain
  <2>1. /\ x \notin Held[InHand]
        /\ \A a \in Agents : x \notin Held[InQueue(a)]
        /\ \A w \in Workers : x \notin Held[InChan(w)] /\ x \notin Held[InService(w)]
    BY <1>1, <1>3, ContainerKinds, ContainersDiffer
  <2>2. Places(x) = PlacesInMain(x)
    BY <2>1, NotHeldNoPlace DEF Places
  <2>3. main \in Seq(Call) /\ IsInjective(main) /\ x \in Range(main)
    BY <1>0, <1>3, HeldAt DEF IInv, TypeOK, PlaceInv, NoRepeats
  <2>4. PICK i : Positions(main, x) = {i}
    BY <2>3, PositionsIn
  <2>5. PlacesInMain(x) = {<<"main", i>>}
    BY <2>4 DEF PlacesInMain
  <2> QED
    BY <2>2, <2>5
<1>4. CASE k = InHand
  <2>1. /\ x \notin Held[InMain]
        /\ \A a \in Agents : x \notin Held[InQueue(a)]
        /\ \A w \in Workers : x \notin Held[InChan(w)] /\ x \notin Held[InService(w)]
    BY <1>1, <1>4, ContainerKinds, ContainersDiffer
  <2>2. Places(x) = PlacesInHand(x)
    BY <2>1, NotHeldNoPlace DEF Places
  <2>3. hand.call = x
    BY <1>0, <1>4, HeldAt
  <2> QED
    BY <2>2, <2>3 DEF PlacesInHand
<1>5. ASSUME NEW b \in Agents, k = InQueue(b)
      PROVE  \E t : Places(x) = {t}
  <2>1. /\ x \notin Held[InMain] /\ x \notin Held[InHand]
        /\ \A a \in Agents : a # b => x \notin Held[InQueue(a)]
        /\ \A w \in Workers : x \notin Held[InChan(w)] /\ x \notin Held[InService(w)]
    BY <1>1, <1>5, ContainerKinds, ContainersDiffer
  <2>2. Places(x) = PlacesInQueues(x)
    BY <2>1, NotHeldNoPlace DEF Places
  <2>3. x \in Range(QueueOf(b)) /\ IsInjective(QueueOf(b))
    BY <1>0, <1>5, HeldAt DEF PlaceInv, NoRepeats
  <2>4. b \in DOMAIN llm_queues /\ QueueOf(b) = llm_queues[b]
    BY <2>3 DEF QueueOf, Range
  <2>5. QueueOf(b) \in Seq(LlmCallsOf(b))
    BY <2>4 DEF IInv, TypeOK
  <2>6. PICK i : Positions(QueueOf(b), x) = {i}
    BY <2>3, <2>5, PositionsIn
  <2>7. \A a \in DOMAIN llm_queues : a # b => Positions(llm_queues[a], x) = {}
    <3>1. \A a \in DOMAIN llm_queues : a \in Agents /\ llm_queues[a] = QueueOf(a)
      BY DEF QueueOf, IInv, TypeOK
    <3> QED
      BY <2>1, <3>1, HeldAt DEF Positions, Range
  <2>8. \A t : t \in PlacesInQueues(x) <=> t \in {b} \X {i}
    BY <2>4, <2>6, <2>7 DEF PlacesInQueues
  <2>9. PlacesInQueues(x) = {<<b, i>>}
    BY <2>8
  <2> QED
    BY <2>2, <2>9
<1>6. ASSUME NEW v \in Workers, k = InChan(v)
      PROVE  \E t : Places(x) = {t}
  <2>1. /\ x \notin Held[InMain] /\ x \notin Held[InHand]
        /\ \A a \in Agents : x \notin Held[InQueue(a)]
        /\ \A w \in Workers : w # v => x \notin Held[InChan(w)]
        /\ \A w \in Workers : x \notin Held[InService(w)]
    BY <1>1, <1>6, ContainerKinds, ContainersDiffer
  <2>2. Places(x) = PlacesInChans(x)
    BY <2>1, NotHeldNoPlace DEF Places
  <2>3. chan[v] \in Seq(Call) /\ IsInjective(chan[v]) /\ x \in Range(chan[v])
    BY <1>0, <1>6, HeldAt DEF IInv, TypeOK, PlaceInv, NoRepeats
  <2>4. PICK i : Positions(chan[v], x) = {i}
    BY <2>3, PositionsIn
  <2>5. \A w \in Workers : w # v => Positions(chan[w], x) = {}
    BY <2>1, HeldAt DEF Positions, Range
  <2>6. \A t : t \in PlacesInChans(x) <=> t \in {v} \X {i}
    BY <2>4, <2>5 DEF PlacesInChans
  <2>7. PlacesInChans(x) = {<<v, i>>}
    BY <2>6
  <2> QED
    BY <2>2, <2>7
<1>7. ASSUME NEW v \in Workers, k = InService(v)
      PROVE  \E t : Places(x) = {t}
  <2>1. /\ x \notin Held[InMain] /\ x \notin Held[InHand]
        /\ \A a \in Agents : x \notin Held[InQueue(a)]
        /\ \A w \in Workers : x \notin Held[InChan(w)]
        /\ \A w \in Workers : w # v => x \notin Held[InService(w)]
    BY <1>1, <1>7, ContainerKinds, ContainersDiffer
  <2>2. Places(x) = PlacesInService(x)
    BY <2>1, NotHeldNoPlace DEF Places
  <2>3. busy[v] = x /\ \A w \in Workers : w # v => busy[w] # x
    BY <1>0, <1>2, <1>7, <2>1, HeldAt
  <2>4. PlacesInService(x) = {<<v, 0>>}
    BY <2>3 DEF PlacesInService
  <2> QED
    BY <2>2, <2>4
<1> QED
  BY <1>3, <1>4, <1>5, <1>6, <1>7, ContainerKinds

LEMMA PlacesCounted ==
    ASSUME IInv, PlaceInv, NEW x \in Call
    PROVE  Cardinality(Places(x)) = IF Somewhere(x) THEN 1 ELSE 0
<1>1. CASE Somewhere(x)
  BY <1>1, HeldOnePlace, FS_Singleton
<1>2. CASE ~Somewhere(x)
  <2>1. \A k \in Container : x \notin Held[k]
    BY <1>2 DEF Somewhere
  <2>2. Places(x) = {}
    BY <2>1, NotHeldNoPlace, ContainerKinds DEF Places
  <2> QED
    BY <1>2, <2>2, FS_EmptySet
<1> QED
  BY <1>1, <1>2

\* For any number of callers, agents and capacities: the call a caller waits for is in
\* exactly one channel, queue, hand or worker, once, and so is the tool thread's own.
THEOREM CallsAreNowhereTwice == Spec => []ExactlyOnePlace
<1>1. IInv /\ PlaceInv => ExactlyOnePlace
  <2> SUFFICES ASSUME IInv, PlaceInv PROVE ExactlyOnePlace
    OBVIOUS
  <2>1. ASSUME NEW c \in Clients, waiting[c] # NoCall
        PROVE  Cardinality(Places(waiting[c])) = 1
    <3>1. waiting[c] \in Call /\ Somewhere(waiting[c])
      BY <2>1 DEF IInv, TypeOK, Call, PlaceInv, CallsOK, AwaitedIsHeld
    <3> QED
      BY <3>1, PlacesCounted
  <2>2. NestedCall \in Call
    BY DEF Call
  <2>3. Cardinality(Places(NestedCall)) = IF Somewhere(NestedCall) THEN 1 ELSE 0
    BY <2>2, PlacesCounted
  <2>4. Somewhere(NestedCall) <=> phase["tool"] = "nested_wait"
    BY DEF PlaceInv, CallsOK, NestedIsAwaited
  <2> QED
    BY <2>1, <2>3, <2>4 DEF ExactlyOnePlace
<1> QED
  BY <1>1, Invariance, PlaceInvariance, PTL

-----------------------------------------------------------------------------
(* What a step can do to the queue of an agent.                            *)

\* The dispatcher pushes a call into the queue of agent a, or pops its first.
Pushes(a) ==
    \E x \in LlmCallsOf(a), i \in 0 .. Len(QueueOf(a)) :
        /\ x \notin Range(QueueOf(a))
        /\ IsPlaceFor(x, QueueOf(a), i)
        /\ QueueOf(a)' = Insert(x, QueueOf(a), i)
Pops(a) ==
    /\ QueueOf(a) # <<>>
    /\ hand'.call = Head(QueueOf(a))
    /\ QueueOf(a)' = Tail(QueueOf(a))

LEMMA ReceiveQueues ==
    ASSUME IInv, PlaceInv, Receive, NEW b \in Agents
    PROVE  QueueOf(b)' = QueueOf(b) \/ Pushes(b)
<1>1. main \in Seq(Call) /\ main # <<>>
  BY DEF IInv, TypeOK, Receive
<1>2. PICK x \in Call : x = Head(main)
  BY <1>1, HeadTailProperties
<1>3. CASE x.kind \notin LlmKinds
  BY <1>2, <1>3 DEF Receive, BeginForward, QueueOf
<1>4. CASE x.kind \in LlmKinds
  <2>1. x \in ClientCall
    BY <1>4, LlmCallsAreClientCalls
  <2>2. PICK a \in Agents : a = AgentOf(x)
    BY <2>1, AgentOfType
  <2>3. EnqueueLlm(x)
    BY <1>2, <1>4 DEF Receive
  <2>4. PICK i \in 0 .. Len(QueueOf(a)) :
           IsPlaceFor(x, QueueOf(a), i) /\ llm_queues' = WithQueue(a, Insert(x, QueueOf(a), i))
    BY <2>2, <2>3 DEF EnqueueLlm
  <2>5. CASE b # a
    BY <2>4, <2>5 DEF WithQueue, QueueOf
  <2>6. CASE b = a
    <3>1. QueueOf(a)' = Insert(x, QueueOf(a), i)
      BY <2>4 DEF WithQueue, QueueOf
    <3>2. x \in Range(main)
      <4>1. main[1] = x /\ 1 \in DOMAIN main
        BY <1>1, <1>2, LenProperties, EmptySeq
      <4> QED
        BY <4>1 DEF Range
    <3>3. x \in Held[InMain] /\ InMain \in Container /\ InQueue(a) \in Container
          /\ InMain # InQueue(a)
      BY <3>2, HeldAt, ContainerKinds, ContainersDiffer
    <3>4. x \notin Range(QueueOf(a))
      BY <3>3, HeldAt DEF PlaceInv, CallsOK, HeldOnce
    <3>5. x \in LlmCallsOf(a)
      BY <1>4, <2>1, <2>2 DEF LlmCallsOf
    <3> QED
      BY <2>4, <2>6, <3>1, <3>4, <3>5 DEF Pushes
  <2> QED
    BY <2>5, <2>6
<1> QED
  BY <1>3, <1>4

LEMMA TickQueues ==
    ASSUME IInv, Tick, NEW b \in Agents
    PROVE  QueueOf(b)' = QueueOf(b) \/ Pops(b)
<1>1. CASE agent_order = <<>> \/ QueueOf(Head(agent_order)) = <<>>
  BY <1>1 DEF Tick, QueueOf
<1>2. CASE ~(agent_order = <<>> \/ QueueOf(Head(agent_order)) = <<>>)
  <2>1. PICK a : a = Head(agent_order)
    OBVIOUS
  <2>2. a \in DOMAIN llm_queues /\ llm_queues[a] = QueueOf(a) /\ QueueOf(a) # <<>>
    BY <1>2, <2>1 DEF QueueOf
  <2>3. hand'.call = Head(QueueOf(a)) /\ llm_queues' = WithQueue(a, Tail(QueueOf(a)))
    BY <1>2, <2>1, <2>2 DEF Tick
  <2>4. QueueOf(a)' = Tail(QueueOf(a)) /\ (b # a => QueueOf(b)' = QueueOf(b))
    BY <2>3 DEF WithQueue, QueueOf
  <2> QED
    BY <2>2, <2>3, <2>4 DEF Pops
<1> QED
  BY <1>1, <1>2

LEMMA NextQueues ==
    ASSUME IInv, PlaceInv, [Next]_vars, NEW b \in Agents
    PROVE  QueueOf(b)' = QueueOf(b) \/ Pushes(b) \/ Pops(b)
<1>1. CASE Caller \/ UserInterface \/ LoopTop \/ UNCHANGED vars
  BY <1>1 DEF Caller, Issue, Abandon, UserInterface, SetSchedulerPolicy, LoopTop, vars, dispatcher,
     QueueOf
<1>2. CASE Forward
  <2>1. CASE hand.to = "llm"
    BY <1>2, <2>1, AfterSendKeepsQueues DEF Forward
  <2>2. CASE hand.to # "llm"
    BY <1>2, <2>2 DEF Forward, QueueOf
  <2> QED
    BY <2>1, <2>2
<1>3. CASE LlmWorker \/ ToolWorker \/ MemWorker
  BY <1>3, LlmWorkerStep, ToolWorkerStep, MemWorkerStep DEF dispatcher, QueueOf
<1> QED
  BY <1>1, <1>2, <1>3, ReceiveQueues, TickQueues DEF Next, Dispatcher

\* Sorted(q): by descending priority.
Sorted(q) == \A i, j \in DOMAIN q : i < j => q[i].prio >= q[j].prio

LEMMA PrioType == ASSUME NEW a \in Agents, NEW x \in LlmCallsOf(a) PROVE x.prio \in Int
<1>1. x \in ClientCall
  BY DEF LlmCallsOf
<1>2. x.prio \in Priorities
  BY <1>1 DEF ClientCall
<1>3. Priorities \subseteq 0 .. 3
  BY SchedulerAssumption
<1>4. x.prio \in 0 .. 3
  BY <1>2, <1>3
<1>5. \A p \in 0 .. 3 : p \in Int
  OBVIOUS
<1> QED
  BY <1>4, <1>5

LEMMA QueueType ==
    ASSUME IInv, NEW a \in Agents
    PROVE  /\ QueueOf(a) \in Seq(LlmCallsOf(a))
           /\ Len(QueueOf(a)) \in Nat /\ DOMAIN QueueOf(a) = 1 .. Len(QueueOf(a))
           /\ \A i \in 1 .. Len(QueueOf(a)) : QueueOf(a)[i].prio \in Int
<1>1. QueueOf(a) \in Seq(LlmCallsOf(a))
  BY DEF IInv, TypeOK, QueueOf
<1>2. \A x \in LlmCallsOf(a) : x.prio \in Int
  BY PrioType
<1>3. \A i \in 1 .. Len(QueueOf(a)) : QueueOf(a)[i] \in LlmCallsOf(a)
  BY <1>1, ElementOfSeq
<1> QED
  BY <1>1, <1>2, <1>3, LenProperties

\* The positions of a queue with a call inserted behind position i.
PlacedAt(r, x, q, i) ==
    /\ DOMAIN r = 1 .. Len(q) + 1
    /\ r[i + 1] = x
    /\ \A m \in DOMAIN r : \/ m \in 1 .. i /\ r[m] = q[m]
                           \/ m = i + 1
                           \/ m \in i + 2 .. Len(q) + 1 /\ r[m] = q[m - 1]
    /\ \A l \in 1 .. i : r[l] = q[l]
    /\ \A l \in i + 1 .. Len(q) : r[l + 1] = q[l]

LEMMA InsertPositions ==
    ASSUME NEW S, NEW q \in Seq(S), NEW x \in S, NEW i \in 0 .. Len(q), NEW r,
           r = Insert(x, q, i)
    PROVE  PlacedAt(r, x, q, i)
<1>1. r \in Seq(S) /\ Inserted(r, x, q, i)
  BY InsertElements
<1>2. Len(q) \in Nat /\ DOMAIN r = 1 .. Len(r)
  BY <1>1, LenProperties
<1>3. /\ Len(r) = Len(q) + 1
      /\ \A m \in 1 .. i : r[m] = q[m]
      /\ r[i + 1] = x
      /\ \A m \in i + 2 .. Len(q) + 1 : r[m] = q[m - 1]
  BY <1>1 DEF Inserted
<1>4. \A l \in i + 1 .. Len(q) : r[l + 1] = q[l]
  <2> SUFFICES ASSUME NEW l \in i + 1 .. Len(q) PROVE r[l + 1] = q[l]
    OBVIOUS
  <2>1. l + 1 \in i + 2 .. Len(q) + 1 /\ (l + 1) - 1 = l
    BY <1>2
  <2>2. r[l + 1] = q[(l + 1) - 1]
    BY <1>3, <2>1
  <2> QED
    BY <2>1, <2>2
<1> QED
  BY <1>2, <1>3, <1>4 DEF PlacedAt

LEMMA PushSorted ==
    ASSUME IInv, NEW a \in Agents, Pushes(a), Sorted(QueueOf(a))
    PROVE  Sorted(QueueOf(a)')
<1> DEFINE q == QueueOf(a)
<1>1. /\ q \in Seq(LlmCallsOf(a)) /\ Len(q) \in Nat /\ DOMAIN q = 1 .. Len(q)
      /\ \A l \in 1 .. Len(q) : q[l].prio \in Int
  BY QueueType
<1>2. PICK x \in LlmCallsOf(a), i \in 0 .. Len(q) :
         IsPlaceFor(x, q, i) /\ QueueOf(a)' = Insert(x, q, i)
  BY DEF Pushes
<1>3. PICK r : r = QueueOf(a)'
  OBVIOUS
<1>4. \A l, m \in 1 .. Len(q) : l < m => q[l].prio >= q[m].prio
  BY <1>1 DEF Sorted
<1>5. x.prio \in Int
  BY PrioType
<1> HIDE DEF q
<1>6. /\ DOMAIN r = 1 .. Len(q) + 1
      /\ r[i + 1] = x
      /\ \A m \in DOMAIN r : \/ m \in 1 .. i /\ r[m] = q[m]
                             \/ m = i + 1
                             \/ m \in i + 2 .. Len(q) + 1 /\ r[m] = q[m - 1]
  <2>1. PlacedAt(r, x, q, i)
    BY <1>1, <1>2, <1>3, InsertPositions
  <2> QED
    BY <2>1 DEF PlacedAt
<1>7. /\ \A m \in 1 .. i : q[m].prio >= x.prio
      /\ \A m \in i + 1 .. Len(q) : q[m].prio < x.prio
  BY <1>2 DEF IsPlaceFor
<1>8. \A l, m \in 1 .. Len(q) + 1 : l < m => r[l].prio >= r[m].prio
  <2> SUFFICES ASSUME NEW l \in 1 .. Len(q) + 1, NEW m \in 1 .. Len(q) + 1, l < m
               PROVE  r[l].prio >= r[m].prio
    OBVIOUS
  <2>1. CASE m \in 1 .. i
    BY <1>1, <1>4, <1>6, <2>1
  <2>2. CASE m = i + 1
    <3>1. l \in 1 .. i /\ r[l] = q[l]
      BY <1>1, <1>6, <2>2
    <3> QED
      BY <1>6, <1>7, <2>2, <3>1
  <2>3. CASE m \in i + 2 .. Len(q) + 1
    <3>0. m - 1 \in i + 1 .. Len(q) /\ m - 1 \in 1 .. Len(q) /\ m \notin 1 .. i /\ m # i + 1
      BY <1>1, <2>3
    <3>1. r[m] = q[m - 1] /\ m - 1 \in i + 1 .. Len(q) /\ m - 1 \in 1 .. Len(q)
      BY <1>6, <3>0
    <3>2. CASE l \in 1 .. i
      BY <1>1, <1>4, <1>6, <3>1, <3>2
    <3>3. CASE l = i + 1
      BY <1>1, <1>5, <1>6, <1>7, <3>1, <3>3
    <3>4. CASE l \in i + 2 .. Len(q) + 1
      <4>1. r[l] = q[l - 1] /\ l - 1 \in 1 .. Len(q) /\ l - 1 < m - 1
        BY <1>1, <1>6, <3>4
      <4> QED
        BY <1>4, <3>1, <4>1
    <3> QED
      BY <1>1, <3>2, <3>3, <3>4
  <2> QED
    BY <1>1, <2>1, <2>2, <2>3
<1>9. Sorted(r)
  BY <1>6, <1>8 DEF Sorted
<1> QED
  BY <1>3, <1>9

\* The tail of a queue, position by position.
LEMMA TailPositions ==
    ASSUME NEW S, NEW q \in Seq(S), q # <<>>, NEW r, r = Tail(q)
    PROVE  /\ Len(q) \in Nat \ {0} /\ DOMAIN q = 1 .. Len(q) /\ DOMAIN r = 1 .. Len(q) - 1
           /\ \A m \in DOMAIN r : m + 1 \in DOMAIN q /\ r[m] = q[m + 1]
           /\ Head(q) = q[1]
<1>1. r \in Seq(S) /\ Len(r) = Len(q) - 1 /\ \A i \in 1 .. Len(r) : r[i] = q[i + 1]
  BY HeadTailProperties
<1>2. Len(q) \in Nat \ {0} /\ DOMAIN q = 1 .. Len(q) /\ DOMAIN r = 1 .. Len(q) - 1
  BY <1>1, LenProperties, EmptySeq
<1> QED
  BY <1>1, <1>2

LEMMA PopSorted ==
    ASSUME IInv, NEW a \in Agents, Pops(a), Sorted(QueueOf(a))
    PROVE  Sorted(QueueOf(a)')
<1> DEFINE q == QueueOf(a)
<1>1. q \in Seq(LlmCallsOf(a)) /\ q # <<>> /\ QueueOf(a)' = Tail(q)
  BY QueueType DEF Pops
<1>2. PICK r : r = QueueOf(a)'
  OBVIOUS
<1>3. \A l, m \in DOMAIN q : l < m => q[l].prio >= q[m].prio
  BY DEF Sorted
<1> HIDE DEF q
<1>4. /\ Len(q) \in Nat \ {0} /\ DOMAIN r = 1 .. Len(q) - 1
      /\ \A m \in DOMAIN r : m + 1 \in DOMAIN q /\ r[m] = q[m + 1]
  BY <1>1, <1>2, TailPositions
<1>5. Sorted(r)
  BY <1>3, <1>4 DEF Sorted
<1> QED
  BY <1>2, <1>5

SortedInv == \A a \in Agents : Sorted(QueueOf(a))

\* Every queue is always sorted by priority.
THEOREM QueuesAreSorted == Spec => []SortedInv
<1>1. Init => SortedInv
  BY DEF Init, SortedInv, Sorted, QueueOf
<1>2. IInv /\ PlaceInv /\ SortedInv /\ [Next]_vars => SortedInv'
  <2> SUFFICES ASSUME IInv, PlaceInv, SortedInv, [Next]_vars, NEW a \in Agents
               PROVE  Sorted(QueueOf(a)')
    BY DEF SortedInv
  <2>1. Sorted(QueueOf(a))
    BY DEF SortedInv
  <2> QED
    BY <2>1, NextQueues, PushSorted, PopSorted
<1> QED
  BY <1>1, <1>2, Invariance, PlaceInvariance, PTL DEF Spec

\* What OvertakenOnlyByHigher asks of one queue.
KeepsRank(q, r) ==
    /\ \A i \in DOMAIN q : q[i] \in Range(r) \/
          (i = 1 /\ hand'.call = q[1] /\ \A j \in DOMAIN r : r[j].prio <= q[1].prio)
    /\ \A i, j \in DOMAIN r : (i < j /\ r[j] \in Range(q)) =>
          \/ r[i].prio > r[j].prio
          \/ \E k, l \in DOMAIN q : k < l /\ q[k] = r[i] /\ q[l] = r[j]

LEMMA PushKeepsRank ==
    ASSUME IInv, NEW a \in Agents, Pushes(a)
    PROVE  KeepsRank(QueueOf(a), QueueOf(a)')
<1> DEFINE q == QueueOf(a)
<1>1. q \in Seq(LlmCallsOf(a)) /\ Len(q) \in Nat /\ DOMAIN q = 1 .. Len(q)
  BY QueueType
<1>2. PICK x \in LlmCallsOf(a), i \in 0 .. Len(q) :
         x \notin Range(q) /\ IsPlaceFor(x, q, i) /\ QueueOf(a)' = Insert(x, q, i)
  BY DEF Pushes
<1>3. PICK r : r = QueueOf(a)'
  OBVIOUS
<1>4. \A l \in 1 .. Len(q) : q[l].prio \in Int
  BY QueueType
<1>5. x.prio \in Int
  BY PrioType
<1> HIDE DEF q
<1>6. /\ DOMAIN r = 1 .. Len(q) + 1
      /\ r[i + 1] = x
      /\ \A m \in DOMAIN r : \/ m \in 1 .. i /\ r[m] = q[m]
                             \/ m = i + 1
                             \/ m \in i + 2 .. Len(q) + 1 /\ r[m] = q[m - 1]
      /\ \A l \in 1 .. i : r[l] = q[l]
      /\ \A l \in i + 1 .. Len(q) : r[l + 1] = q[l]
  <2>1. PlacedAt(r, x, q, i)
    BY <1>1, <1>2, <1>3, InsertPositions
  <2> QED
    BY <2>1 DEF PlacedAt
<1>7. \A l \in DOMAIN q : q[l] \in Range(r)
  <2> SUFFICES ASSUME NEW l \in 1 .. Len(q) PROVE \E m \in DOMAIN r : r[m] = q[l]
    BY <1>1 DEF Range
  <2>1. CASE l <= i
    BY <1>1, <1>6, <2>1
  <2>2. CASE ~(l <= i)
    <3>1. l + 1 \in DOMAIN r /\ l \in i + 1 .. Len(q)
      BY <1>1, <1>6, <2>2
    <3> QED
      BY <1>6, <3>1
  <2> QED
    BY <2>1, <2>2
<1>8. \A l, m \in 1 .. Len(q) + 1 : (l < m /\ r[m] \in Range(q)) =>
         \/ r[l].prio > r[m].prio
         \/ \E j, k \in 1 .. Len(q) : j < k /\ q[j] = r[l] /\ q[k] = r[m]
  <2> SUFFICES ASSUME NEW l \in 1 .. Len(q) + 1, NEW m \in 1 .. Len(q) + 1,
                      l < m, r[m] \in Range(q)
               PROVE  \/ r[l].prio > r[m].prio
                      \/ \E j, k \in 1 .. Len(q) : j < k /\ q[j] = r[l] /\ q[k] = r[m]
    OBVIOUS
  <2>1. m # i + 1
    BY <1>2, <1>6
  <2>2. CASE m \in 1 .. i
    BY <1>1, <1>6, <2>2
  <2>3. CASE m \in i + 2 .. Len(q) + 1
    <3>0. m - 1 \in i + 1 .. Len(q) /\ m - 1 \in 1 .. Len(q) /\ m \notin 1 .. i /\ m # i + 1
      BY <1>1, <2>3
    <3>1. r[m] = q[m - 1] /\ m - 1 \in i + 1 .. Len(q) /\ m - 1 \in 1 .. Len(q)
      BY <1>6, <3>0
    <3>2. CASE l \in 1 .. i
      BY <1>1, <1>6, <3>1, <3>2
    <3>3. CASE l = i + 1
      <4>1. q[m - 1].prio < x.prio
        BY <1>2, <3>1 DEF IsPlaceFor
      <4> QED
        BY <1>4, <1>5, <1>6, <3>1, <3>3, <4>1
    <3>4. CASE l \in i + 2 .. Len(q) + 1
      <4>1. r[l] = q[l - 1] /\ l - 1 \in 1 .. Len(q) /\ l - 1 < m - 1
        BY <1>1, <1>6, <3>4
      <4> QED
        BY <3>1, <4>1
    <3> QED
      BY <1>1, <3>2, <3>3, <3>4
  <2> QED
    BY <1>1, <1>6, <2>1, <2>2, <2>3
<1>9. KeepsRank(q, r)
  <2>1. \A l, m \in DOMAIN r : (l < m /\ r[m] \in Range(q)) =>
           \/ r[l].prio > r[m].prio
           \/ \E j, k \in DOMAIN q : j < k /\ q[j] = r[l] /\ q[k] = r[m]
    <3> SUFFICES ASSUME NEW l \in DOMAIN r, NEW m \in DOMAIN r, l < m, r[m] \in Range(q)
                 PROVE  \/ r[l].prio > r[m].prio
                        \/ \E j, k \in DOMAIN q : j < k /\ q[j] = r[l] /\ q[k] = r[m]
      OBVIOUS
    <3>1. l \in 1 .. Len(q) + 1 /\ m \in 1 .. Len(q) + 1
      BY <1>6
    <3>2. \/ r[l].prio > r[m].prio
          \/ \E j, k \in 1 .. Len(q) : j < k /\ q[j] = r[l] /\ q[k] = r[m]
      BY <1>8, <3>1
    <3> QED
      BY <1>1, <3>2
  <2> QED
    BY <1>7, <2>1 DEF KeepsRank
<1> QED
  BY <1>3, <1>9 DEF q

LEMMA PopKeepsRank ==
    ASSUME IInv, NEW a \in Agents, Pops(a), Sorted(QueueOf(a))
    PROVE  KeepsRank(QueueOf(a), QueueOf(a)')
<1> DEFINE q == QueueOf(a)
<1>1. /\ q \in Seq(LlmCallsOf(a)) /\ q # <<>> /\ QueueOf(a)' = Tail(q)
      /\ hand'.call = Head(q)
  BY QueueType DEF Pops
<1>2. PICK r : r = QueueOf(a)'
  OBVIOUS
<1>3. \A l, m \in DOMAIN q : l < m => q[l].prio >= q[m].prio
  BY DEF Sorted
<1>4. \A l \in DOMAIN q : q[l].prio \in Int
  BY QueueType
<1> HIDE DEF q
<1>5. /\ Len(q) \in Nat \ {0} /\ DOMAIN q = 1 .. Len(q) /\ DOMAIN r = 1 .. Len(q) - 1
      /\ \A m \in DOMAIN r : m + 1 \in DOMAIN q /\ r[m] = q[m + 1]
      /\ Head(q) = q[1]
  BY <1>1, <1>2, TailPositions
<1>6. \A j \in DOMAIN r : r[j].prio <= q[1].prio
  <2> SUFFICES ASSUME NEW j \in DOMAIN r PROVE r[j].prio <= q[1].prio
    OBVIOUS
  <2>1. j + 1 \in DOMAIN q /\ 1 \in DOMAIN q /\ 1 < j + 1 /\ r[j] = q[j + 1]
    BY <1>5
  <2>2. q[1].prio >= q[j + 1].prio /\ q[1].prio \in Int /\ q[j + 1].prio \in Int
    BY <1>3, <1>4, <2>1
  <2> QED
    BY <2>1, <2>2
<1>7. \A i \in DOMAIN q : i # 1 => q[i] \in Range(r)
  <2> SUFFICES ASSUME NEW i \in DOMAIN q, i # 1 PROVE q[i] \in Range(r)
    OBVIOUS
  <2>1. i - 1 \in DOMAIN r /\ (i - 1) + 1 = i
    BY <1>5
  <2>2. r[i - 1] = q[(i - 1) + 1]
    BY <1>5, <2>1
  <2> QED
    BY <2>1, <2>2 DEF Range
<1>8. \A i, j \in DOMAIN r : i < j =>
         \E k, l \in DOMAIN q : k < l /\ q[k] = r[i] /\ q[l] = r[j]
  <2> SUFFICES ASSUME NEW i \in DOMAIN r, NEW j \in DOMAIN r, i < j
               PROVE  \E k, l \in DOMAIN q : k < l /\ q[k] = r[i] /\ q[l] = r[j]
    OBVIOUS
  <2>1. i + 1 \in DOMAIN q /\ j + 1 \in DOMAIN q /\ i + 1 < j + 1
        /\ q[i + 1] = r[i] /\ q[j + 1] = r[j]
    BY <1>5
  <2> QED
    BY <2>1
<1>9. KeepsRank(q, r)
  BY <1>1, <1>5, <1>6, <1>7, <1>8 DEF KeepsRank
<1> QED
  BY <1>2, <1>9 DEF q

\* For any number of callers, whatever their priorities and however they interleave:
\* the dispatcher takes the calls of an agent from the front, an urgent one first, and
\* a call only ever falls behind calls of higher priority.
THEOREM OnlyHigherOvertakes == Spec => OvertakenOnlyByHigher
<1>1. IInv /\ PlaceInv /\ SortedInv /\ [Next]_vars =>
        [\A a \in DOMAIN llm_queues :
            LET q == llm_queues[a]
                r == QueueOf(a)'
            IN  /\ \A i \in DOMAIN q : q[i] \in Range(r) \/
                      (i = 1 /\ hand'.call = q[1] /\ \A j \in DOMAIN r : r[j].prio <= q[1].prio)
                /\ \A i, j \in DOMAIN r : (i < j /\ r[j] \in Range(q)) =>
                      \/ r[i].prio > r[j].prio
                      \/ \E k, l \in DOMAIN q : k < l /\ q[k] = r[i] /\ q[l] = r[j]]_vars
  <2> SUFFICES ASSUME IInv, PlaceInv, SortedInv, [Next]_vars, NEW a \in DOMAIN llm_queues
               PROVE  KeepsRank(llm_queues[a], QueueOf(a)')
    BY DEF KeepsRank
  <2>1. a \in Agents /\ llm_queues[a] = QueueOf(a)
    BY DEF IInv, TypeOK, QueueOf
  <2>2. CASE QueueOf(a)' = QueueOf(a)
    <3>1. PICK q : q = QueueOf(a)
      OBVIOUS
    <3>2. KeepsRank(q, q)
      BY DEF KeepsRank, Range
    <3> QED
      BY <2>1, <2>2, <3>1, <3>2
  <2> QED
    BY <2>1, <2>2, NextQueues, PushKeepsRank, PopKeepsRank DEF SortedInv
<1> QED
  BY <1>1, Invariance, PlaceInvariance, QueuesAreSorted, PTL DEF Spec, OvertakenOnlyByHigher

-----------------------------------------------------------------------------
(* How many callers it takes to close the circle.                          *)

\* Fewer callers than calls that can be stuck at once: the tool channel, the tool
\* worker and the dispatcher's hand; or the LLM channel, both workers and the hand.
FewCallers ==
    /\ IsFiniteSet(Clients)
    /\ Cardinality(Clients) < ToolCap + 2
    /\ Cardinality(Clients) < LlmCap + 3

\* A call whose caller cannot have given it up, somewhere in the kernel.
HeldUp(x) == x \in ClientCall /\ x.kind \notin MemKinds /\ Somewhere(x)

\* Each of them has a caller of its own.
LEMMA CallersOfHeldUp ==
    ASSUME PlaceInv, IsFiniteSet(Clients), NEW S, \A x \in S : HeldUp(x)
    PROVE  IsFiniteSet(S) /\ Cardinality(S) <= Cardinality(Clients)
<1> DEFINE f == [x \in S |-> x.client]
<1>1. \A x \in S : x.client \in Clients /\ waiting[x.client] = x
  BY DEF HeldUp, ClientCall, Somewhere, PlaceInv, CallsOK, HeldIsAwaited
<1>2. f \in [S -> Clients]
  BY <1>1
<1>3. ASSUME NEW x \in S, NEW y \in S, f[x] = f[y] PROVE x = y
  <2>1. x.client = y.client
    BY <1>3
  <2> QED
    BY <1>1, <2>1
<1>4. f \in Injection(S, Clients)
  BY <1>2, <1>3 DEF Injection, IsInjective
<1> QED
  BY <1>4, FS_Injection

LEMMA RangeCounted ==
    ASSUME NEW S, NEW s \in Seq(S), IsInjective(s)
    PROVE  IsFiniteSet(Range(s)) /\ Cardinality(Range(s)) = Len(s)
<1>1. Len(s) \in Nat /\ DOMAIN s = 1 .. Len(s) /\ s \in [1 .. Len(s) -> Range(s)]
  BY LenProperties DEF Range
<1>2. s \in Bijection(1 .. Len(s), Range(s))
  BY <1>1 DEF Bijection, Injection, Surjection, Range
<1>3. IsFiniteSet(1 .. Len(s)) /\ Cardinality(1 .. Len(s)) = Len(s)
  BY <1>1, FS_Interval
<1> QED
  BY <1>2, <1>3, FS_Bijection DEF ExistsBijection

\* The calls in front of worker w, and with it, while the dispatcher waits for room.
LEMMA FullChannelHeldUp ==
    ASSUME IInv, PlaceInv, NEW w \in {"llm", "tool"}, disp = "forward", hand.to = w,
           Len(chan[w]) = Cap[w], phase[w] # "idle"
    PROVE  LET S == (Range(chan[w]) \cup {hand.call}) \cup {busy[w]}
           IN  /\ \A x \in S : HeldUp(x) /\ (w # "tool" => x \notin Held[InService("tool")])
               /\ IsFiniteSet(S) /\ Cardinality(S) = Cap[w] + 2
<1> DEFINE S == (Range(chan[w]) \cup {hand.call}) \cup {busy[w]}
<1>1. w \in Workers /\ w # "mem" /\ "tool" \in Workers
  BY DEF Workers
<1>2. chan[w] \in Seq(Call) /\ busy[w] \in Call \cup {NoCall} /\ Cap[w] \in Nat
  BY <1>1, SchedulerAssumption DEF IInv, TypeOK, Cap
<1>3. hand # Idle /\ hand.call \in Call
  BY DEF IInv, TypeOK, HandOK
<1>4. busy[w] # NoCall /\ hand.call # NoCall
  BY <1>1, <1>3, CallsAreCalls DEF PlaceInv, BusyMatchesPhase
<1>5. /\ Held[InHand] = {hand.call} /\ Held[InChan(w)] = Range(chan[w])
      /\ Held[InService(w)] = {busy[w]}
  BY <1>1, <1>4, HeldAt
<1>6. /\ InHand \in Container /\ InChan(w) \in Container /\ InService(w) \in Container
      /\ InHand # InChan(w) /\ InHand # InService(w) /\ InChan(w) # InService(w)
      /\ InService("tool") \in Container /\ InHand # InService("tool")
      /\ InChan(w) # InService("tool") /\ (w # "tool" => InService(w) # InService("tool"))
  BY <1>1, ContainerKinds, ContainersDiffer
<1>7. Range(chan[w]) \subseteq Call /\ busy[w] \in Call
  BY <1>2, <1>4, RangeOfSeq
<1>8. \A x \in S : x.kind \notin MemKinds
  BY <1>1, <1>3, <1>5 DEF PlaceInv, Routed
<1>9. \A x \in S : x \in ClientCall
  <2>1. NestedCall.kind \in MemKinds
    BY DEF NestedCall, MemKinds
  <2>2. \A x \in Call : x = NestedCall \/ x \in ClientCall
    BY DEF Call
  <2> QED
    BY <1>3, <1>7, <1>8, <2>1, <2>2
<1>10. \A x \in S : HeldUp(x)
  BY <1>5, <1>6, <1>8, <1>9 DEF HeldUp, Somewhere
<1>11. \A x \in S : w # "tool" => x \notin Held[InService("tool")]
  BY <1>5, <1>6 DEF PlaceInv, CallsOK, HeldOnce
<1>12. hand.call \notin Range(chan[w]) /\ busy[w] \notin Range(chan[w]) \cup {hand.call}
  BY <1>5, <1>6 DEF PlaceInv, CallsOK, HeldOnce
<1>13. IsFiniteSet(Range(chan[w])) /\ Cardinality(Range(chan[w])) = Cap[w]
  BY <1>1, <1>2, RangeCounted DEF PlaceInv, NoRepeats
<1>14. /\ IsFiniteSet(Range(chan[w]) \cup {hand.call})
       /\ Cardinality(Range(chan[w]) \cup {hand.call}) = Cap[w] + 1
  BY <1>12, <1>13, FS_AddElement
<1>15. IsFiniteSet(S) /\ Cardinality(S) = (Cap[w] + 1) + 1
  <2>1. PICK T : T = Range(chan[w]) \cup {hand.call}
    OBVIOUS
  <2>2. PICK y : y = busy[w]
    OBVIOUS
  <2>3. IsFiniteSet(T) /\ Cardinality(T) = Cap[w] + 1 /\ y \notin T
    BY <1>12, <1>14, <2>1, <2>2
  <2>4. IsFiniteSet(T \cup {y}) /\ Cardinality(T \cup {y}) = (Cap[w] + 1) + 1
    BY <2>3, FS_AddElement
  <2> QED
    BY <2>1, <2>2, <2>4
<1> QED
  BY <1>2, <1>10, <1>11, <1>15

LEMMA FewCallersNoCircle ==
    ASSUME FewCallers, IInv, PlaceInv
    PROVE  NoCircularWait
<1> SUFFICES ASSUME disp = "forward", Len(chan[hand.to]) = Cap[hand.to], NestedCallStuck,
                    \/ hand.to = "tool"
                    \/ hand.to = "llm" /\ phase["llm"] = "taken"
             PROVE  FALSE
  BY DEF NoCircularWait
<1>1. phase["tool"] # "idle"
  BY DEF NestedCallStuck
<1>2. IsFiniteSet(Clients) /\ Cardinality(Clients) \in Nat
  BY FS_CardinalityType DEF FewCallers
<1>3. Cap["tool"] = ToolCap /\ Cap["llm"] = LlmCap /\ ToolCap \in Nat /\ LlmCap \in Nat
  BY SchedulerAssumption DEF Cap
<1>4. CASE hand.to = "tool"
  <2>1. PICK S : /\ \A x \in S : HeldUp(x)
                 /\ Cardinality(S) = ToolCap + 2
    BY <1>1, <1>3, <1>4, FullChannelHeldUp
  <2>2. Cardinality(S) <= Cardinality(Clients)
    BY <1>2, <2>1, CallersOfHeldUp
  <2> QED
    BY <1>2, <1>3, <2>1, <2>2 DEF FewCallers
<1>5. CASE hand.to = "llm" /\ phase["llm"] = "taken"
  <2>1. PICK S : /\ \A x \in S : HeldUp(x) /\ x \notin Held[InService("tool")]
                 /\ IsFiniteSet(S) /\ Cardinality(S) = LlmCap + 2
    BY <1>3, <1>5, FullChannelHeldUp
  <2>2. "tool" \in Workers /\ busy["tool"] # NoCall
    BY <1>1 DEF Workers, PlaceInv, BusyMatchesPhase
  <2>3. Held[InService("tool")] = {busy["tool"]} /\ InService("tool") \in Container
    BY <2>2, HeldAt, ContainerKinds
  <2>4. busy["tool"].kind \notin MemKinds
    BY <2>2, <2>3 DEF PlaceInv, Routed
  <2>5. busy["tool"] \in ClientCall
    <3>1. NestedCall.kind \in MemKinds
      BY DEF NestedCall, MemKinds
    <3> QED
      BY <2>2, <2>4, <3>1 DEF IInv, TypeOK, Call
  <2>6. HeldUp(busy["tool"])
    BY <2>3, <2>4, <2>5 DEF HeldUp, Somewhere
  <2>7. IsFiniteSet(S \cup {busy["tool"]}) /\ Cardinality(S \cup {busy["tool"]}) = (LlmCap + 2) + 1
    BY <2>1, <2>3, FS_AddElement
  <2>8. Cardinality(S \cup {busy["tool"]}) <= Cardinality(Clients)
    BY <1>2, <2>1, <2>6, CallersOfHeldUp
  <2> QED
    BY <1>2, <1>3, <2>7, <2>8 DEF FewCallers
<1> QED
  BY <1>4, <1>5

\* The dispatcher and a worker can only wait for each other when there are callers
\* enough to fill a channel, both its ends and, for the LLM channel, the tool worker:
\* with fewer, whatever the kinds of their calls, test_concurrency's promise holds.
THEOREM FewCallersNeverDeadlock ==
    ASSUME FewCallers
    PROVE  Spec => []NoCircularWait
<1>1. IInv /\ PlaceInv => NoCircularWait
  BY FewCallersNoCircle
<1> QED
  BY <1>1, Invariance, PlaceInvariance, PTL DEF Spec

=============================================================================
