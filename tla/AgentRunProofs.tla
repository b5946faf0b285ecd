--------------------------- MODULE AgentRunProofs ---------------------------
(***************************************************************************)
(* Proofs about AgentRun for any tools, rounds, batches, lost events and    *)
(* clients: the safety properties of a run.  What happens to a run comes    *)
(* down to three things, each described once and then reasoned about:       *)
(* an event of the kernel and the events its listener pushes for it         *)
(* (Moves, Heard and Outside), the loop that takes the first event off the  *)
(* queue (Takes), and what that event does to the card (CardStep).  The     *)
(* invariants follow the outcome, the answer, the open steps and the asked  *)
(* approval through the queue.                                              *)
(***************************************************************************)
EXTENDS AgentRun, SequenceTheorems, FiniteSetTheorems, TLAPS

(***************************************************************************)
(* Helpers: extremes of a set of indices, sequences of a set, filters.       *)
(***************************************************************************)
Below == {p \in Nat \X Nat : p[1] < p[2]}

LEMMA LeastElement ==
    ASSUME NEW S \in SUBSET Nat, S # {}
    PROVE  \E m \in S : \A y \in S : m <= y
<1>1. IsWellFoundedOn(Below, Nat)
  BY NatLessThanWellFounded DEF OpToRel, Below
<1>2. PICK m \in S : \A y \in S : <<y, m>> \notin Below
  BY <1>1, WFMin
<1>3. \A y \in S : m <= y
  <2> SUFFICES ASSUME NEW y \in S, ~(m <= y) PROVE FALSE
    OBVIOUS
  <2>1. <<y, m>> \in Nat \X Nat /\ <<y, m>>[1] = y /\ <<y, m>>[2] = m /\ y < m
    OBVIOUS
  <2> QED
    BY <1>2, <2>1 DEF Below
<1> QED
  BY <1>3

LEMMA MinIsLeast ==
    ASSUME NEW S \in SUBSET Nat, S # {}
    PROVE  Min(S) \in S /\ \A y \in S : Min(S) <= y
BY LeastElement DEF Min

LEMMA MaxIsLargest ==
    ASSUME NEW n \in Nat, NEW S \in SUBSET (0 .. n), S # {}
    PROVE  Max(S) \in S /\ \A y \in S : y <= Max(S)
<1> DEFINE U == {u \in Nat : \A y \in S : y <= u}
<1>1. U # {} /\ U \subseteq Nat
  <2>1. n \in U
    OBVIOUS
  <2> QED
    BY <2>1
<1>2. PICK m \in U : \A u \in U : m <= u
  BY <1>1, LeastElement
<1>3. m \in Nat /\ \A y \in S : y <= m
  OBVIOUS
<1>4. m \in S
  <2> SUFFICES ASSUME m \notin S PROVE FALSE
    OBVIOUS
  <2>1. \A y \in S : y \in Nat /\ y < m
    BY <1>3
  <2>2. m > 0
    <3>1. PICK y : y \in S
      OBVIOUS
    <3> QED
      BY <1>3, <2>1, <3>1
  <2>3. m - 1 \in U
    BY <1>3, <2>1, <2>2
  <2> QED
    BY <1>2, <1>3, <2>3
<1>5. \E x \in S : \A y \in S : x >= y
  BY <1>3, <1>4
<1>6. Max(S) \in S /\ \A y \in S : Max(S) >= y
  BY <1>5 DEF Max
<1> QED
  BY <1>6

\* The last index of a set of indices, 0 if there is none: what FindLast returns.
LEMMA LastIndex ==
    ASSUME NEW n \in Nat, NEW S \in SUBSET (1 .. n)
    PROVE  /\ Max({0} \cup S) \in 0 .. n
           /\ Max({0} \cup S) = 0 => S = {}
           /\ Max({0} \cup S) # 0 => Max({0} \cup S) \in S
<1>1. {0} \cup S \in SUBSET (0 .. n) /\ {0} \cup S # {}
  OBVIOUS
<1>2. PICK m : m = Max({0} \cup S)
  OBVIOUS
<1>3. m \in {0} \cup S /\ \A y \in {0} \cup S : y <= m
  BY <1>1, <1>2, MaxIsLargest
<1>4. m = 0 => S = {}
  <2> SUFFICES ASSUME m = 0, NEW y \in S PROVE FALSE
    OBVIOUS
  <2>1. y <= 0 /\ y \in 1 .. n
    BY <1>3
  <2> QED
    BY <2>1
<1> QED
  BY <1>2, <1>3, <1>4

LEMMA SetToSeqOK ==
    ASSUME NEW S, IsFiniteSet(S)
    PROVE  SetToSeq(S) \in Seq(S)
<1>1. Cardinality(S) \in Nat /\ ExistsBijection(1 .. Cardinality(S), S)
  BY FS_CardinalityType
<1>2. \E f \in [1 .. Cardinality(S) -> S] : IsInjective(f)
  BY <1>1 DEF ExistsBijection, Bijection, Injection
<1>3. SetToSeq(S) \in [1 .. Cardinality(S) -> S]
  BY <1>2 DEF SetToSeq
<1> QED
  BY <1>1, <1>3

\* Every rank from 1 to the size of a set of indices is the rank of one of them.
LEMMA RankOnto ==
    ASSUME NEW n \in Nat, NEW S \in SUBSET (1 .. n)
    PROVE  /\ IsFiniteSet(S) /\ Cardinality(S) \in Nat
           /\ \A k \in 1 .. Cardinality(S) : \E i \in S : Rank(S, i) = k
<1>1. IsFiniteSet(S) /\ Cardinality(S) \in Nat
  <2>1. IsFiniteSet(1 .. n)
    BY FS_Interval
  <2>2. IsFiniteSet(S)
    BY <2>1, FS_Subset
  <2> QED
    BY <2>2, FS_CardinalityType
<1> DEFINE Upto(i) == {j \in S : j <= i}
           f == [i \in S |-> Rank(S, i)]
<1>2. \A i \in S : /\ IsFiniteSet(Upto(i)) /\ Cardinality(Upto(i)) <= Cardinality(S)
                   /\ Cardinality(Upto(i)) \in Nat
  BY <1>1, FS_Subset, FS_CardinalityType
<1>3. \A i \in S : Cardinality(Upto(i)) # 0
  <2> SUFFICES ASSUME NEW i \in S, Cardinality(Upto(i)) = 0 PROVE FALSE
    OBVIOUS
  <2>1. i \in Upto(i)
    OBVIOUS
  <2>2. Upto(i) = {}
    BY <1>2, FS_EmptySet
  <2> QED
    BY <2>1, <2>2
<1>4. f \in [S -> 1 .. Cardinality(S)]
  BY <1>1, <1>2, <1>3 DEF Rank
<1>5. ASSUME NEW i \in S, NEW j \in S, i < j PROVE f[i] # f[j]
  <2>1. Upto(i) \subseteq Upto(j) /\ Upto(i) # Upto(j)
    <3>1. j \in Upto(j) /\ j \notin Upto(i)
      BY <1>5
    <3>2. Upto(i) \subseteq Upto(j)
      <4> SUFFICES ASSUME NEW x \in S, x <= i PROVE x <= j
        OBVIOUS
      <4>1. x \in Nat /\ i \in Nat /\ j \in Nat
        OBVIOUS
      <4> QED
        BY <1>5, <4>1
    <3> QED
      BY <3>1, <3>2
  <2>2. Cardinality(Upto(i)) < Cardinality(Upto(j))
    BY <1>2, <2>1, FS_Subset
  <2> QED
    BY <1>2, <2>2 DEF Rank
<1>6. f \in Injection(S, 1 .. Cardinality(S))
  BY <1>4, <1>5 DEF Injection, IsInjective
<1>7. f \in Surjection(S, 1 .. Cardinality(S))
  <2>1. IsFiniteSet(1 .. Cardinality(S)) /\ Cardinality(1 .. Cardinality(S)) = Cardinality(S)
    BY <1>1, FS_Interval
  <2> QED
    BY <1>6, <2>1, FS_Injection
<1> QED
  BY <1>1, <1>7 DEF Surjection

\* What Filtered returns, given the set S of the indices it keeps.
LEMMA Picked ==
    ASSUME NEW T, NEW s \in Seq(T), NEW S \in SUBSET DOMAIN s
    PROVE  [k \in 1 .. Cardinality(S) |-> s[CHOOSE i \in S : Rank(S, i) = k]] \in Seq(T)
<1>1. Len(s) \in Nat /\ DOMAIN s = 1 .. Len(s) /\ s \in [1 .. Len(s) -> T]
  BY LenProperties
<1>2. /\ Cardinality(S) \in Nat
      /\ \A k \in 1 .. Cardinality(S) : \E i \in S : Rank(S, i) = k
  BY <1>1, RankOnto
<1>3. \A k \in 1 .. Cardinality(S) : (CHOOSE i \in S : Rank(S, i) = k) \in S
  BY <1>2
<1>4. \A k \in 1 .. Cardinality(S) : s[CHOOSE i \in S : Rank(S, i) = k] \in T
  BY <1>1, <1>3
<1> QED
  BY <1>2, <1>4

(***************************************************************************)
(* Types.                                                                    *)
(***************************************************************************)
ToolNames == Tools \cup {NoTool}
Reasons == {ReasonStep(n) : n \in Nat}
Approvals == {ApprovalStep(k) : k \in Nat}
Ids == {NoStep.id} \cup Reasons \cup Approvals
StepRec == [id : Ids, kind : StepKinds, status : StepStatuses, tool : ToolNames]

BlockSorts == {"running", "settled", "rich", "patch", "you", "redo", "final", "older", "drawn"}
\* Only the transient blocks belong to a step.
BlockRec == {b \in [sort : BlockSorts, step : Ids, tool : ToolNames] :
                ~IsIntermediate(b) => b.step = NoStep.id}

EventTypes == {"task_started", "step_started", "step_progress", "step_completed",
               "approval_required", "task_completed", "task_failed", "card_generated",
               "agent_stream", "agent_ui_patch", "agent_tool_result",
               "conversation_message"} \cup A2UIMessages
\* What the type of an event says of its step.
StepFits(y, s) ==
    /\ y = "step_started" => s.id \in Reasons /\ s.status = "running"
    /\ y = "step_completed" => s.id \in Reasons /\ s.status = "completed"
    /\ y = "step_progress" => s.id \in Reasons /\ s.status = "absent"
    /\ y = "approval_required" => s.id \in Approvals /\ s.status = "waiting_approval"
EventRec == {e \in [type : EventTypes, step : StepRec, tool : ToolNames, blocks : Seq(BlockRec)] :
                StepFits(e.type, e.step)}

HasSort(b, s) == \E i \in DOMAIN b : b[i].sort = s

Phases == {"setup", "subscribed", "submitting", "draining", "over", "failed", "thrown"}
RunRec == [phase : Phases, queue : Seq(EventRec), finished : BOOLEAN, idx : Nat,
           a2ui : {"no", "surface", "other"}, timer : BOOLEAN, source : {"none", "open", "closed"},
           listening : BOOLEAN]
CardRec == [node : {"synthesizing", "active", "removed"},
            shown : {"running", "planning", "waiting_approval", "completed", "failed", "cancelled"},
            task : {"running", "completed", "failed", "cancelled"},
            steps : Seq(StepRec), blocks : Seq(BlockRec),
            streaming : BOOLEAN, a2ui : {"none", "older", "drawn"}, drawn : BOOLEAN]

\* The kernel's side, with a call at hand wherever it looks at one.
KernelRec == [at : Ats, todo : Seq(Tools), asks : Nat, round : Nat,
              said : Responses \cup {"none"}]
HasCall == kernel.at \in {"cache", "asked", "approved", "refused", "result"} => kernel.todo # <<>>

TypeInv ==
    /\ transport \in {"tauri", "sse"} /\ transport \in Transports
    /\ mode \in {"task", "os"} /\ mode \in Modes
    /\ kernel \in KernelRec /\ HasCall
    /\ run \in RunRec /\ card \in CardRec
    /\ replies \in Nat /\ outcomes \in Nat
    /\ aborted \in BOOLEAN /\ early \in BOOLEAN /\ stale \in BOOLEAN
    /\ prompt \in [decided : BOOLEAN, reply : BOOLEAN]

LEMMA StepsMade ==
    ASSUME NEW n \in Nat, NEW k \in StepKinds, NEW st \in StepStatuses, NEW t \in ToolNames
    PROVE  Step(ReasonStep(n), k, st, t) \in StepRec /\ Step(ApprovalStep(n), k, st, t) \in StepRec
           /\ NoStep \in StepRec
BY DEF Step, StepRec, Ids, Reasons, Approvals, NoStep, StepKinds, StepStatuses, ToolNames

LEMMA BlocksMade ==
    ASSUME NEW y \in BlockSorts \ {"running", "settled"}
    PROVE  Plain(y) \in BlockRec /\ Plain(y).sort = y
BY DEF Plain, Block, BlockRec, Ids, ToolNames, IsIntermediate, NoStep, Step

\* An event and its fields.
Carries(e, y, s, b) == e \in EventRec /\ e.type = y /\ e.step = s /\ e.blocks = b

LEMMA EventMade ==
    ASSUME NEW y \in EventTypes, NEW s \in StepRec, NEW t \in ToolNames, NEW b \in Seq(BlockRec),
           StepFits(y, s)
    PROVE  Carries(Event(y, s, t, b), y, s, b)
BY DEF Carries, Event, EventRec

\* An event without a tool and without blocks.
LEMMA BareEventMade ==
    ASSUME NEW y \in EventTypes, NEW s \in StepRec, StepFits(y, s)
    PROVE  Carries(Event(y, s, NoTool, <<>>), y, s, <<>>)
<1>1. PICK b \in Seq(BlockRec) : b = <<>>
  BY EmptySeq
<1>2. PICK t \in ToolNames : t = NoTool
  BY DEF ToolNames
<1>3. Carries(Event(y, s, t, b), y, s, b)
  BY EventMade
<1> QED
  BY <1>1, <1>2, <1>3

LEMMA SignalMade ==
    ASSUME NEW y \in EventTypes \ {"step_started", "step_completed", "step_progress",
                                   "approval_required"}
    PROVE  Signal(y) \in EventRec /\ Signal(y).type = y
<1>1. StepFits(y, NoStep) /\ NoStep \in StepRec /\ y \in EventTypes
  BY DEF StepFits, NoStep, Step, StepRec, Ids, ToolNames, StepKinds, StepStatuses
<1>2. Carries(Event(y, NoStep, NoTool, <<>>), y, NoStep, <<>>)
  BY <1>1, BareEventMade
<1> QED
  BY <1>2 DEF Signal, Carries

\* The events about step n.
About(e, y, n) == e \in EventRec /\ e.type = y /\ e.step.id = ReasonStep(n)

LEMMA StepEventsMade ==
    ASSUME NEW n \in Nat, NEW k \in StepKinds, NEW t \in ToolNames
    PROVE  /\ About(Started(n, k, t), "step_started", n)
           /\ About(Completed(n, k, t), "step_completed", n)
           /\ About(Progress(n), "step_progress", n)
<1>1. /\ Step(ReasonStep(n), k, "running", t) \in StepRec
      /\ Step(ReasonStep(n), k, "completed", t) \in StepRec
      /\ Step(ReasonStep(n), "absent", "absent", NoTool) \in StepRec
  BY StepsMade DEF StepKinds, StepStatuses, ToolNames
<1>2. /\ StepFits("step_started", Step(ReasonStep(n), k, "running", t))
      /\ StepFits("step_completed", Step(ReasonStep(n), k, "completed", t))
      /\ StepFits("step_progress", Step(ReasonStep(n), "absent", "absent", NoTool))
  BY DEF StepFits, Step, Reasons
<1>3. \A s \in StepRec, y \in EventTypes : StepFits(y, s) => Carries(Event(y, s, NoTool, <<>>), y, s, <<>>)
  BY BareEventMade
<1>4. /\ Carries(Started(n, k, t), "step_started", Step(ReasonStep(n), k, "running", t), <<>>)
      /\ Carries(Completed(n, k, t), "step_completed", Step(ReasonStep(n), k, "completed", t), <<>>)
      /\ Carries(Progress(n), "step_progress", Step(ReasonStep(n), "absent", "absent", NoTool), <<>>)
  BY <1>1, <1>2, <1>3 DEF Started, Completed, Progress, EventTypes
<1> QED
  BY <1>4 DEF Carries, About, Step

LEMMA ApprovalMade ==
    ASSUME NEW k \in Nat, NEW t \in ToolNames
    PROVE  /\ ApprovalFor(k, t) \in EventRec /\ ApprovalFor(k, t).type = "approval_required"
           /\ ApprovalFor(k, t).step.id = ApprovalStep(k)
<1> DEFINE s == Step(ApprovalStep(k), "tool_call", "waiting_approval", t)
<1>1. s \in StepRec
  BY StepsMade DEF StepKinds, StepStatuses
<1>2. StepFits("approval_required", s) /\ s.id = ApprovalStep(k)
  BY DEF StepFits, Step, Approvals
<1> HIDE DEF s
<1>3. Carries(Event("approval_required", s, NoTool, <<>>), "approval_required", s, <<>>)
  BY <1>1, <1>2, BareEventMade DEF EventTypes
<1> QED
  BY <1>2, <1>3 DEF Carries, ApprovalFor, s

\* An event that is about no step, and its blocks.
Bears(e, y, b) == e \in EventRec /\ e.type = y /\ e.blocks = b

LEMMA OtherEventsMade ==
    ASSUME NEW y \in {"card_generated", "agent_ui_patch", "agent_tool_result"},
           NEW t \in ToolNames, NEW b \in Seq(BlockRec)
    PROVE  Bears(Event(y, NoStep, t, b), y, b)
<1>1. StepFits(y, NoStep) /\ NoStep \in StepRec
  BY DEF StepFits, NoStep, Step, StepRec, Ids, ToolNames, StepKinds, StepStatuses
<1>2. y \in EventTypes
  BY DEF EventTypes
<1>3. Carries(Event(y, NoStep, t, b), y, NoStep, b)
  BY <1>1, <1>2, EventMade
<1> QED
  BY <1>3 DEF Carries, Bears

\* The events whose blocks matter: a generated card, a patch, a tool's result.
LEMMA BlockEventsMade ==
    /\ \A b \in Seq(BlockRec) :
         Bears(Event("card_generated", NoStep, NoTool, b), "card_generated", b)
    /\ <<Plain("patch")>> \in Seq(BlockRec) /\ <<Plain("final")>> \in Seq(BlockRec)
    /\ <<>> \in Seq(BlockRec)
    /\ Bears(Event("agent_ui_patch", NoStep, NoTool, <<Plain("patch")>>), "agent_ui_patch", <<Plain("patch")>>)
    /\ \A t \in ToolNames : Bears(ToolResult(t), "agent_tool_result", <<>>)
    /\ HasSort(<<Plain("final")>>, "final")
<1>1. NoTool \in ToolNames /\ <<>> \in Seq(BlockRec)
  BY EmptySeq DEF ToolNames
<1>2. Plain("patch") \in BlockRec /\ Plain("final") \in BlockRec /\ Plain("final").sort = "final"
  BY BlocksMade DEF BlockSorts
<1>3. /\ <<Plain("patch")>> \in Seq(BlockRec) /\ <<Plain("final")>> \in Seq(BlockRec)
      /\ DOMAIN <<Plain("final")>> = 1 .. 1 /\ <<Plain("final")>>[1] = Plain("final")
  BY <1>2
<1>4. HasSort(<<Plain("final")>>, "final")
  BY <1>2, <1>3 DEF HasSort
<1>5. \A b \in Seq(BlockRec) :
         Bears(Event("card_generated", NoStep, NoTool, b), "card_generated", b)
  BY <1>1, OtherEventsMade
<1>6. PICK p \in Seq(BlockRec) : p = <<Plain("patch")>>
  BY <1>3
<1>7. Bears(Event("agent_ui_patch", NoStep, NoTool, p), "agent_ui_patch", p)
  BY <1>1, OtherEventsMade
<1>8. PICK z \in Seq(BlockRec) : z = <<>>
  BY <1>1
<1>9. \A t \in ToolNames : Bears(Event("agent_tool_result", NoStep, t, z), "agent_tool_result", z)
  BY <1>1, OtherEventsMade
<1>10. \A t \in ToolNames : Bears(ToolResult(t), "agent_tool_result", <<>>)
  BY <1>8, <1>9 DEF ToolResult
<1>11. Bears(Event("agent_ui_patch", NoStep, NoTool, <<Plain("patch")>>), "agent_ui_patch", <<Plain("patch")>>)
  BY <1>6, <1>7
<1> QED
  BY <1>1, <1>3, <1>4, <1>5, <1>10, <1>11

(***************************************************************************)
(* What the listeners push: the facts the invariants need.                   *)
(***************************************************************************)
EventNames == {"agent-status-update", "agent-stream", "agent-response", "agent-ui-patch",
               "agent-a2ui-message", "agent-tool-result", "agent-approval-request",
               "intent-cache-hit", "intent-cache-result", "silence"}
States == {"", "STARTING", "THINKING", "ACTING", "COMPLETE", "ERROR"} \cup A2UIMessages
KernelEvents == {e \in [name : EventNames, state : States, tool : ToolNames, key : Nat,
                        body : Responses] :
                    e.name = "agent-a2ui-message" => e.state \in A2UIMessages}
\* A step of the kernel that says nothing.
Silence == Bare("silence")

NoTerminal(q) == \A i \in DOMAIN q : q[i].type \notin Terminal
OneTerminal(q) == q # <<>> /\ \A i \in DOMAIN q : q[i].type \in Terminal <=> i = Len(q)
Before(q, i, y) == \E j \in DOMAIN q : j < i /\ q[j].type = y
HasDone(q, n) == \E j \in DOMAIN q : q[j].type = "step_completed" /\ q[j].step.id = ReasonStep(n)

\* The event after which a Tauri run is finished.
Finishing(e) ==
    \/ e.name = "agent-status-update" /\ e.state = "ERROR"
    \/ e.name \in {"agent-response", "intent-cache-result"}
IsStatus(e, s) == e.name = "agent-status-update" /\ e.state = s

\* r2 is r after q was pushed.
Grows(r, r2, q) ==
    /\ r2 \in RunRec /\ q \in Seq(EventRec) /\ r2.queue = r.queue \o q
    /\ r2.phase = r.phase /\ r2.listening = r.listening
    /\ r2.source = r.source \/ (r.source = "open" /\ r2.source = "closed")

Terminates(r, r2, q) ==
    /\ \/ NoTerminal(q) /\ (r2.finished <=> r.finished)
       \/ OneTerminal(q) /\ r2.finished
    /\ \A i \in DOMAIN q : q[i].type = "conversation_message" =>
           i < Len(q) /\ q[i + 1].type \in Terminal

\* The messages of q begin a surface and keep it; they delete none.
NoDelete(q) == \A j \in DOMAIN q : q[j].type # "deleteSurface"
Opens(q) == \E j \in DOMAIN q : /\ q[j].type = "beginRendering"
                               /\ \A k \in DOMAIN q : k > j => q[k].type # "deleteSurface"
HasMessage(q) == \E j \in DOMAIN q : q[j].type \in A2UIMessages
Calm(q) == NoDelete(q) /\ ~HasMessage(q)

\* After q, a is what the A2UI messages of the run come to.
Tells(r, a, q) ==
    /\ a = "surface" => Opens(q) \/ (r.a2ui = "surface" /\ NoDelete(q))
    /\ r.a2ui # "no" \/ HasMessage(q) => a # "no"

\* The answer stands before the completion, and is one.
Answers(r, r2, q, e) ==
    /\ Tells(r, r2.a2ui, q)
    /\ mode = "task" => \A i \in DOMAIN q :
         /\ q[i].type = "task_completed" => Before(q, i, "card_generated")
         /\ q[i].type = "card_generated" =>
              \/ HasSort(q[i].blocks, "final")
              \/ e.name = "agent-response" /\ e.body = "empty"
              \/ r2.a2ui # "no"

\* What only the Tauri listeners are asked for.
TauriEnds(r, r2, q, e) ==
    /\ r2.timer = r.timer /\ r2.source = r.source
    /\ r.finished => q = <<>> \/ (OneTerminal(q) /\ e.name = "agent-response")
    /\ r2.finished <=> (r.finished \/ Finishing(e))
TauriSteps(r, r2, q, e) ==
    /\ \A i \in DOMAIN q : q[i].type = "step_started" =>
         /\ q[i].step.id = ReasonStep(0) \/ q[i].step.id = ReasonStep(r2.idx)
         /\ ~OneTerminal(q) /\ ~IsStatus(e, "COMPLETE")
    /\ r2.idx # r.idx => r.idx = 0 \/ HasDone(q, r.idx)
    /\ e.name \in {"intent-cache-hit", "silence", "intent-cache-result"} \/ IsStatus(e, "COMPLETE")
         => r2.idx = r.idx
    /\ IsStatus(e, "COMPLETE") /\ ~r.finished => HasDone(q, r.idx)
    /\ \A i \in DOMAIN q : q[i].type = "task_completed" =>
         e.name \in {"agent-response", "intent-cache-result"}
TauriAsks(r, q, e) ==
    /\ \A i \in DOMAIN q : q[i].type = "approval_required" =>
         e.name = "agent-approval-request" /\ q[i].step.id = ApprovalStep(e.key)
    /\ e.name = "agent-approval-request" /\ ~r.finished =>
         \E i \in DOMAIN q : q[i].type = "approval_required"

SseHears(r, r2, q, e) == Grows(r, r2, q) /\ Terminates(r, r2, q) /\ Answers(r, r2, q, e)
                         /\ (r.finished => q = <<>>)
TauriHears(r, r2, q, e) ==
    /\ Grows(r, r2, q) /\ Terminates(r, r2, q) /\ Answers(r, r2, q, e)
    /\ TauriEnds(r, r2, q, e) /\ TauriSteps(r, r2, q, e) /\ TauriAsks(r, q, e)

\* Lists of events, by their length.
LEMMA NoEvents ==
    ASSUME NEW r \in RunRec
    PROVE  \E q \in Seq(EventRec) : q = <<>> /\ DOMAIN q = {} /\ Len(q) = 0 /\ r.queue \o q = r.queue
<1>1. r.queue \in Seq(EventRec)
  BY DEF RunRec
<1>2. <<>> \in Seq(EventRec) /\ r.queue \o <<>> = r.queue
  BY <1>1, EmptySeq, ConcatEmptySeq
<1>3. DOMAIN (<<>>) = {} /\ Len(<<>>) = 0
  OBVIOUS
<1> QED
  BY <1>2, <1>3

LEMMA OneEvent ==
    ASSUME NEW a \in EventRec
    PROVE  \E q \in Seq(EventRec) : q = <<a>> /\ DOMAIN q = {1} /\ Len(q) = 1 /\ q[1] = a
<1>1. <<a>> \in Seq(EventRec) /\ Len(<<a>>) = 1 /\ <<a>>[1] = a
  OBVIOUS
<1>2. DOMAIN <<a>> = 1 .. 1 /\ 1 .. 1 = {1}
  OBVIOUS
<1> QED
  BY <1>1, <1>2

LEMMA TwoEvents ==
    ASSUME NEW a \in EventRec, NEW b \in EventRec
    PROVE  \E q \in Seq(EventRec) : q = <<a, b>> /\ DOMAIN q = {1, 2} /\ Len(q) = 2 /\ q[1] = a /\ q[2] = b
<1>1. <<a, b>> \in Seq(EventRec) /\ Len(<<a, b>>) = 2 /\ <<a, b>>[1] = a /\ <<a, b>>[2] = b
  OBVIOUS
<1>2. DOMAIN <<a, b>> = 1 .. 2 /\ 1 .. 2 = {1, 2}
  OBVIOUS
<1> QED
  BY <1>1, <1>2

LEMMA ThreeEvents ==
    ASSUME NEW a \in EventRec, NEW b \in EventRec, NEW c \in EventRec
    PROVE  \E q \in Seq(EventRec) : /\ q = <<a, b, c>> /\ DOMAIN q = {1, 2, 3} /\ Len(q) = 3
                                    /\ q[1] = a /\ q[2] = b /\ q[3] = c
<1>1. /\ <<a, b, c>> \in Seq(EventRec) /\ Len(<<a, b, c>>) = 3
      /\ <<a, b, c>>[1] = a /\ <<a, b, c>>[2] = b /\ <<a, b, c>>[3] = c
  OBVIOUS
<1>2. DOMAIN <<a, b, c>> = 1 .. 3 /\ 1 .. 3 = {1, 2, 3}
  OBVIOUS
<1> QED
  BY <1>1, <1>2

Four(q, a, b, c, d) ==
    /\ q = <<a, b, c, d>> /\ DOMAIN q = {1, 2, 3, 4} /\ Len(q) = 4
    /\ q[1] = a /\ q[2] = b /\ q[3] = c /\ q[4] = d
    /\ <<a, b>> \o <<c, d>> = q

LEMMA FourEvents ==
    ASSUME NEW a \in EventRec, NEW b \in EventRec, NEW c \in EventRec, NEW d \in EventRec
    PROVE  \E q \in Seq(EventRec) : Four(q, a, b, c, d)
<1>1. /\ <<a, b, c, d>> \in Seq(EventRec) /\ Len(<<a, b, c, d>>) = 4
      /\ <<a, b, c, d>>[1] = a /\ <<a, b, c, d>>[2] = b /\ <<a, b, c, d>>[3] = c /\ <<a, b, c, d>>[4] = d
  OBVIOUS
<1>2. DOMAIN <<a, b, c, d>> = 1 .. 4 /\ 1 .. 4 = {1, 2, 3, 4}
  OBVIOUS
<1>3. <<a, b>> \o <<c, d>> = <<a, b, c, d>>
  <2>1. PICK s \in Seq(EventRec) : s = <<a, b>> /\ Len(s) = 2 /\ s[1] = a /\ s[2] = b
    BY TwoEvents
  <2>2. PICK t \in Seq(EventRec) : t = <<c, d>> /\ Len(t) = 2 /\ t[1] = c /\ t[2] = d
    BY TwoEvents
  <2>3. PICK u \in Seq(EventRec) : u = <<a, b, c, d>>
    BY <1>1
  <2>4. Len(u) = 4 /\ u[1] = a /\ u[2] = b /\ u[3] = c /\ u[4] = d
    BY <1>1, <2>3
  <2>5. /\ s \o t \in Seq(EventRec) /\ Len(s \o t) = 4
        /\ \A i \in 1 .. 4 : (s \o t)[i] = IF i <= 2 THEN s[i] ELSE t[i - 2]
    BY <2>1, <2>2, ConcatProperties
  <2>6. \A i \in 1 .. 4 : (s \o t)[i] = u[i]
    BY <2>1, <2>2, <2>4, <2>5
  <2>7. s \o t = u
    BY <2>4, <2>5, <2>6, SeqEqual
  <2> QED
    BY <2>1, <2>2, <2>3, <2>7
<1> QED
  BY <1>1, <1>2, <1>3 DEF Four

(***************************************************************************)
(* The listeners of a Tauri client, one by one.                              *)
(***************************************************************************)
\* r2 is r with q pushed, and these values of finished, idx and a2ui.
Becomes(r, r2, q, f, n, a) ==
    /\ r2 \in RunRec /\ r2.queue = r.queue \o q
    /\ r2.phase = r.phase /\ r2.listening = r.listening /\ r2.source = r.source /\ r2.timer = r.timer
    /\ (r2.finished <=> f) /\ r2.idx = n /\ r2.a2ui = a

LEMMA Pushed ==
    ASSUME NEW r \in RunRec, NEW q \in Seq(EventRec)
    PROVE  /\ Becomes(r, Push(r, q), q, r.finished, r.idx, r.a2ui)
           /\ Becomes(r, NextStep(Push(r, q)), q, r.finished, r.idx + 1, r.a2ui)
           /\ Becomes(r, Finish(Push(r, q)), q, TRUE, r.idx, r.a2ui)
           /\ \A a \in {"no", "surface", "other"} :
                Becomes(r, [Push(r, q) EXCEPT !.a2ui = a], q, r.finished, r.idx, a)
<1>1. r.queue \o q \in Seq(EventRec)
  BY ConcatProperties DEF RunRec
<1>2. r.idx + 1 \in Nat /\ r.finished \in BOOLEAN
  BY DEF RunRec
<1>3. Push(r, q) \in RunRec /\ Push(r, q).queue = r.queue \o q
  BY <1>1 DEF RunRec, Push
<1>4. Becomes(r, Push(r, q), q, r.finished, r.idx, r.a2ui)
  BY <1>1, <1>3 DEF RunRec, Push, Becomes
<1>5. Becomes(r, NextStep(Push(r, q)), q, r.finished, r.idx + 1, r.a2ui)
  BY <1>2, <1>3, <1>4 DEF RunRec, NextStep, Becomes
<1>6. Becomes(r, Finish(Push(r, q)), q, TRUE, r.idx, r.a2ui)
  BY <1>3, <1>4 DEF RunRec, Finish, Becomes
<1>7. ASSUME NEW a \in {"no", "surface", "other"}
      PROVE  Becomes(r, [Push(r, q) EXCEPT !.a2ui = a], q, r.finished, r.idx, a)
  BY <1>3, <1>4 DEF RunRec, Becomes
<1> QED
  BY <1>4, <1>5, <1>6, <1>7

\* A message of the A2UI data model, and what it makes of the run's surface.
Messaged(r, m, q) ==
    /\ DOMAIN q = {1} /\ Len(q) = 1 /\ q[1] \in EventRec /\ q[1].type = m
    /\ Becomes(r, PushA2UI(r, m), q, r.finished, r.idx, Comes(r.a2ui, m))
    /\ Comes(r.a2ui, m) # "no"
    /\ Tells(r, Comes(r.a2ui, m), q)

LEMMA MessagePushed ==
    ASSUME NEW r \in RunRec, NEW m \in A2UIMessages
    PROVE  \E q \in Seq(EventRec) : Messaged(r, m, q)
<1> DEFINE s == Signal(m)
           a == Comes(r.a2ui, m)
<1>1. s \in EventRec /\ s.type = m
  BY SignalMade DEF EventTypes, A2UIMessages
<1> HIDE DEF s
<1>2. PICK q \in Seq(EventRec) : q = <<s>> /\ DOMAIN q = {1} /\ Len(q) = 1 /\ q[1] = s
  BY <1>1, OneEvent
<1>3. r.a2ui \in {"no", "surface", "other"} /\ Push(r, q).a2ui = r.a2ui
  BY DEF RunRec, Push
<1>4. a \in {"surface", "other"}
  BY <1>3 DEF Comes
<1>5. PushA2UI(r, m) = [Push(r, q) EXCEPT !.a2ui = a]
  BY <1>2, <1>3 DEF PushA2UI, s
<1>6. Tells(r, a, q)
  <2>1. m = "beginRendering" => Opens(q)
    BY <1>1, <1>2 DEF Opens
  <2>2. m # "deleteSurface" => NoDelete(q)
    BY <1>1, <1>2 DEF NoDelete
  <2>3. a = "surface" => m = "beginRendering" \/ (m # "deleteSurface" /\ r.a2ui = "surface")
    BY <1>3 DEF Comes
  <2> HIDE DEF a
  <2> QED
    BY <1>4, <2>1, <2>2, <2>3 DEF Tells
<1> HIDE DEF a
<1>7. Becomes(r, PushA2UI(r, m), q, r.finished, r.idx, a)
  BY <1>4, <1>5, Pushed
<1> QED
  BY <1>1, <1>2, <1>4, <1>6, <1>7 DEF Messaged, a

\* A listener that looks at nothing or finds the run finished.
LEMMA Untouched ==
    ASSUME NEW r \in RunRec, NEW e \in KernelEvents, r.finished \/ ~Finishing(e),
           e.name # "agent-approval-request" \/ r.finished,
           ~IsStatus(e, "COMPLETE") \/ r.finished
    PROVE  \E q : TauriHears(r, r, q, e)
<1>1. PICK q \in Seq(EventRec) : q = <<>> /\ DOMAIN q = {} /\ Len(q) = 0 /\ r.queue \o q = r.queue
  BY NoEvents
<1>2. Grows(r, r, q) /\ Terminates(r, r, q) /\ Answers(r, r, q, e)
  BY <1>1 DEF Grows, Terminates, NoTerminal, Answers, Tells, NoDelete, HasMessage
<1>3. TauriEnds(r, r, q, e) /\ TauriSteps(r, r, q, e) /\ TauriAsks(r, q, e)
  BY <1>1 DEF TauriEnds, TauriSteps, TauriAsks
<1> QED
  BY <1>2, <1>3 DEF TauriHears

\* A listener that pushes what is neither an answer nor an end.
Middle(q) == \A i \in DOMAIN q : q[i].type \notin Terminal \cup {"conversation_message", "card_generated"}

LEMMA MiddleHears ==
    ASSUME NEW r \in RunRec, NEW r2, NEW q \in Seq(EventRec), NEW e \in KernelEvents, NEW n, NEW a,
           ~r.finished, ~Finishing(e), Becomes(r, r2, q, r.finished, n, a), Middle(q),
           Tells(r, a, q),
           TauriSteps(r, r2, q, e), TauriAsks(r, q, e)
    PROVE  TauriHears(r, r2, q, e)
<1>1. NoTerminal(q) /\ \A i \in DOMAIN q : q[i].type \notin {"conversation_message", "card_generated", "task_completed"}
  BY DEF Middle, NoTerminal, Terminal
<1>2. Grows(r, r2, q)
  BY DEF Grows, Becomes
<1>3. Terminates(r, r2, q)
  BY <1>1 DEF Terminates, Becomes
<1>4. Answers(r, r2, q, e) /\ TauriEnds(r, r2, q, e)
  BY <1>1 DEF Answers, Becomes, TauriEnds
<1> QED
  BY <1>2, <1>3, <1>4 DEF TauriHears

LEMMA FieldTypes ==
    ASSUME NEW r \in RunRec, NEW e \in KernelEvents
    PROVE  /\ r.idx \in Nat /\ r.idx + 1 \in Nat /\ r.idx # r.idx + 1 /\ r.finished \in BOOLEAN
           /\ e.tool \in ToolNames /\ NoTool \in ToolNames /\ e.key \in Nat
           /\ "llm_reasoning" \in StepKinds /\ "tool_call" \in StepKinds
<1>1. r.idx \in Nat /\ r.finished \in BOOLEAN
  BY DEF RunRec
<1>2. e.tool \in ToolNames /\ e.key \in Nat
  BY DEF KernelEvents
<1>3. NoTool \in ToolNames /\ "llm_reasoning" \in StepKinds /\ "tool_call" \in StepKinds
  BY DEF ToolNames, StepKinds
<1> QED
  BY <1>1, <1>2, <1>3


LEMMA StatusHears ==
    ASSUME NEW r \in RunRec, NEW e \in KernelEvents, e.name = "agent-status-update",
           e.state = "STARTING" => r.idx = 0
    PROVE  \E q : TauriHears(r, TauriStatus(r, e), q, e)
<1> DEFINE r2 == TauriStatus(r, e)
<1>0. /\ r.idx \in Nat /\ r.idx + 1 \in Nat /\ r.idx # r.idx + 1 /\ r.finished \in BOOLEAN
      /\ e.tool \in ToolNames /\ NoTool \in ToolNames /\ e.key \in Nat
      /\ "llm_reasoning" \in StepKinds /\ "tool_call" \in StepKinds
  BY FieldTypes
<1>1. CASE r.finished
  BY <1>1, Untouched DEF TauriStatus
<1> HIDE DEF r2
<1>2. CASE ~r.finished /\ e.state = "STARTING"
  <2> DEFINE a == Signal("task_started")
             b == Started(r.idx, "llm_reasoning", NoTool)
  <2>1. a \in EventRec /\ a.type = "task_started"
    BY SignalMade DEF EventTypes
  <2>2. b \in EventRec /\ b.type = "step_started" /\ b.step.id = ReasonStep(r.idx)
    BY <1>0, StepEventsMade DEF About
  <2>5. TauriStatus(r, e) = NextStep(Push(r, <<a, b>>))
    BY <1>2 DEF TauriStatus
  <2> HIDE DEF a, b
  <2>6. PICK q \in Seq(EventRec) : q = <<a, b>> /\ DOMAIN q = {1, 2} /\ Len(q) = 2 /\ q[1] = a /\ q[2] = b
    BY <2>1, <2>2, TwoEvents
  <2>7. Becomes(r, r2, q, r.finished, r.idx + 1, r.a2ui)
    BY <2>5, <2>6, Pushed DEF r2
  <2>8. r.idx = 0 /\ ~Finishing(e)
    BY <1>2, <2>1, <2>2, <2>6 DEF Finishing, HasDone, IsStatus
  <2>9. Middle(q) /\ ~OneTerminal(q)
    BY <2>1, <2>2, <2>6 DEF Middle, OneTerminal, Terminal
  <2>10. TauriSteps(r, r2, q, e) /\ TauriAsks(r, q, e)
    BY <1>0, <1>2, <2>1, <2>2, <2>6, <2>7, <2>8, <2>9 DEF TauriSteps, TauriAsks, Becomes, IsStatus
  <2>11. Tells(r, r.a2ui, q)
    BY <2>1, <2>2, <2>6 DEF Tells, NoDelete, HasMessage, A2UIMessages
  <2>12. TauriHears(r, r2, q, e)
    BY <1>2, <2>7, <2>8, <2>9, <2>10, <2>11, MiddleHears
  <2> QED
    BY <2>12 DEF r2
<1>3. CASE ~r.finished /\ e.state = "THINKING"
  <2> DEFINE a == Progress(r.idx)
  <2>1. a \in EventRec /\ a.type = "step_progress" /\ a.step.id = ReasonStep(r.idx)
    BY <1>0, StepEventsMade DEF About
  <2>5. TauriStatus(r, e) = Push(r, <<a>>)
    BY <1>3 DEF TauriStatus
  <2> HIDE DEF a
  <2>6. PICK q \in Seq(EventRec) : q = <<a>> /\ DOMAIN q = {1} /\ Len(q) = 1 /\ q[1] = a
    BY <2>1, OneEvent
  <2>7. Becomes(r, r2, q, r.finished, r.idx, r.a2ui)
    BY <2>5, <2>6, Pushed DEF r2
  <2>8. ~Finishing(e)
    BY <1>3, <2>1, <2>6 DEF Finishing, HasDone, IsStatus
  <2>9. Middle(q) /\ ~OneTerminal(q)
    BY <2>1, <2>6 DEF Middle, OneTerminal, Terminal
  <2>10. TauriSteps(r, r2, q, e) /\ TauriAsks(r, q, e)
    BY <1>0, <1>3, <2>1, <2>6, <2>7, <2>8, <2>9 DEF TauriSteps, TauriAsks, Becomes, IsStatus
  <2>11. Tells(r, r.a2ui, q)
    BY <2>1, <2>6 DEF Tells, NoDelete, HasMessage, A2UIMessages
  <2>12. TauriHears(r, r2, q, e)
    BY <1>3, <2>7, <2>8, <2>9, <2>10, <2>11, MiddleHears
  <2> QED
    BY <2>12 DEF r2
<1>4. CASE ~r.finished /\ e.state = "ACTING"
  <2> DEFINE a == Completed(r.idx, "llm_reasoning", NoTool)
             b == Started(r.idx + 1, "tool_call", e.tool)
  <2>1. a \in EventRec /\ a.type = "step_completed" /\ a.step.id = ReasonStep(r.idx)
    BY <1>0, StepEventsMade DEF About
  <2>2. b \in EventRec /\ b.type = "step_started" /\ b.step.id = ReasonStep(r.idx + 1)
    BY <1>0, StepEventsMade DEF About
  <2>5. TauriStatus(r, e) = NextStep(Push(r, <<a, b>>))
    BY <1>4 DEF TauriStatus
  <2> HIDE DEF a, b
  <2>6. PICK q \in Seq(EventRec) : q = <<a, b>> /\ DOMAIN q = {1, 2} /\ Len(q) = 2 /\ q[1] = a /\ q[2] = b
    BY <2>1, <2>2, TwoEvents
  <2>7. Becomes(r, r2, q, r.finished, r.idx + 1, r.a2ui)
    BY <2>5, <2>6, Pushed DEF r2
  <2>8. HasDone(q, r.idx) /\ ~Finishing(e)
    BY <1>4, <2>1, <2>2, <2>6 DEF Finishing, HasDone, IsStatus
  <2>9. Middle(q) /\ ~OneTerminal(q)
    BY <2>1, <2>2, <2>6 DEF Middle, OneTerminal, Terminal
  <2>10. TauriSteps(r, r2, q, e) /\ TauriAsks(r, q, e)
    BY <1>0, <1>4, <2>1, <2>2, <2>6, <2>7, <2>8, <2>9 DEF TauriSteps, TauriAsks, Becomes, IsStatus
  <2>11. Tells(r, r.a2ui, q)
    BY <2>1, <2>2, <2>6 DEF Tells, NoDelete, HasMessage, A2UIMessages
  <2>12. TauriHears(r, r2, q, e)
    BY <1>4, <2>7, <2>8, <2>9, <2>10, <2>11, MiddleHears
  <2> QED
    BY <2>12 DEF r2
<1>5. CASE ~r.finished /\ e.state = "COMPLETE"
  <2> DEFINE a == Completed(r.idx, "llm_reasoning", NoTool)
  <2>1. a \in EventRec /\ a.type = "step_completed" /\ a.step.id = ReasonStep(r.idx)
    BY <1>0, StepEventsMade DEF About
  <2>5. TauriStatus(r, e) = Push(r, <<a>>)
    BY <1>5 DEF TauriStatus
  <2> HIDE DEF a
  <2>6. PICK q \in Seq(EventRec) : q = <<a>> /\ DOMAIN q = {1} /\ Len(q) = 1 /\ q[1] = a
    BY <2>1, OneEvent
  <2>7. Becomes(r, r2, q, r.finished, r.idx, r.a2ui)
    BY <2>5, <2>6, Pushed DEF r2
  <2>8. HasDone(q, r.idx) /\ ~Finishing(e)
    BY <1>5, <2>1, <2>6 DEF Finishing, HasDone, IsStatus
  <2>9. Middle(q) /\ ~OneTerminal(q)
    BY <2>1, <2>6 DEF Middle, OneTerminal, Terminal
  <2>10. TauriSteps(r, r2, q, e) /\ TauriAsks(r, q, e)
    BY <1>0, <1>5, <2>1, <2>6, <2>7, <2>8, <2>9 DEF TauriSteps, TauriAsks, Becomes, IsStatus
  <2>11. Tells(r, r.a2ui, q)
    BY <2>1, <2>6 DEF Tells, NoDelete, HasMessage, A2UIMessages
  <2>12. TauriHears(r, r2, q, e)
    BY <1>5, <2>7, <2>8, <2>9, <2>10, <2>11, MiddleHears
  <2> QED
    BY <2>12 DEF r2
<1>6. CASE ~r.finished /\ e.state = "ERROR"
  <2> DEFINE a == Signal("task_failed")
  <2>1. a \in EventRec /\ a.type = "task_failed"
    BY SignalMade DEF EventTypes
  <2>2. TauriStatus(r, e) = Finish(Push(r, <<a>>))
    BY <1>6 DEF TauriStatus
  <2> HIDE DEF a
  <2>3. PICK q \in Seq(EventRec) : q = <<a>> /\ DOMAIN q = {1} /\ Len(q) = 1 /\ q[1] = a
    BY <2>1, OneEvent
  <2>4. Becomes(r, r2, q, TRUE, r.idx, r.a2ui)
    BY <2>2, <2>3, Pushed DEF r2
  <2>5. Finishing(e) /\ ~IsStatus(e, "COMPLETE") /\ e.name # "agent-approval-request"
    BY <1>6 DEF Finishing, IsStatus
  <2>6. OneTerminal(q)
    BY <2>1, <2>3 DEF OneTerminal, Terminal
  <2>7. Grows(r, r2, q) /\ Terminates(r, r2, q)
    BY <2>1, <2>3, <2>4, <2>6 DEF Grows, Becomes, Terminates
  <2>8. Answers(r, r2, q, e) /\ TauriEnds(r, r2, q, e)
    BY <1>6, <2>1, <2>3, <2>4, <2>5 DEF Answers, TauriEnds, Becomes, Tells, NoDelete, HasMessage, A2UIMessages
  <2>9. TauriSteps(r, r2, q, e) /\ TauriAsks(r, q, e)
    BY <2>1, <2>3, <2>4, <2>5 DEF TauriSteps, TauriAsks, Becomes
  <2> QED
    BY <2>7, <2>8, <2>9 DEF TauriHears, r2
<1>7. CASE ~r.finished /\ e.state \notin {"STARTING", "THINKING", "ACTING", "COMPLETE", "ERROR"}
  <2>1. TauriStatus(r, e) = r
    BY <1>7 DEF TauriStatus
  <2>2. ~Finishing(e) /\ ~IsStatus(e, "COMPLETE") /\ e.name # "agent-approval-request"
    BY <1>7 DEF Finishing, IsStatus
  <2> QED
    BY <2>1, <2>2, Untouched
<1> QED
  BY <1>1, <1>2, <1>3, <1>4, <1>5, <1>6, <1>7 DEF r2

LEMMA PatchHears ==
    ASSUME NEW r \in RunRec, NEW e \in KernelEvents, e.name = "agent-ui-patch"
    PROVE  \E q : TauriHears(r, TauriUiPatch(r), q, e)
<1> DEFINE r2 == TauriUiPatch(r)
<1>0. /\ r.idx \in Nat /\ r.idx + 1 \in Nat /\ r.idx # r.idx + 1 /\ r.finished \in BOOLEAN
      /\ e.tool \in ToolNames /\ NoTool \in ToolNames /\ e.key \in Nat
      /\ "llm_reasoning" \in StepKinds /\ "tool_call" \in StepKinds
  BY FieldTypes
<1>1. CASE r.finished
  BY <1>1, Untouched DEF TauriUiPatch
<1> HIDE DEF r2
<1>2. CASE ~r.finished
  <2> DEFINE a == Event("agent_ui_patch", NoStep, NoTool, <<Plain("patch")>>)
  <2>1. a \in EventRec /\ a.type = "agent_ui_patch"
    BY <1>0, BlockEventsMade DEF Bears
  <2>5. TauriUiPatch(r) = Push(r, <<a>>)
    BY <1>2 DEF TauriUiPatch
  <2> HIDE DEF a
  <2>6. PICK q \in Seq(EventRec) : q = <<a>> /\ DOMAIN q = {1} /\ Len(q) = 1 /\ q[1] = a
    BY <2>1, OneEvent
  <2>7. Becomes(r, r2, q, r.finished, r.idx, r.a2ui)
    BY <2>5, <2>6, Pushed DEF r2
  <2>8. ~Finishing(e)
    BY <1>2, <2>1, <2>6 DEF Finishing, HasDone, IsStatus
  <2>9. Middle(q) /\ ~OneTerminal(q)
    BY <2>1, <2>6 DEF Middle, OneTerminal, Terminal
  <2>10. TauriSteps(r, r2, q, e) /\ TauriAsks(r, q, e)
    BY <1>0, <1>2, <2>1, <2>6, <2>7, <2>8, <2>9 DEF TauriSteps, TauriAsks, Becomes, IsStatus
  <2>11. Tells(r, r.a2ui, q)
    BY <2>1, <2>6 DEF Tells, NoDelete, HasMessage, A2UIMessages
  <2>12. TauriHears(r, r2, q, e)
    BY <1>2, <2>7, <2>8, <2>9, <2>10, <2>11, MiddleHears
  <2> QED
    BY <2>12 DEF r2
<1> QED
  BY <1>1, <1>2 DEF r2

LEMMA A2UIHears ==
    ASSUME NEW r \in RunRec, NEW e \in KernelEvents, e.name = "agent-a2ui-message"
    PROVE  \E q : TauriHears(r, TauriA2UIMessage(r, e), q, e)
<1> DEFINE r2 == TauriA2UIMessage(r, e)
           a == Comes(r.a2ui, e.state)
<1>0. /\ r.idx \in Nat /\ r.finished \in BOOLEAN /\ e.state \in A2UIMessages
      /\ ~Finishing(e) /\ ~IsStatus(e, "COMPLETE") /\ e.name # "agent-approval-request"
  BY DEF RunRec, KernelEvents, Finishing, IsStatus
<1>1. CASE r.finished
  BY <1>1, Untouched DEF TauriA2UIMessage
<1>2. CASE ~r.finished
  <2>1. PICK q \in Seq(EventRec) : Messaged(r, e.state, q)
    BY <1>0, MessagePushed
  <2>2. r2 = PushA2UI(r, e.state)
    BY <1>2 DEF TauriA2UIMessage
  <2> HIDE DEF r2, a
  <2>3. Becomes(r, r2, q, r.finished, r.idx, a) /\ Tells(r, a, q)
    BY <2>1, <2>2 DEF Messaged, a
  <2>4. DOMAIN q = {1} /\ q[1].type \in A2UIMessages
    BY <1>0, <2>1 DEF Messaged
  <2>5. Middle(q)
    BY <2>4 DEF Middle, Terminal, A2UIMessages
  <2>6. TauriSteps(r, r2, q, e) /\ TauriAsks(r, q, e)
    BY <1>0, <2>3, <2>4 DEF TauriSteps, TauriAsks, Becomes, A2UIMessages
  <2>7. TauriHears(r, r2, q, e)
    BY <1>0, <1>2, <2>3, <2>5, <2>6, MiddleHears
  <2> QED
    BY <2>7 DEF r2
<1> QED
  BY <1>0, <1>1, <1>2

LEMMA ToolResultHears ==
    ASSUME NEW r \in RunRec, NEW e \in KernelEvents, e.name = "agent-tool-result"
    PROVE  \E q : TauriHears(r, TauriToolResult(r, e), q, e)
<1> DEFINE r2 == TauriToolResult(r, e)
<1>0. /\ r.idx \in Nat /\ r.idx + 1 \in Nat /\ r.idx # r.idx + 1 /\ r.finished \in BOOLEAN
      /\ e.tool \in ToolNames /\ NoTool \in ToolNames /\ e.key \in Nat
      /\ "llm_reasoning" \in StepKinds /\ "tool_call" \in StepKinds
  BY FieldTypes
<1>1. CASE r.finished
  BY <1>1, Untouched DEF TauriToolResult
<1> HIDE DEF r2
<1>2. CASE ~r.finished
  <2> DEFINE a == Completed(r.idx, "tool_call", e.tool)
             b == ToolResult(e.tool)
             c == Started(r.idx + 1, "llm_reasoning", NoTool)
  <2>1. a \in EventRec /\ a.type = "step_completed" /\ a.step.id = ReasonStep(r.idx)
    BY <1>0, StepEventsMade DEF About
  <2>2. b \in EventRec /\ b.type = "agent_tool_result"
    BY <1>0, BlockEventsMade DEF Bears
  <2>3. c \in EventRec /\ c.type = "step_started" /\ c.step.id = ReasonStep(r.idx + 1)
    BY <1>0, StepEventsMade DEF About
  <2>5. TauriToolResult(r, e) = NextStep(Push(r, <<a, b, c>>))
    BY <1>2 DEF TauriToolResult
  <2> HIDE DEF a, b, c
  <2>6. PICK q \in Seq(EventRec) : q = <<a, b, c>> /\ DOMAIN q = {1, 2, 3} /\ Len(q) = 3 /\ q[1] = a /\ q[2] = b /\ q[3] = c
    BY <2>1, <2>2, <2>3, ThreeEvents
  <2>7. Becomes(r, r2, q, r.finished, r.idx + 1, r.a2ui)
    BY <2>5, <2>6, Pushed DEF r2
  <2>8. HasDone(q, r.idx) /\ ~Finishing(e)
    BY <1>2, <2>1, <2>2, <2>3, <2>6 DEF Finishing, HasDone, IsStatus
  <2>9. Middle(q) /\ ~OneTerminal(q)
    BY <2>1, <2>2, <2>3, <2>6 DEF Middle, OneTerminal, Terminal
  <2>10. TauriSteps(r, r2, q, e) /\ TauriAsks(r, q, e)
    BY <1>0, <1>2, <2>1, <2>2, <2>3, <2>6, <2>7, <2>8, <2>9 DEF TauriSteps, TauriAsks, Becomes, IsStatus
  <2>11. Tells(r, r.a2ui, q)
    BY <2>1, <2>2, <2>3, <2>6 DEF Tells, NoDelete, HasMessage, A2UIMessages
  <2>12. TauriHears(r, r2, q, e)
    BY <1>2, <2>7, <2>8, <2>9, <2>10, <2>11, MiddleHears
  <2> QED
    BY <2>12 DEF r2
<1> QED
  BY <1>1, <1>2 DEF r2

LEMMA ApprovalHears ==
    ASSUME NEW r \in RunRec, NEW e \in KernelEvents, e.name = "agent-approval-request"
    PROVE  \E q : TauriHears(r, TauriApproval(r, e), q, e)
<1> DEFINE r2 == TauriApproval(r, e)
<1>0. /\ r.idx \in Nat /\ r.idx + 1 \in Nat /\ r.idx # r.idx + 1 /\ r.finished \in BOOLEAN
      /\ e.tool \in ToolNames /\ NoTool \in ToolNames /\ e.key \in Nat
      /\ "llm_reasoning" \in StepKinds /\ "tool_call" \in StepKinds
  BY FieldTypes
<1>1. CASE r.finished
  BY <1>1, Untouched DEF TauriApproval
<1> HIDE DEF r2
<1>2. CASE ~r.finished
  <2> DEFINE a == Completed(r.idx, "llm_reasoning", NoTool)
             b == ApprovalFor(e.key, e.tool)
  <2>1. a \in EventRec /\ a.type = "step_completed" /\ a.step.id = ReasonStep(r.idx)
    BY <1>0, StepEventsMade DEF About
  <2>2. b \in EventRec /\ b.type = "approval_required" /\ b.step.id = ApprovalStep(e.key)
    BY <1>0, ApprovalMade
  <2>5. TauriApproval(r, e) = NextStep(Push(r, <<a, b>>))
    BY <1>2 DEF TauriApproval
  <2> HIDE DEF a, b
  <2>6. PICK q \in Seq(EventRec) : q = <<a, b>> /\ DOMAIN q = {1, 2} /\ Len(q) = 2 /\ q[1] = a /\ q[2] = b
    BY <2>1, <2>2, TwoEvents
  <2>7. Becomes(r, r2, q, r.finished, r.idx + 1, r.a2ui)
    BY <2>5, <2>6, Pushed DEF r2
  <2>8. HasDone(q, r.idx) /\ ~Finishing(e)
    BY <1>2, <2>1, <2>2, <2>6 DEF Finishing, HasDone, IsStatus
  <2>9. Middle(q) /\ ~OneTerminal(q)
    BY <2>1, <2>2, <2>6 DEF Middle, OneTerminal, Terminal
  <2>10. TauriSteps(r, r2, q, e) /\ TauriAsks(r, q, e)
    BY <1>0, <1>2, <2>1, <2>2, <2>6, <2>7, <2>8, <2>9 DEF TauriSteps, TauriAsks, Becomes, IsStatus
  <2>11. Tells(r, r.a2ui, q)
    BY <2>1, <2>2, <2>6 DEF Tells, NoDelete, HasMessage, A2UIMessages
  <2>12. TauriHears(r, r2, q, e)
    BY <1>2, <2>7, <2>8, <2>9, <2>10, <2>11, MiddleHears
  <2> QED
    BY <2>12 DEF r2
<1> QED
  BY <1>1, <1>2 DEF r2

LEMMA CacheHitHears ==
    ASSUME NEW r \in RunRec, NEW e \in KernelEvents, e.name = "intent-cache-hit"
    PROVE  \E q : TauriHears(r, TauriCacheHit(r, e), q, e)
<1> DEFINE r2 == TauriCacheHit(r, e)
<1>0. /\ r.idx \in Nat /\ r.idx + 1 \in Nat /\ r.idx # r.idx + 1 /\ r.finished \in BOOLEAN
      /\ e.tool \in ToolNames /\ NoTool \in ToolNames /\ e.key \in Nat
      /\ "llm_reasoning" \in StepKinds /\ "tool_call" \in StepKinds
  BY FieldTypes
<1>1. CASE r.finished
  BY <1>1, Untouched DEF TauriCacheHit
<1> HIDE DEF r2
<1>2. CASE ~r.finished
  <2> DEFINE a == Started(r.idx, "tool_call", e.tool)
  <2>1. a \in EventRec /\ a.type = "step_started" /\ a.step.id = ReasonStep(r.idx)
    BY <1>0, StepEventsMade DEF About
  <2>5. TauriCacheHit(r, e) = Push(r, <<a>>)
    BY <1>2 DEF TauriCacheHit
  <2> HIDE DEF a
  <2>6. PICK q \in Seq(EventRec) : q = <<a>> /\ DOMAIN q = {1} /\ Len(q) = 1 /\ q[1] = a
    BY <2>1, OneEvent
  <2>7. Becomes(r, r2, q, r.finished, r.idx, r.a2ui)
    BY <2>5, <2>6, Pushed DEF r2
  <2>8. ~Finishing(e)
    BY <1>2, <2>1, <2>6 DEF Finishing, HasDone, IsStatus
  <2>9. Middle(q) /\ ~OneTerminal(q)
    BY <2>1, <2>6 DEF Middle, OneTerminal, Terminal
  <2>10. TauriSteps(r, r2, q, e) /\ TauriAsks(r, q, e)
    BY <1>0, <1>2, <2>1, <2>6, <2>7, <2>8, <2>9 DEF TauriSteps, TauriAsks, Becomes, IsStatus
  <2>11. Tells(r, r.a2ui, q)
    BY <2>1, <2>6 DEF Tells, NoDelete, HasMessage, A2UIMessages
  <2>12. TauriHears(r, r2, q, e)
    BY <1>2, <2>7, <2>8, <2>9, <2>10, <2>11, MiddleHears
  <2> QED
    BY <2>12 DEF r2
<1> QED
  BY <1>1, <1>2 DEF r2

\* The end of a run that answers: anything but an answer or an end, then both.
Concludes(q, b) ==
    /\ Len(q) \in Nat /\ Len(q) >= 2 /\ DOMAIN q = 1 .. Len(q)
    /\ q[Len(q)].type = "task_completed"
    /\ q[Len(q) - 1].type = IF mode = "os" THEN "conversation_message" ELSE "card_generated"
    /\ mode = "task" => q[Len(q) - 1].blocks = b
    /\ \A i \in 1 .. Len(q) - 2 : q[i].type \in A2UIMessages \cup {"step_completed", "agent_tool_result"}

\* Where the answer of a conclusion stands, in its blocks b or in A2UI messages, a
\* being what these come to.
Given(b, e, a) ==
    \/ HasSort(b, "final")
    \/ e.name = "agent-response" /\ e.body = "empty"
    \/ a # "no"

LEMMA AnswerMade ==
    ASSUME NEW b \in Seq(BlockRec), mode \in {"task", "os"}
    PROVE  \E x \in EventRec, y \in EventRec :
             /\ Answer(b) = <<x, y>> /\ y.type = "task_completed"
             /\ x.type = IF mode = "os" THEN "conversation_message" ELSE "card_generated"
             /\ mode = "task" => x.blocks = b
<1> DEFINE m == Signal("conversation_message")
           c == Event("card_generated", NoStep, NoTool, b)
           y == Signal("task_completed")
<1>1. m \in EventRec /\ m.type = "conversation_message" /\ y \in EventRec /\ y.type = "task_completed"
  BY SignalMade DEF EventTypes
<1>2. c \in EventRec /\ c.type = "card_generated" /\ c.blocks = b
  BY BlockEventsMade DEF Bears
<1>3. Answer(b) = <<IF mode = "os" THEN m ELSE c, y>>
  BY DEF Answer
<1> HIDE DEF m, c, y
<1>4. CASE mode = "os"
  BY <1>1, <1>3, <1>4
<1>5. CASE mode = "task"
  BY <1>1, <1>2, <1>3, <1>5
<1> QED
  BY <1>4, <1>5

LEMMA Concluded ==
    ASSUME NEW r \in RunRec, NEW r2 \in RunRec, NEW q \in Seq(EventRec), NEW b, NEW e,
           mode \in {"task", "os"}, r2.finished, Concludes(q, b),
           Tells(r, r2.a2ui, q), Given(b, e, r2.a2ui)
    PROVE  Terminates(r, r2, q) /\ Answers(r, r2, q, e) /\ OneTerminal(q)
<1>1. PICK n \in Nat : n = Len(q)
  BY DEF Concludes
<1>2. /\ n >= 2 /\ DOMAIN q = 1 .. n /\ q[n].type = "task_completed"
      /\ q[n - 1].type = IF mode = "os" THEN "conversation_message" ELSE "card_generated"
      /\ mode = "task" => q[n - 1].blocks = b
      /\ \A i \in 1 .. n - 2 : q[i].type \in A2UIMessages \cup {"step_completed", "agent_tool_result"}
  BY <1>1 DEF Concludes
<1>3. \A i \in 1 .. n : i = n \/ i = n - 1 \/ i \in 1 .. n - 2
  BY <1>2
<1>4. q # <<>>
  BY <1>1, <1>2
<1>5. \A i \in 1 .. n : q[i].type \in Terminal <=> i = n
  BY <1>2, <1>3 DEF Terminal, A2UIMessages
<1>6. OneTerminal(q)
  BY <1>1, <1>2, <1>4, <1>5 DEF OneTerminal
<1>7. \A i \in 1 .. n : q[i].type = "conversation_message" => i = n - 1
  BY <1>2, <1>3 DEF A2UIMessages
<1>8. n - 1 < n /\ (n - 1) + 1 = n /\ n - 1 \in 1 .. n
  BY <1>2
<1>9. Terminates(r, r2, q)
  <2> SUFFICES ASSUME NEW i \in DOMAIN q, q[i].type = "conversation_message"
               PROVE  i < Len(q) /\ q[i + 1].type \in Terminal
    BY <1>6 DEF Terminates
  <2>1. i = n - 1
    BY <1>2, <1>7
  <2> QED
    BY <1>1, <1>2, <1>8, <2>1 DEF Terminal
<1>10. \A i \in 1 .. n : mode = "task" /\ q[i].type = "task_completed" => i = n
  BY <1>2, <1>3 DEF A2UIMessages
<1>11. \A i \in 1 .. n : mode = "task" /\ q[i].type = "card_generated" => i = n - 1
  BY <1>2, <1>3 DEF A2UIMessages
<1>12. mode = "task" => Before(q, n, "card_generated")
  BY <1>2, <1>8 DEF Before
<1>13. Answers(r, r2, q, e)
  <2> SUFFICES ASSUME mode = "task", NEW i \in DOMAIN q
               PROVE  /\ q[i].type = "task_completed" => Before(q, i, "card_generated")
                      /\ q[i].type = "card_generated" =>
                           \/ HasSort(q[i].blocks, "final")
                           \/ e.name = "agent-response" /\ e.body = "empty"
                           \/ r2.a2ui # "no"
    BY DEF Answers
  <2>1. q[i].type = "task_completed" => Before(q, i, "card_generated")
    BY <1>2, <1>10, <1>12
  <2>2. q[i].type = "card_generated" => i = Len(q) - 1 /\ q[i].blocks = b
    BY <1>1, <1>2, <1>11
  <2> QED
    BY <2>1, <2>2 DEF Given
<1> QED
  BY <1>6, <1>9, <1>13

LEMMA ConcludeHears ==
    ASSUME NEW r \in RunRec, NEW r2 \in RunRec, NEW q \in Seq(EventRec), NEW b, NEW e \in KernelEvents,
           mode \in {"task", "os"}, Becomes(r, r2, q, r2.finished, r.idx, r2.a2ui), Concludes(q, b),
           r2.finished, Tells(r, r2.a2ui, q), Given(b, e, r2.a2ui),
           e.name = "agent-response" \/ (e.name = "intent-cache-result" /\ ~r.finished)
    PROVE  TauriHears(r, r2, q, e)
<1>1. r2.finished /\ r2.idx = r.idx
  BY DEF Becomes
<1>2. Terminates(r, r2, q) /\ Answers(r, r2, q, e) /\ OneTerminal(q)
  BY <1>1, Concluded
<1>3. Grows(r, r2, q)
  BY DEF Grows, Becomes
<1>4. Finishing(e) /\ ~IsStatus(e, "COMPLETE") /\ e.name # "agent-approval-request"
  BY DEF Finishing, IsStatus
<1>5. TauriEnds(r, r2, q, e)
  BY <1>1, <1>2, <1>4 DEF TauriEnds, Becomes
<1>6. \A i \in DOMAIN q : q[i].type \notin {"step_started", "approval_required"}
  <2>1. PICK n \in Nat : n = Len(q)
    BY DEF Concludes
  <2>2. /\ n >= 2 /\ DOMAIN q = 1 .. n /\ q[n].type = "task_completed"
        /\ q[n - 1].type \in {"conversation_message", "card_generated"}
        /\ \A i \in 1 .. n - 2 : q[i].type \in A2UIMessages \cup {"step_completed", "agent_tool_result"}
    BY <2>1 DEF Concludes
  <2>3. \A i \in 1 .. n : i = n \/ i = n - 1 \/ i \in 1 .. n - 2
    BY <2>2
  <2> QED
    BY <2>2, <2>3 DEF A2UIMessages
<1>7. TauriSteps(r, r2, q, e)
  BY <1>1, <1>4, <1>6 DEF TauriSteps
<1>8. TauriAsks(r, q, e)
  BY <1>4, <1>6 DEF TauriAsks
<1> QED
  BY <1>2, <1>3, <1>5, <1>7, <1>8 DEF TauriHears

LEMMA StreamHears ==
    ASSUME NEW r \in RunRec, NEW e \in KernelEvents, e.name = "agent-stream", ~r.finished
    PROVE  \E q : TauriHears(r, TauriStream(r), q, e)
<1> DEFINE a == Signal("agent_stream")
           r2 == TauriStream(r)
<1>1. a \in EventRec /\ a.type = "agent_stream"
  BY SignalMade DEF EventTypes
<1>2. r2 = Push(r, <<a>>)
  BY DEF TauriStream
<1> HIDE DEF a, r2
<1>3. PICK q \in Seq(EventRec) : q = <<a>> /\ DOMAIN q = {1} /\ Len(q) = 1 /\ q[1] = a
  BY <1>1, OneEvent
<1>4. Becomes(r, r2, q, r.finished, r.idx, r.a2ui)
  BY <1>2, <1>3, Pushed
<1>5. ~Finishing(e) /\ ~IsStatus(e, "COMPLETE") /\ e.name # "agent-approval-request"
  BY DEF Finishing, IsStatus
<1>6. Middle(q)
  BY <1>1, <1>3 DEF Middle, Terminal
<1>7. TauriSteps(r, r2, q, e) /\ TauriAsks(r, q, e)
  BY <1>1, <1>3, <1>4, <1>5 DEF TauriSteps, TauriAsks, Becomes
<1>8. Tells(r, r.a2ui, q)
  BY <1>1, <1>3 DEF Tells, NoDelete, HasMessage, A2UIMessages
<1>9. TauriHears(r, r2, q, e)
  BY <1>4, <1>5, <1>6, <1>7, <1>8, MiddleHears
<1> QED
  BY <1>9 DEF r2

\* The response is pushed alone or after an A2UI message of its own.
LEMMA ResponsePushes ==
    ASSUME NEW r \in RunRec, NEW e \in KernelEvents, mode \in {"task", "os"}, e.name = "agent-response"
    PROVE  LET q == A2UIOf(r, e)
               p == Push(q, Answer(ResponseBlocks(q, e)))
           IN  \E t \in Seq(EventRec), b \in Seq(BlockRec), a \in {"no", "surface", "other"} :
                 /\ Becomes(r, p, t, r.finished, r.idx, a) /\ Becomes(r, Finish(p), t, TRUE, r.idx, a)
                 /\ Concludes(t, b)
                 /\ Tells(r, a, t) /\ Given(b, e, a)
<1> DEFINE q == A2UIOf(r, e)
           b == ResponseBlocks(q, e)
           p == Push(q, Answer(b))
<1>0. r.a2ui \in {"no", "surface", "other"} /\ e.body \in Responses
  BY DEF RunRec, KernelEvents
<1>2. b \in Seq(BlockRec) /\ (b = <<Plain("final")>> \/ q.a2ui # "no" \/ e.body # "text")
  BY BlockEventsMade DEF ResponseBlocks, HadA2UI
<1>3. b = <<Plain("final")>> => HasSort(b, "final")
  BY BlockEventsMade
<1> HIDE DEF b
<1>4. PICK x \in EventRec, y \in EventRec :
             /\ Answer(b) = <<x, y>> /\ y.type = "task_completed"
             /\ x.type = IF mode = "os" THEN "conversation_message" ELSE "card_generated"
             /\ mode = "task" => x.blocks = b
  BY <1>2, AnswerMade
<1>5. PICK two \in Seq(EventRec) : two = <<x, y>> /\ DOMAIN two = {1, 2} /\ Len(two) = 2 /\ two[1] = x /\ two[2] = y
  BY TwoEvents
<1>6. CASE e.body \in A2UIMessages /\ r.a2ui = "no"
  <2> DEFINE a == Comes(r.a2ui, e.body)
  <2>1. q = PushA2UI(r, e.body)
    BY <1>6 DEF A2UIOf, HadA2UI
  <2>2. PICK one \in Seq(EventRec) : Messaged(r, e.body, one)
    BY <1>6, MessagePushed
  <2> HIDE DEF q, a
  <2>3. Becomes(r, q, one, r.finished, r.idx, a) /\ a # "no" /\ Tells(r, a, one)
    BY <2>1, <2>2 DEF Messaged, a
  <2>4. /\ DOMAIN one = {1} /\ Len(one) = 1 /\ one[1] \in EventRec
        /\ one[1].type \in A2UIMessages
    BY <1>6, <2>2 DEF Messaged
  <2>5. q \in RunRec /\ q.a2ui = a /\ p = Push(q, two)
    BY <1>4, <1>5, <2>3 DEF Becomes
  <2> HIDE DEF p
  <2>6. Becomes(q, p, two, q.finished, q.idx, q.a2ui) /\ Becomes(q, Finish(p), two, TRUE, q.idx, q.a2ui)
    BY <2>5, Pushed
  <2>7. PICK t \in Seq(EventRec) : t = one \o two
    BY ConcatProperties
  <2>8. /\ Len(t) = 3 /\ DOMAIN t = 1 .. 3 /\ t[1] = one[1] /\ t[2] = x /\ t[3] = y
    <3>1. Len(t) = 3 /\ \A i \in 1 .. 3 : t[i] = IF i <= 1 THEN one[i] ELSE two[i - 1]
      BY <1>5, <2>4, <2>7, ConcatProperties
    <3>2. DOMAIN t = 1 .. 3
      BY <3>1
    <3> QED
      BY <1>5, <3>1, <3>2
  <2>9. (r.queue \o one) \o two = r.queue \o t /\ r.queue \in Seq(EventRec)
    BY <2>7, ConcatAssociative DEF RunRec
  <2>10. Becomes(r, p, t, r.finished, r.idx, a) /\ Becomes(r, Finish(p), t, TRUE, r.idx, a)
    BY <2>3, <2>5, <2>6, <2>9 DEF Becomes
  <2>11. Concludes(t, b)
    BY <1>4, <2>4, <2>8 DEF Concludes
  <2>12. Tells(r, a, t)
    <3>1. t[2].type # "deleteSurface" /\ t[3].type # "deleteSurface"
      BY <1>4, <2>8
    <3>2. NoDelete(one) => NoDelete(t)
      BY <2>4, <2>8, <3>1 DEF NoDelete
    <3>3. Opens(one) => Opens(t)
      BY <2>4, <2>8, <3>1 DEF Opens
    <3> QED
      BY <2>3, <3>2, <3>3 DEF Tells
  <2>13. Given(b, e, a) /\ a \in {"no", "surface", "other"}
    BY <2>3, <2>5 DEF Given, RunRec
  <2> QED
    BY <1>2, <2>10, <2>11, <2>12, <2>13 DEF p, q, b
<1>7. CASE ~(e.body \in A2UIMessages /\ r.a2ui = "no")
  <2>1. q = r
    BY <1>7 DEF A2UIOf, HadA2UI
  <2> HIDE DEF q
  <2>2. p = Push(r, two)
    BY <1>4, <1>5, <2>1
  <2> HIDE DEF p
  <2>3. Becomes(r, p, two, r.finished, r.idx, r.a2ui) /\ Becomes(r, Finish(p), two, TRUE, r.idx, r.a2ui)
    BY <2>2, Pushed
  <2>4. Concludes(two, b)
    <3>1. DOMAIN two = 1 .. 2
      BY <1>5
    <3> QED
      BY <1>4, <1>5, <3>1 DEF Concludes
  <2>5. HasSort(b, "final") \/ e.body = "empty" \/ r.a2ui # "no"
    BY <1>0, <1>2, <1>3, <1>7, <2>1 DEF Responses, A2UIMessages
  <2>6. Tells(r, r.a2ui, two) /\ Given(b, e, r.a2ui)
    <3>1. \A i \in DOMAIN two : two[i].type \notin A2UIMessages /\ two[i].type # "deleteSurface"
      BY <1>4, <1>5 DEF A2UIMessages
    <3> QED
      BY <2>5, <3>1 DEF Tells, Given, NoDelete, HasMessage
  <2> QED
    BY <1>0, <1>2, <2>3, <2>4, <2>6 DEF p, q, b
<1> QED
  BY <1>6, <1>7

LEMMA ResponseHears ==
    ASSUME NEW r \in RunRec, NEW e \in KernelEvents, mode \in {"task", "os"}, e.name = "agent-response"
    PROVE  \E q : TauriHears(r, TauriResponse(r, e), q, e)
<1> DEFINE q == A2UIOf(r, e)
           p == Push(q, Answer(ResponseBlocks(q, e)))
           r2 == TauriResponse(r, e)
<1>1. r2 = Finish(p)
  BY DEF TauriResponse
<1>2. PICK t \in Seq(EventRec), b \in Seq(BlockRec), a \in {"no", "surface", "other"} :
         /\ Becomes(r, Finish(p), t, TRUE, r.idx, a)
         /\ Concludes(t, b)
         /\ Tells(r, a, t) /\ Given(b, e, a)
  BY ResponsePushes
<1> HIDE DEF p, q, r2
<1>3. Becomes(r, r2, t, r2.finished, r.idx, r2.a2ui) /\ r2 \in RunRec /\ r2.finished /\ r2.a2ui = a
  BY <1>1, <1>2 DEF Becomes
<1>4. TauriHears(r, r2, t, e)
  BY <1>2, <1>3, ConcludeHears
<1> QED
  BY <1>4 DEF r2

LEMMA CacheResultHears ==
    ASSUME NEW r \in RunRec, NEW e \in KernelEvents, mode \in {"task", "os"}, e.name = "intent-cache-result"
    PROVE  \E q : TauriHears(r, TauriCacheResult(r, e), q, e)
<1> DEFINE r2 == TauriCacheResult(r, e)
           b == <<Plain("final")>>
           c == Completed(r.idx, "tool_call", e.tool)
           d == ToolResult(e.tool)
<1>0. /\ r.idx \in Nat /\ e.tool \in ToolNames /\ "tool_call" \in StepKinds
  BY FieldTypes
<1>1. CASE r.finished
  BY <1>1, Untouched DEF TauriCacheResult
<1>2. CASE ~r.finished
  <2>1. c \in EventRec /\ c.type = "step_completed"
    BY <1>0, StepEventsMade DEF About
  <2>2. d \in EventRec /\ d.type = "agent_tool_result"
    BY <1>0, BlockEventsMade DEF Bears
  <2>3. b \in Seq(BlockRec) /\ HasSort(b, "final")
    BY BlockEventsMade
  <2>4. r2 = Finish(Push(r, <<c, d>> \o Answer(b)))
    BY <1>2 DEF TauriCacheResult
  <2> HIDE DEF b, c, d, r2
  <2>5. PICK x \in EventRec, y \in EventRec :
             /\ Answer(b) = <<x, y>> /\ y.type = "task_completed"
             /\ x.type = IF mode = "os" THEN "conversation_message" ELSE "card_generated"
             /\ mode = "task" => x.blocks = b
    BY <2>3, AnswerMade
  <2>6. PICK q \in Seq(EventRec) : Four(q, c, d, x, y)
    BY <2>1, <2>2, FourEvents
  <2>7. /\ Becomes(r, r2, q, r2.finished, r.idx, r2.a2ui) /\ r2 \in RunRec
        /\ r2.finished /\ r2.a2ui = r.a2ui
    <3>1. r2 = Finish(Push(r, q))
      BY <2>4, <2>5, <2>6 DEF Four
    <3>2. Becomes(r, r2, q, TRUE, r.idx, r.a2ui)
      BY <3>1, Pushed
    <3> QED
      BY <3>2 DEF Becomes
  <2>8. Concludes(q, b)
    <3>1. DOMAIN q = 1 .. 4
      BY <2>6 DEF Four
    <3> QED
      BY <2>1, <2>2, <2>5, <2>6, <3>1 DEF Concludes, Four
  <2>9. Tells(r, r2.a2ui, q) /\ Given(b, e, r2.a2ui)
    <3>1. \A i \in DOMAIN q : q[i].type \notin A2UIMessages /\ q[i].type # "deleteSurface"
      BY <2>1, <2>2, <2>5, <2>6 DEF Four, A2UIMessages
    <3> QED
      BY <2>3, <2>7, <3>1 DEF Tells, Given, NoDelete, HasMessage
  <2>10. TauriHears(r, r2, q, e)
    BY <1>2, <2>7, <2>8, <2>9, ConcludeHears
  <2> QED
    BY <2>10 DEF r2
<1> QED
  BY <1>1, <1>2

\* Whatever a Tauri run hears.
LEMMA OnTauriHears ==
    ASSUME NEW r \in RunRec, NEW e \in KernelEvents, mode \in {"task", "os"}, e.name # "silence",
           IsStatus(e, "STARTING") => r.idx = 0, e.name = "agent-stream" => ~r.finished
    PROVE  \E q : TauriHears(r, OnTauri(r, e), q, e)
<1>1. CASE e.name = "agent-status-update"
  BY <1>1, StatusHears DEF OnTauri, IsStatus
<1>2. CASE e.name = "agent-stream"
  BY <1>2, StreamHears DEF OnTauri
<1>3. CASE e.name = "agent-response"
  BY <1>3, ResponseHears DEF OnTauri
<1>4. CASE e.name = "agent-ui-patch"
  BY <1>4, PatchHears DEF OnTauri
<1>5. CASE e.name = "agent-a2ui-message"
  BY <1>5, A2UIHears DEF OnTauri
<1>6. CASE e.name = "agent-tool-result"
  BY <1>6, ToolResultHears DEF OnTauri
<1>7. CASE e.name = "agent-approval-request"
  BY <1>7, ApprovalHears DEF OnTauri
<1>8. CASE e.name = "intent-cache-hit"
  BY <1>8, CacheHitHears DEF OnTauri
<1>9. CASE e.name = "intent-cache-result"
  BY <1>9, CacheResultHears DEF OnTauri
<1>10. e.name \in EventNames
  BY DEF KernelEvents
<1> QED
  BY <1>1, <1>2, <1>3, <1>4, <1>5, <1>6, <1>7, <1>8, <1>9, <1>10 DEF EventNames

(***************************************************************************)
(* The listeners of a remote client, the fallback and the lost connection.   *)
(***************************************************************************)
\* r2 is r with q pushed and possibly the timer changed and the source closed.
BecomesSse(r, r2, q, f, a) ==
    /\ r2 \in RunRec /\ r2.queue = r.queue \o q
    /\ r2.phase = r.phase /\ r2.listening = r.listening
    /\ r2.source = r.source \/ (r.source = "open" /\ r2.source = "closed")
    /\ (r2.finished <=> f) /\ r2.a2ui = a

LEMMA SseFields ==
    ASSUME NEW r \in RunRec, NEW r2, NEW q, NEW f, NEW a, NEW b \in BOOLEAN, BecomesSse(r, r2, q, f, a)
    PROVE  BecomesSse(r, [r2 EXCEPT !.timer = b], q, f, a) /\ BecomesSse(r, CloseSource(r2), q, f, a)
<1>1. r2 \in RunRec
  BY DEF BecomesSse
<1>2. [r2 EXCEPT !.timer = b] \in RunRec /\ CloseSource(r2) \in RunRec
  BY <1>1 DEF RunRec, CloseSource
<1>3. BecomesSse(r, [r2 EXCEPT !.timer = b], q, f, a)
  BY <1>1, <1>2 DEF BecomesSse, RunRec
<1>4. BecomesSse(r, CloseSource(r2), q, f, a)
  BY <1>1, <1>2 DEF BecomesSse, RunRec, CloseSource
<1> QED
  BY <1>3, <1>4

LEMMA SsePushed ==
    ASSUME NEW r \in RunRec, NEW q \in Seq(EventRec)
    PROVE  /\ BecomesSse(r, Push(r, q), q, r.finished, r.a2ui)
           /\ BecomesSse(r, NextStep(Push(r, q)), q, r.finished, r.a2ui)
           /\ BecomesSse(r, Finish(Push(r, q)), q, TRUE, r.a2ui)
<1>1. /\ Becomes(r, Push(r, q), q, r.finished, r.idx, r.a2ui)
      /\ Becomes(r, NextStep(Push(r, q)), q, r.finished, r.idx + 1, r.a2ui)
      /\ Becomes(r, Finish(Push(r, q)), q, TRUE, r.idx, r.a2ui)
  BY Pushed
<1>2. ASSUME NEW r2, NEW f, NEW n, Becomes(r, r2, q, f, n, r.a2ui)
      PROVE  BecomesSse(r, r2, q, f, r.a2ui)
  BY <1>2 DEF Becomes, BecomesSse
<1> QED
  BY <1>1, <1>2

LEMMA SseMiddle ==
    ASSUME NEW r \in RunRec, NEW r2, NEW q \in Seq(EventRec), NEW e,
           ~r.finished, BecomesSse(r, r2, q, r.finished, r.a2ui), Middle(q), Calm(q)
    PROVE  SseHears(r, r2, q, e)
<1>1. NoTerminal(q) /\ \A i \in DOMAIN q : q[i].type \notin {"conversation_message", "card_generated", "task_completed"}
  BY DEF Middle, NoTerminal, Terminal
<1>2. Grows(r, r2, q)
  BY DEF Grows, BecomesSse
<1>3. Terminates(r, r2, q)
  BY <1>1 DEF Terminates, BecomesSse
<1>4. Answers(r, r2, q, e)
  BY <1>1 DEF Answers, BecomesSse, Tells, Calm
<1> QED
  BY <1>2, <1>3, <1>4 DEF SseHears

\* A listener that pushes nothing.
LEMMA SseUntouched ==
    ASSUME NEW r \in RunRec, NEW e, NEW b \in BOOLEAN
    PROVE  /\ \E q : SseHears(r, r, q, e)
           /\ \E q : SseHears(r, [r EXCEPT !.timer = b], q, e)
           /\ \E q : SseHears(r, CloseSource(r), q, e)
<1>1. PICK q \in Seq(EventRec) : q = <<>> /\ DOMAIN q = {} /\ Len(q) = 0 /\ r.queue \o q = r.queue
  BY NoEvents
<1>2. BecomesSse(r, r, q, r.finished, r.a2ui)
  BY <1>1 DEF BecomesSse
<1>3. \A r2 : BecomesSse(r, r2, q, r.finished, r.a2ui) => SseHears(r, r2, q, e)
  <2> SUFFICES ASSUME NEW r2, BecomesSse(r, r2, q, r.finished, r.a2ui) PROVE SseHears(r, r2, q, e)
    OBVIOUS
  <2>1. Grows(r, r2, q)
    BY DEF Grows, BecomesSse
  <2>2. Terminates(r, r2, q) /\ Answers(r, r2, q, e)
    BY <1>1 DEF Terminates, NoTerminal, Answers, BecomesSse, Tells, NoDelete, HasMessage
  <2> QED
    BY <1>1, <2>1, <2>2 DEF SseHears
<1>4. BecomesSse(r, [r EXCEPT !.timer = b], q, r.finished, r.a2ui) /\ BecomesSse(r, CloseSource(r), q, r.finished, r.a2ui)
  BY <1>2, SseFields
<1> QED
  BY <1>2, <1>3, <1>4

LEMMA SseFails ==
    ASSUME NEW r \in RunRec, NEW e, ~r.finished
    PROVE  \E q : SseHears(r, CloseSource([Finish(Push(r, <<Signal("task_failed")>>)) EXCEPT !.timer = FALSE]), q, e)
<1> DEFINE a == Signal("task_failed")
           r2 == CloseSource([Finish(Push(r, <<a>>)) EXCEPT !.timer = FALSE])
<1>1. a \in EventRec /\ a.type = "task_failed"
  BY SignalMade DEF EventTypes
<1> HIDE DEF a
<1>2. PICK q \in Seq(EventRec) : q = <<a>> /\ DOMAIN q = {1} /\ Len(q) = 1 /\ q[1] = a
  BY <1>1, OneEvent
<1>3. BecomesSse(r, Finish(Push(r, <<a>>)), q, TRUE, r.a2ui)
  BY <1>2, SsePushed
<1>4. BecomesSse(r, [Finish(Push(r, <<a>>)) EXCEPT !.timer = FALSE], q, TRUE, r.a2ui)
  BY <1>3, SseFields
<1>5. BecomesSse(r, r2, q, TRUE, r.a2ui)
  BY <1>4, SseFields
<1> HIDE DEF r2
<1>6. OneTerminal(q)
  BY <1>1, <1>2 DEF OneTerminal, Terminal
<1>7. Grows(r, r2, q) /\ Terminates(r, r2, q)
  BY <1>1, <1>2, <1>5, <1>6 DEF Grows, BecomesSse, Terminates
<1>8. Answers(r, r2, q, e)
  BY <1>1, <1>2, <1>5 DEF Answers, BecomesSse, Tells, NoDelete, HasMessage, A2UIMessages
<1>9. SseHears(r, r2, q, e)
  BY <1>7, <1>8 DEF SseHears
<1> QED
  BY <1>9 DEF r2, a

LEMMA SseFallbackHears ==
    ASSUME NEW r \in RunRec, NEW e, mode \in {"task", "os"}, ~r.finished
    PROVE  \E q : SseHears(r, SseFallback(r), q, e)
<1> DEFINE b == <<Plain("final")>>
           r2 == SseFallback(r)
<1>1. b \in Seq(BlockRec) /\ HasSort(b, "final")
  BY BlockEventsMade
<1>2. r2 = CloseSource([Finish(Push(r, Answer(b))) EXCEPT !.timer = FALSE])
  BY DEF SseFallback
<1> HIDE DEF b, r2
<1>3. PICK x \in EventRec, y \in EventRec :
         /\ Answer(b) = <<x, y>> /\ y.type = "task_completed"
         /\ x.type = IF mode = "os" THEN "conversation_message" ELSE "card_generated"
         /\ mode = "task" => x.blocks = b
  BY <1>1, AnswerMade
<1>4. PICK q \in Seq(EventRec) : q = <<x, y>> /\ DOMAIN q = {1, 2} /\ Len(q) = 2 /\ q[1] = x /\ q[2] = y
  BY TwoEvents
<1>5. BecomesSse(r, Finish(Push(r, q)), q, TRUE, r.a2ui)
  BY SsePushed
<1>6. BecomesSse(r, [Finish(Push(r, q)) EXCEPT !.timer = FALSE], q, TRUE, r.a2ui)
  BY <1>5, SseFields
<1>7. BecomesSse(r, CloseSource([Finish(Push(r, q)) EXCEPT !.timer = FALSE]), q, TRUE, r.a2ui)
  BY <1>6, SseFields
<1>8. BecomesSse(r, r2, q, r2.finished, r2.a2ui) /\ r2 \in RunRec /\ r2.finished /\ r2.a2ui = r.a2ui
  BY <1>2, <1>3, <1>4, <1>7 DEF BecomesSse
<1>9. Concludes(q, b)
  <2>1. DOMAIN q = 1 .. 2
    BY <1>4
  <2> QED
    BY <1>3, <1>4, <2>1 DEF Concludes
<1>10. Tells(r, r2.a2ui, q) /\ Given(b, e, r2.a2ui)
  <2>1. \A i \in DOMAIN q : q[i].type \notin A2UIMessages /\ q[i].type # "deleteSurface"
    BY <1>3, <1>4 DEF A2UIMessages
  <2> QED
    BY <1>1, <1>8, <2>1 DEF Tells, Given, NoDelete, HasMessage
<1>11. SseHears(r, r2, q, e)
  <2>1. Terminates(r, r2, q) /\ Answers(r, r2, q, e)
    BY <1>8, <1>9, <1>10, Concluded
  <2>2. Grows(r, r2, q)
    BY <1>8 DEF Grows, BecomesSse
  <2> QED
    BY <2>1, <2>2 DEF SseHears
<1> QED
  BY <1>11 DEF r2

LEMMA SseResponseHears ==
    ASSUME NEW r \in RunRec, NEW e \in KernelEvents, mode \in {"task", "os"}, e.name = "agent-response"
    PROVE  \E q : SseHears(r, SseResponse(r, e), q, e)
<1>1. CASE r.finished
  BY <1>1, SseUntouched DEF SseResponse
<1>2. CASE ~r.finished
  <2> DEFINE s == [r EXCEPT !.timer = FALSE]
             q == A2UIOf(s, e)
             p == Push(q, Answer(ResponseBlocks(q, e)))
             r2 == SseResponse(r, e)
  <2>1. s \in RunRec /\ s.queue = r.queue /\ s.phase = r.phase /\ s.listening = r.listening
        /\ s.source = r.source /\ s.finished = r.finished /\ s.a2ui = r.a2ui
    BY DEF RunRec
  <2>2. r2 = CloseSource(Finish(p))
    BY <1>2 DEF SseResponse
  <2> HIDE DEF s, r2
  <2>3. PICK t \in Seq(EventRec), b \in Seq(BlockRec), a \in {"no", "surface", "other"} :
           /\ Becomes(s, Finish(p), t, TRUE, s.idx, a)
           /\ Concludes(t, b)
           /\ Tells(s, a, t) /\ Given(b, e, a)
    BY <2>1, ResponsePushes
  <2> HIDE DEF p, q
  <2>4. BecomesSse(r, Finish(p), t, TRUE, a)
    BY <2>1, <2>3 DEF Becomes, BecomesSse
  <2>5. BecomesSse(r, r2, t, TRUE, a)
    BY <2>2, <2>4, SseFields
  <2>6. BecomesSse(r, r2, t, r2.finished, r2.a2ui) /\ r2 \in RunRec /\ r2.finished /\ r2.a2ui = a
    BY <2>5 DEF BecomesSse
  <2>7. Tells(r, r2.a2ui, t) /\ Given(b, e, r2.a2ui)
    BY <2>1, <2>3, <2>6 DEF Tells
  <2>8. SseHears(r, r2, t, e)
    <3>1. Terminates(r, r2, t) /\ Answers(r, r2, t, e)
      BY <2>3, <2>6, <2>7, Concluded
    <3>2. Grows(r, r2, t)
      BY <2>6 DEF Grows, BecomesSse
    <3> QED
      BY <1>2, <3>1, <3>2 DEF SseHears
  <2> QED
    BY <2>8 DEF r2
<1> QED
  BY <1>1, <1>2 DEF RunRec

LEMMA SseStatusHears ==
    ASSUME NEW r \in RunRec, NEW e \in KernelEvents, e.name = "agent-status-update"
    PROVE  \E q : SseHears(r, SseStatus(r, e), q, e)
<1>0. r.idx \in Nat /\ NoTool \in ToolNames /\ "llm_reasoning" \in StepKinds
  BY FieldTypes
<1>1. CASE r.finished
  BY <1>1, SseUntouched DEF SseStatus
<1>2. CASE ~r.finished /\ e.state = "STARTING"
  <2> DEFINE a == Signal("task_started")
             b == Started(r.idx, "llm_reasoning", NoTool)
  <2>1. a \in EventRec /\ a.type = "task_started"
    BY SignalMade DEF EventTypes
  <2>2. b \in EventRec /\ b.type = "step_started"
    BY <1>0, StepEventsMade DEF About
  <2>3. SseStatus(r, e) = NextStep(Push(r, <<a, b>>))
    BY <1>2 DEF SseStatus
  <2> HIDE DEF a, b
  <2>4. PICK q \in Seq(EventRec) : q = <<a, b>> /\ DOMAIN q = {1, 2} /\ Len(q) = 2 /\ q[1] = a /\ q[2] = b
    BY <2>1, <2>2, TwoEvents
  <2>5. BecomesSse(r, SseStatus(r, e), q, r.finished, r.a2ui)
    BY <2>3, <2>4, SsePushed
  <2>6. Middle(q) /\ Calm(q)
    BY <2>1, <2>2, <2>4 DEF Middle, Terminal, Calm, NoDelete, HasMessage, A2UIMessages
  <2> QED
    BY <1>2, <2>5, <2>6, SseMiddle
<1>3. CASE ~r.finished /\ e.state = "ERROR"
  <2>1. SseStatus(r, e) = CloseSource([Finish(Push(r, <<Signal("task_failed")>>)) EXCEPT !.timer = FALSE])
    BY <1>3 DEF SseStatus
  <2> QED
    BY <1>3, <2>1, SseFails
<1>4. CASE ~r.finished /\ e.state = "COMPLETE"
  <2>1. SseStatus(r, e) = [r EXCEPT !.timer = TRUE]
    BY <1>4 DEF SseStatus
  <2> QED
    BY <2>1, SseUntouched
<1>5. CASE ~r.finished /\ e.state \notin {"STARTING", "ERROR", "COMPLETE"}
  <2> DEFINE a == Progress(r.idx)
  <2>1. a \in EventRec /\ a.type = "step_progress"
    BY <1>0, StepEventsMade DEF About
  <2>2. SseStatus(r, e) = Push(r, <<a>>)
    BY <1>5 DEF SseStatus
  <2> HIDE DEF a
  <2>3. PICK q \in Seq(EventRec) : q = <<a>> /\ DOMAIN q = {1} /\ Len(q) = 1 /\ q[1] = a
    BY <2>1, OneEvent
  <2>4. BecomesSse(r, SseStatus(r, e), q, r.finished, r.a2ui)
    BY <2>2, <2>3, SsePushed
  <2>5. Middle(q) /\ Calm(q)
    BY <2>1, <2>3 DEF Middle, Terminal, Calm, NoDelete, HasMessage, A2UIMessages
  <2> QED
    BY <1>5, <2>4, <2>5, SseMiddle
<1> QED
  BY <1>1, <1>2, <1>3, <1>4, <1>5

LEMMA SseToolHears ==
    ASSUME NEW r \in RunRec, NEW e \in KernelEvents
    PROVE  (\E q : SseHears(r, SseToolResult(r, e), q, e)) /\ (\E q : SseHears(r, SseApproval(r, e), q, e))
<1>0. /\ r.idx \in Nat /\ r.idx + 1 \in Nat /\ NoTool \in ToolNames /\ e.tool \in ToolNames /\ e.key \in Nat
      /\ "llm_reasoning" \in StepKinds /\ "tool_call" \in StepKinds
  BY FieldTypes
<1>1. CASE r.finished
  BY <1>1, SseUntouched DEF SseToolResult, SseApproval
<1>2. CASE ~r.finished
  <2> DEFINE a == Completed(r.idx, "tool_call", e.tool)
             b == ToolResult(e.tool)
             c == Started(r.idx + 1, "llm_reasoning", NoTool)
             d == ApprovalFor(e.key, e.tool)
  <2>1. a \in EventRec /\ a.type = "step_completed"
    BY <1>0, StepEventsMade DEF About
  <2>2. b \in EventRec /\ b.type = "agent_tool_result"
    BY <1>0, BlockEventsMade DEF Bears
  <2>3. c \in EventRec /\ c.type = "step_started"
    BY <1>0, StepEventsMade DEF About
  <2>4. d \in EventRec /\ d.type = "approval_required"
    BY <1>0, ApprovalMade
  <2>5. SseToolResult(r, e) = NextStep(Push(r, <<a, b, c>>)) /\ SseApproval(r, e) = Push(r, <<d>>)
    BY <1>2 DEF SseToolResult, SseApproval
  <2> HIDE DEF a, b, c, d
  <2>6. PICK q \in Seq(EventRec) : /\ q = <<a, b, c>> /\ DOMAIN q = {1, 2, 3} /\ Len(q) = 3
                                   /\ q[1] = a /\ q[2] = b /\ q[3] = c
    BY <2>1, <2>2, <2>3, ThreeEvents
  <2>7. PICK s \in Seq(EventRec) : s = <<d>> /\ DOMAIN s = {1} /\ Len(s) = 1 /\ s[1] = d
    BY <2>4, OneEvent
  <2>8. BecomesSse(r, SseToolResult(r, e), q, r.finished, r.a2ui) /\ BecomesSse(r, SseApproval(r, e), s, r.finished, r.a2ui)
    BY <2>5, <2>6, <2>7, SsePushed
  <2>9. Middle(q) /\ Middle(s) /\ Calm(q) /\ Calm(s)
    BY <2>1, <2>2, <2>3, <2>4, <2>6, <2>7 DEF Middle, Terminal, Calm, NoDelete, HasMessage, A2UIMessages
  <2> QED
    BY <1>2, <2>8, <2>9, SseMiddle
<1> QED
  BY <1>1, <1>2

\* Whatever a remote run hears, its fallback and the loss of its connection.
LEMMA OnSseHears ==
    ASSUME NEW r \in RunRec, NEW e \in KernelEvents, mode \in {"task", "os"}
    PROVE  \E q : SseHears(r, OnSse(r, e), q, e)
<1>1. CASE e.name = "agent-status-update"
  BY <1>1, SseStatusHears DEF OnSse
<1>2. CASE e.name = "agent-response"
  BY <1>2, SseResponseHears DEF OnSse
<1>3. CASE e.name \in {"agent-tool-result", "agent-approval-request"}
  BY <1>3, SseToolHears DEF OnSse
<1>4. CASE e.name \notin {"agent-status-update", "agent-response", "agent-tool-result", "agent-approval-request"}
  <2>1. OnSse(r, e) = r
    BY <1>4 DEF OnSse
  <2> QED
    BY <2>1, SseUntouched
<1> QED
  BY <1>1, <1>2, <1>3, <1>4

LEMMA OwnEndHears ==
    ASSUME NEW r \in RunRec, NEW e, mode \in {"task", "os"}
    PROVE  \E q : SseHears(r, IF r.finished THEN [r EXCEPT !.timer = FALSE] ELSE SseFallback(r), q, e)
<1>1. CASE r.finished
  BY <1>1, SseUntouched
<1>2. CASE ~r.finished
  BY <1>2, SseFallbackHears
<1> QED
  BY <1>1, <1>2

LEMMA ErrorHears ==
    ASSUME NEW r \in RunRec, NEW e
    PROVE  \E q : SseHears(r, SseError(r), q, e)
<1>1. CASE r.finished
  BY <1>1, SseUntouched DEF SseError
<1>2. CASE ~r.finished
  BY <1>2, SseFails DEF SseError
<1> QED
  BY <1>1, <1>2

(***************************************************************************)
(* A step of the kernel: what it says, and where it goes.                    *)
(***************************************************************************)
Late == {"forced", "forced response", "done"}

Moves(e) ==
    /\ e \in KernelEvents
    /\ kernel' \in KernelRec /\ HasCall'
    /\ kernel.at # "off" /\ kernel'.at \notin {"off", "sent"}
    /\ kernel'.at \in Late <=> (kernel.at \in Late \/ Finishing(e))
    /\ kernel'.said = kernel.said \/ (kernel.at = "respond" /\ kernel'.at \in Late)
    /\ e.name = "agent-response" /\ e.body = "empty" => kernel'.said = "empty"
    /\ kernel'.at \in {"boot", "cache"} =>
         kernel.at \in {"sent", "cache"} /\ e.name \in {"silence", "intent-cache-hit"}
    /\ IsStatus(e, "STARTING") => kernel.at = "boot"
    /\ e.name = "agent-stream" => kernel.at \notin Late
    /\ kernel'.at = "respond" => kernel.at = "choose" /\ IsStatus(e, "COMPLETE")
    /\ kernel.at = "respond" => e.name = "agent-response"
    /\ e.name = "agent-response" => kernel.at \in {"respond", "forced response"}
    /\ e.name = "intent-cache-result" => kernel.at = "cache"
    /\ IF e.name = "agent-approval-request"
       THEN kernel'.at = "asked" /\ kernel'.asks = kernel.asks + 1 /\ e.key = kernel'.asks
       ELSE kernel'.asks = kernel.asks /\ kernel'.at # "asked"

\* The event is emitted, or the step is silent.
Says(e) ==
    \/ e.name # "silence" /\ Emit(e)
    \/ e = Silence /\ UNCHANGED <<transport, mode, run, uiVars, historyVars>>

\* A kernel event and its fields.
Spoken(e, n, s, k, b) == e \in KernelEvents /\ e.name = n /\ e.state = s /\ e.key = k /\ e.body = b

LEMMA KernelEventMade ==
    ASSUME NEW n \in EventNames, NEW s \in States, NEW t \in ToolNames, NEW k \in Nat,
           NEW b \in Responses, n = "agent-a2ui-message" => s \in A2UIMessages
    PROVE  Spoken(KernelEvent(n, s, t, k, b), n, s, k, b)
BY DEF KernelEvent, KernelEvents, Spoken

LEMMA EventDefaults ==
    NoTool \in ToolNames /\ "empty" \in Responses /\ "text" \in Responses /\ 0 \in Nat
    /\ "agent-status-update" \in EventNames
    /\ {"", "STARTING", "THINKING", "ACTING", "COMPLETE", "ERROR"} \subseteq States
BY DEF ToolNames, Responses, EventNames, States

LEMMA StatusMade ==
    ASSUME NEW s \in {"STARTING", "THINKING", "ACTING", "COMPLETE", "ERROR"}
    PROVE  Status(s) \in KernelEvents /\ Status(s).name = "agent-status-update" /\ Status(s).state = s
<1>1. Spoken(KernelEvent("agent-status-update", s, NoTool, 0, "empty"), "agent-status-update", s, 0, "empty")
  BY EventDefaults, KernelEventMade
<1> QED
  BY <1>1 DEF Status, Spoken

LEMMA ActingMade ==
    ASSUME NEW t \in Tools
    PROVE  ActingOn(t) \in KernelEvents /\ ActingOn(t).name = "agent-status-update" /\ ActingOn(t).state = "ACTING"
<1>1. t \in ToolNames
  BY DEF ToolNames
<1>2. Spoken(KernelEvent("agent-status-update", "ACTING", t, 0, "empty"), "agent-status-update", "ACTING", 0, "empty")
  BY <1>1, EventDefaults, KernelEventMade
<1> QED
  BY <1>2 DEF ActingOn, Spoken

LEMMA BareMade ==
    ASSUME NEW n \in EventNames \ {"agent-a2ui-message"}
    PROVE  Bare(n) \in KernelEvents /\ Bare(n).name = n
<1>1. Spoken(KernelEvent(n, "", NoTool, 0, "empty"), n, "", 0, "empty")
  BY EventDefaults, KernelEventMade
<1> QED
  BY <1>1 DEF Bare, Spoken

LEMMA A2UIMade ==
    ASSUME NEW m \in A2UIMessages
    PROVE  A2UIEvent(m) \in KernelEvents /\ A2UIEvent(m).name = "agent-a2ui-message"
<1>1. m \in States /\ "agent-a2ui-message" \in EventNames
  BY DEF States, EventNames
<1>2. Spoken(KernelEvent("agent-a2ui-message", m, NoTool, 0, "empty"), "agent-a2ui-message", m, 0, "empty")
  BY <1>1, EventDefaults, KernelEventMade
<1> QED
  BY <1>2 DEF A2UIEvent, Spoken

LEMMA FirstCall ==
    ASSUME kernel \in KernelRec, kernel.todo # <<>>
    PROVE  kernel.todo[1] \in Tools /\ kernel.todo[1] \in ToolNames /\ Tail(kernel.todo) \in Seq(Tools)
<1>1. kernel.todo \in Seq(Tools)
  BY DEF KernelRec
<1>2. Head(kernel.todo) \in Tools /\ Tail(kernel.todo) \in Seq(Tools)
  BY <1>1, HeadTailProperties
<1> QED
  BY <1>1, <1>2 DEF ToolNames

\* A step from one place to another that touches nothing else of the kernel.
LEMMA GotoMoves ==
    ASSUME kernel \in KernelRec, NEW at \in Ats \ {"off", "sent", "cache", "asked", "approved", "refused", "result"}, Goto(at)
    PROVE  /\ kernel' \in KernelRec /\ HasCall' /\ kernel'.at = at
           /\ kernel'.said = kernel.said /\ kernel'.asks = kernel.asks
<1>1. /\ kernel'.at = at /\ kernel'.said = kernel.said /\ kernel'.asks = kernel.asks
      /\ kernel' \in KernelRec
  BY DEF Goto, KernelRec
<1> QED
  BY <1>1 DEF HasCall

LEMMA AcceptMoves ==
    ASSUME TypeInv, KernelAccepts \/ CacheMiss \/ RoundEnds
    PROVE  Moves(Silence) /\ Says(Silence)
<1>1. Silence \in KernelEvents /\ Silence.name = "silence"
  BY BareMade DEF Silence, EventNames
<1>2. ~Finishing(Silence) /\ ~IsStatus(Silence, "STARTING")
  BY <1>1 DEF Finishing, IsStatus
<1>3. Says(Silence)
  BY DEF KernelAccepts, CacheMiss, RoundEnds, Says
<1>4. kernel \in KernelRec
  BY DEF TypeInv
<1>5. CASE KernelAccepts \/ RoundEnds
  <2>1. PICK at \in {"boot", "reason"} : Goto(at) /\ at = IF KernelAccepts THEN "boot" ELSE "reason"
    BY <1>5 DEF KernelAccepts, RoundEnds
  <2>2. kernel.at \in {"sent", "tools"} /\ (at = "boot" => kernel.at = "sent")
    BY <1>5, <2>1 DEF KernelAccepts, RoundEnds, KernelAt
  <2>3. /\ kernel' \in KernelRec /\ HasCall' /\ kernel'.at = at
        /\ kernel'.said = kernel.said /\ kernel'.asks = kernel.asks
    BY <1>4, <2>1, GotoMoves DEF Ats
  <2>4. Moves(Silence)
    BY <1>1, <1>2, <2>1, <2>2, <2>3 DEF Moves, Late
  <2> QED
    BY <1>3, <2>4
<1>6. CASE CacheMiss
  <2>1. kernel.at = "cache" /\ kernel' = [kernel EXCEPT !.at = "boot", !.todo = <<>>]
    BY <1>6 DEF CacheMiss, KernelAt
  <2>2. <<>> \in Seq(Tools)
    BY EmptySeq
  <2>3. /\ kernel' \in KernelRec /\ kernel'.at = "boot"
        /\ kernel'.said = kernel.said /\ kernel'.asks = kernel.asks
    BY <1>4, <2>1, <2>2 DEF KernelRec, Ats
  <2>4. Moves(Silence)
    BY <1>1, <1>2, <2>1, <2>3 DEF Moves, Late, HasCall
  <2> QED
    BY <1>3, <2>4
<1> QED
  BY <1>5, <1>6

LEMMA TimeoutMoves ==
    ASSUME TypeInv, ApprovalTimesOut
    PROVE  Moves(Silence) /\ Says(Silence)
<1>1. Silence \in KernelEvents /\ Silence.name = "silence"
  BY BareMade DEF Silence, EventNames
<1>2. ~Finishing(Silence) /\ ~IsStatus(Silence, "STARTING")
  BY <1>1 DEF Finishing, IsStatus
<1>3. Says(Silence)
  BY DEF ApprovalTimesOut, Says
<1>4. kernel \in KernelRec /\ kernel.at = "asked" /\ kernel.todo # <<>>
  BY DEF TypeInv, ApprovalTimesOut, KernelAt, HasCall
<1>5. /\ kernel' \in KernelRec /\ kernel'.at = "refused" /\ kernel'.todo # <<>>
      /\ kernel'.said = kernel.said /\ kernel'.asks = kernel.asks
  BY <1>4 DEF ApprovalTimesOut, Goto, KernelRec, Ats
<1>6. Moves(Silence)
  BY <1>1, <1>2, <1>4, <1>5 DEF Moves, Late, HasCall
<1> QED
  BY <1>3, <1>6

LEMMA PanicMoves ==
    ASSUME TypeInv, AgentPanics
    PROVE  Moves(Silence) /\ Says(Silence)
<1>1. Silence \in KernelEvents /\ Silence.name = "silence"
  BY BareMade DEF Silence, EventNames
<1>2. ~Finishing(Silence) /\ ~IsStatus(Silence, "STARTING")
  BY <1>1 DEF Finishing, IsStatus
<1>3. Says(Silence)
  BY DEF AgentPanics, Says
<1>4. kernel \in KernelRec /\ kernel.at \in {"choose", "result", "tools"} /\ Goto("panicked")
  BY DEF TypeInv, AgentPanics, KernelAt
<1>5. /\ kernel' \in KernelRec /\ HasCall' /\ kernel'.at = "panicked"
      /\ kernel'.said = kernel.said /\ kernel'.asks = kernel.asks
  BY <1>4, GotoMoves DEF Ats
<1>6. Moves(Silence)
  BY <1>1, <1>2, <1>4, <1>5 DEF Moves, Late
<1> QED
  BY <1>3, <1>6

LEMMA StatusMoves ==
    ASSUME TypeInv, AgentStarts \/ AgentThinks \/ AgentCompletes \/ AgentFails \/ ForcedCompletes
    PROVE  \E e : Moves(e) /\ Says(e)
<1>1. kernel \in KernelRec
  BY DEF TypeInv
<1>2. AfterLoop \in Late
  BY DEF AfterLoop, Late
<1>3. PICK s \in {"STARTING", "THINKING", "COMPLETE", "ERROR"}, at \in Ats :
         /\ Emit(Status(s)) /\ Goto(at)
         /\ \/ kernel.at = "boot" /\ at = "reason" /\ s = "STARTING"
            \/ kernel.at = "reason" /\ at = "stream" /\ s = "THINKING"
            \/ kernel.at = "choose" /\ at = "respond" /\ s = "COMPLETE"
            \/ kernel.at = "choose" /\ at \in Late /\ s = "ERROR"
            \/ kernel.at = "forced" /\ at = "forced response" /\ s = "COMPLETE"
  <2>1. CASE AgentStarts
    BY <2>1 DEF AgentStarts, KernelAt, Ats
  <2>2. CASE AgentThinks
    BY <2>2 DEF AgentThinks, KernelAt, Ats
  <2>3. CASE AgentCompletes
    BY <2>3 DEF AgentCompletes, KernelAt, Ats
  <2>4. CASE AgentFails
    <3>1. AfterLoop \in Ats
      BY <1>2 DEF Late, Ats
    <3> QED
      BY <1>2, <2>4, <3>1 DEF AgentFails, KernelAt
  <2>5. CASE ForcedCompletes
    BY <2>5 DEF ForcedCompletes, KernelAt, Ats
  <2> QED
    BY <2>1, <2>2, <2>3, <2>4, <2>5
<1>4. at \in Ats \ {"off", "sent", "cache", "asked", "approved", "refused", "result"}
  BY <1>3 DEF Late
<1>5. /\ kernel' \in KernelRec /\ HasCall' /\ kernel'.at = at
      /\ kernel'.said = kernel.said /\ kernel'.asks = kernel.asks
  BY <1>1, <1>3, <1>4, GotoMoves
<1>6. PICK e \in KernelEvents : e = Status(s) /\ e.name = "agent-status-update" /\ e.state = s
  BY StatusMade
<1>7. /\ Finishing(e) <=> s = "ERROR"
      /\ IsStatus(e, "STARTING") <=> s = "STARTING"
      /\ IsStatus(e, "COMPLETE") <=> s = "COMPLETE"
  BY <1>6 DEF Finishing, IsStatus
<1>8. Moves(e)
  BY <1>3, <1>5, <1>6, <1>7 DEF Moves, Late
<1> QED
  BY <1>3, <1>6, <1>8 DEF Says

LEMMA StreamMoves ==
    ASSUME TypeInv, AgentStreams
    PROVE  \E e : Moves(e) /\ Says(e)
<1>1. kernel \in KernelRec /\ kernel.at = "stream" /\ Goto("choose")
  BY DEF TypeInv, AgentStreams, KernelAt
<1>2. /\ kernel' \in KernelRec /\ HasCall' /\ kernel'.at = "choose"
      /\ kernel'.said = kernel.said /\ kernel'.asks = kernel.asks
  BY <1>1, GotoMoves DEF Ats
<1>3. PICK e : /\ e \in KernelEvents /\ Says(e)
               /\ e.name \in {"silence", "agent-stream", "agent-ui-patch", "agent-a2ui-message"}
  <2>1. CASE UNCHANGED <<transport, mode, run, uiVars, historyVars>>
    <3>1. Silence \in KernelEvents /\ Silence.name = "silence"
      BY BareMade DEF Silence, EventNames
    <3> QED
      BY <2>1, <3>1 DEF Says
  <2>2. CASE \E n \in {"agent-stream", "agent-ui-patch"} : Emit(Bare(n))
    <3>1. PICK n \in {"agent-stream", "agent-ui-patch"} : Emit(Bare(n))
      BY <2>2
    <3>2. Bare(n) \in KernelEvents /\ Bare(n).name = n
      BY BareMade DEF EventNames
    <3> QED
      BY <3>1, <3>2 DEF Says
  <2>3. CASE \E m \in A2UIMessages : Emit(A2UIEvent(m))
    <3>1. PICK m \in A2UIMessages : Emit(A2UIEvent(m))
      BY <2>3
    <3>2. A2UIEvent(m) \in KernelEvents /\ A2UIEvent(m).name = "agent-a2ui-message"
      BY A2UIMade
    <3> QED
      BY <3>1, <3>2 DEF Says
  <2> QED
    BY <2>1, <2>2, <2>3 DEF AgentStreams
<1>4. ~Finishing(e) /\ ~IsStatus(e, "STARTING")
  BY <1>3 DEF Finishing, IsStatus
<1>5. Moves(e)
  BY <1>1, <1>2, <1>3, <1>4 DEF Moves, Late
<1> QED
  BY <1>3, <1>5

\* The steps that tell of a call, asked for, started or returned.
LEMMA CallMoves ==
    ASSUME TypeInv, CacheHit \/ CacheResult \/ AgentAsks \/ ApprovedActs \/ ToolReturns
    PROVE  \E e : Moves(e) /\ Says(e)
<1>1. kernel \in KernelRec /\ HasCall
  BY DEF TypeInv
<1>2. CASE CacheHit
  <2>1. PICK t \in Tools : /\ kernel' = [kernel EXCEPT !.at = "cache", !.todo = <<t>>]
                           /\ Emit(KernelEvent("intent-cache-hit", "", t, 0, "empty"))
    BY <1>2 DEF CacheHit
  <2>2. kernel.at = "sent"
    BY <1>2 DEF CacheHit, KernelAt
  <2>3. <<t>> \in Seq(Tools) /\ <<t>> # <<>> /\ t \in ToolNames
    BY DEF ToolNames
  <2>4. /\ kernel' \in KernelRec /\ kernel'.at = "cache" /\ kernel'.todo # <<>>
        /\ kernel'.said = kernel.said /\ kernel'.asks = kernel.asks
    BY <1>1, <2>1, <2>3 DEF KernelRec, Ats
  <2>5. PICK e : e = KernelEvent("intent-cache-hit", "", t, 0, "empty") /\ Spoken(e, "intent-cache-hit", "", 0, "empty")
    BY <2>3, EventDefaults, KernelEventMade DEF EventNames
  <2>6. ~Finishing(e) /\ ~IsStatus(e, "STARTING") /\ e.name = "intent-cache-hit" /\ e \in KernelEvents
    BY <2>5 DEF Finishing, IsStatus, Spoken
  <2>7. Moves(e)
    BY <2>2, <2>4, <2>6 DEF Moves, Late, HasCall
  <2> QED
    BY <2>1, <2>5, <2>6, <2>7 DEF Says
<1>3. CASE CacheResult
  <2>1. kernel.at = "cache" /\ kernel' = [kernel EXCEPT !.at = "done", !.todo = <<>>] /\ kernel.todo # <<>>
    BY <1>1, <1>3 DEF CacheResult, KernelAt, HasCall
  <2>2. <<>> \in Seq(Tools)
    BY EmptySeq
  <2>3. /\ kernel' \in KernelRec /\ kernel'.at = "done"
        /\ kernel'.said = kernel.said /\ kernel'.asks = kernel.asks
    BY <1>1, <2>1, <2>2 DEF KernelRec, Ats
  <2>4. kernel.todo[1] \in ToolNames
    BY <1>1, <2>1, FirstCall
  <2>5. PICK e : e = KernelEvent("intent-cache-result", "", kernel.todo[1], 0, "text") /\ Spoken(e, "intent-cache-result", "", 0, "text")
    BY <2>4, EventDefaults, KernelEventMade DEF EventNames
  <2>6. Finishing(e) /\ ~IsStatus(e, "STARTING") /\ e.name = "intent-cache-result" /\ e \in KernelEvents
    BY <2>5 DEF Finishing, IsStatus, Spoken
  <2>7. Moves(e)
    BY <2>1, <2>3, <2>6 DEF Moves, Late, HasCall
  <2> QED
    BY <1>3, <2>5, <2>6, <2>7 DEF Says, CacheResult
<1>4. CASE AgentAsks
  <2>1. /\ kernel.at = "tools" /\ kernel.todo # <<>>
        /\ kernel' = [kernel EXCEPT !.at = "asked", !.asks = @ + 1]
    BY <1>4 DEF AgentAsks, KernelAt
  <2>2. kernel.asks \in Nat /\ kernel.asks + 1 \in Nat
    BY <1>1 DEF KernelRec
  <2>3. /\ kernel' \in KernelRec /\ kernel'.at = "asked" /\ kernel'.todo # <<>>
        /\ kernel'.said = kernel.said /\ kernel'.asks = kernel.asks + 1
    BY <1>1, <2>1, <2>2 DEF KernelRec, Ats
  <2>4. kernel.todo[1] \in ToolNames
    BY <1>1, <2>1, FirstCall
  <2>5. PICK e : /\ e = KernelEvent("agent-approval-request", "", kernel.todo[1], kernel.asks + 1, "empty")
                 /\ Spoken(e, "agent-approval-request", "", kernel.asks + 1, "empty")
    BY <2>2, <2>4, EventDefaults, KernelEventMade DEF EventNames
  <2>6. /\ ~Finishing(e) /\ ~IsStatus(e, "STARTING") /\ e.name = "agent-approval-request" /\ e \in KernelEvents
        /\ e.key = kernel.asks + 1
    BY <2>5 DEF Finishing, IsStatus, Spoken
  <2>7. Moves(e)
    BY <2>1, <2>3, <2>6 DEF Moves, Late, HasCall
  <2> QED
    BY <1>4, <2>5, <2>6, <2>7 DEF Says, AgentAsks
<1>5. CASE ApprovedActs
  <2>1. kernel.at = "approved" /\ kernel.todo # <<>> /\ kernel' = [kernel EXCEPT !.at = "result"]
    BY <1>1, <1>5 DEF ApprovedActs, KernelAt, HasCall, Goto
  <2>3. /\ kernel' \in KernelRec /\ kernel'.at = "result" /\ kernel'.todo # <<>>
        /\ kernel'.said = kernel.said /\ kernel'.asks = kernel.asks
    BY <1>1, <2>1 DEF KernelRec, Ats
  <2>4. kernel.todo[1] \in Tools
    BY <1>1, <2>1, FirstCall
  <2>5. PICK e \in KernelEvents : e = ActingOn(kernel.todo[1]) /\ e.name = "agent-status-update" /\ e.state = "ACTING"
    BY <2>4, ActingMade
  <2>6. ~Finishing(e) /\ ~IsStatus(e, "STARTING")
    BY <2>5 DEF Finishing, IsStatus
  <2>7. Moves(e)
    BY <2>1, <2>3, <2>5, <2>6 DEF Moves, Late, HasCall
  <2> QED
    BY <1>5, <2>5, <2>6, <2>7 DEF Says, ApprovedActs
<1>6. CASE ToolReturns
  <2>1. /\ kernel.at \in {"result", "refused", "tools"} /\ kernel.todo # <<>>
        /\ kernel' = [kernel EXCEPT !.at = "tools", !.todo = Tail(@)]
    BY <1>6 DEF ToolReturns
  <2>2. kernel.todo[1] \in ToolNames /\ Tail(kernel.todo) \in Seq(Tools)
    BY <1>1, <2>1, FirstCall
  <2>3. /\ kernel' \in KernelRec /\ kernel'.at = "tools"
        /\ kernel'.said = kernel.said /\ kernel'.asks = kernel.asks
    BY <1>1, <2>1, <2>2 DEF KernelRec, Ats
  <2>5. PICK e : /\ e = KernelEvent("agent-tool-result", "", kernel.todo[1], 0, "empty")
                 /\ Spoken(e, "agent-tool-result", "", 0, "empty")
    BY <2>2, EventDefaults, KernelEventMade DEF EventNames
  <2>6. ~Finishing(e) /\ ~IsStatus(e, "STARTING") /\ e.name = "agent-tool-result" /\ e \in KernelEvents
    BY <2>5 DEF Finishing, IsStatus, Spoken
  <2>7. Moves(e)
    BY <2>1, <2>3, <2>6 DEF Moves, Late, HasCall
  <2> QED
    BY <1>6, <2>5, <2>6, <2>7 DEF Says, ToolReturns
<1> QED
  BY <1>2, <1>3, <1>4, <1>5, <1>6

LEMMA ActsMoves ==
    ASSUME TypeInv, AgentActs
    PROVE  \E e : Moves(e) /\ Says(e)
<1>1. kernel \in KernelRec /\ kernel.at = "choose"
  BY DEF TypeInv, AgentActs, KernelAt
<1>2. PICK batch \in SUBSET Tools :
        /\ kernel' = [kernel EXCEPT !.at = "tools", !.round = @ + 1,
                         !.todo = SetToSeq(batch \ Destructive) \o SetToSeq(batch \cap Destructive)]
        /\ \E first \in batch : Emit(ActingOn(first))
  BY DEF AgentActs
<1>3. PICK todo : todo = SetToSeq(batch \ Destructive) \o SetToSeq(batch \cap Destructive)
  OBVIOUS
<1>4. todo \in Seq(Tools)
  <2>1. IsFiniteSet(batch \ Destructive) /\ IsFiniteSet(batch \cap Destructive)
    BY AgentRunAssumption, FS_Subset
  <2>2. SetToSeq(batch \ Destructive) \in Seq(batch \ Destructive) /\ SetToSeq(batch \cap Destructive) \in Seq(batch \cap Destructive)
    BY <2>1, SetToSeqOK
  <2>3. SetToSeq(batch \ Destructive) \in Seq(Tools) /\ SetToSeq(batch \cap Destructive) \in Seq(Tools)
    BY <2>2, SeqMonotonic
  <2> QED
    BY <1>3, <2>3, ConcatProperties
<1>5. kernel.round \in Nat /\ kernel.round + 1 \in Nat
  BY <1>1 DEF KernelRec
<1>6. /\ kernel' \in KernelRec /\ kernel'.at = "tools"
      /\ kernel'.said = kernel.said /\ kernel'.asks = kernel.asks
  BY <1>1, <1>2, <1>3, <1>4, <1>5 DEF KernelRec, Ats
<1>7. PICK first \in Tools : Emit(ActingOn(first))
  BY <1>2
<1>8. PICK e \in KernelEvents : e = ActingOn(first) /\ e.name = "agent-status-update" /\ e.state = "ACTING"
  BY ActingMade
<1>9. ~Finishing(e) /\ ~IsStatus(e, "STARTING")
  BY <1>8 DEF Finishing, IsStatus
<1>10. Moves(e)
  BY <1>1, <1>6, <1>8, <1>9 DEF Moves, Late, HasCall
<1> QED
  BY <1>7, <1>8, <1>10 DEF Says

LEMMA ResponseMoves ==
    ASSUME TypeInv, AgentResponds \/ ForcedResponds
    PROVE  \E e : Moves(e) /\ Says(e)
<1>1. kernel \in KernelRec
  BY DEF TypeInv
<1>2. CASE AgentResponds
  <2>1. PICK b \in Responses, at \in {AfterLoop, "done"} :
          /\ kernel' = [kernel EXCEPT !.at = at, !.said = b]
          /\ Emit(KernelEvent("agent-response", "", NoTool, 0, b))
    BY <1>2 DEF AgentResponds
  <2>2. kernel.at = "respond"
    BY <1>2 DEF AgentResponds, KernelAt
  <2>3. at \in Late /\ at \in Ats
    BY DEF AfterLoop, Late, Ats
  <2>4. /\ kernel' \in KernelRec /\ kernel'.at \in Late
        /\ kernel'.said = b /\ kernel'.asks = kernel.asks
    BY <1>1, <2>1, <2>3 DEF KernelRec
  <2>5. PICK e : e = KernelEvent("agent-response", "", NoTool, 0, b) /\ Spoken(e, "agent-response", "", 0, b)
    BY EventDefaults, KernelEventMade DEF EventNames
  <2>6. /\ Finishing(e) /\ ~IsStatus(e, "STARTING") /\ e.name = "agent-response" /\ e \in KernelEvents
        /\ e.body = b
    BY <2>5 DEF Finishing, IsStatus, Spoken
  <2>7. Moves(e)
    BY <2>2, <2>4, <2>6 DEF Moves, Late, HasCall
  <2> QED
    BY <2>1, <2>5, <2>6, <2>7 DEF Says
<1>3. CASE ForcedResponds
  <2>1. kernel.at = "forced response" /\ Goto("done") /\ Emit(KernelEvent("agent-response", "", NoTool, 0, "text"))
    BY <1>3 DEF ForcedResponds, KernelAt
  <2>2. /\ kernel' \in KernelRec /\ HasCall' /\ kernel'.at = "done"
        /\ kernel'.said = kernel.said /\ kernel'.asks = kernel.asks
    BY <1>1, <2>1, GotoMoves DEF Ats
  <2>5. PICK e : e = KernelEvent("agent-response", "", NoTool, 0, "text") /\ Spoken(e, "agent-response", "", 0, "text")
    BY EventDefaults, KernelEventMade DEF EventNames
  <2>6. /\ Finishing(e) /\ ~IsStatus(e, "STARTING") /\ e.name = "agent-response" /\ e \in KernelEvents
        /\ e.body = "text"
    BY <2>5 DEF Finishing, IsStatus, Spoken
  <2>7. Moves(e)
    BY <2>1, <2>2, <2>6 DEF Moves, Late
  <2> QED
    BY <2>1, <2>5, <2>6, <2>7 DEF Says
<1> QED
  BY <1>2, <1>3

LEMMA KernelMoves ==
    ASSUME TypeInv, KernelStep
    PROVE  \E e : Moves(e) /\ Says(e)
BY AcceptMoves, TimeoutMoves, PanicMoves, StatusMoves, StreamMoves, CallMoves, ActsMoves, ResponseMoves DEF KernelStep

(***************************************************************************)
(* The inductive invariant of the run, and what the outside does to a run.   *)
(***************************************************************************)
Active == run.phase \in {"subscribed", "submitting", "draining"}

\* What the runner holds in each phase, and what it knows of the kernel: over Tauri
\* no event is lost, so it has finished exactly when the agent is past its answer.
RunInv ==
    /\ transport = "tauri" => run.source = "none" /\ ~run.timer
    /\ transport = "sse" => ~run.listening
    /\ run.phase \in {"setup", "subscribed", "thrown"} => kernel.at = "off"
    /\ run.phase \in {"setup", "thrown"} =>
         ~run.listening /\ run.source = "none" /\ ~run.timer /\ ~run.finished
         /\ run.a2ui = "no" /\ run.queue = <<>>
    /\ run.phase = "over" => (~run.listening /\ run.source # "open") \/ (aborted /\ kernel.at = "off")
    /\ run.phase = "failed" => ~run.listening
    /\ transport = "tauri" /\ Active => run.listening
    /\ transport = "tauri" /\ Active => (run.finished <=> kernel.at \in Late)
    /\ transport = "tauri" /\ run.phase = "submitting" /\ run.finished => early
    /\ transport = "tauri" /\ kernel.at \in {"off", "sent", "cache", "boot"} => run.idx = 0

Heard(q, e) ==
    /\ Quiet
    /\ Grows(run, run', q) /\ Terminates(run, run', q) /\ Answers(run, run', q, e)
    /\ transport = "tauri" /\ run.listening =>
         TauriEnds(run, run', q, e) /\ TauriSteps(run, run', q, e) /\ TauriAsks(run, q, e)
    /\ transport = "tauri" /\ ~run.listening => run' = run
    /\ transport = "sse" /\ run.finished => q = <<>>
    /\ run'.a2ui = run.a2ui \/ run.listening \/ run.source = "open"
    /\ early' \in BOOLEAN /\ (early => early')
    /\ run' # run /\ run'.finished /\ run.phase = "submitting" => early'
    /\ UNCHANGED <<transport, mode, outcomes, uiVars>>

\* The kernel moves and is heard, or the run's own timer or stream ends it.
Outside(q, e) ==
    /\ Heard(q, e)
    /\ \/ Moves(e)
       \/ transport = "sse" /\ UNCHANGED kernel /\ e = Silence /\ (run.timer \/ run.source = "open")

LEMMA UnheardStep ==
    ASSUME TypeInv, NEW e \in KernelEvents, Quiet, UNCHANGED <<run, early>>,
           UNCHANGED <<transport, mode, outcomes, uiVars>>,
           transport = "tauri" /\ run.listening => e = Silence
    PROVE  \E q : Heard(q, e)
<1>1. run \in RunRec /\ early \in BOOLEAN
  BY DEF TypeInv
<1>2. Silence.name = "silence"
  BY BareMade DEF Silence, EventNames
<1>3. PICK q \in Seq(EventRec) : q = <<>> /\ DOMAIN q = {} /\ Len(q) = 0 /\ run.queue \o q = run.queue
  BY <1>1, NoEvents
<1>4. Grows(run, run', q) /\ Terminates(run, run', q) /\ Answers(run, run', q, e)
  BY <1>1, <1>3 DEF Grows, Terminates, NoTerminal, Answers, Tells, NoDelete, HasMessage
<1>5. e = Silence => ~Finishing(e) /\ ~IsStatus(e, "COMPLETE") /\ e.name # "agent-approval-request"
  BY <1>2 DEF Finishing, IsStatus
<1>6. ASSUME e = Silence PROVE TauriEnds(run, run', q, e) /\ TauriSteps(run, run', q, e) /\ TauriAsks(run, q, e)
  BY <1>3, <1>5, <1>6 DEF TauriEnds, TauriSteps, TauriAsks
<1> QED
  BY <1>1, <1>3, <1>4, <1>6 DEF Heard

LEMMA EmitHeard ==
    ASSUME TypeInv, RunInv, NEW e \in KernelEvents, e.name # "silence", Quiet, Emit(e),
           IsStatus(e, "STARTING") => kernel.at = "boot", e.name = "agent-stream" => kernel.at \notin Late,
           kernel.at # "off"
    PROVE  \E q : Heard(q, e)
<1>1. run \in RunRec /\ early \in BOOLEAN /\ mode \in {"task", "os"} /\ transport \in {"tauri", "sse"}
  BY DEF TypeInv
<1>2. CASE transport = "tauri" /\ run.listening /\ Received(OnTauri(run, e))
  <2>1. run' = OnTauri(run, e) /\ early' = (early \/ (OnTauri(run, e).finished /\ run.phase = "submitting"))
    BY <1>2 DEF Received
  <2>2. Active
    BY <1>1, <1>2 DEF RunInv, Active, RunRec, Phases
  <2>3. (IsStatus(e, "STARTING") => run.idx = 0) /\ (e.name = "agent-stream" => ~run.finished)
    BY <1>2, <2>2 DEF RunInv
  <2>4. PICK q : TauriHears(run, OnTauri(run, e), q, e)
    BY <1>1, <2>3, OnTauriHears
  <2>5. OnTauri(run, e) \in RunRec
    BY <2>4 DEF TauriHears, Grows
  <2>6. early' \in BOOLEAN
    BY <1>1, <2>1, <2>5 DEF RunRec
  <2> QED
    BY <1>2, <2>1, <2>4, <2>6 DEF Heard, TauriHears, Emit
<1>3. CASE transport = "sse" /\ run.source = "open" /\ Received(OnSse(run, e))
  <2>1. run' = OnSse(run, e) /\ early' = (early \/ (OnSse(run, e).finished /\ run.phase = "submitting"))
    BY <1>3 DEF Received
  <2>2. PICK q : SseHears(run, OnSse(run, e), q, e)
    BY <1>1, OnSseHears
  <2>3. OnSse(run, e) \in RunRec
    BY <2>2 DEF SseHears, Grows
  <2>4. early' \in BOOLEAN
    BY <1>1, <2>1, <2>3 DEF RunRec
  <2> QED
    BY <1>3, <2>1, <2>2, <2>4 DEF Heard, SseHears, Emit
<1>4. CASE UNCHANGED <<run, early>> /\ (transport = "tauri" => ~run.listening)
  BY <1>4, UnheardStep DEF Emit
<1>5. transport = "sse" /\ run.source = "open" => ~(transport = "tauri")
  OBVIOUS
<1> QED
  BY <1>2, <1>3, <1>4, <1>5 DEF Emit

LEMMA OutsideStep ==
    ASSUME TypeInv, RunInv, KernelStep \/ FallbackFires \/ ConnectionLost
    PROVE  \E q, e : Outside(q, e)
<1>1. run \in RunRec /\ early \in BOOLEAN /\ mode \in {"task", "os"} /\ transport \in {"tauri", "sse"}
  BY DEF TypeInv
<1>2. CASE KernelStep
  <2>1. PICK e : Moves(e) /\ Says(e)
    BY <1>2, KernelMoves
  <2>2. Quiet
    BY <1>2 DEF KernelStep, KernelAccepts, CacheHit, CacheMiss, CacheResult, AgentStarts, AgentThinks,
       AgentStreams, AgentActs, AgentAsks, ApprovalTimesOut, ApprovedActs, ToolReturns, AgentPanics, RoundEnds,
       AgentCompletes, AgentResponds, AgentFails, ForcedCompletes, ForcedResponds, KernelAt
  <2>3. CASE e.name # "silence" /\ Emit(e)
    <3>1. PICK q : Heard(q, e)
      BY <2>1, <2>2, <2>3, EmitHeard DEF Moves
    <3> QED
      BY <2>1, <3>1 DEF Outside
  <2>4. CASE e = Silence /\ UNCHANGED <<transport, mode, run, uiVars, historyVars>>
    <3>1. PICK q : Heard(q, e)
      BY <2>1, <2>2, <2>4, UnheardStep DEF Moves, historyVars
    <3> QED
      BY <2>1, <3>1 DEF Outside
  <2> QED
    BY <2>1, <2>3, <2>4 DEF Says
<1>3. CASE FallbackFires \/ ConnectionLost
  <2>1. /\ Quiet /\ transport = "sse" /\ UNCHANGED <<transport, mode, kernel, outcomes, uiVars>>
        /\ run.timer \/ run.source = "open"
    BY <1>1, <1>3 DEF FallbackFires, ConnectionLost, RunInv
  <2>2. PICK r2 : Received(r2) /\ r2 \in {IF run.finished THEN [run EXCEPT !.timer = FALSE] ELSE SseFallback(run), SseError(run)}
    BY <1>3 DEF FallbackFires, ConnectionLost
  <2>3. PICK q : SseHears(run, r2, q, Silence)
    <3>1. \A e : \E q : SseHears(run, IF run.finished THEN [run EXCEPT !.timer = FALSE] ELSE SseFallback(run), q, e)
      BY <1>1, OwnEndHears
    <3>2. \A e : \E q : SseHears(run, SseError(run), q, e)
      BY <1>1, ErrorHears
    <3>3. CASE r2 = SseError(run)
      BY <3>2, <3>3
    <3>4. CASE r2 = IF run.finished THEN [run EXCEPT !.timer = FALSE] ELSE SseFallback(run)
      BY <3>1, <3>4
    <3> QED
      BY <2>2, <3>3, <3>4
  <2>4. r2 \in RunRec
    BY <2>3 DEF SseHears, Grows
  <2>5. run' = r2 /\ early' = (early \/ (r2.finished /\ run.phase = "submitting")) /\ early' \in BOOLEAN
    BY <1>1, <2>2, <2>4 DEF Received, RunRec
  <2>6. r2.a2ui = run.a2ui
    BY <1>1, <2>2 DEF SseFallback, SseError, CloseSource, Finish, Push, RunRec
  <2>7. Heard(q, Silence)
    BY <2>1, <2>3, <2>5, <2>6 DEF Heard, SseHears
  <2> QED
    BY <2>1, <2>7 DEF Outside
<1> QED
  BY <1>2, <1>3

(***************************************************************************)
(* What an event does to the card.                                           *)
(***************************************************************************)
\* new is steps after step s was merged into it.
Merged(steps, new, s) ==
    \/ (\A i \in DOMAIN steps : steps[i].id # s.id) /\ new = Append(steps, s)
    \/ \E i \in DOMAIN steps :
         /\ steps[i].id = s.id /\ DOMAIN new = DOMAIN steps
         /\ \A j \in DOMAIN steps : j # i => new[j] = steps[j]
         /\ new[i].id = s.id
         /\ new[i].status = IF s.status = "absent" THEN steps[i].status ELSE s.status

LEMMA StepMerged ==
    ASSUME NEW steps \in Seq(StepRec), NEW s \in StepRec
    PROVE  MergeStep(steps, s) \in Seq(StepRec) /\ Merged(steps, MergeStep(steps, s), s)
<1> DEFINE S == {i \in DOMAIN steps : steps[i].id = s.id}
           new == MergeStep(steps, s)
<1>1. Len(steps) \in Nat /\ DOMAIN steps = 1 .. Len(steps) /\ S \in SUBSET (1 .. Len(steps))
  OBVIOUS
<1>2. PICK m : m = Max({0} \cup S)
  OBVIOUS
<1>3. m \in 0 .. Len(steps) /\ (m = 0 => S = {}) /\ (m # 0 => m \in S)
  BY <1>1, <1>2, LastIndex
<1>4. FindLast(steps, LAMBDA x : x.id = s.id) = m
  BY <1>2 DEF FindLast
<1>5. CASE m = 0
  <2>1. new = Append(steps, s)
    BY <1>4, <1>5 DEF MergeStep
  <2>2. \A i \in DOMAIN steps : steps[i].id # s.id
    BY <1>3, <1>5
  <2> QED
    BY <2>1, <2>2, AppendProperties DEF Merged
<1>6. CASE m # 0
  <2> DEFINE t == Step(s.id, IF s.kind = "absent" THEN steps[m].kind ELSE s.kind,
                       IF s.status = "absent" THEN steps[m].status ELSE s.status,
                       IF s.tool = NoTool THEN steps[m].tool ELSE s.tool)
  <2>1. m \in DOMAIN steps /\ m \in 1 .. Len(steps) /\ steps[m].id = s.id /\ steps[m] \in StepRec
    BY <1>1, <1>3, <1>6
  <2>2. t \in StepRec
    BY <2>1 DEF StepRec, Step
  <2>3. new = [steps EXCEPT ![m] = t]
    BY <1>4, <1>6 DEF MergeStep
  <2>4. t.id = s.id /\ t.status = IF s.status = "absent" THEN steps[m].status ELSE s.status
    BY DEF Step
  <2> HIDE DEF t, new
  <2>5. new \in Seq(StepRec) /\ Len(new) = Len(steps) /\ DOMAIN new = DOMAIN steps
        /\ \A j \in 1 .. Len(steps) : new[j] = IF j = m THEN t ELSE steps[j]
    BY <1>1, <2>1, <2>2, <2>3, ExceptSeq
  <2>6. Merged(steps, new, s)
    BY <1>1, <2>1, <2>4, <2>5 DEF Merged
  <2> QED
    BY <2>5, <2>6 DEF new
<1> QED
  BY <1>5, <1>6

\* Where a block is replaced, it is a transient one.
LEMMA BlockReplaced ==
    ASSUME NEW blocks \in Seq(BlockRec), NEW m \in DOMAIN blocks, IsIntermediate(blocks[m]), NEW b \in BlockRec
    PROVE  /\ [blocks EXCEPT ![m] = b] \in Seq(BlockRec)
           /\ \A y \in {"final", "drawn"} :
                HasSort(blocks, y) => HasSort([blocks EXCEPT ![m] = b], y)
<1>1. m \in 1 .. Len(blocks) /\ DOMAIN blocks = 1 .. Len(blocks)
  OBVIOUS
<1>2. PICK new : new = [blocks EXCEPT ![m] = b]
  OBVIOUS
<1>3. new \in Seq(BlockRec) /\ DOMAIN new = DOMAIN blocks /\ \A j \in DOMAIN blocks : j # m => new[j] = blocks[j]
  BY <1>1, <1>2, ExceptSeq
<1>4. blocks[m].sort \in {"running", "settled"}
  BY DEF IsIntermediate
<1>5. ASSUME NEW y \in {"final", "drawn"}, HasSort(blocks, y) PROVE HasSort(new, y)
  <2>1. PICK j \in DOMAIN blocks : blocks[j].sort = y
    BY <1>5 DEF HasSort
  <2>2. j # m
    BY <1>4, <2>1
  <2> QED
    BY <1>3, <2>1, <2>2 DEF HasSort
<1> QED
  BY <1>2, <1>3, <1>5

LEMMA BlocksJoined ==
    ASSUME NEW x \in Seq(BlockRec), NEW y \in Seq(BlockRec)
    PROVE  /\ x \o y \in Seq(BlockRec)
           /\ \A s : HasSort(x, s) \/ HasSort(y, s) => HasSort(x \o y, s)
<1>1. PICK z : z = x \o y
  OBVIOUS
<1>2. /\ z \in Seq(BlockRec) /\ Len(x) \in Nat /\ Len(y) \in Nat
      /\ Len(z) = Len(x) + Len(y)
      /\ \A i \in 1 .. Len(x) + Len(y) : z[i] = IF i <= Len(x) THEN x[i] ELSE y[i - Len(x)]
  BY <1>1, ConcatProperties
<1>3. DOMAIN x = 1 .. Len(x) /\ DOMAIN y = 1 .. Len(y) /\ DOMAIN z = 1 .. Len(z)
  BY <1>2
<1>4. ASSUME NEW s, HasSort(x, s) PROVE HasSort(z, s)
  <2>1. PICK i \in 1 .. Len(x) : x[i].sort = s
    BY <1>3, <1>4 DEF HasSort
  <2>2. i \in DOMAIN z /\ z[i] = x[i]
    BY <1>2, <1>3, <2>1
  <2> QED
    BY <2>1, <2>2 DEF HasSort
<1>5. ASSUME NEW s, HasSort(y, s) PROVE HasSort(z, s)
  <2>1. PICK i \in 1 .. Len(y) : y[i].sort = s
    BY <1>3, <1>5 DEF HasSort
  <2>2. Len(x) + i \in DOMAIN z /\ z[Len(x) + i] = y[i]
    BY <1>2, <1>3, <2>1
  <2> QED
    BY <2>1, <2>2 DEF HasSort
<1> QED
  BY <1>1, <1>2, <1>4, <1>5

\* Blocks that keep the answer they have.
Keeps(old, new) ==
    new \in Seq(BlockRec) /\ \A y \in {"final", "drawn"} : HasSort(old, y) => HasSort(new, y)

LEMMA TransientMade ==
    ASSUME NEW s \in StepRec
    PROVE  BuildIntermediateBlock(s) \in Seq(BlockRec)
           /\ (BuildIntermediateBlock(s) # <<>> => BuildIntermediateBlock(s)[1] \in BlockRec)
<1>1. <<>> \in Seq(BlockRec)
  BY EmptySeq
<1>2. Block("running", s.id, s.tool) \in BlockRec /\ Block("settled", s.id, s.tool) \in BlockRec
  BY DEF Block, BlockRec, StepRec, BlockSorts, IsIntermediate
<1>3. /\ <<Block("running", s.id, s.tool)>> \in Seq(BlockRec) /\ <<Block("settled", s.id, s.tool)>> \in Seq(BlockRec)
      /\ <<Block("running", s.id, s.tool)>>[1] \in BlockRec /\ <<Block("settled", s.id, s.tool)>>[1] \in BlockRec
  BY <1>2
<1> QED
  BY <1>1, <1>3 DEF BuildIntermediateBlock

LEMMA StartedBlocks ==
    ASSUME NEW c \in CardRec, NEW s \in StepRec
    PROVE  Keeps(c.blocks, StepStarted(c, s).blocks) /\ StepStarted(c, s) \in CardRec
<1>1. c.blocks \in Seq(BlockRec) /\ c.steps \in Seq(StepRec) /\ c.streaming \in BOOLEAN
  BY DEF CardRec
<1>2. PICK new : new = c.blocks \o BuildIntermediateBlock(s)
  OBVIOUS
<1>3. Keeps(c.blocks, new)
  BY <1>1, <1>2, TransientMade, BlocksJoined DEF Keeps
<1>4. PICK st \in Seq(StepRec) : st = MergeStep(c.steps, s)
  BY <1>1, StepMerged
<1>5. StepStarted(c, s) = [[c EXCEPT !.steps = st] EXCEPT !.blocks = new, !.streaming = c.streaming /\ s.kind # "tool_call"]
  BY <1>2, <1>4 DEF StepStarted, UpdateTaskStep, CardRec
<1>6. (c.streaming /\ s.kind # "tool_call") \in BOOLEAN
  OBVIOUS
<1> QED
  BY <1>1, <1>3, <1>4, <1>5, <1>6 DEF Keeps, CardRec

LEMMA CompletedBlocks ==
    ASSUME NEW c \in CardRec, NEW s \in StepRec, s.id \in Reasons
    PROVE  Keeps(c.blocks, StepCompleted(c, s).blocks) /\ StepCompleted(c, s) \in CardRec
<1>1. c.blocks \in Seq(BlockRec) /\ c.steps \in Seq(StepRec) /\ c.streaming \in BOOLEAN
  BY DEF CardRec
<1> DEFINE S == {i \in DOMAIN c.blocks : c.blocks[i].step = s.id}
           add == BuildIntermediateBlock(s)
<1>2. Len(c.blocks) \in Nat /\ DOMAIN c.blocks = 1 .. Len(c.blocks) /\ S \in SUBSET (1 .. Len(c.blocks))
  BY <1>1
<1>3. PICK m : m = Max({0} \cup S)
  OBVIOUS
<1>4. m \in 0 .. Len(c.blocks) /\ (m # 0 => m \in S)
  BY <1>2, <1>3, LastIndex
<1>5. FindLast(c.blocks, LAMBDA b : b.step = s.id) = m
  BY <1>3 DEF FindLast
<1>6. PICK st \in Seq(StepRec) : st = MergeStep(c.steps, s)
  BY <1>1, StepMerged
<1>7. PICK new : new = IF add = <<>> THEN c.blocks
                       ELSE IF m > 0 THEN [c.blocks EXCEPT ![m] = add[1]] ELSE c.blocks \o add
  OBVIOUS
<1>8. StepCompleted(c, s) = [[c EXCEPT !.steps = st] EXCEPT !.blocks = new]
  BY <1>5, <1>6, <1>7 DEF StepCompleted, UpdateTaskStep, CardRec
<1>9. Keeps(c.blocks, new)
  <2>1. CASE add = <<>>
    BY <1>1, <1>7, <2>1 DEF Keeps
  <2>2. CASE add # <<>> /\ m > 0
    <3>1. m \in DOMAIN c.blocks /\ c.blocks[m].step = s.id /\ c.blocks[m] \in BlockRec
      BY <1>1, <1>4, <2>2
    <3>2. s.id # NoStep.id
      BY DEF Reasons, ReasonStep, NoStep, Step
    <3>3. IsIntermediate(c.blocks[m])
      BY <3>1, <3>2 DEF BlockRec
    <3>4. add[1] \in BlockRec
      BY <2>2, TransientMade
    <3> QED
      BY <1>1, <1>7, <2>2, <3>1, <3>3, <3>4, BlockReplaced DEF Keeps
  <2>3. CASE add # <<>> /\ m = 0
    BY <1>1, <1>7, <2>3, TransientMade, BlocksJoined DEF Keeps
  <2> QED
    BY <1>4, <2>1, <2>2, <2>3
<1> QED
  BY <1>1, <1>6, <1>8, <1>9 DEF Keeps, CardRec

LEMMA ResultBlocks ==
    ASSUME NEW c \in CardRec, NEW t \in ToolNames
    PROVE  Keeps(c.blocks, AgentToolResult(c, t).blocks) /\ AgentToolResult(c, t) \in CardRec
<1>1. c.blocks \in Seq(BlockRec)
  BY DEF CardRec
<1> DEFINE S == {i \in DOMAIN c.blocks : IsIntermediate(c.blocks[i]) /\ c.blocks[i].tool = t}
           A == {i \in DOMAIN c.blocks : IsIntermediate(c.blocks[i])}
<1>2. Len(c.blocks) \in Nat /\ DOMAIN c.blocks = 1 .. Len(c.blocks)
      /\ S \in SUBSET (1 .. Len(c.blocks)) /\ A \in SUBSET (1 .. Len(c.blocks))
  BY <1>1
<1>3. PICK m : m = Max({0} \cup S)
  OBVIOUS
<1>4. PICK n : n = Max({0} \cup A)
  OBVIOUS
<1>5. m \in 0 .. Len(c.blocks) /\ (m # 0 => m \in S) /\ n \in 0 .. Len(c.blocks) /\ (n # 0 => n \in A)
  BY <1>2, <1>3, <1>4, LastIndex
<1>6. FindLast(c.blocks, LAMBDA b : IsIntermediate(b) /\ b.tool = t) = m /\ FindLast(c.blocks, IsIntermediate) = n
  BY <1>3, <1>4 DEF FindLast
<1>7. PICK i : i = IF m > 0 THEN m ELSE n
  OBVIOUS
<1>8. i \in 0 .. Len(c.blocks) /\ (i > 0 => i \in DOMAIN c.blocks /\ IsIntermediate(c.blocks[i]))
  BY <1>2, <1>5, <1>7
<1>9. RichBlock(t) \in BlockRec
  BY DEF RichBlock, Block, BlockRec, Ids, BlockSorts, IsIntermediate
<1>10. PICK new : new = IF i > 0 THEN [c.blocks EXCEPT ![i] = RichBlock(t)] ELSE Append(c.blocks, RichBlock(t))
  OBVIOUS
<1>11. AgentToolResult(c, t) = [c EXCEPT !.blocks = new]
  BY <1>6, <1>7, <1>10 DEF AgentToolResult, CardRec
<1>12. Keeps(c.blocks, new)
  <2>1. CASE i > 0
    BY <1>1, <1>8, <1>9, <1>10, <2>1, BlockReplaced DEF Keeps
  <2>2. CASE i = 0
    <3>1. <<RichBlock(t)>> \in Seq(BlockRec) /\ new = c.blocks \o <<RichBlock(t)>>
      BY <1>1, <1>9, <1>10, <2>2
    <3> QED
      BY <1>1, <3>1, BlocksJoined DEF Keeps
  <2> QED
    BY <1>8, <2>1, <2>2
<1> QED
  BY <1>1, <1>11, <1>12 DEF Keeps, CardRec

LEMMA DrawnBlocks ==
    ASSUME NEW old \in Seq(BlockRec), NEW new \in Seq(BlockRec)
    PROVE  FinalBlocks(old, new) \in Seq(BlockRec) /\ (HasSort(new, "final") => HasSort(FinalBlocks(old, new), "final"))
<1> DEFINE S == {i \in DOMAIN old : IsIntermediate(old[i])}
           T == {i \in DOMAIN old : ~IsIntermediate(old[i]) /\ ~IsReply(old[i])}
<1>1. PICK s \in Seq(BlockRec) : s = Filtered(old, IsIntermediate)
  <2>1. [k \in 1 .. Cardinality(S) |-> old[CHOOSE i \in S : Rank(S, i) = k]] \in Seq(BlockRec)
    <3>1. S \in SUBSET DOMAIN old
      OBVIOUS
    <3> HIDE DEF S
    <3> QED
      BY <3>1, Picked
  <2>2. Filtered(old, IsIntermediate) = [k \in 1 .. Cardinality(S) |-> old[CHOOSE i \in S : Rank(S, i) = k]]
    BY DEF Filtered
  <2> QED
    BY <2>1, <2>2
<1>2. PICK t \in Seq(BlockRec) : t = Filtered(old, LAMBDA b : ~IsIntermediate(b) /\ ~IsReply(b))
  <2>1. [k \in 1 .. Cardinality(T) |-> old[CHOOSE i \in T : Rank(T, i) = k]] \in Seq(BlockRec)
    <3>1. T \in SUBSET DOMAIN old
      OBVIOUS
    <3> HIDE DEF T
    <3> QED
      BY <3>1, Picked
  <2>2. Filtered(old, LAMBDA b : ~IsIntermediate(b) /\ ~IsReply(b))
          = [k \in 1 .. Cardinality(T) |-> old[CHOOSE i \in T : Rank(T, i) = k]]
    BY DEF Filtered
  <2> QED
    BY <2>1, <2>2
<1>3. FinalBlocks(old, new) = t \o new \/ FinalBlocks(old, new) = s \o new
  BY <1>1, <1>2 DEF FinalBlocks
<1> QED
  BY <1>3, BlocksJoined

LEMMA CardDrawn ==
    ASSUME NEW c \in CardRec, NEW new \in Seq(BlockRec)
    PROVE  /\ CardGenerated(c, new) \in CardRec
           /\ CardGenerated(c, new).steps = c.steps /\ CardGenerated(c, new).task = c.task
           /\ CardGenerated(c, new).drawn /\ CardGenerated(c, new).a2ui = c.a2ui
           /\ c.drawn => Keeps(c.blocks, CardGenerated(c, new).blocks)
           /\ ~c.drawn /\ ~HasSurface(c) /\ HasSort(new, "final") => HasSort(CardGenerated(c, new).blocks, "final")
<1>1. c.blocks \in Seq(BlockRec) /\ c.drawn \in BOOLEAN
  BY DEF CardRec
<1>2. CASE c.drawn
  BY <1>1, <1>2 DEF CardGenerated, Keeps, CardRec
<1>3. CASE ~c.drawn
  <2>1. PICK b : b = IF HasSurface(c) \/ new = <<>> THEN c.blocks ELSE FinalBlocks(c.blocks, new)
    OBVIOUS
  <2>2. b \in Seq(BlockRec)
    BY <1>1, <2>1, DrawnBlocks
  <2>3. ~HasSurface(c) /\ HasSort(new, "final") => HasSort(b, "final")
    <3>1. HasSort(new, "final") => new # <<>>
      BY DEF HasSort
    <3> QED
      BY <1>1, <2>1, <3>1, DrawnBlocks
  <2>4. CardGenerated(c, new) = [c EXCEPT !.drawn = TRUE, !.node = "active", !.shown = "completed",
                   !.streaming = FALSE, !.blocks = b]
    BY <1>3, <2>1 DEF CardGenerated, CardRec
  <2> QED
    BY <1>3, <2>2, <2>3, <2>4 DEF CardRec
<1> QED
  BY <1>1, <1>2, <1>3

StepTypes == {"step_started", "step_progress", "step_completed", "approval_required"}

CardStep(c, d, e) ==
    /\ d \in CardRec
    /\ IF e.type \in StepTypes THEN Merged(c.steps, d.steps, e.step) ELSE d.steps = c.steps
    /\ d.task = IF e.type = "task_started" THEN "running"
                ELSE IF e.type = "task_completed" THEN "completed"
                ELSE IF e.type = "task_failed" THEN "failed" ELSE c.task
    /\ d.drawn <=> (c.drawn \/ e.type = "card_generated")
    /\ d.a2ui = IF e.type = "beginRendering" THEN "drawn"
                ELSE IF e.type = "deleteSurface" THEN "none" ELSE c.a2ui
    /\ c.drawn => Keeps(c.blocks, d.blocks)
    /\ e.type = "card_generated" /\ ~c.drawn /\ HasSort(e.blocks, "final") =>
         HasSurface(c) \/ HasSort(d.blocks, "final")

LEMMA CardStepTaken ==
    ASSUME NEW c \in CardRec, NEW e \in EventRec
    PROVE  CardStep(c, HandleAgentEvent(c, e), e)
<1>1. /\ c.blocks \in Seq(BlockRec) /\ c.steps \in Seq(StepRec) /\ c.drawn \in BOOLEAN /\ c.a2ui \in {"none", "older", "drawn"}
      /\ e.step \in StepRec /\ e.tool \in ToolNames /\ e.blocks \in Seq(BlockRec) /\ e.type \in EventTypes
      /\ StepFits(e.type, e.step)
  BY DEF CardRec, EventRec
<1>2. PICK st \in Seq(StepRec) : st = MergeStep(c.steps, e.step) /\ Merged(c.steps, st, e.step)
  BY <1>1, StepMerged
<1>3. Keeps(c.blocks, c.blocks)
  BY <1>1 DEF Keeps
<1>4. CASE e.type = "task_started"
  <2>1. HandleAgentEvent(c, e) = [[c EXCEPT !.task = "running"] EXCEPT !.shown = "running"]
    BY <1>4 DEF HandleAgentEvent, A2UIMessages, TaskStarted, UpdateTaskStatus
  <2> QED
    BY <1>3, <1>4, <2>1 DEF CardStep, CardRec, StepTypes
<1>5. CASE e.type = "task_completed"
  <2>1. HandleAgentEvent(c, e) = [[c EXCEPT !.task = "completed"] EXCEPT !.shown = "completed", !.streaming = FALSE,
                                      !.node = IF c.node = "synthesizing" THEN "active" ELSE c.node]
    BY <1>5 DEF HandleAgentEvent, A2UIMessages, TaskCompleted, UpdateTaskStatus, CardRec
  <2> QED
    BY <1>3, <1>5, <2>1 DEF CardStep, CardRec, StepTypes
<1>6. CASE e.type = "task_failed"
  <2>1. HandleAgentEvent(c, e) = [[c EXCEPT !.task = "failed"] EXCEPT !.shown = "failed", !.node = "active", !.streaming = FALSE]
    BY <1>6 DEF HandleAgentEvent, A2UIMessages, TaskFailed, UpdateTaskStatus
  <2> QED
    BY <1>3, <1>6, <2>1 DEF CardStep, CardRec, StepTypes
<1>7. CASE e.type = "step_started"
  <2>1. PICK d : d = StepStarted(c, e.step) /\ d = HandleAgentEvent(c, e)
    BY <1>7 DEF HandleAgentEvent, A2UIMessages
  <2>2. d.steps = st /\ d.task = c.task /\ d.drawn = c.drawn /\ d.a2ui = c.a2ui
    BY <1>2, <2>1 DEF StepStarted, UpdateTaskStep, CardRec
  <2> QED
    BY <1>1, <1>2, <1>7, <2>1, <2>2, StartedBlocks DEF CardStep, StepTypes
<1>8. CASE e.type = "step_progress"
  <2>1. HandleAgentEvent(c, e) = [c EXCEPT !.steps = st]
    BY <1>2, <1>8 DEF HandleAgentEvent, A2UIMessages, StepProgress, UpdateTaskStep, CardRec
  <2> QED
    BY <1>2, <1>3, <1>8, <2>1 DEF CardStep, CardRec, StepTypes
<1>9. CASE e.type = "step_completed"
  <2>1. PICK d : d = StepCompleted(c, e.step) /\ d = HandleAgentEvent(c, e)
    BY <1>9 DEF HandleAgentEvent, A2UIMessages
  <2>2. d.steps = st /\ d.task = c.task /\ d.drawn = c.drawn /\ d.a2ui = c.a2ui
    BY <1>2, <2>1 DEF StepCompleted, UpdateTaskStep, CardRec
  <2>3. e.step.id \in Reasons
    BY <1>1, <1>9 DEF StepFits
  <2> QED
    BY <1>1, <1>2, <1>9, <2>1, <2>2, <2>3, CompletedBlocks DEF CardStep, StepTypes
<1>10. CASE e.type = "approval_required"
  <2>1. HandleAgentEvent(c, e) = [[c EXCEPT !.steps = st] EXCEPT !.shown = "waiting_approval"]
    BY <1>2, <1>10 DEF HandleAgentEvent, A2UIMessages, ApprovalRequired, UpdateTaskStep, CardRec
  <2> QED
    BY <1>2, <1>3, <1>10, <2>1 DEF CardStep, CardRec, StepTypes
<1>11. CASE e.type = "card_generated"
  <2>1. HandleAgentEvent(c, e) = CardGenerated(c, e.blocks)
    BY <1>11 DEF HandleAgentEvent, A2UIMessages
  <2> QED
    BY <1>1, <1>11, <2>1, CardDrawn DEF CardStep, StepTypes
<1>12. CASE e.type = "agent_stream"
  <2>1. HandleAgentEvent(c, e) = c \/ HandleAgentEvent(c, e) = [c EXCEPT !.streaming = TRUE]
    BY <1>12 DEF HandleAgentEvent, A2UIMessages, AgentStream
  <2> QED
    BY <1>1, <1>3, <1>12, <2>1 DEF CardStep, CardRec, StepTypes
<1>13. CASE e.type = "agent_ui_patch"
  <2>1. PICK new : new = c.blocks \o e.blocks
    OBVIOUS
  <2>2. HandleAgentEvent(c, e) = [c EXCEPT !.blocks = new]
    BY <1>13, <2>1 DEF HandleAgentEvent, A2UIMessages, AgentUiPatch, CardRec
  <2>3. Keeps(c.blocks, new)
    BY <1>1, <2>1, BlocksJoined DEF Keeps
  <2>4. new \in Seq(BlockRec)
    BY <2>3 DEF Keeps
  <2> QED
    BY <1>1, <1>13, <2>2, <2>3, <2>4 DEF CardStep, CardRec, StepTypes
<1>14. CASE e.type \in A2UIMessages
  <2>1. PICK a : a = IF e.type = "beginRendering" THEN "drawn"
                     ELSE IF e.type = "deleteSurface" THEN "none" ELSE c.a2ui
    OBVIOUS
  <2>2. HandleAgentEvent(c, e) = [c EXCEPT !.a2ui = a]
    BY <1>14, <2>1 DEF HandleAgentEvent, AgentA2UIMessage, A2UIMessages, CardRec
  <2>3. e.type \notin StepTypes
    BY <1>14 DEF StepTypes, A2UIMessages
  <2> QED
    BY <1>1, <1>3, <1>14, <2>1, <2>2, <2>3 DEF CardStep, CardRec, A2UIMessages
<1>15. CASE e.type = "agent_tool_result"
  <2>1. PICK d : d = AgentToolResult(c, e.tool) /\ d = HandleAgentEvent(c, e)
    BY <1>15 DEF HandleAgentEvent, A2UIMessages
  <2>2. d.steps = c.steps /\ d.task = c.task /\ d.drawn = c.drawn /\ d.a2ui = c.a2ui
    BY <2>1 DEF AgentToolResult, CardRec
  <2> QED
    BY <1>1, <1>15, <2>1, <2>2, ResultBlocks DEF CardStep, StepTypes
<1>16. CASE e.type = "conversation_message"
  <2>1. HandleAgentEvent(c, e) = c
    BY <1>16 DEF HandleAgentEvent, A2UIMessages
  <2> QED
    BY <1>1, <1>3, <1>16, <2>1 DEF CardStep, StepTypes
<1> QED
  BY <1>1, <1>4, <1>5, <1>6, <1>7, <1>8, <1>9, <1>10, <1>11, <1>12, <1>13, <1>14, <1>15, <1>16 DEF EventTypes

(***************************************************************************)
(* Types are kept.                                                           *)
(***************************************************************************)
LEMMA InitTypes == Init => TypeInv
<1> SUFFICES ASSUME Init PROVE TypeInv
  OBVIOUS
<1>1. transport \in {"tauri", "sse"} /\ transport \in Transports /\ mode \in {"task", "os"} /\ mode \in Modes
  BY AgentRunAssumption DEF Init
<1>2. <<>> \in Seq(EventRec) /\ <<>> \in Seq(Tools) /\ <<>> \in Seq(StepRec) /\ <<>> \in Seq(BlockRec)
  BY EmptySeq
<1>3. run \in RunRec
  BY <1>2 DEF Init, NewRun, RunRec, Phases
<1>4. kernel \in KernelRec /\ HasCall
  BY <1>2 DEF Init, KernelRec, HasCall, Ats
<1>5. NewCard \in CardRec
  BY <1>2 DEF NewCard, CardRec
<1>6. ASSUME NEW d \in BOOLEAN, NEW left \in {LeftBlocks(d), LeftSurface(d)}, NEW reply \in {"you", "redo"}
      PROVE  ResumeCard(left, reply) \in CardRec
  <2>1. PICK a \in BlockRec : a = Plain(IF d THEN "drawn" ELSE "older")
    BY BlocksMade DEF BlockSorts
  <2>2. PICK y \in BlockRec : y = Plain(reply)
    BY BlocksMade DEF BlockSorts
  <2>3. PICK bs : bs = <<a>> /\ bs \in Seq(BlockRec)
    <3>1. PICK bs : bs = <<a>>
      OBVIOUS
    <3>2. bs \in Seq(BlockRec)
      BY <3>1
    <3> QED
      BY <3>1, <3>2
  <2>4. LeftBlocks(d) = [NewCard EXCEPT !.blocks = bs, !.drawn = d]
    BY <2>1, <2>3 DEF LeftBlocks
  <2>5. LeftBlocks(d) \in CardRec /\ LeftSurface(d) \in CardRec
    <3>1. LeftBlocks(d) \in CardRec
      BY <1>5, <2>3, <2>4 DEF CardRec
    <3>2. LeftSurface(d) \in CardRec
      BY <1>5 DEF CardRec, LeftSurface
    <3> QED
      BY <3>1, <3>2
  <2>6. left \in CardRec
    BY <2>5
  <2>7. PICK b \in Seq(BlockRec) : b = Append(left.blocks, y)
    BY <2>6, AppendProperties DEF CardRec
  <2>8. ResumeCard(left, reply) = [left EXCEPT !.node = "synthesizing", !.shown = "running",
                                               !.task = "running", !.steps = <<>>, !.blocks = b]
    BY <2>2, <2>6, <2>7 DEF ResumeCard, CardRec
  <2> QED
    BY <1>2, <2>6, <2>7, <2>8 DEF CardRec
<1>7. card \in CardRec
  BY <1>5, <1>6 DEF Init, Cards
<1> QED
  BY <1>1, <1>3, <1>4, <1>7 DEF Init, TypeInv

\* What the finally clause leaves of a run.
LetGo(r, r2) ==
    /\ r2 \in RunRec /\ r2.phase = "over" /\ r2.queue = <<>>
    /\ ~r2.listening /\ r2.source # "open" /\ (r.source = "none" => r2.source = "none")
    /\ r2.finished = r.finished /\ r2.timer = r.timer /\ r2.idx = r.idx /\ r2.a2ui = r.a2ui

LEMMA ReleaseLets ==
    ASSUME NEW r \in RunRec
    PROVE  LetGo(r, Release(r))
<1>1. <<>> \in Seq(EventRec)
  BY EmptySeq
<1> QED
  BY <1>1 DEF LetGo, Release, CloseSource, RunRec, Phases

\* The card after the first event, and after the failure of the submission.
LEMMA SignalledCard ==
    ASSUME card \in CardRec, NEW y \in {"task_started", "task_failed"}
    PROVE  CardStep(card, HandleAgentEvent(card, Signal(y)), Signal(y)) /\ Signal(y).type = y
<1>1. Signal(y) \in EventRec /\ Signal(y).type = y
  BY SignalMade DEF EventTypes
<1> QED
  BY <1>1, CardStepTaken

\* What the loop takes off the queue.
LEMMA FirstEvent ==
    ASSUME run \in RunRec, run.queue # <<>>
    PROVE  /\ Head(run.queue) \in EventRec /\ Head(run.queue) = run.queue[1] /\ 1 \in DOMAIN run.queue
           /\ Tail(run.queue) \in Seq(EventRec)
           /\ Len(run.queue) \in Nat \ {0} /\ DOMAIN run.queue = 1 .. Len(run.queue)
           /\ DOMAIN Tail(run.queue) = 1 .. Len(run.queue) - 1
           /\ Len(Tail(run.queue)) = Len(run.queue) - 1
           /\ \A i \in 1 .. Len(run.queue) - 1 : Tail(run.queue)[i] = run.queue[i + 1]
<1>1. run.queue \in Seq(EventRec)
  BY DEF RunRec
<1>2. PICK q \in Seq(EventRec) : q = run.queue /\ q # <<>>
  BY <1>1
<1>3. Len(q) \in Nat \ {0} /\ DOMAIN q = 1 .. Len(q) /\ Head(q) = q[1] /\ q[1] \in EventRec
  BY <1>2, HeadTailProperties
<1>4. /\ Tail(q) \in Seq(EventRec) /\ Len(Tail(q)) = Len(q) - 1
      /\ \A i \in 1 .. Len(Tail(q)) : Tail(q)[i] = q[i + 1]
  BY <1>2, HeadTailProperties
<1>5. DOMAIN Tail(q) = 1 .. Len(q) - 1
  BY <1>3, <1>4
<1> QED
  BY <1>2, <1>3, <1>4, <1>5

LEMMA HandledCard ==
    ASSUME TypeInv, run.queue # <<>>
    PROVE  CardStep(card, HandleAgentEvent(card, Head(run.queue)), Head(run.queue))
<1>1. Head(run.queue) \in EventRec
  BY FirstEvent DEF TypeInv
<1> QED
  BY <1>1, CardStepTaken DEF TypeInv

LEMMA TypeStep ==
    TypeInv /\ RunInv /\ [Next]_vars => TypeInv'
<1> SUFFICES ASSUME TypeInv, RunInv, [Next]_vars PROVE TypeInv'
  OBVIOUS
<1>1. /\ kernel \in KernelRec /\ HasCall /\ run \in RunRec /\ card \in CardRec
      /\ replies \in Nat /\ outcomes \in Nat
      /\ aborted \in BOOLEAN /\ early \in BOOLEAN /\ stale \in BOOLEAN
      /\ prompt \in [decided : BOOLEAN, reply : BOOLEAN]
  BY DEF TypeInv
<1>2. CASE KernelStep \/ FallbackFires \/ ConnectionLost
  <2>1. PICK q, e : Outside(q, e)
    BY <1>2, OutsideStep
  <2>2. kernel' \in KernelRec /\ HasCall'
    BY <1>1, <2>1 DEF Outside, Moves, HasCall
  <2>3. run' \in RunRec /\ early' \in BOOLEAN /\ UNCHANGED <<transport, mode, outcomes, uiVars>>
    BY <2>1 DEF Outside, Heard, Grows
  <2> QED
    BY <2>2, <2>3 DEF TypeInv, uiVars
<1>3. CASE Subscribe \/ SubscribeFails
  <2>1. run' \in RunRec /\ UNCHANGED <<transport, mode, kernel, replies, aborted, prompt, stale, historyVars>>
    BY <1>1, <1>3 DEF Subscribe, SubscribeFails, RunRec, Phases, uiVars
  <2>2. card' \in CardRec
    BY <1>1, <1>3 DEF Subscribe, SubscribeFails, CardRec, uiVars
  <2> QED
    BY <2>1, <2>2 DEF TypeInv, HasCall, historyVars
<1>4. CASE YieldStarted
  <2>1. run' \in RunRec /\ UNCHANGED <<transport, mode, replies, aborted, prompt, stale, historyVars>>
    BY <1>1, <1>4 DEF YieldStarted, RunRec, Phases
  <2>2. kernel' \in KernelRec /\ HasCall'
    BY <1>1, <1>4 DEF YieldStarted, KernelRec, HasCall, Ats
  <2>3. card' \in CardRec
    BY <1>1, <1>4, SignalledCard DEF YieldStarted, CardStep
  <2> QED
    BY <2>1, <2>2, <2>3 DEF TypeInv, historyVars
<1>5. CASE SubmitReturns \/ DrainAborted
  <2>1. Release(run) \in RunRec
    BY <1>1, ReleaseLets DEF LetGo
  <2>2. [run EXCEPT !.phase = "draining"] \in RunRec
    BY <1>1 DEF RunRec, Phases
  <2>3. run' = Release(run) \/ run' = [run EXCEPT !.phase = "draining"]
    BY <1>5 DEF SubmitReturns, DrainAborted
  <2>4. run' \in RunRec
    BY <2>1, <2>2, <2>3
  <2>5. UNCHANGED <<transport, mode, kernel, uiVars, historyVars>>
    BY <1>5 DEF SubmitReturns, DrainAborted
  <2> QED
    BY <1>1, <2>4, <2>5 DEF TypeInv, HasCall, uiVars, historyVars
<1>6. CASE SubmitFails
  <2>1. run' \in RunRec /\ UNCHANGED <<transport, mode, aborted, prompt, stale, early, lost>>
    BY <1>1, <1>6 DEF SubmitFails, RunRec, Phases
  <2>2. kernel' \in KernelRec /\ HasCall'
    BY <1>1, <1>6 DEF SubmitFails, KernelRec, HasCall, Ats
  <2>3. card' \in CardRec
    BY <1>1, <1>6, SignalledCard DEF SubmitFails, CardStep
  <2>4. replies' \in Nat /\ outcomes' \in Nat
    BY <1>1, <1>6 DEF SubmitFails
  <2> QED
    BY <2>1, <2>2, <2>3, <2>4 DEF TypeInv
<1>7. CASE DrainToCard
  <2>1. run.queue # <<>> /\ UNCHANGED <<transport, mode, kernel, replies, aborted, prompt, stale, early, lost>>
    BY <1>7 DEF DrainToCard
  <2>2. card' \in CardRec
    BY <1>7, <2>1, HandledCard DEF DrainToCard, CardStep
  <2>3. Release(run) \in RunRec /\ Tail(run.queue) \in Seq(EventRec)
    BY <1>1, <2>1, ReleaseLets, FirstEvent DEF LetGo
  <2>4. (run.finished \/ Head(run.queue).type \in Terminal) \in BOOLEAN
    OBVIOUS
  <2>5. [run EXCEPT !.queue = Tail(run.queue), !.finished = run.finished \/ Head(run.queue).type \in Terminal] \in RunRec
    BY <1>1, <2>3, <2>4 DEF RunRec
  <2>6. run' \in RunRec
    <3>1. \/ run' = Release(run)
          \/ run' = [run EXCEPT !.queue = Tail(run.queue), !.finished = run.finished \/ Head(run.queue).type \in Terminal]
      BY <1>1, <1>7 DEF DrainToCard, RunRec
    <3> QED
      BY <2>3, <2>5, <3>1
  <2>7. outcomes' \in Nat
    BY <1>1, <1>7 DEF DrainToCard
  <2> QED
    BY <2>1, <2>2, <2>6, <2>7 DEF TypeInv, HasCall
<1>8. CASE DrainToChat
  <2>1. run.queue # <<>> /\ UNCHANGED <<transport, mode, kernel, card, aborted, prompt, stale, early, lost>>
    BY <1>8 DEF DrainToChat
  <2>2. Release(run) \in RunRec /\ Tail(run.queue) \in Seq(EventRec)
    BY <1>1, <2>1, ReleaseLets, FirstEvent DEF LetGo
  <2>3. run' \in RunRec
    BY <1>1, <1>8, <2>2 DEF DrainToChat, RunRec
  <2>4. replies' \in Nat /\ outcomes' \in Nat
    BY <1>1, <1>8 DEF DrainToChat, OsReplies
  <2> QED
    BY <2>1, <2>3, <2>4 DEF TypeInv, HasCall
<1>9. CASE Cancel \/ DecisionReturns \/ Remount
  <2>1. UNCHANGED <<transport, mode, kernel, run, replies, historyVars>>
    BY <1>9 DEF Cancel, DecisionReturns, Remount
  <2>2. card' \in CardRec
    BY <1>1, <1>9 DEF Cancel, DecisionReturns, Remount, CancelCard, DecidedCard, UpdateTaskStatus, CardRec
  <2>3. aborted' \in BOOLEAN /\ stale' \in BOOLEAN
    BY <1>1, <1>9 DEF Cancel, DecisionReturns, Remount
  <2>4. prompt' \in [decided : BOOLEAN, reply : BOOLEAN]
    BY <1>1, <1>9 DEF Cancel, DecisionReturns, Remount
  <2> QED
    BY <2>1, <2>2, <2>3, <2>4 DEF TypeInv, HasCall, historyVars
<1>10. CASE \E a \in BOOLEAN : Decide(a)
  <2>1. PICK a \in BOOLEAN : Decide(a)
    BY <1>10
  <2>2. UNCHANGED <<transport, mode, run, card, replies, aborted, stale, historyVars>>
    BY <2>1 DEF Decide
  <2>3. AfterVerdict(a) \in {"approved", "refused"}
    BY DEF AfterVerdict
  <2>4. kernel' = kernel \/ (kernel.at = "asked" /\ kernel' = [kernel EXCEPT !.at = AfterVerdict(a)])
    BY <2>1 DEF Decide
  <2>5. kernel' \in KernelRec /\ HasCall'
    BY <1>1, <2>3, <2>4 DEF KernelRec, HasCall, Ats
  <2>6. prompt' \in [decided : BOOLEAN, reply : BOOLEAN]
    <3>1. (prompt.reply \/ transport = "tauri") \in BOOLEAN
      OBVIOUS
    <3> QED
      BY <2>1, <3>1 DEF Decide
  <2> QED
    BY <2>2, <2>5, <2>6 DEF TypeInv, historyVars
<1>11. CASE UNCHANGED vars
  BY <1>11 DEF TypeInv, HasCall, vars
<1> QED
  BY <1>2, <1>3, <1>4, <1>5, <1>6, <1>7, <1>8, <1>9, <1>10, <1>11 DEF Next, RunStep, UserStep

(***************************************************************************)
(* What is queued, told and answered.                                        *)
(***************************************************************************)
Ended(q) == q # <<>> /\ q[Len(q)].type \in Terminal
\* The Tauri response does not look at finished: the queue may end twice.
Doubled == transport = "tauri" /\ early

\* A terminal event is queued exactly when the run has finished, as the last one; it
\* is the only one, unless the end came before the submission returned.
QueueInv ==
    /\ Active => IF run.finished THEN Ended(run.queue) ELSE NoTerminal(run.queue)
    /\ Active /\ run.finished /\ ~Doubled => OneTerminal(run.queue)
    /\ Active /\ ~Doubled => outcomes = 0
    /\ outcomes <= 1 \/ Doubled
    /\ run.phase \in {"setup", "thrown"} => outcomes = 0

\* A chat message stands right before the end.
Heralds(q) ==
    \A i \in DOMAIN q : q[i].type = "conversation_message" => i < Len(q) /\ q[i + 1].type \in Terminal

\* The chat got its reply or will: the message is queued, right before the end.
Replies ==
    mode = "os" =>
      /\ Active => Heralds(run.queue)
      /\ run.phase # "draining" /\ ~Over => replies = 0
      /\ run.phase = "draining" =>
             \/ replies = 0
             \/ replies = 1 /\ run.queue # <<>> /\ Head(run.queue).type \in Terminal
      /\ run.phase \in {"over", "failed"} => aborted \/ replies = 1

\* A task record says running after the end only because a verdict came late.
Running ==
    mode = "task" /\ card.task = "running" /\ (aborted \/ run.phase \in {"over", "failed"}) => stale

CoreInv == RunInv /\ QueueInv /\ Replies /\ Running

\* Two lists of events, one after the other.
LEMMA Joined ==
    ASSUME NEW s \in Seq(EventRec), NEW t \in Seq(EventRec)
    PROVE  /\ s \o t \in Seq(EventRec)
           /\ Len(s) \in Nat /\ Len(t) \in Nat /\ Len(s \o t) = Len(s) + Len(t)
           /\ DOMAIN s = 1 .. Len(s) /\ DOMAIN t = 1 .. Len(t) /\ DOMAIN (s \o t) = 1 .. Len(s) + Len(t)
           /\ \A i \in 1 .. Len(s) : (s \o t)[i] = s[i]
           /\ \A i \in 1 .. Len(t) : (s \o t)[Len(s) + i] = t[i]
           /\ \A i \in 1 .. Len(s) + Len(t) : i <= Len(s) \/ (i - Len(s) \in 1 .. Len(t) /\ (s \o t)[i] = t[i - Len(s)])
           /\ s # <<>> <=> Len(s) > 0
           /\ t # <<>> <=> Len(t) > 0
           /\ s \o t # <<>> <=> Len(s) + Len(t) > 0
<1>1. PICK z : z = s \o t
  OBVIOUS
<1>2. /\ z \in Seq(EventRec) /\ Len(s) \in Nat /\ Len(t) \in Nat /\ Len(z) = Len(s) + Len(t)
      /\ \A i \in 1 .. Len(s) + Len(t) : z[i] = IF i <= Len(s) THEN s[i] ELSE t[i - Len(s)]
  BY <1>1, ConcatProperties
<1>3. DOMAIN s = 1 .. Len(s) /\ DOMAIN t = 1 .. Len(t) /\ DOMAIN z = 1 .. Len(z)
  BY <1>2
<1>4. \A i \in 1 .. Len(s) : z[i] = s[i]
  BY <1>2
<1>5. \A i \in 1 .. Len(t) : z[Len(s) + i] = t[i]
  BY <1>2
<1>6. \A i \in 1 .. Len(s) + Len(t) : i <= Len(s) \/ (i - Len(s) \in 1 .. Len(t) /\ z[i] = t[i - Len(s)])
  BY <1>2
<1>7. (s # <<>> <=> Len(s) > 0) /\ (t # <<>> <=> Len(t) > 0) /\ (z # <<>> <=> Len(z) > 0)
  BY <1>2, EmptySeq
<1> QED
  BY <1>1, <1>2, <1>3, <1>4, <1>5, <1>6, <1>7

\* An event of the joined list is one of the first or one of the second.
LEMMA Located ==
    ASSUME NEW s \in Seq(EventRec), NEW t \in Seq(EventRec), NEW i \in DOMAIN (s \o t)
    PROVE  i \in DOMAIN s \/ \E k \in DOMAIN t : i = Len(s) + k
<1>1. Len(s) \in Nat /\ Len(t) \in Nat /\ DOMAIN s = 1 .. Len(s) /\ DOMAIN t = 1 .. Len(t)
      /\ i \in 1 .. Len(s) + Len(t)
  BY Joined
<1>2. CASE i <= Len(s)
  BY <1>1, <1>2
<1>3. CASE ~(i <= Len(s))
  <2>1. i - Len(s) \in DOMAIN t /\ i = Len(s) + (i - Len(s))
    BY <1>1, <1>3
  <2> QED
    BY <2>1
<1> QED
  BY <1>2, <1>3

LEMMA EndsJoined ==
    ASSUME NEW s \in Seq(EventRec), NEW t \in Seq(EventRec)
    PROVE  /\ NoTerminal(s) /\ NoTerminal(t) => NoTerminal(s \o t)
           /\ NoTerminal(s) /\ OneTerminal(t) => OneTerminal(s \o t)
           /\ OneTerminal(t) => Ended(s \o t)
           /\ OneTerminal(s) => Ended(s)
<1>1. PICK z : z = s \o t
  OBVIOUS
<1>2. /\ Len(s) \in Nat /\ Len(t) \in Nat /\ Len(z) = Len(s) + Len(t)
      /\ DOMAIN s = 1 .. Len(s) /\ DOMAIN t = 1 .. Len(t) /\ DOMAIN z = 1 .. Len(s) + Len(t)
      /\ \A i \in 1 .. Len(s) : z[i] = s[i]
      /\ \A i \in 1 .. Len(t) : z[Len(s) + i] = t[i]
      /\ \A i \in 1 .. Len(s) + Len(t) : i <= Len(s) \/ (i - Len(s) \in 1 .. Len(t) /\ z[i] = t[i - Len(s)])
      /\ s # <<>> <=> Len(s) > 0
      /\ t # <<>> <=> Len(t) > 0
      /\ z # <<>> <=> Len(s) + Len(t) > 0
  BY <1>1, Joined
<1>3. ASSUME NoTerminal(s), NoTerminal(t) PROVE NoTerminal(z)
  <2> SUFFICES ASSUME NEW i \in 1 .. Len(s) + Len(t) PROVE z[i].type \notin Terminal
    BY <1>2 DEF NoTerminal
  <2>1. CASE i <= Len(s)
    <3>1. z[i] = s[i] /\ i \in DOMAIN s
      BY <1>2, <2>1
    <3> QED
      BY <1>3, <3>1 DEF NoTerminal
  <2>2. CASE i - Len(s) \in 1 .. Len(t) /\ z[i] = t[i - Len(s)]
    <3>1. i - Len(s) \in DOMAIN t
      BY <1>2, <2>2
    <3> QED
      BY <1>3, <2>2, <3>1 DEF NoTerminal
  <2> QED
    BY <1>2, <2>1, <2>2
<1>4. ASSUME NoTerminal(s), OneTerminal(t) PROVE OneTerminal(z)
  <2>1. z # <<>>
    BY <1>2, <1>4 DEF OneTerminal
  <2> SUFFICES ASSUME NEW i \in 1 .. Len(s) + Len(t) PROVE z[i].type \in Terminal <=> i = Len(z)
    BY <1>2, <2>1 DEF OneTerminal
  <2>2. Len(t) > 0
    BY <1>2, <1>4 DEF OneTerminal
  <2>3. CASE i <= Len(s)
    <3>1. z[i] = s[i] /\ i \in DOMAIN s
      BY <1>2, <2>3
    <3>2. z[i].type \notin Terminal
      BY <1>4, <3>1 DEF NoTerminal
    <3> QED
      BY <1>2, <2>2, <2>3, <3>2
  <2>4. CASE i - Len(s) \in 1 .. Len(t) /\ z[i] = t[i - Len(s)]
    <3>1. z[i].type \in Terminal <=> i - Len(s) = Len(t)
      BY <1>2, <1>4, <2>4 DEF OneTerminal
    <3> QED
      BY <1>2, <3>1
  <2> QED
    BY <1>2, <2>3, <2>4
<1>5. ASSUME OneTerminal(t) PROVE Ended(z)
  <2>1. Len(t) > 0 /\ Len(t) \in DOMAIN t
    BY <1>2, <1>5 DEF OneTerminal
  <2>2. t[Len(t)].type \in Terminal /\ z[Len(z)] = t[Len(t)]
    BY <1>2, <1>5, <2>1 DEF OneTerminal
  <2> QED
    BY <1>2, <2>1, <2>2 DEF Ended
<1>6. ASSUME OneTerminal(s) PROVE Ended(s)
  <2>1. Len(s) \in DOMAIN s
    BY <1>2, <1>6 DEF OneTerminal
  <2> QED
    BY <1>6, <2>1 DEF OneTerminal, Ended
<1> QED
  BY <1>1, <1>3, <1>4, <1>5, <1>6

LEMMA HeraldsJoined ==
    ASSUME NEW s \in Seq(EventRec), NEW t \in Seq(EventRec), Heralds(s), Heralds(t)
    PROVE  Heralds(s \o t)
<1>1. PICK z : z = s \o t
  OBVIOUS
<1>2. /\ Len(s) \in Nat /\ Len(t) \in Nat /\ Len(z) = Len(s) + Len(t)
      /\ DOMAIN s = 1 .. Len(s) /\ DOMAIN t = 1 .. Len(t) /\ DOMAIN z = 1 .. Len(s) + Len(t)
      /\ \A i \in 1 .. Len(s) : z[i] = s[i]
      /\ \A i \in 1 .. Len(t) : z[Len(s) + i] = t[i]
      /\ \A i \in 1 .. Len(s) + Len(t) : i <= Len(s) \/ (i - Len(s) \in 1 .. Len(t) /\ z[i] = t[i - Len(s)])
  BY <1>1, Joined
<1> SUFFICES ASSUME NEW i \in 1 .. Len(s) + Len(t), z[i].type = "conversation_message"
             PROVE  i < Len(z) /\ z[i + 1].type \in Terminal
  BY <1>1, <1>2 DEF Heralds
<1>3. CASE i <= Len(s)
  <2>1. i \in DOMAIN s /\ s[i].type = "conversation_message"
    BY <1>2, <1>3
  <2>2. i < Len(s) /\ s[i + 1].type \in Terminal
    BY <2>1 DEF Heralds
  <2>3. z[i + 1] = s[i + 1]
    BY <1>2, <2>2
  <2> QED
    BY <1>2, <2>2, <2>3
<1>4. CASE i - Len(s) \in 1 .. Len(t) /\ z[i] = t[i - Len(s)]
  <2>1. PICK k \in 1 .. Len(t) : k = i - Len(s) /\ t[k].type = "conversation_message"
    BY <1>4
  <2>2. k < Len(t) /\ t[k + 1].type \in Terminal
    BY <1>2, <2>1 DEF Heralds
  <2>3. z[Len(s) + (k + 1)] = t[k + 1] /\ Len(s) + (k + 1) = i + 1
    BY <1>2, <2>1, <2>2
  <2> QED
    BY <1>2, <2>1, <2>2, <2>3
<1> QED
  BY <1>2, <1>3, <1>4

LEMMA HeraldsTail ==
    ASSUME run \in RunRec, run.queue # <<>>, Heralds(run.queue)
    PROVE  /\ Heralds(Tail(run.queue))
           /\ Head(run.queue).type = "conversation_message" =>
                Tail(run.queue) # <<>> /\ Head(Tail(run.queue)).type \in Terminal
<1>1. PICK q, t : q = run.queue /\ t = Tail(q)
  OBVIOUS
<1>2. /\ Head(q) = q[1] /\ 1 \in DOMAIN q /\ t \in Seq(EventRec)
      /\ Len(q) \in Nat \ {0} /\ DOMAIN q = 1 .. Len(q) /\ DOMAIN t = 1 .. Len(q) - 1 /\ Len(t) = Len(q) - 1
      /\ \A i \in 1 .. Len(q) - 1 : t[i] = q[i + 1]
  BY <1>1, FirstEvent
<1>3. Heralds(t)
  <2> SUFFICES ASSUME NEW i \in 1 .. Len(q) - 1, t[i].type = "conversation_message"
               PROVE  i < Len(t) /\ t[i + 1].type \in Terminal
    BY <1>2 DEF Heralds
  <2>1. i + 1 \in DOMAIN q /\ q[i + 1].type = "conversation_message"
    BY <1>2
  <2>2. i + 1 < Len(q) /\ q[(i + 1) + 1].type \in Terminal
    BY <1>1, <2>1 DEF Heralds
  <2>3. i + 1 \in 1 .. Len(q) - 1 /\ t[i + 1] = q[(i + 1) + 1]
    BY <1>2, <2>2
  <2> QED
    BY <1>2, <2>2, <2>3
<1>4. ASSUME Head(q).type = "conversation_message"
      PROVE  t # <<>> /\ Head(t).type \in Terminal
  <2>1. 1 < Len(q) /\ q[1 + 1].type \in Terminal
    BY <1>1, <1>2, <1>4 DEF Heralds
  <2>2. 1 \in 1 .. Len(q) - 1 /\ t[1] = q[1 + 1] /\ Len(t) > 0
    BY <1>2, <2>1
  <2>3. t # <<>>
    BY <2>2
  <2>4. Head(t) = t[1]
    BY <1>2, <2>3, HeadTailProperties
  <2> QED
    BY <2>1, <2>2, <2>3, <2>4
<1> QED
  BY <1>1, <1>3, <1>4

\* The loop takes event e.
Takes(e) ==
    /\ run.phase = "draining" /\ run.queue # <<>> /\ ~aborted /\ e = Head(run.queue)
    /\ outcomes' = outcomes + (IF e.type \in Terminal THEN 1 ELSE 0)
    /\ UNCHANGED <<transport, mode, kernel, aborted, prompt, stale, early>>
    /\ \/ LetGo(run, run')
          /\ (mode = "task" => Len(run.queue) = 1 /\ (run.finished \/ e.type \in Terminal))
          /\ (mode = "os" => e.type \in Terminal)
       \/ /\ run' \in RunRec /\ run'.queue = Tail(run.queue) /\ run'.phase = run.phase
          /\ run'.listening = run.listening /\ run'.source = run.source /\ run'.timer = run.timer
          /\ run'.idx = run.idx /\ run'.a2ui = run.a2ui
          /\ run'.finished <=> run.finished \/ (mode = "task" /\ e.type \in Terminal)
          /\ mode = "task" => ~(run'.finished /\ Len(run.queue) = 1)
          /\ mode = "os" => e.type \notin Terminal
    /\ IF mode = "task" THEN card' = HandleAgentEvent(card, e) /\ UNCHANGED replies
       ELSE replies' = replies + OsReplies(e) /\ UNCHANGED card

LEMMA DrainTakes ==
    ASSUME TypeInv, DrainToCard \/ DrainToChat
    PROVE  Takes(Head(run.queue))
<1>1. run \in RunRec /\ run.queue # <<>> /\ run.finished \in BOOLEAN
  BY DEF TypeInv, RunRec, DrainToCard, DrainToChat
<1>2. LetGo(run, Release(run)) /\ Tail(run.queue) \in Seq(EventRec)
  BY <1>1, ReleaseLets, FirstEvent
<1>3. PICK e : e = Head(run.queue)
  OBVIOUS
<1>4. CASE DrainToChat
  <2>1. run' = IF e.type \in Terminal THEN Release(run) ELSE [run EXCEPT !.queue = Tail(run.queue)]
    BY <1>1, <1>3, <1>4 DEF DrainToChat, RunRec
  <2>2. e.type \notin Terminal => run' \in RunRec
    BY <1>1, <1>2, <2>1 DEF RunRec
  <2> QED
    BY <1>1, <1>2, <1>3, <1>4, <2>1, <2>2 DEF DrainToChat, Takes, RunRec
<1>5. CASE DrainToCard
  <2>1. PICK f : f = (run.finished \/ e.type \in Terminal)
    OBVIOUS
  <2>2. f \in BOOLEAN /\ (f <=> run.finished \/ e.type \in Terminal)
    BY <2>1
  <2>3. run' = IF f /\ Len(run.queue) = 1 THEN Release(run)
               ELSE [run EXCEPT !.queue = Tail(run.queue), !.finished = f]
    BY <1>1, <1>3, <1>5, <2>1 DEF DrainToCard, Emptied, RunRec
  <2>4. ~(f /\ Len(run.queue) = 1) => run' \in RunRec /\ run'.finished = f
    BY <1>1, <1>2, <2>2, <2>3 DEF RunRec
  <2> QED
    BY <1>1, <1>2, <1>3, <1>5, <2>2, <2>3, <2>4 DEF DrainToCard, Takes, RunRec
<1> QED
  BY <1>4, <1>5

(***************************************************************************)
(* The core of the run is kept by every step.                                *)
(***************************************************************************)
LEMMA InitCore == Init => CoreInv
<1> SUFFICES ASSUME Init PROVE CoreInv
  OBVIOUS
<1>1. /\ run = NewRun /\ kernel.at = "off" /\ outcomes = 0 /\ replies = 0
      /\ aborted = FALSE /\ early = FALSE /\ stale = FALSE
  BY DEF Init
<1>2. /\ run.phase = "setup" /\ run.queue = <<>> /\ ~run.finished /\ run.idx = 0 /\ ~run.timer
      /\ run.a2ui = "no"
      /\ run.source = "none" /\ ~run.listening
  BY <1>1 DEF NewRun
<1> QED
  BY <1>1, <1>2 DEF CoreInv, RunInv, QueueInv, Replies, Running, Active, Over, Heralds

\* Nothing of the run, the kernel or the outcome changes.
LEMMA CoreKept ==
    ASSUME CoreInv, UNCHANGED <<transport, mode, run, kernel, outcomes, early, replies>>,
           aborted => aborted', Running'
    PROVE  CoreInv'
<1>1. RunInv'
  BY DEF CoreInv, RunInv, Active
<1>2. QueueInv'
  BY DEF CoreInv, QueueInv, Active, Doubled
<1>3. Replies'
  BY DEF CoreInv, Replies, Active, Over
<1> QED
  BY <1>1, <1>2, <1>3 DEF CoreInv

LEMMA CoreOutside ==
    ASSUME TypeInv, CoreInv, NEW q, NEW e, Outside(q, e)
    PROVE  CoreInv'
<1>1. /\ run \in RunRec /\ kernel \in KernelRec /\ transport \in {"tauri", "sse"} /\ early \in BOOLEAN
      /\ RunInv /\ QueueInv /\ Replies /\ Running
  BY DEF TypeInv, CoreInv
<1>2. /\ run' \in RunRec /\ q \in Seq(EventRec) /\ run'.queue = run.queue \o q
      /\ run'.phase = run.phase /\ run'.listening = run.listening
      /\ run'.source = run.source \/ (run.source = "open" /\ run'.source = "closed")
      /\ run.queue \in Seq(EventRec) /\ run.finished \in BOOLEAN /\ run'.finished \in BOOLEAN
      /\ run.phase \in Phases /\ run.timer \in BOOLEAN /\ run'.timer \in BOOLEAN
      /\ run.listening \in BOOLEAN
  BY <1>1 DEF Outside, Heard, Grows, RunRec
<1>3. /\ UNCHANGED <<transport, mode, outcomes, card, replies, aborted, prompt, stale>>
      /\ early => early'
      /\ run' # run /\ run'.finished /\ run.phase = "submitting" => early'
  BY DEF Outside, Heard, uiVars
<1>4. /\ (NoTerminal(q) /\ (run'.finished <=> run.finished)) \/ (OneTerminal(q) /\ run'.finished)
      /\ Heralds(q)
  BY DEF Outside, Heard, Terminates, Heralds
<1>5. /\ transport = "tauri" => Moves(e)
      /\ Moves(e) \/ (transport = "sse" /\ UNCHANGED kernel /\ (run.timer \/ run.source = "open"))
  BY <1>1 DEF Outside
<1>6. ASSUME transport = "tauri", run.listening
      PROVE  /\ run'.timer = run.timer /\ run'.source = run.source
             /\ run.finished => q = <<>> \/ OneTerminal(q)
             /\ run'.finished <=> (run.finished \/ Finishing(e))
             /\ e.name \in {"intent-cache-hit", "silence"} => run'.idx = run.idx
  BY <1>6 DEF Outside, Heard, TauriEnds, TauriSteps
<1>7. transport = "tauri" /\ ~run.listening => run' = run
  BY DEF Outside, Heard
<1>8. transport = "sse" /\ run.finished => q = <<>>
  BY DEF Outside, Heard
<1>9. run.phase = "draining" => run.queue = <<>>
  BY DEF Outside, Heard, Quiet
<1>10. /\ Moves(e) => kernel.at # "off" /\ kernel'.at # "off" /\ kernel'.at # "sent"
       /\ Moves(e) => (kernel'.at \in Late <=> (kernel.at \in Late \/ Finishing(e)))
       /\ Moves(e) /\ kernel'.at \in {"boot", "cache"} =>
            kernel.at \in {"sent", "cache"} /\ e.name \in {"silence", "intent-cache-hit"}
  BY DEF Moves
<1>11. Active' <=> Active
  BY <1>2 DEF Active
<1>12. run.phase \notin {"setup", "thrown"}
  BY <1>1, <1>5, <1>10 DEF RunInv
<1>13. RunInv'
  <2>1. transport = "tauri" => run'.source = "none" /\ ~run'.timer
    BY <1>1, <1>2, <1>6, <1>7 DEF RunInv
  <2>2. run.phase = "subscribed" => kernel'.at = "off"
    BY <1>1, <1>5, <1>10 DEF RunInv
  <2>3. run.phase = "over" => (~run'.listening /\ run'.source # "open") \/ (aborted /\ kernel'.at = "off")
    <3>1. CASE Moves(e)
      BY <1>1, <1>2, <1>10, <3>1 DEF RunInv
    <3>2. CASE UNCHANGED kernel
      BY <1>1, <1>2, <3>2 DEF RunInv
    <3> QED
      BY <1>5, <3>1, <3>2
  <2>4. transport = "tauri" /\ Active => run.listening
    BY <1>1 DEF RunInv
  <2>5. transport = "tauri" /\ Active => (run'.finished <=> kernel'.at \in Late)
    BY <1>1, <1>5, <1>6, <1>10, <2>4 DEF RunInv
  <2>6. transport = "tauri" /\ run.phase = "submitting" /\ run'.finished => early'
    BY <1>1, <1>3 DEF RunInv
  <2>7. transport = "tauri" /\ kernel'.at \in {"off", "sent", "cache", "boot"} => run'.idx = 0
    <3> SUFFICES ASSUME transport = "tauri", kernel'.at \in {"off", "sent", "cache", "boot"} PROVE run'.idx = 0
      OBVIOUS
    <3>1. kernel'.at \in {"boot", "cache"} /\ kernel.at \in {"sent", "cache"} /\ e.name \in {"silence", "intent-cache-hit"}
      BY <1>5, <1>10
    <3>2. run.idx = 0
      BY <1>1, <3>1 DEF RunInv
    <3> QED
      BY <1>2, <1>6, <1>7, <3>1, <3>2
  <2> QED
    BY <1>1, <1>2, <1>3, <1>11, <1>12, <2>1, <2>2, <2>3, <2>4, <2>5, <2>6, <2>7 DEF RunInv
<1>14. QueueInv'
  <2>1. ASSUME Active, run.finished
        PROVE  /\ run'.finished /\ Ended(run'.queue)
               /\ ~Doubled' => OneTerminal(run'.queue)
    <3>1. run'.finished
      BY <1>2, <1>4, <2>1
    <3>2. Ended(run.queue) /\ (~Doubled => OneTerminal(run.queue))
      BY <1>1, <2>1 DEF QueueInv
    <3>3. CASE q = <<>>
      <4>1. run'.queue = run.queue
        BY <1>2, <3>3, ConcatEmptySeq
      <4>2. Doubled => Doubled'
        BY <1>3 DEF Doubled
      <4> QED
        BY <3>1, <3>2, <4>1, <4>2
    <3>4. CASE transport = "tauri" /\ OneTerminal(q)
      <4>1. Ended(run'.queue)
        BY <1>2, <3>4, EndsJoined
      <4>2. run.phase # "draining"
        BY <1>9, <3>2 DEF Ended
      <4>3. run.phase = "submitting"
        BY <1>1, <1>5, <1>10, <2>1, <3>4, <4>2 DEF Active, RunInv
      <4>4. Doubled'
        BY <1>1, <1>3, <2>1, <3>4, <4>3 DEF Doubled, RunInv
      <4> QED
        BY <3>1, <4>1, <4>4
    <3>5. transport = "tauri" => run.listening
      BY <1>1, <2>1 DEF RunInv
    <3> QED
      BY <1>1, <1>6, <1>8, <2>1, <3>3, <3>4, <3>5
  <2>2. ASSUME Active, ~run.finished
        PROVE  IF run'.finished THEN Ended(run'.queue) /\ OneTerminal(run'.queue) ELSE NoTerminal(run'.queue)
    <3>1. NoTerminal(run.queue)
      BY <1>1, <2>2 DEF QueueInv
    <3>2. CASE NoTerminal(q) /\ (run'.finished <=> run.finished)
      BY <1>2, <2>2, <3>1, <3>2, EndsJoined
    <3>3. CASE OneTerminal(q) /\ run'.finished
      BY <1>2, <3>1, <3>3, EndsJoined
    <3> QED
      BY <1>4, <3>2, <3>3
  <2>3. Doubled => Doubled'
    BY <1>3 DEF Doubled
  <2> QED
    BY <1>1, <1>3, <1>11, <1>12, <1>2, <2>1, <2>2, <2>3 DEF QueueInv
<1>15. Replies'
  <2> SUFFICES ASSUME mode = "os" PROVE Replies'
    BY <1>3 DEF Replies
  <2>1. Active => Heralds(run'.queue)
    BY <1>1, <1>2, <1>4, HeraldsJoined DEF Replies
  <2>2. run.phase = "draining" => replies = 0
    BY <1>1, <1>9 DEF Replies
  <2> QED
    BY <1>1, <1>2, <1>3, <1>11, <2>1, <2>2 DEF Replies, Over
<1>16. Running'
  BY <1>1, <1>2, <1>3 DEF Running
<1> QED
  BY <1>13, <1>14, <1>15, <1>16 DEF CoreInv

LEMMA CoreStart ==
    ASSUME TypeInv, CoreInv, Subscribe \/ SubscribeFails \/ YieldStarted
    PROVE  CoreInv'
<1>1. /\ run \in RunRec /\ card \in CardRec /\ kernel \in KernelRec /\ transport \in {"tauri", "sse"}
      /\ mode \in {"task", "os"} /\ aborted \in BOOLEAN
      /\ RunInv /\ QueueInv /\ Replies /\ Running
  BY DEF TypeInv, CoreInv
<1>2. CASE Subscribe
  <2>1. /\ run.phase = "setup" /\ run'.phase = "subscribed" /\ run'.queue = run.queue
        /\ run'.finished = run.finished /\ run'.idx = run.idx /\ run'.timer = run.timer
        /\ run'.listening = (transport = "tauri")
        /\ run'.source = IF transport = "sse" THEN "open" ELSE run.source
    BY <1>1, <1>2 DEF Subscribe, RunRec
  <2>2. UNCHANGED <<transport, mode, kernel, card, replies, aborted, stale, outcomes, early>>
    BY <1>2 DEF Subscribe, uiVars, historyVars
  <2>3. kernel.at = "off" /\ run.source = "none" /\ ~run.timer /\ ~run.finished /\ run.queue = <<>> /\ outcomes = 0
    BY <1>1, <2>1 DEF RunInv, QueueInv
  <2>4. RunInv'
    BY <1>1, <2>1, <2>2, <2>3 DEF RunInv, Active, Late
  <2>5. QueueInv'
    BY <1>1, <2>1, <2>2, <2>3 DEF QueueInv, NoTerminal
  <2>6. Replies'
    BY <1>1, <2>1, <2>2, <2>3 DEF Replies, Heralds, Over
  <2>7. Running'
    BY <1>1, <2>1, <2>2 DEF Running
  <2> QED
    BY <2>4, <2>5, <2>6, <2>7 DEF CoreInv
<1>3. CASE SubscribeFails
  <2>1. /\ run.phase = "setup" /\ run'.phase = "thrown" /\ run'.queue = run.queue
        /\ run'.finished = run.finished /\ run'.idx = run.idx /\ run'.timer = run.timer
        /\ run'.listening = run.listening /\ run'.source = run.source /\ run'.a2ui = run.a2ui
        /\ transport = "sse"
    BY <1>1, <1>3 DEF SubscribeFails, RunRec
  <2>2. UNCHANGED <<transport, mode, kernel, replies, aborted, stale, outcomes, early>> /\ card'.task = card.task
    BY <1>1, <1>3 DEF SubscribeFails, historyVars, CardRec
  <2>4. RunInv'
    BY <1>1, <2>1, <2>2 DEF RunInv, Active
  <2>5. QueueInv'
    BY <1>1, <2>1, <2>2 DEF QueueInv, Active
  <2>6. Replies'
    BY <1>1, <2>1, <2>2 DEF Replies, Active, Over
  <2>7. Running'
    BY <1>1, <2>1, <2>2 DEF Running
  <2> QED
    BY <2>4, <2>5, <2>6, <2>7 DEF CoreInv
<1>4. CASE YieldStarted
  <2>1. /\ run.phase = "subscribed" /\ run'.phase = (IF aborted THEN "over" ELSE "submitting")
        /\ run'.queue = run.queue
        /\ run'.finished = run.finished /\ run'.idx = run.idx /\ run'.timer = run.timer
        /\ run'.listening = run.listening /\ run'.source = run.source
    BY <1>1, <1>4 DEF YieldStarted, RunRec
  <2>2. /\ UNCHANGED <<transport, mode, replies, aborted, stale, outcomes, early>>
        /\ aborted => UNCHANGED <<kernel, card>>
        /\ ~aborted => kernel'.at = "sent"
    BY <1>1, <1>4 DEF YieldStarted, historyVars, KernelRec
  <2>3. kernel.at = "off" /\ (transport = "tauri" => ~run.finished)
    BY <1>1, <2>1 DEF RunInv, Active, Late
  <2>4. RunInv'
    BY <1>1, <2>1, <2>2, <2>3 DEF RunInv, Active, Late
  <2>5. QueueInv'
    BY <1>1, <2>1, <2>2 DEF QueueInv, Active, Doubled
  <2>6. Replies'
    BY <1>1, <2>1, <2>2 DEF Replies, Active, Over
  <2>7. Running'
    BY <1>1, <2>1, <2>2 DEF Running
  <2> QED
    BY <2>4, <2>5, <2>6, <2>7 DEF CoreInv
<1> QED
  BY <1>2, <1>3, <1>4

LEMMA CoreSubmit ==
    ASSUME TypeInv, CoreInv, SubmitReturns \/ SubmitFails \/ DrainAborted
    PROVE  CoreInv'
<1>1. /\ run \in RunRec /\ card \in CardRec /\ kernel \in KernelRec /\ transport \in {"tauri", "sse"}
      /\ mode \in {"task", "os"} /\ aborted \in BOOLEAN
      /\ RunInv /\ QueueInv /\ Replies /\ Running
  BY DEF TypeInv, CoreInv
<1>2. CASE aborted /\ run' = Release(run) /\ UNCHANGED <<transport, mode, kernel, uiVars, historyVars>> /\ Active
  <2>1. LetGo(run, run')
    BY <1>1, <1>2, ReleaseLets
  <2>2. UNCHANGED <<transport, mode, kernel, card, replies, aborted, stale, outcomes, early>>
    BY <1>2 DEF uiVars, historyVars
  <2>4. RunInv'
    BY <1>1, <1>2, <2>1, <2>2 DEF RunInv, Active, LetGo
  <2>5. QueueInv'
    BY <1>1, <2>1, <2>2 DEF QueueInv, Active, Doubled, LetGo
  <2>6. Replies'
    BY <1>1, <1>2, <2>1, <2>2 DEF Replies, Active, Over, LetGo
  <2>7. Running'
    BY <1>1, <1>2, <2>1, <2>2 DEF Running, LetGo
  <2> QED
    BY <2>4, <2>5, <2>6, <2>7 DEF CoreInv
<1>3. CASE SubmitReturns /\ ~aborted
  <2>1. /\ run.phase = "submitting" /\ run'.phase = "draining" /\ run'.queue = run.queue
        /\ run'.finished = run.finished /\ run'.idx = run.idx /\ run'.timer = run.timer
        /\ run'.listening = run.listening /\ run'.source = run.source
    BY <1>1, <1>3 DEF SubmitReturns, RunRec
  <2>2. UNCHANGED <<transport, mode, kernel, card, replies, aborted, stale, outcomes, early>>
    BY <1>3 DEF SubmitReturns, uiVars, historyVars
  <2>4. RunInv'
    BY <1>1, <2>1, <2>2 DEF RunInv, Active
  <2>5. QueueInv'
    BY <1>1, <2>1, <2>2 DEF QueueInv, Active, Doubled
  <2>6. Replies'
    BY <1>1, <2>1, <2>2 DEF Replies, Active, Over
  <2>7. Running'
    BY <1>1, <1>3, <2>1, <2>2 DEF Running
  <2> QED
    BY <2>4, <2>5, <2>6, <2>7 DEF CoreInv
<1>4. CASE SubmitFails
  <2>1. /\ run.phase = "submitting" /\ run'.phase = "failed" /\ run'.queue = run.queue /\ transport = "sse"
        /\ run'.finished = run.finished /\ run'.idx = run.idx /\ run'.timer = run.timer
        /\ ~run'.listening /\ run'.source = run.source
    BY <1>1, <1>4 DEF SubmitFails, RunRec
  <2>2. /\ UNCHANGED <<transport, mode, aborted, stale, early>>
        /\ aborted => UNCHANGED <<card, replies, outcomes>>
        /\ ~aborted => /\ outcomes' = outcomes + 1
                       /\ mode = "task" => card' = HandleAgentEvent(card, Signal("task_failed"))
                       /\ mode = "os" => replies' = 1
    BY <1>1, <1>4 DEF SubmitFails
  <2>3. kernel'.at # "off" \/ kernel' = kernel
    BY <1>1, <1>4 DEF SubmitFails, KernelRec
  <2>4. RunInv'
    BY <1>1, <2>1, <2>2, <2>3 DEF RunInv, Active
  <2>5. QueueInv'
    BY <1>1, <2>1, <2>2 DEF QueueInv, Active, Doubled
  <2>6. Replies'
    BY <1>1, <2>1, <2>2 DEF Replies, Active, Over
  <2>7. Running'
    <3>1. HandleAgentEvent(card, Signal("task_failed")).task = "failed"
      BY <1>1, SignalledCard DEF CardStep
    <3> QED
      BY <1>1, <2>1, <2>2, <3>1 DEF Running
  <2> QED
    BY <2>4, <2>5, <2>6, <2>7 DEF CoreInv
<1>5. (SubmitReturns /\ aborted) \/ DrainAborted =>
        aborted /\ run' = Release(run) /\ UNCHANGED <<transport, mode, kernel, uiVars, historyVars>> /\ Active
  BY DEF SubmitReturns, DrainAborted, Active
<1> QED
  BY <1>1, <1>2, <1>3, <1>4, <1>5

LEMMA CoreDrain ==
    ASSUME TypeInv, CoreInv, NEW e, Takes(e)
    PROVE  CoreInv'
<1>1. /\ run \in RunRec /\ run.queue \in Seq(EventRec) /\ run.finished \in BOOLEAN
      /\ run.queue # <<>> /\ run.phase = "draining" /\ e = Head(run.queue) /\ ~aborted
      /\ mode \in {"task", "os"} /\ replies \in Nat /\ outcomes \in Nat
      /\ RunInv /\ QueueInv /\ Replies /\ Running
  BY DEF TypeInv, CoreInv, RunRec, Takes
<1>2. /\ Head(run.queue) = run.queue[1] /\ 1 \in DOMAIN run.queue
      /\ Tail(run.queue) \in Seq(EventRec)
      /\ Len(run.queue) \in Nat \ {0} /\ DOMAIN run.queue = 1 .. Len(run.queue)
      /\ DOMAIN Tail(run.queue) = 1 .. Len(run.queue) - 1
      /\ Len(Tail(run.queue)) = Len(run.queue) - 1
      /\ \A i \in 1 .. Len(run.queue) - 1 : Tail(run.queue)[i] = run.queue[i + 1]
      /\ e \in EventRec
  BY <1>1, FirstEvent
<1>3. /\ UNCHANGED <<transport, mode, kernel, aborted, prompt, stale, early>>
      /\ outcomes' = outcomes + (IF e.type \in Terminal THEN 1 ELSE 0)
      /\ mode = "task" => card' = HandleAgentEvent(card, e) /\ UNCHANGED replies
      /\ mode = "os" => replies' = replies + OsReplies(e) /\ UNCHANGED card
  BY <1>1 DEF Takes
<1>4. /\ Active /\ (~run.finished => e.type \notin Terminal)
      /\ IF run.finished THEN Ended(run.queue) ELSE NoTerminal(run.queue)
      /\ ~Doubled => outcomes = 0
      /\ run.finished /\ ~Doubled => OneTerminal(run.queue)
  <2>1. Active
    BY <1>1 DEF Active
  <2>2. IF run.finished THEN Ended(run.queue) ELSE NoTerminal(run.queue)
    BY <1>1, <2>1 DEF QueueInv
  <2>3. ~run.finished => e.type \notin Terminal
    BY <1>1, <1>2, <2>2 DEF NoTerminal
  <2> QED
    BY <1>1, <2>1, <2>2, <2>3 DEF QueueInv
<1>5. CASE LetGo(run, run') /\ (mode = "task" => Len(run.queue) = 1 /\ (run.finished \/ e.type \in Terminal))
           /\ (mode = "os" => e.type \in Terminal)
  <2>1. run'.phase = "over" /\ ~run'.listening /\ run'.source # "open" /\ (run.source = "none" => run'.source = "none")
        /\ run'.timer = run.timer /\ run'.idx = run.idx
    BY <1>5 DEF LetGo
  <2>2. RunInv'
    BY <1>1, <1>3, <2>1 DEF RunInv, Active
  <2>3. e.type \in Terminal
    <3>1. CASE mode = "task"
      <4>1. Len(run.queue) = 1 /\ run.finished
        BY <1>4, <1>5, <3>1
      <4> QED
        BY <1>1, <1>2, <1>4, <4>1 DEF Ended
    <3> QED
      BY <1>1, <1>5, <3>1
  <2>4. QueueInv'
    BY <1>1, <1>3, <1>4, <2>1 DEF QueueInv, Active, Doubled
  <2>5. Replies'
    <3> SUFFICES ASSUME mode = "os" PROVE replies' = 1
      BY <1>3, <2>1 DEF Replies, Active, Over
    <3>1. replies = 0 \/ replies = 1
      BY <1>1 DEF Replies
    <3>2. e.type # "conversation_message"
      BY <2>3 DEF Terminal
    <3> QED
      BY <1>3, <2>3, <3>1, <3>2 DEF OsReplies
  <2>6. Running'
    <3>1. mode = "task" => card'.task # "running"
      <4>1. CardStep(card, HandleAgentEvent(card, e), e)
        BY <1>1, HandledCard
      <4> QED
        BY <1>3, <2>3, <4>1 DEF CardStep, Terminal
    <3> QED
      BY <1>3, <3>1 DEF Running
  <2> QED
    BY <2>2, <2>4, <2>5, <2>6 DEF CoreInv
<1>6. CASE /\ run' \in RunRec /\ run'.queue = Tail(run.queue) /\ run'.phase = run.phase
           /\ run'.listening = run.listening /\ run'.source = run.source /\ run'.timer = run.timer
           /\ run'.idx = run.idx /\ run'.a2ui = run.a2ui
           /\ run'.finished <=> run.finished \/ (mode = "task" /\ e.type \in Terminal)
           /\ mode = "task" => ~(run'.finished /\ Len(run.queue) = 1)
           /\ mode = "os" => e.type \notin Terminal
  <2>1. (run'.finished <=> run.finished) /\ run'.finished \in BOOLEAN /\ Active'
    BY <1>1, <1>4, <1>6 DEF RunRec, Active
  <2>2. RunInv'
    BY <1>1, <1>3, <1>4, <1>6, <2>1 DEF RunInv
  <2>3. ASSUME run.finished PROVE Len(run.queue) > 1
    <3>1. ASSUME mode = "task" PROVE Len(run.queue) # 1
      <4>1. run'.finished
        BY <2>1, <2>3
      <4>2. ~(run'.finished /\ Len(run.queue) = 1)
        BY <1>6, <3>1
      <4>3. Len(run.queue) # 1
        BY <4>1, <4>2
      <4> QED
        BY <4>3
    <3>2. ASSUME mode = "os" PROVE Len(run.queue) # 1
      <4>1. run.queue[Len(run.queue)].type \in Terminal /\ e.type \notin Terminal
        BY <1>4, <1>6, <2>3, <3>2 DEF Ended
      <4>2. Len(run.queue) # 1
        BY <1>1, <1>2, <4>1
      <4> QED
        BY <4>2
    <3>3. Len(run.queue) # 1
      BY <1>1, <3>1, <3>2
    <3>4. Len(run.queue) \in Nat \ {0}
      BY <1>2
    <3>5. \A n \in Nat \ {0} : n # 1 => n > 1
      OBVIOUS
    <3> QED
      BY <3>3, <3>4, <3>5
  <2>4. ASSUME run.finished PROVE Ended(Tail(run.queue)) /\ (OneTerminal(run.queue) => OneTerminal(Tail(run.queue)) /\ e.type \notin Terminal)
    <3>1. PICK q, t : q = run.queue /\ t = Tail(run.queue)
      OBVIOUS
    <3>2. Len(q) \in Nat /\ Len(q) > 1 /\ Len(t) = Len(q) - 1 /\ DOMAIN q = 1 .. Len(q) /\ DOMAIN t = 1 .. Len(q) - 1
          /\ \A i \in 1 .. Len(q) - 1 : t[i] = q[i + 1]
          /\ e = q[1] /\ 1 \in DOMAIN q
      BY <1>1, <1>2, <2>3, <2>4, <3>1
    <3>3. t # <<>> /\ Len(t) \in 1 .. Len(q) - 1 /\ t[Len(t)] = q[Len(q)]
      BY <3>2
    <3>4. Ended(t)
      BY <1>4, <2>4, <3>1, <3>3 DEF Ended
    <3>5. ASSUME OneTerminal(q) PROVE OneTerminal(t) /\ e.type \notin Terminal
      <4>1. ASSUME NEW i \in DOMAIN t PROVE t[i].type \in Terminal <=> i = Len(t)
        <5>1. i + 1 \in DOMAIN q /\ t[i] = q[i + 1]
          BY <3>2
        <5>2. q[i + 1].type \in Terminal <=> i + 1 = Len(q)
          BY <3>5, <5>1 DEF OneTerminal
        <5> QED
          BY <3>2, <5>1, <5>2
      <4>2. e.type \notin Terminal
        BY <3>2, <3>5 DEF OneTerminal
      <4> QED
        BY <3>3, <4>1, <4>2 DEF OneTerminal
    <3> QED
      BY <3>1, <3>4, <3>5
  <2>5. ASSUME ~run.finished PROVE NoTerminal(Tail(run.queue))
    <3> SUFFICES ASSUME NEW i \in 1 .. Len(run.queue) - 1 PROVE Tail(run.queue)[i].type \notin Terminal
      BY <1>2 DEF NoTerminal
    <3>1. i + 1 \in DOMAIN run.queue /\ Tail(run.queue)[i] = run.queue[i + 1]
      BY <1>2
    <3> QED
      BY <1>4, <2>5, <3>1 DEF NoTerminal
  <2>6. Doubled' <=> Doubled
    BY <1>3 DEF Doubled
  <2>7. ~Doubled => outcomes' = 0
    <3> SUFFICES ASSUME ~Doubled PROVE outcomes' = 0
      OBVIOUS
    <3>1. e.type \notin Terminal
      BY <1>4, <2>4
    <3> QED
      BY <1>1, <1>3, <1>4, <3>1
  <2>8. QueueInv'
    BY <1>1, <1>4, <1>6, <2>1, <2>4, <2>5, <2>6, <2>7 DEF QueueInv
  <2>9. Replies'
    <3> SUFFICES ASSUME mode = "os"
                 PROVE  /\ Heralds(Tail(run.queue))
                        /\ \/ replies' = 0
                           \/ replies' = 1 /\ Tail(run.queue) # <<>> /\ Head(Tail(run.queue)).type \in Terminal
      BY <1>1, <1>3, <1>6 DEF Replies, Over
    <3>1. Heralds(run.queue)
      BY <1>1, <1>4 DEF Replies
    <3>2. replies = 0
      BY <1>1, <1>6 DEF Replies
    <3>3. Heralds(Tail(run.queue)) /\ (e.type = "conversation_message" =>
                Tail(run.queue) # <<>> /\ Head(Tail(run.queue)).type \in Terminal)
      BY <1>1, <3>1, HeraldsTail
    <3>4. replies' = IF e.type = "conversation_message" THEN 1 ELSE 0
      BY <1>3, <1>6, <3>2 DEF OsReplies
    <3> QED
      BY <3>3, <3>4
  <2>10. Running'
    BY <1>1, <1>3, <1>6 DEF Running
  <2> QED
    BY <2>2, <2>8, <2>9, <2>10 DEF CoreInv
<1> QED
  BY <1>5, <1>6 DEF Takes

LEMMA CoreUser ==
    ASSUME TypeInv, CoreInv, UserStep
    PROVE  CoreInv'
<1>1. /\ card \in CardRec /\ kernel \in KernelRec /\ aborted \in BOOLEAN /\ stale \in BOOLEAN
      /\ RunInv /\ QueueInv /\ Replies /\ Running
  BY DEF TypeInv, CoreInv
<1>2. CASE Cancel
  <2>1. UNCHANGED <<transport, mode, run, kernel, outcomes, early, replies, stale>> /\ (aborted => aborted')
    BY <1>2 DEF Cancel, historyVars
  <2>2. Running'
    <3>1. mode = "task" => card'.task = "cancelled"
      BY <1>1, <1>2 DEF Cancel, CancelCard, UpdateTaskStatus, CardRec
    <3> QED
      BY <2>1, <3>1 DEF Running
  <2> QED
    BY <2>1, <2>2, CoreKept
<1>3. CASE DecisionReturns
  <2>1. UNCHANGED <<transport, mode, run, kernel, outcomes, early, replies, aborted>> /\ stale' = (stale \/ Over \/ aborted)
    BY <1>3 DEF DecisionReturns, historyVars
  <2>2. Running'
    BY <2>1 DEF Running, Over
  <2> QED
    BY <2>1, <2>2, CoreKept
<1>4. CASE Remount
  <2>1. UNCHANGED <<transport, mode, run, kernel, outcomes, early, replies, aborted, card, stale>>
    BY <1>4 DEF Remount, historyVars
  <2>2. Running'
    BY <1>1, <2>1 DEF Running
  <2> QED
    BY <2>1, <2>2, CoreKept
<1>5. ASSUME NEW a \in BOOLEAN, Decide(a) PROVE CoreInv'
  <2>1. UNCHANGED <<transport, mode, run, outcomes, early, replies, aborted, card, stale>>
    BY <1>5 DEF Decide, historyVars
  <2>2. AfterVerdict(a) \in {"approved", "refused"}
    BY DEF AfterVerdict
  <2>3. kernel' = kernel \/ (kernel.at = "asked" /\ kernel'.at \in {"approved", "refused"})
    BY <1>1, <1>5, <2>2 DEF Decide, KernelRec
  <2>4. RunInv'
    BY <1>1, <2>1, <2>3 DEF RunInv, Active, Late
  <2>5. QueueInv' /\ Replies' /\ Running'
    BY <1>1, <2>1 DEF QueueInv, Replies, Running, Active, Doubled, Over
  <2> QED
    BY <2>4, <2>5 DEF CoreInv
<1> QED
  BY <1>2, <1>3, <1>4, <1>5 DEF UserStep

LEMMA CoreStep ==
    TypeInv /\ CoreInv /\ [Next]_vars => CoreInv'
<1> SUFFICES ASSUME TypeInv, CoreInv, [Next]_vars PROVE CoreInv'
  OBVIOUS
<1>1. CASE KernelStep \/ FallbackFires \/ ConnectionLost
  BY <1>1, OutsideStep, CoreOutside DEF CoreInv
<1>2. CASE Subscribe \/ SubscribeFails \/ YieldStarted
  BY <1>2, CoreStart
<1>3. CASE SubmitReturns \/ SubmitFails \/ DrainAborted
  BY <1>3, CoreSubmit
<1>4. CASE DrainToCard \/ DrainToChat
  BY <1>4, DrainTakes, CoreDrain
<1>5. CASE UserStep
  BY <1>5, CoreUser
<1>6. CASE UNCHANGED vars
  <2>1. UNCHANGED <<transport, mode, run, kernel, outcomes, early, replies, aborted, card, stale>>
    BY <1>6 DEF vars
  <2>2. Running'
    BY <2>1 DEF CoreInv, Running
  <2> QED
    BY <2>1, <2>2, CoreKept
<1> QED
  BY <1>1, <1>2, <1>3, <1>4, <1>5, <1>6 DEF Next, RunStep


(***************************************************************************)
(* The answer on its way to the card.                                        *)
(***************************************************************************)
\* The answer is on the card, or there was none, or the runner and the card leave its
\* text to the A2UI messages of the run or to the surface of an older one.
Answered ==
    \/ HasSort(card.blocks, "final") \/ HasSort(card.blocks, "drawn")
    \/ kernel.said = "empty"
    \/ run.a2ui # "no" \/ card.a2ui = "older"

\* A queued completion has its card before it, or on the screen; a queued card
\* holds the answer, or A2UI messages do.
AnswerQueued ==
    /\ HasMessage(run.queue) => run.a2ui # "no"
    /\ \A i \in DOMAIN run.queue : run.queue[i].type = "task_completed" =>
           card.drawn \/ Before(run.queue, i, "card_generated")
    /\ \A i \in DOMAIN run.queue : run.queue[i].type = "card_generated" =>
           \/ HasSort(run.queue[i].blocks, "final")
           \/ kernel.said = "empty"
           \/ run.a2ui # "no"

\* The answer is on the card once the card is drawn, and before that in the queue.
AnswerInv ==
    mode = "task" =>
      /\ card.task = "completed" => card.drawn
      /\ card.drawn => Answered
      /\ card.a2ui = "drawn" => run.a2ui # "no"
      /\ Active => AnswerQueued
      /\ kernel.said # "none" => kernel.at \in Late

\* A card at the start of a run, with what an earlier run has left on it.
Fresh(c) ==
    /\ c.task = "running" /\ c.steps = <<>>
    /\ c.a2ui # "drawn" /\ (c.drawn => HasSort(c.blocks, "drawn") \/ c.a2ui = "older")

LEMMA InitCards == \A c \in Cards : Fresh(c)
<1>1. Fresh(NewCard)
  BY DEF Fresh, NewCard
<1>2. ASSUME NEW d \in BOOLEAN, NEW reply \in {"you", "redo"}
      PROVE  Fresh(ResumeCard(LeftBlocks(d), reply))
  <2>1. PICK a \in BlockRec : a = Plain(IF d THEN "drawn" ELSE "older") /\ (d => a.sort = "drawn")
    BY BlocksMade DEF BlockSorts
  <2>2. PICK y \in BlockRec : y = Plain(reply)
    BY BlocksMade DEF BlockSorts
  <2>3. PICK b : b = Append(<<a>>, y)
    OBVIOUS
  <2>4. b \in Seq(BlockRec) /\ Len(b) = 2 /\ b[1] = a
    BY <2>3
  <2>5. 1 \in DOMAIN b
    BY <2>4
  <2>6. PICK c : c = ResumeCard(LeftBlocks(d), reply)
    OBVIOUS
  <2>7. c.task = "running" /\ c.steps = <<>> /\ c.drawn = d /\ c.blocks = b /\ c.a2ui = "none"
    BY <2>1, <2>2, <2>3, <2>6 DEF ResumeCard, LeftBlocks, NewCard
  <2> QED
    BY <2>1, <2>4, <2>5, <2>6, <2>7 DEF HasSort, Fresh
<1>3. ASSUME NEW d \in BOOLEAN, NEW reply \in {"you", "redo"}
      PROVE  Fresh(ResumeCard(LeftSurface(d), reply))
  BY DEF ResumeCard, LeftSurface, NewCard, Fresh
<1> QED
  BY <1>1, <1>2, <1>3 DEF Cards

LEMMA InitCard ==
    ASSUME Init
    PROVE  Fresh(card)
<1>1. NewCard \in Cards
  BY DEF Cards
<1> QED
  BY <1>1, InitCards DEF Init

LEMMA InitAnswer == Init => AnswerInv
<1> SUFFICES ASSUME Init, mode = "task" PROVE AnswerInv
  BY DEF AnswerInv
<1>1. run.phase = "setup" /\ kernel.said = "none"
  BY DEF Init, NewRun
<1>2. Fresh(card)
  BY InitCard
<1> QED
  BY <1>1, <1>2 DEF AnswerInv, Answered, Active, Fresh

\* A change of the card that keeps the answer it has.
KeepsAnswer(c, d) ==
    /\ d.drawn <=> c.drawn
    /\ d.a2ui = c.a2ui
    /\ c.drawn => Keeps(c.blocks, d.blocks)
    /\ d.task = "completed" => c.task = "completed"

LEMMA SameAnswer ==
    ASSUME NEW c \in CardRec, NEW d, d.drawn = c.drawn, d.a2ui = c.a2ui, d.blocks = c.blocks,
           d.task = "completed" => c.task = "completed"
    PROVE  KeepsAnswer(c, d)
BY DEF KeepsAnswer, Keeps, CardRec

LEMMA AnswerKept ==
    ASSUME AnswerInv, mode' = mode, mode = "task" => KeepsAnswer(card, card'), kernel'.said = kernel.said,
           run'.a2ui = run.a2ui,
           kernel.at \in Late \/ kernel.said # "none" => kernel'.at \in Late,
           Active' => AnswerQueued'
    PROVE  AnswerInv'
BY DEF AnswerInv, KeepsAnswer, Answered, Keeps

\* The queue and the card as far as the answer goes stay what they are.
LEMMA QueuedKept ==
    ASSUME AnswerQueued, run'.queue = run.queue, run'.a2ui = run.a2ui, KeepsAnswer(card, card'), kernel'.said = kernel.said
    PROVE  AnswerQueued'
BY DEF AnswerQueued, KeepsAnswer

LEMMA AnswerOutside ==
    ASSUME TypeInv, CoreInv, AnswerInv, NEW q, NEW e, Outside(q, e)
    PROVE  AnswerInv'
<1> SUFFICES ASSUME mode = "task" PROVE AnswerInv'
  BY DEF Outside, Heard, AnswerInv
<1>1. /\ UNCHANGED <<mode, card>> /\ q \in Seq(EventRec) /\ run.queue \in Seq(EventRec)
      /\ run'.queue = run.queue \o q /\ run'.phase = run.phase
  BY DEF Outside, Heard, Grows, uiVars, TypeInv, RunRec
<1>2. Answers(run, run', q, e) /\ (run.a2ui # "no" \/ HasMessage(q) => run'.a2ui # "no")
  BY DEF Outside, Heard, Answers, Tells
<1>3. /\ kernel'.said = kernel.said \/ kernel.at = "respond"
      /\ kernel'.said # "none" => kernel'.at \in Late
      /\ e.name = "agent-response" /\ e.body = "empty" => kernel'.said = "empty"
  <2>1. CASE Moves(e)
    BY <2>1 DEF Moves, AnswerInv
  <2>2. CASE UNCHANGED kernel /\ e = Silence
    <3>1. e.name = "silence"
      BY <2>2, BareMade DEF Silence, EventNames
    <3> QED
      BY <2>2, <3>1 DEF AnswerInv
  <2> QED
    BY <2>1, <2>2 DEF Outside
<1>4. kernel.said # "none" => kernel'.said = kernel.said
  BY <1>3 DEF AnswerInv, Late
<1>5. card.drawn => Answered'
  BY <1>1, <1>2, <1>4 DEF AnswerInv, Answered
<1>6. PICK z : z = run.queue \o q
  OBVIOUS
<1>7. /\ Len(run.queue) \in Nat /\ Len(q) \in Nat
      /\ DOMAIN run.queue = 1 .. Len(run.queue) /\ DOMAIN q = 1 .. Len(q) /\ DOMAIN z = 1 .. Len(run.queue) + Len(q)
      /\ \A i \in 1 .. Len(run.queue) : z[i] = run.queue[i]
      /\ \A i \in 1 .. Len(q) : z[Len(run.queue) + i] = q[i]
      /\ \A i \in 1 .. Len(run.queue) + Len(q) :
            i <= Len(run.queue) \/ (i - Len(run.queue) \in 1 .. Len(q) /\ z[i] = q[i - Len(run.queue)])
  BY <1>1, <1>6, Joined
<1>8. \A i \in DOMAIN run.queue : i \in DOMAIN z /\ z[i] = run.queue[i]
  BY <1>7
<1>9. \A i \in DOMAIN q : Len(run.queue) + i \in DOMAIN z /\ z[Len(run.queue) + i] = q[i]
  BY <1>7
<1>10. \A y, i : Before(run.queue, i, y) => Before(z, i, y)
  BY <1>8 DEF Before
<1>11. ASSUME NEW y, NEW i \in DOMAIN q, Before(q, i, y) PROVE Before(z, Len(run.queue) + i, y)
  <2>1. PICK j \in DOMAIN q : j < i /\ q[j].type = y
    BY <1>11 DEF Before
  <2>2. Len(run.queue) + j < Len(run.queue) + i
    BY <1>7, <2>1
  <2> QED
    BY <1>9, <2>1, <2>2 DEF Before
<1>12. HasMessage(z) => HasMessage(run.queue) \/ HasMessage(q)
  <2> SUFFICES ASSUME NEW i \in DOMAIN z, z[i].type \in A2UIMessages
               PROVE  HasMessage(run.queue) \/ HasMessage(q)
    BY DEF HasMessage
  <2>1. i \in DOMAIN run.queue \/ \E k \in DOMAIN q : i = Len(run.queue) + k
    BY <1>1, <1>6, Located
  <2> QED
    BY <1>8, <1>9, <2>1 DEF HasMessage
<1>14. ASSUME Active PROVE AnswerQueued'
  <2>1. AnswerQueued
    BY <1>14 DEF AnswerInv
  <2>2. HasMessage(z) => run'.a2ui # "no"
    BY <1>2, <1>12, <2>1 DEF AnswerQueued
  <2>3. ASSUME NEW i \in DOMAIN z, z[i].type = "task_completed"
        PROVE  card.drawn \/ Before(z, i, "card_generated")
    <3>1. CASE i \in DOMAIN run.queue
      BY <1>8, <1>10, <2>1, <2>3, <3>1 DEF AnswerQueued
    <3>2. ASSUME NEW k \in DOMAIN q, i = Len(run.queue) + k
          PROVE Before(z, i, "card_generated")
      <4>1. q[k].type = "task_completed"
        BY <1>9, <2>3, <3>2
      <4>2. Before(q, k, "card_generated")
        BY <1>2, <4>1 DEF Answers
      <4> QED
        BY <1>11, <3>2, <4>2
    <3>3. i \in DOMAIN run.queue \/ \E k \in DOMAIN q : i = Len(run.queue) + k
      BY <1>1, <1>6, Located
    <3> QED
      BY <3>1, <3>2, <3>3
  <2>4. ASSUME NEW i \in DOMAIN z, z[i].type = "card_generated"
        PROVE  HasSort(z[i].blocks, "final") \/ kernel'.said = "empty" \/ run'.a2ui # "no"
    <3>1. CASE i \in DOMAIN run.queue
      BY <1>2, <1>4, <1>8, <2>1, <2>4, <3>1 DEF AnswerQueued
    <3>2. ASSUME NEW k \in DOMAIN q, i = Len(run.queue) + k
          PROVE  HasSort(z[i].blocks, "final") \/ kernel'.said = "empty" \/ run'.a2ui # "no"
      <4>1. q[k].type = "card_generated" /\ z[i] = q[k]
        BY <1>9, <2>4, <3>2
      <4>2. \/ HasSort(q[k].blocks, "final") \/ (e.name = "agent-response" /\ e.body = "empty")
            \/ run'.a2ui # "no"
        BY <1>2, <4>1 DEF Answers
      <4> QED
        BY <1>3, <4>1, <4>2
    <3>3. i \in DOMAIN run.queue \/ \E k \in DOMAIN q : i = Len(run.queue) + k
      BY <1>1, <1>6, Located
    <3> QED
      BY <3>1, <3>2, <3>3
  <2> QED
    BY <1>1, <1>6, <2>2, <2>3, <2>4 DEF AnswerQueued
<1> QED
  BY <1>1, <1>2, <1>3, <1>5, <1>14 DEF AnswerInv, Active

LEMMA AnswerDrain ==
    ASSUME TypeInv, CoreInv, AnswerInv, NEW e, Takes(e)
    PROVE  AnswerInv'
<1> SUFFICES ASSUME mode = "task" PROVE AnswerInv'
  BY DEF Takes, AnswerInv
<1>1. /\ run \in RunRec /\ card \in CardRec /\ run.queue # <<>> /\ e = Head(run.queue)
      /\ UNCHANGED <<mode, kernel>> /\ card' = HandleAgentEvent(card, e)
      /\ Active /\ AnswerQueued /\ run'.a2ui = run.a2ui
  BY DEF TypeInv, Takes, LetGo, Active, AnswerInv
<1>2. CardStep(card, card', e)
  BY <1>1, HandledCard
<1>3. PICK q, t : q = run.queue /\ t = Tail(run.queue)
  OBVIOUS
<1>4. /\ e = q[1] /\ 1 \in DOMAIN q
      /\ Len(q) \in Nat \ {0} /\ DOMAIN q = 1 .. Len(q) /\ DOMAIN t = 1 .. Len(q) - 1
      /\ \A i \in 1 .. Len(q) - 1 : t[i] = q[i + 1]
  BY <1>1, <1>3, FirstEvent
<1>5. \A y : ~Before(q, 1, y)
  <2> SUFFICES ASSUME NEW y, Before(q, 1, y) PROVE FALSE
    OBVIOUS
  <2>1. PICK j \in DOMAIN q : j < 1
    BY DEF Before
  <2> QED
    BY <1>4, <2>1
\* What is first in the queue is taken, what is later stays.
<1>6. (HasMessage(t) => HasMessage(q)) /\ (e.type \in A2UIMessages => run.a2ui # "no")
  <2>1. HasMessage(t) => HasMessage(q)
    <3> SUFFICES ASSUME NEW j \in DOMAIN t, t[j].type \in A2UIMessages PROVE HasMessage(q)
      BY DEF HasMessage
    <3>1. j + 1 \in DOMAIN q /\ t[j] = q[j + 1]
      BY <1>4
    <3> QED
      BY <3>1 DEF HasMessage
  <2>2. e.type \in A2UIMessages => HasMessage(q)
    BY <1>4 DEF HasMessage
  <2> QED
    BY <1>1, <1>3, <2>1, <2>2 DEF AnswerQueued
<1>7. ASSUME NEW i \in DOMAIN t
      PROVE  i + 1 \in DOMAIN q /\ t[i] = q[i + 1] /\ \A y : Before(q, i + 1, y) => e.type = y \/ Before(t, i, y)
  <2>1. i + 1 \in DOMAIN q /\ t[i] = q[i + 1]
    BY <1>4
  <2>2. ASSUME NEW y, Before(q, i + 1, y), e.type # y PROVE Before(t, i, y)
    <3>1. PICK j \in 1 .. Len(q) : j < i + 1 /\ q[j].type = y
      BY <1>4, <2>2 DEF Before
    <3>2. j - 1 \in 1 .. Len(q) - 1 /\ t[j - 1] = q[j] /\ j - 1 < i
      BY <1>4, <2>2, <3>1
    <3> QED
      BY <1>4, <3>1, <3>2 DEF Before
  <2> QED
    BY <2>1, <2>2
<1>8. /\ e.type = "task_completed" => card.drawn
      /\ e.type = "card_generated" => HasSort(e.blocks, "final") \/ kernel.said = "empty" \/ run.a2ui # "no"
  BY <1>1, <1>3, <1>4, <1>5 DEF AnswerQueued
<1>9. card'.task = "completed" => card'.drawn
  BY <1>2, <1>8 DEF CardStep, AnswerInv
<1>10. card'.drawn => Answered'
  <2>1. card.a2ui = "older" => run.a2ui # "no" \/ card'.a2ui = "older"
    BY <1>2, <1>6 DEF CardStep, A2UIMessages
  <2>2. CASE card.drawn
    BY <1>1, <1>2, <2>1, <2>2 DEF CardStep, AnswerInv, Answered, Keeps
  <2>3. CASE ~card.drawn /\ e.type = "card_generated"
    <3>1. HasSurface(card) => card.a2ui = "older" \/ run.a2ui # "no"
      BY <1>1 DEF HasSurface, CardRec, AnswerInv
    <3> QED
      BY <1>1, <1>2, <1>8, <2>1, <2>3, <3>1 DEF CardStep, Answered
  <2> QED
    BY <1>2, <2>2, <2>3 DEF CardStep
<1>11. card'.a2ui = "drawn" => run'.a2ui # "no"
  BY <1>1, <1>2, <1>6 DEF CardStep, A2UIMessages, AnswerInv
<1>12. ASSUME run'.queue = t PROVE AnswerQueued'
  <2>1. HasMessage(t) => run'.a2ui # "no"
    BY <1>1, <1>3, <1>6 DEF AnswerQueued
  <2>2. ASSUME NEW i \in DOMAIN t, t[i].type = "task_completed"
        PROVE  card'.drawn \/ Before(t, i, "card_generated")
    <3>1. card.drawn \/ Before(q, i + 1, "card_generated")
      BY <1>1, <1>3, <1>7, <2>2 DEF AnswerQueued
    <3> QED
      BY <1>2, <1>7, <3>1 DEF CardStep
  <2>3. ASSUME NEW i \in DOMAIN t, t[i].type = "card_generated"
        PROVE  HasSort(t[i].blocks, "final") \/ kernel'.said = "empty" \/ run'.a2ui # "no"
    BY <1>1, <1>3, <1>7, <2>3 DEF AnswerQueued
  <2> QED
    BY <1>12, <2>1, <2>2, <2>3 DEF AnswerQueued
<1>13. Active' => AnswerQueued'
  BY <1>3, <1>12 DEF Takes, LetGo, Active
<1> QED
  BY <1>1, <1>9, <1>10, <1>11, <1>13 DEF AnswerInv

LEMMA AnswerOther ==
    ASSUME TypeInv, CoreInv, AnswerInv,
           Subscribe \/ SubscribeFails \/ YieldStarted \/ SubmitReturns \/ SubmitFails \/ DrainAborted
    PROVE  AnswerInv'
<1>1. run \in RunRec /\ card \in CardRec /\ kernel \in KernelRec /\ RunInv
  BY DEF TypeInv, CoreInv
<1>2. CASE Subscribe
  <2>1. run.phase = "setup" /\ run'.queue = run.queue /\ run'.a2ui = run.a2ui
    BY <1>1, <1>2 DEF Subscribe, RunRec
  <2>2. run'.queue = <<>>
    BY <1>1, <2>1 DEF RunInv
  <2>3. AnswerQueued'
    BY <2>2 DEF AnswerQueued, HasMessage
  <2>4. UNCHANGED <<mode, kernel, card>>
    BY <1>2 DEF Subscribe, uiVars
  <2> QED
    BY <2>1, <2>3, <2>4 DEF AnswerInv, Answered
<1>3. CASE SubscribeFails
  <2>1. run'.phase = "thrown" /\ run'.a2ui = run.a2ui /\ UNCHANGED <<mode, kernel>>
    BY <1>1, <1>3 DEF SubscribeFails, RunRec
  <2>2. KeepsAnswer(card, card')
    <3>1. card'.drawn = card.drawn /\ card'.a2ui = card.a2ui /\ card'.blocks = card.blocks /\ card'.task = card.task
      BY <1>1, <1>3 DEF SubscribeFails, CardRec
    <3> QED
      BY <1>1, <3>1, SameAnswer
  <2> QED
    BY <2>1, <2>2, AnswerKept DEF Active, AnswerInv
<1>4. CASE YieldStarted
  <2>1. /\ run.phase = "subscribed" /\ run'.queue = run.queue /\ run'.a2ui = run.a2ui /\ mode' = mode
        /\ run'.phase = (IF aborted THEN "over" ELSE "submitting")
    BY <1>1, <1>4 DEF YieldStarted, RunRec
  <2>2. kernel'.said = kernel.said /\ kernel.at = "off"
    BY <1>1, <1>4, <2>1 DEF YieldStarted, KernelRec, RunInv
  <2>3. ASSUME mode = "task" PROVE KeepsAnswer(card, card') /\ kernel.said = "none"
    <3>1. CASE card' = card
      BY <1>1, <3>1, SameAnswer, <2>2, <2>3 DEF AnswerInv, Late
    <3>2. CASE card' = HandleAgentEvent(card, Signal("task_started"))
      <4>1. CardStep(card, card', Signal("task_started")) /\ Signal("task_started").type = "task_started"
        BY <1>1, <3>2, SignalledCard
      <4> QED
        BY <4>1, <2>2, <2>3 DEF CardStep, KeepsAnswer, AnswerInv, Late
    <3> QED
      BY <1>4, <2>3, <3>1, <3>2 DEF YieldStarted
  <2> QED
    <3> SUFFICES ASSUME mode = "task" PROVE AnswerInv'
      BY <2>1 DEF AnswerInv
    <3>1. AnswerQueued
      BY <2>1 DEF AnswerInv, Active
    <3>2. AnswerQueued'
      BY <2>1, <2>2, <2>3, <3>1, QueuedKept
    <3> QED
      BY <2>1, <2>2, <2>3, <3>2, AnswerKept DEF Late
<1>5. CASE SubmitReturns \/ DrainAborted
  <2>1. UNCHANGED <<mode, kernel, card>>
    BY <1>5 DEF SubmitReturns, DrainAborted, uiVars
  <2>2. LetGo(run, run') \/ (run.phase = "submitting" /\ run'.queue = run.queue /\ run'.a2ui = run.a2ui)
    BY <1>1, <1>5, ReleaseLets DEF SubmitReturns, DrainAborted, RunRec
  <2>3. CASE LetGo(run, run')
    BY <2>1, <2>3 DEF LetGo, AnswerInv, Active, Answered
  <2>4. CASE run.phase = "submitting" /\ run'.queue = run.queue /\ run'.a2ui = run.a2ui
    BY <2>1, <2>4 DEF AnswerInv, Active, Answered, AnswerQueued
  <2> QED
    BY <2>2, <2>3, <2>4
<1>6. CASE SubmitFails
  <2>1. run'.phase = "failed" /\ run'.a2ui = run.a2ui /\ mode' = mode
    BY <1>1, <1>6 DEF SubmitFails, RunRec
  <2>2. kernel'.said = kernel.said /\ (kernel'.at = kernel.at \/ kernel'.at = "done")
    BY <1>1, <1>6 DEF SubmitFails, KernelRec
  <2>3. ASSUME mode = "task" PROVE KeepsAnswer(card, card')
    <3>1. CASE card' = card
      BY <1>1, <3>1, SameAnswer
    <3>2. CASE card' = HandleAgentEvent(card, Signal("task_failed"))
      <4>1. CardStep(card, card', Signal("task_failed")) /\ Signal("task_failed").type = "task_failed"
        BY <1>1, <3>2, SignalledCard
      <4> QED
        BY <4>1 DEF CardStep, KeepsAnswer
    <3> QED
      BY <1>6, <2>3, <3>1, <3>2 DEF SubmitFails
  <2> QED
    <3> SUFFICES ASSUME mode = "task" PROVE AnswerInv'
      BY <2>1 DEF AnswerInv
    <3>1. kernel.at \in Late \/ kernel.said # "none" => kernel'.at \in Late
      BY <2>2 DEF AnswerInv, Late
    <3> QED
      BY <2>1, <2>2, <2>3, <3>1, AnswerKept DEF Active
<1> QED
  BY <1>2, <1>3, <1>4, <1>5, <1>6

LEMMA AnswerUser ==
    ASSUME TypeInv, CoreInv, AnswerInv, UserStep
    PROVE  AnswerInv'
<1>1. run \in RunRec /\ card \in CardRec /\ kernel \in KernelRec
  BY DEF TypeInv
<1>2. UNCHANGED <<mode, run>> /\ kernel'.said = kernel.said
  BY <1>1 DEF UserStep, Cancel, DecisionReturns, Remount, Decide, KernelRec
<1>3. kernel'.at = kernel.at \/ kernel.at = "asked"
  BY <1>1 DEF UserStep, Cancel, DecisionReturns, Remount, Decide, KernelRec
<1>4. KeepsAnswer(card, card')
  <2>1. /\ card'.drawn = card.drawn /\ card'.a2ui = card.a2ui /\ card'.blocks = card.blocks
        /\ card'.task = card.task \/ card'.task \in {"running", "cancelled"}
    BY <1>1 DEF UserStep, Cancel, DecisionReturns, Remount, Decide, CancelCard, DecidedCard, UpdateTaskStatus, CardRec
  <2> QED
    BY <1>1, <2>1, SameAnswer
<1> SUFFICES ASSUME mode = "task" PROVE AnswerInv'
  BY <1>2 DEF AnswerInv
<1>5. Active' => AnswerQueued'
  <2>1. Active' => AnswerQueued
    BY <1>2 DEF AnswerInv, Active
  <2> QED
    BY <1>2, <1>4, <2>1, QueuedKept
<1>6. kernel.at \in Late \/ kernel.said # "none" => kernel'.at \in Late
  BY <1>3 DEF AnswerInv, Late
<1> QED
  BY <1>2, <1>4, <1>5, <1>6, AnswerKept

LEMMA AnswerStep ==
    TypeInv /\ CoreInv /\ AnswerInv /\ [Next]_vars => AnswerInv'
<1> SUFFICES ASSUME TypeInv, CoreInv, AnswerInv, [Next]_vars PROVE AnswerInv'
  OBVIOUS
<1>1. CASE KernelStep \/ FallbackFires \/ ConnectionLost
  BY <1>1, OutsideStep, AnswerOutside DEF CoreInv
<1>2. CASE DrainToCard \/ DrainToChat
  BY <1>2, DrainTakes, AnswerDrain
<1>3. CASE UNCHANGED vars
  BY <1>3 DEF vars, AnswerInv, Active, AnswerQueued, Answered
<1> QED
  BY <1>1, <1>2, <1>3, AnswerOther, AnswerUser DEF Next, RunStep

(***************************************************************************)
(* The surface on its way to the card.                                       *)
(***************************************************************************)
\* The surface that the run's messages come to is on the card and the queue keeps it,
\* or the queue begins it.
SurfaceQueued == Opens(run.queue) \/ (card.a2ui = "drawn" /\ NoDelete(run.queue))

SurfaceInv ==
    mode = "task" =>
      /\ Active /\ run.a2ui = "surface" => SurfaceQueued
      /\ run.phase = "over" /\ run.a2ui = "surface" /\ card.task = "completed" => card.a2ui = "drawn"
      /\ aborted => card.task # "completed"

LEMMA InitSurface == Init => SurfaceInv
<1> SUFFICES ASSUME Init PROVE SurfaceInv
  OBVIOUS
<1>1. run.phase = "setup" /\ run.a2ui = "no"
  BY DEF Init, NewRun
<1>2. card.task = "running"
  BY InitCard DEF Fresh
<1> QED
  BY <1>1, <1>2 DEF SurfaceInv, Active

\* A list begins a surface when its second part does, or keeps what its first began.
LEMMA OpensJoined ==
    ASSUME NEW s \in Seq(EventRec), NEW t \in Seq(EventRec)
    PROVE  /\ Opens(t) \/ (Opens(s) /\ NoDelete(t)) => Opens(s \o t)
           /\ NoDelete(s) /\ NoDelete(t) => NoDelete(s \o t)
<1>1. PICK z : z = s \o t
  OBVIOUS
<1>2. /\ Len(s) \in Nat /\ Len(t) \in Nat
      /\ DOMAIN s = 1 .. Len(s) /\ DOMAIN t = 1 .. Len(t) /\ DOMAIN z = 1 .. Len(s) + Len(t)
      /\ \A i \in 1 .. Len(s) : z[i] = s[i]
      /\ \A i \in 1 .. Len(t) : z[Len(s) + i] = t[i]
      /\ \A i \in 1 .. Len(s) + Len(t) : i <= Len(s) \/ (i - Len(s) \in 1 .. Len(t) /\ z[i] = t[i - Len(s)])
  BY <1>1, Joined
<1>3. ASSUME Opens(t) PROVE Opens(z)
  <2>1. PICK j \in 1 .. Len(t) : /\ t[j].type = "beginRendering"
                                 /\ \A k \in DOMAIN t : k > j => t[k].type # "deleteSurface"
    BY <1>2, <1>3 DEF Opens
  <2>2. Len(s) + j \in DOMAIN z /\ z[Len(s) + j] = t[j]
    BY <1>2
  <2>3. ASSUME NEW k \in DOMAIN z, k > Len(s) + j PROVE z[k].type # "deleteSurface"
    <3>1. k - Len(s) \in 1 .. Len(t) /\ z[k] = t[k - Len(s)] /\ k - Len(s) > j
      BY <1>2, <2>3
    <3> QED
      BY <1>2, <2>1, <3>1
  <2> QED
    BY <2>1, <2>2, <2>3 DEF Opens
<1>4. ASSUME Opens(s), NoDelete(t) PROVE Opens(z)
  <2>1. PICK j \in 1 .. Len(s) : /\ s[j].type = "beginRendering"
                                 /\ \A k \in DOMAIN s : k > j => s[k].type # "deleteSurface"
    BY <1>2, <1>4 DEF Opens
  <2>2. j \in DOMAIN z /\ z[j] = s[j]
    BY <1>2
  <2>3. ASSUME NEW k \in DOMAIN z, k > j PROVE z[k].type # "deleteSurface"
    <3>1. CASE k <= Len(s)
      BY <1>2, <2>1, <2>3, <3>1
    <3>2. CASE k - Len(s) \in 1 .. Len(t) /\ z[k] = t[k - Len(s)]
      BY <1>2, <1>4, <3>2 DEF NoDelete
    <3> QED
      BY <1>2, <3>1, <3>2
  <2> QED
    BY <2>1, <2>2, <2>3 DEF Opens
<1>5. ASSUME NoDelete(s), NoDelete(t) PROVE NoDelete(z)
  <2> SUFFICES ASSUME NEW k \in DOMAIN z PROVE z[k].type # "deleteSurface"
    BY DEF NoDelete
  <2>1. CASE k <= Len(s)
    BY <1>2, <1>5, <2>1 DEF NoDelete
  <2>2. CASE k - Len(s) \in 1 .. Len(t) /\ z[k] = t[k - Len(s)]
    BY <1>2, <1>5, <2>2 DEF NoDelete
  <2> QED
    BY <1>2, <2>1, <2>2
<1> QED
  BY <1>1, <1>3, <1>4, <1>5

LEMMA SurfaceOutside ==
    ASSUME TypeInv, CoreInv, SurfaceInv, NEW q, NEW e, Outside(q, e)
    PROVE  SurfaceInv'
<1> SUFFICES ASSUME mode = "task" PROVE SurfaceInv'
  BY DEF Outside, Heard, SurfaceInv
<1>1. /\ UNCHANGED <<mode, card, aborted>> /\ q \in Seq(EventRec) /\ run.queue \in Seq(EventRec)
      /\ run'.queue = run.queue \o q /\ run'.phase = run.phase
  BY DEF Outside, Heard, Grows, uiVars, TypeInv, RunRec
<1>2. run'.a2ui = "surface" => Opens(q) \/ (run.a2ui = "surface" /\ NoDelete(q))
  BY DEF Outside, Heard, Answers, Tells
<1>3. ASSUME Active, run'.a2ui = "surface" PROVE SurfaceQueued'
  <2>1. CASE Opens(q)
    BY <1>1, <2>1, OpensJoined DEF SurfaceQueued
  <2>2. CASE run.a2ui = "surface" /\ NoDelete(q)
    <3>1. SurfaceQueued
      BY <1>3, <2>2 DEF SurfaceInv
    <3> QED
      BY <1>1, <2>2, <3>1, OpensJoined DEF SurfaceQueued
  <2> QED
    BY <1>2, <1>3, <2>1, <2>2
<1>4. ASSUME run.phase = "over", run'.a2ui = "surface", card.task = "completed" PROVE card.a2ui = "drawn"
  <2>1. ~run.listening /\ run.source # "open"
    BY <1>4 DEF SurfaceInv, CoreInv, RunInv
  <2>2. run.a2ui = "surface"
    BY <1>4, <2>1 DEF Outside, Heard
  <2> QED
    BY <1>4, <2>2 DEF SurfaceInv
<1> QED
  BY <1>1, <1>3, <1>4 DEF SurfaceInv, Active

LEMMA SurfaceDrain ==
    ASSUME TypeInv, CoreInv, SurfaceInv, NEW e, Takes(e)
    PROVE  SurfaceInv'
<1> SUFFICES ASSUME mode = "task" PROVE SurfaceInv'
  BY DEF Takes, SurfaceInv
<1>1. /\ run \in RunRec /\ card \in CardRec /\ run.queue # <<>> /\ e = Head(run.queue)
      /\ UNCHANGED <<mode, aborted>> /\ card' = HandleAgentEvent(card, e)
      /\ Active /\ run'.a2ui = run.a2ui /\ ~aborted
  BY DEF TypeInv, Takes, LetGo, Active
<1>2. /\ e.type = "beginRendering" => card'.a2ui = "drawn"
      /\ e.type # "deleteSurface" /\ card.a2ui = "drawn" => card'.a2ui = "drawn"
  BY <1>1, HandledCard DEF CardStep
<1>3. PICK q, t : q = run.queue /\ t = Tail(run.queue)
  OBVIOUS
<1>4. /\ e = q[1] /\ 1 \in DOMAIN q
      /\ Len(q) \in Nat \ {0} /\ DOMAIN q = 1 .. Len(q) /\ DOMAIN t = 1 .. Len(q) - 1
      /\ \A i \in 1 .. Len(q) - 1 : t[i] = q[i + 1]
  BY <1>1, <1>3, FirstEvent
<1>5. run.a2ui = "surface" => Opens(q) \/ (card.a2ui = "drawn" /\ NoDelete(q))
  BY <1>1, <1>3 DEF SurfaceInv, SurfaceQueued
\* What is first in the queue is taken, what is later stays.
<1>6. ASSUME Opens(q) PROVE Opens(t) \/ (card'.a2ui = "drawn" /\ NoDelete(t))
  <2>1. PICK j \in 1 .. Len(q) : /\ q[j].type = "beginRendering"
                                 /\ \A k \in DOMAIN q : k > j => q[k].type # "deleteSurface"
    BY <1>4, <1>6 DEF Opens
  <2>2. ASSUME NEW k \in DOMAIN t, k + 1 > j PROVE t[k].type # "deleteSurface"
    <3>1. k + 1 \in DOMAIN q /\ t[k] = q[k + 1]
      BY <1>4
    <3> QED
      BY <2>1, <2>2, <3>1
  <2>3. CASE j = 1
    <3>1. NoDelete(t)
      BY <1>4, <2>2, <2>3 DEF NoDelete
    <3> QED
      BY <1>2, <1>4, <2>1, <2>3, <3>1
  <2>4. CASE j # 1
    <3>1. j - 1 \in DOMAIN t /\ t[j - 1] = q[j]
      BY <1>4, <2>4
    <3>2. \A k \in DOMAIN t : k > j - 1 => t[k].type # "deleteSurface"
      BY <1>4, <2>2
    <3> QED
      BY <2>1, <3>1, <3>2 DEF Opens
  <2> QED
    BY <2>3, <2>4
<1>7. ASSUME card.a2ui = "drawn", NoDelete(q) PROVE card'.a2ui = "drawn" /\ NoDelete(t)
  <2>1. \A k \in DOMAIN t : k + 1 \in DOMAIN q /\ t[k] = q[k + 1]
    BY <1>4
  <2> QED
    BY <1>2, <1>4, <1>7, <2>1 DEF NoDelete
<1>8. CASE LetGo(run, run') /\ Len(run.queue) = 1
  <2>1. DOMAIN t = {}
    BY <1>3, <1>4, <1>8
  <2>2. ~Opens(t)
    BY <2>1 DEF Opens
  <2> QED
    BY <1>1, <1>5, <1>6, <1>7, <1>8, <2>2 DEF LetGo, SurfaceInv, Active
<1>9. CASE run'.queue = t /\ run'.phase = "draining"
  BY <1>1, <1>5, <1>6, <1>7, <1>9 DEF SurfaceInv, SurfaceQueued
<1> QED
  BY <1>3, <1>8, <1>9 DEF Takes

\* A step that leaves the surface and the queue alone.
LEMMA SurfaceKept ==
    ASSUME SurfaceInv, mode' = mode, mode = "task" => card'.a2ui = card.a2ui, run'.a2ui = run.a2ui,
           mode = "task" /\ card'.task = "completed" => card.task = "completed" /\ ~aborted',
           Active' => Active /\ run'.queue = run.queue,
           run'.phase = "over" => run.phase = "over" \/ (mode = "task" => card'.task # "completed")
    PROVE  SurfaceInv'
BY DEF SurfaceInv, SurfaceQueued

LEMMA SurfaceOther ==
    ASSUME TypeInv, CoreInv, SurfaceInv,
           Subscribe \/ SubscribeFails \/ YieldStarted \/ SubmitReturns \/ SubmitFails \/ DrainAborted
    PROVE  SurfaceInv'
<1>1. run \in RunRec /\ card \in CardRec /\ RunInv
  BY DEF TypeInv, CoreInv
<1>2. mode = "task" /\ card.task = "completed" => ~aborted
  BY DEF SurfaceInv
<1>3. CASE Subscribe
  <2>1. run.a2ui = "no" /\ run'.a2ui = run.a2ui /\ UNCHANGED <<mode, card, aborted>>
    BY <1>1, <1>3 DEF Subscribe, RunInv, RunRec, uiVars
  <2> QED
    BY <2>1 DEF SurfaceInv
<1>4. CASE SubscribeFails
  <2>1. run'.phase = "thrown" /\ run'.a2ui = run.a2ui /\ UNCHANGED <<mode, aborted>>
    BY <1>1, <1>4 DEF SubscribeFails, RunRec
  <2>2. card'.a2ui = card.a2ui /\ card'.task = card.task
    BY <1>1, <1>4 DEF SubscribeFails, CardRec
  <2> QED
    BY <1>2, <2>1, <2>2, SurfaceKept DEF Active
<1>5. CASE YieldStarted
  <2>1. /\ run.phase = "subscribed" /\ run'.queue = run.queue /\ run'.a2ui = run.a2ui
        /\ UNCHANGED <<mode, aborted>>
        /\ run'.phase = (IF aborted THEN "over" ELSE "submitting")
    BY <1>1, <1>5 DEF YieldStarted, RunRec
  <2>2. CASE card' = card
    BY <1>2, <2>1, <2>2, SurfaceKept DEF Active
  <2>3. CASE ~aborted /\ card' = HandleAgentEvent(card, Signal("task_started"))
    <3>1. CardStep(card, card', Signal("task_started")) /\ Signal("task_started").type = "task_started"
      BY <1>1, <2>3, SignalledCard
    <3>2. card'.a2ui = card.a2ui /\ card'.task = "running"
      BY <3>1 DEF CardStep
    <3> QED
      BY <2>1, <3>2, SurfaceKept DEF Active
  <2> QED
    BY <1>5, <2>2, <2>3 DEF YieldStarted
<1>6. CASE SubmitReturns \/ DrainAborted
  <2>1. UNCHANGED <<mode, card, aborted>>
    BY <1>6 DEF SubmitReturns, DrainAborted, uiVars
  <2>2. \/ LetGo(run, run') /\ aborted
        \/ /\ run.phase = "submitting" /\ run'.phase = "draining"
           /\ run'.queue = run.queue /\ run'.a2ui = run.a2ui
    BY <1>1, <1>6, ReleaseLets DEF SubmitReturns, DrainAborted, RunRec
  <2> QED
    BY <1>2, <2>1, <2>2, SurfaceKept DEF LetGo, Active
<1>7. CASE SubmitFails
  <2>1. run'.phase = "failed" /\ run'.a2ui = run.a2ui /\ UNCHANGED <<mode, aborted>>
    BY <1>1, <1>7 DEF SubmitFails, RunRec
  <2>2. CASE card' = card
    BY <1>2, <2>1, <2>2, SurfaceKept DEF Active
  <2>3. CASE card' = HandleAgentEvent(card, Signal("task_failed"))
    <3>1. CardStep(card, card', Signal("task_failed")) /\ Signal("task_failed").type = "task_failed"
      BY <1>1, <2>3, SignalledCard
    <3>2. card'.a2ui = card.a2ui /\ card'.task = "failed"
      BY <3>1 DEF CardStep
    <3> QED
      BY <2>1, <3>2, SurfaceKept DEF Active
  <2> QED
    BY <1>7, <2>2, <2>3 DEF SubmitFails
<1> QED
  BY <1>3, <1>4, <1>5, <1>6, <1>7

LEMMA SurfaceUser ==
    ASSUME TypeInv, SurfaceInv, UserStep
    PROVE  SurfaceInv'
<1>1. run \in RunRec /\ card \in CardRec
  BY DEF TypeInv
<1>2. UNCHANGED <<mode, run>>
  BY DEF UserStep, Cancel, DecisionReturns, Remount, Decide
<1>3. card'.a2ui = card.a2ui
  BY <1>1 DEF UserStep, Cancel, DecisionReturns, Remount, Decide, CancelCard, DecidedCard, UpdateTaskStatus, CardRec
<1>4. mode = "task" => card'.task \in {"running", "cancelled"} \/ (card' = card /\ aborted' = aborted)
  BY <1>1 DEF UserStep, Cancel, DecisionReturns, Remount, Decide, CancelCard, DecidedCard, UpdateTaskStatus, CardRec
<1> QED
  BY <1>2, <1>3, <1>4, SurfaceKept DEF SurfaceInv, Active

LEMMA SurfaceStep ==
    TypeInv /\ CoreInv /\ SurfaceInv /\ [Next]_vars => SurfaceInv'
<1> SUFFICES ASSUME TypeInv, CoreInv, SurfaceInv, [Next]_vars PROVE SurfaceInv'
  OBVIOUS
<1>1. CASE KernelStep \/ FallbackFires \/ ConnectionLost
  BY <1>1, OutsideStep, SurfaceOutside DEF CoreInv
<1>2. CASE DrainToCard \/ DrainToChat
  BY <1>2, DrainTakes, SurfaceDrain
<1>3. CASE UNCHANGED vars
  BY <1>3 DEF vars, SurfaceInv, SurfaceQueued, Active
<1> QED
  BY <1>1, <1>2, <1>3, SurfaceOther, SurfaceUser DEF Next, RunStep

(***************************************************************************)
(* The steps of the card, through rounds of calls and approvals.             *)
(***************************************************************************)
UniqueIds(steps) == \A i, j \in DOMAIN steps : steps[i].id = steps[j].id => i = j

MergesInto(old, new, s) ==
    /\ UniqueIds(new)
    /\ \A k \in DOMAIN new : new[k].id # s.id => \E i \in DOMAIN old : old[i] = new[k]
    /\ \A k \in DOMAIN new : new[k].id = s.id =>
         \/ new[k].status = s.status
         \/ s.status = "absent" /\ \E i \in DOMAIN old : old[i].id = s.id /\ old[i].status = new[k].status
    /\ \A i \in DOMAIN old : old[i].id # s.id => \E k \in DOMAIN new : new[k] = old[i]
    /\ \E k \in DOMAIN new : new[k].id = s.id /\ (s.status # "absent" => new[k].status = s.status)

LEMMA StepsMerge ==
    ASSUME NEW old \in Seq(StepRec), NEW new, NEW s \in StepRec, Merged(old, new, s), UniqueIds(old)
    PROVE  MergesInto(old, new, s)
<1>1. CASE (\A i \in DOMAIN old : old[i].id # s.id) /\ new = Append(old, s)
  <2>1. /\ Len(old) \in Nat /\ DOMAIN old = 1 .. Len(old)
        /\ Len(new) = Len(old) + 1 /\ DOMAIN new = 1 .. Len(old) + 1
        /\ new[Len(old) + 1] = s /\ \A i \in 1 .. Len(old) : new[i] = old[i]
    BY <1>1, AppendProperties
  <2>2. PICK n : n = Len(old) + 1 /\ n \in DOMAIN new /\ new[n] = s
    BY <2>1
  <2>3. \A k \in DOMAIN new : k = n \/ (k \in DOMAIN old /\ new[k] = old[k])
    BY <2>1, <2>2
  <2>4. \A k \in DOMAIN old : k \in DOMAIN new /\ new[k] = old[k]
    BY <2>1
  <2>5. UniqueIds(new)
    <3> SUFFICES ASSUME NEW i \in DOMAIN new, NEW j \in DOMAIN new, new[i].id = new[j].id PROVE i = j
      BY DEF UniqueIds
    <3> QED
      BY <1>1, <2>2, <2>3 DEF UniqueIds
  <2> QED
    BY <1>1, <2>2, <2>3, <2>4, <2>5 DEF MergesInto
<1>2. ASSUME NEW m \in DOMAIN old, old[m].id = s.id, DOMAIN new = DOMAIN old,
             \A j \in DOMAIN old : j # m => new[j] = old[j], new[m].id = s.id,
             new[m].status = IF s.status = "absent" THEN old[m].status ELSE s.status
      PROVE  MergesInto(old, new, s)
  <2>1. UniqueIds(new)
    <3> SUFFICES ASSUME NEW i \in DOMAIN new, NEW j \in DOMAIN new, new[i].id = new[j].id PROVE i = j
      BY DEF UniqueIds
    <3>1. new[i].id = old[i].id /\ new[j].id = old[j].id
      BY <1>2
    <3> QED
      BY <1>2, <3>1 DEF UniqueIds
  <2>2. \A k \in DOMAIN new : new[k].id # s.id => k # m
    BY <1>2
  <2>3. \A k \in DOMAIN new : new[k].id = s.id => k = m
    BY <1>2, <2>1 DEF UniqueIds
  <2>4. \A k \in DOMAIN old : old[k].id # s.id => k # m
    BY <1>2
  <2> QED
    BY <1>2, <2>1, <2>2, <2>3, <2>4 DEF MergesInto
<1> QED
  BY <1>1, <1>2 DEF Merged

\* A step n that runs on the card, or will run: is its completion queued?
Runs(steps, n) == \E i \in DOMAIN steps : steps[i].status = "running" /\ steps[i].id = ReasonStep(n)
Closes(q, n, i) == \E j \in DOMAIN q : j > i /\ q[j].type = "step_completed" /\ q[j].step.id = ReasonStep(n)
HasType(q, y) == \E j \in DOMAIN q : q[j].type = y
Starts(a, n) == a.type = "step_started" /\ a.step.id = ReasonStep(n)
AllClosed(c) == \A i \in DOMAIN c.steps : c.steps[i].status = "running" => c.steps[i].id = ReasonStep(0)
\* The steps that may be open: the first, and the current one until COMPLETE.
Current == IF kernel.at = "respond" THEN {0} ELSE {0, run.idx}

\* Before the end: the completion of every other step that runs is in the queue.
OpenInv ==
    /\ card.task # "completed"
    /\ \A n \in Nat \ Current : Runs(card.steps, n) => Closes(run.queue, n, 0)
    /\ \A n \in Nat \ Current, i \in DOMAIN run.queue : Starts(run.queue[i], n) => Closes(run.queue, n, i)

\* Between the end and its arrival at the card: nothing is started any more, and the
\* steps are closed once only the completion is left to come.
ClosedInv ==
    /\ card.task # "completed"
    /\ \A i \in DOMAIN run.queue : run.queue[i].type # "step_started"
    /\ HasType(run.queue, "task_completed") => AllClosed(card)

StepsInv ==
    transport = "tauri" =>
      /\ UniqueIds(card.steps)
      /\ \A i \in DOMAIN card.steps : card.steps[i].status = "running" => card.steps[i].id \in Reasons
      /\ run.phase = "setup" => card.steps = <<>> /\ card.task # "completed"
      /\ mode = "task" /\ Active /\ ~early => IF run.finished THEN ClosedInv ELSE OpenInv
      /\ card.task = "completed" /\ ~early => AllClosed(card)

LEMMA InitSteps == Init => StepsInv
<1> SUFFICES ASSUME Init PROVE StepsInv
  OBVIOUS
<1>1. run.phase = "setup"
  BY DEF Init, NewRun
<1>2. card.steps = <<>> /\ card.task = "running"
  BY InitCard DEF Fresh
<1>3. DOMAIN card.steps = {}
  BY <1>2
<1> QED
  BY <1>1, <1>2, <1>3 DEF StepsInv, UniqueIds, Active

LEMMA StepsOutside ==
    ASSUME TypeInv, CoreInv, StepsInv, NEW q, NEW e, Outside(q, e)
    PROVE  StepsInv'
<1> SUFFICES ASSUME transport = "tauri" PROVE StepsInv'
  BY DEF Outside, Heard, StepsInv
<1>1. /\ UNCHANGED <<transport, mode, card>> /\ q \in Seq(EventRec) /\ run.queue \in Seq(EventRec)
      /\ run'.queue = run.queue \o q /\ run'.phase = run.phase
      /\ run.finished \in BOOLEAN /\ run'.finished \in BOOLEAN /\ run'.idx \in Nat /\ run.idx \in Nat
      /\ run.phase = "draining" => run.queue = <<>>
      /\ early => early'
      /\ run' # run /\ run'.finished /\ run.phase = "submitting" => early'
      /\ RunInv /\ QueueInv /\ Moves(e)
  BY DEF Outside, Heard, Grows, uiVars, TypeInv, RunRec, CoreInv, Quiet
<1>2. ASSUME mode = "task", Active, ~early'
      PROVE  IF run'.finished THEN ClosedInv' ELSE OpenInv'
  <2>1. ~early /\ run.listening /\ kernel.at # "off" /\ run.phase \in {"submitting", "draining"}
        /\ (run.finished <=> kernel.at \in Late)
    BY <1>1, <1>2 DEF RunInv, Active, Moves
  <2>2. ~run.finished
    <3> SUFFICES ASSUME run.finished PROVE FALSE
      OBVIOUS
    <3>1. run.phase = "draining"
      BY <1>1, <2>1 DEF RunInv
    <3>2. Ended(run.queue)
      BY <1>1, <1>2 DEF QueueInv
    <3> QED
      BY <1>1, <3>1, <3>2 DEF Ended
  <2>3. OpenInv /\ StepsInv
    BY <1>2, <2>1, <2>2 DEF StepsInv
  <2>4. /\ TauriEnds(run, run', q, e) /\ TauriSteps(run, run', q, e)
        /\ (NoTerminal(q) /\ (run'.finished <=> run.finished)) \/ (OneTerminal(q) /\ run'.finished)
    BY <2>1 DEF Outside, Heard, Terminates
  <2>5. ASSUME run'.finished PROVE ClosedInv'
    <3>1. OneTerminal(q)
      BY <2>2, <2>4, <2>5
    <3>2. run.phase = "draining" /\ run.queue = <<>> /\ run'.queue = q
      <4>1. run' # run
        BY <2>2, <2>5
      <4>2. run.phase = "draining" /\ run.queue = <<>>
        BY <1>1, <1>2, <2>1, <2>5, <4>1
      <4> QED
        BY <1>1, <4>2, ConcatEmptySeq
    <3>3. \A i \in DOMAIN q : q[i].type # "step_started"
      BY <2>4, <3>1 DEF TauriSteps
    <3>4. ASSUME HasType(q, "task_completed"), NEW i \in DOMAIN card.steps, card.steps[i].status = "running"
          PROVE  card.steps[i].id = ReasonStep(0)
      <4>1. e.name \in {"agent-response", "intent-cache-result"}
        BY <2>4, <3>4 DEF HasType, TauriSteps
      <4>2. kernel.at = "respond" \/ kernel.at = "cache"
        BY <1>1, <2>1, <2>2, <4>1 DEF Moves, Late
      <4>3. Current = {0}
        BY <1>1, <4>2 DEF Current, RunInv
      <4>4. PICK n \in Nat : card.steps[i].id = ReasonStep(n)
        BY <2>3, <3>4 DEF StepsInv, Reasons
      <4>5. Runs(card.steps, n)
        BY <3>4, <4>4 DEF Runs
      <4>6. ~Closes(run.queue, n, 0)
        BY <3>2 DEF Closes
      <4>7. n \in Current
        BY <2>3, <4>5, <4>6 DEF OpenInv
      <4> QED
        BY <4>3, <4>4, <4>7
    <3> QED
      BY <1>1, <2>3, <3>2, <3>3, <3>4 DEF ClosedInv, OpenInv, AllClosed
  <2>6. ASSUME ~run'.finished PROVE OpenInv'
    <3>1. PICK z : z = run.queue \o q
      OBVIOUS
    <3>2. /\ Len(run.queue) \in Nat /\ Len(q) \in Nat
          /\ DOMAIN run.queue = 1 .. Len(run.queue) /\ DOMAIN q = 1 .. Len(q) /\ DOMAIN z = 1 .. Len(run.queue) + Len(q)
          /\ \A i \in 1 .. Len(run.queue) : z[i] = run.queue[i]
          /\ \A i \in 1 .. Len(q) : z[Len(run.queue) + i] = q[i]
      BY <1>1, <3>1, Joined
    <3>3. \A n, i : Closes(run.queue, n, i) => Closes(z, n, i)
      BY <3>2 DEF Closes
    <3>4. ASSUME NEW n, NEW i \in {0} \cup DOMAIN run.queue, HasDone(q, n) PROVE Closes(z, n, i)
      <4>1. PICK j \in 1 .. Len(q) : q[j].type = "step_completed" /\ q[j].step.id = ReasonStep(n)
        BY <3>2, <3>4 DEF HasDone
      <4>2. Len(run.queue) + j \in DOMAIN z /\ z[Len(run.queue) + j] = q[j] /\ Len(run.queue) + j > i
        BY <3>2
      <4> QED
        BY <4>1, <4>2 DEF Closes
    <3>5. ~Finishing(e) /\ kernel.at # "respond"
      BY <1>1, <2>2, <2>4, <2>6 DEF TauriEnds, Moves, Finishing
    <3>6. \A n \in Nat \ Current' : n \notin Current \/ HasDone(q, n)
      <4> SUFFICES ASSUME NEW n \in Nat \ Current', n \in Current PROVE HasDone(q, n)
        OBVIOUS
      <4>1. n = run.idx /\ n # 0 /\ (run'.idx # run.idx \/ kernel'.at = "respond")
        BY <3>5 DEF Current
      <4>2. kernel'.at = "respond" => HasDone(q, run.idx)
        BY <1>1, <2>2, <2>4 DEF Moves, TauriSteps
      <4>3. run'.idx # run.idx => HasDone(q, run.idx)
        BY <2>4, <4>1 DEF TauriSteps
      <4> QED
        BY <4>1, <4>2, <4>3
    <3>7. ASSUME NEW n \in Nat \ Current', Runs(card.steps, n) PROVE Closes(z, n, 0)
      BY <2>3, <3>3, <3>4, <3>6, <3>7 DEF OpenInv
    <3>8. ASSUME NEW n \in Nat \ Current', NEW i \in DOMAIN z, Starts(z[i], n) PROVE Closes(z, n, i)
      <4>1. CASE i \in DOMAIN run.queue
        <5>1. z[i] = run.queue[i]
          BY <3>2, <4>1
        <5> QED
          BY <2>3, <3>3, <3>4, <3>6, <3>8, <4>1, <5>1 DEF OpenInv
      <4>2. ASSUME NEW k \in DOMAIN q, i = Len(run.queue) + k PROVE FALSE
        <5>1. Starts(q[k], n)
          BY <3>2, <3>8, <4>2
        <5>2. n = 0 \/ n = run'.idx
          BY <1>1, <2>4, <5>1 DEF Starts, TauriSteps, ReasonStep
        <5>3. ~IsStatus(e, "COMPLETE")
          BY <2>4, <5>1 DEF Starts, TauriSteps
        <5>4. kernel'.at # "respond"
          BY <1>1, <5>3 DEF Moves
        <5> QED
          BY <5>2, <5>4 DEF Current
      <4> QED
        BY <1>1, <3>1, <4>1, <4>2, Located
    <3> QED
      BY <1>1, <2>3, <3>1, <3>7, <3>8 DEF OpenInv
  <2> QED
    BY <2>5, <2>6
<1>3. Active' <=> Active
  BY <1>1 DEF Active
<1> QED
  BY <1>1, <1>2, <1>3 DEF StepsInv, AllClosed

\* The steps of the card after one event.
StepsFrom(c, d, e) ==
    IF e.type \in StepTypes THEN MergesInto(c.steps, d.steps, e.step) ELSE d.steps = c.steps

LEMMA CardStepsFrom ==
    ASSUME NEW c \in CardRec, NEW d, NEW e \in EventRec, CardStep(c, d, e), UniqueIds(c.steps)
    PROVE  StepsFrom(c, d, e) /\ UniqueIds(d.steps)
<1>1. c.steps \in Seq(StepRec) /\ e.step \in StepRec
  BY DEF CardRec, EventRec
<1>2. e.type \in StepTypes => MergesInto(c.steps, d.steps, e.step)
  BY <1>1, StepsMerge DEF CardStep
<1> QED
  BY <1>2 DEF CardStep, StepsFrom, MergesInto

\* A step that runs after an event ran before it, unless the event started it.
LEMMA RunsFrom ==
    ASSUME NEW c, NEW d, NEW e \in EventRec, StepsFrom(c, d, e), NEW k \in DOMAIN d.steps,
           d.steps[k].status = "running"
    PROVE  \/ e.type = "step_started" /\ e.step.id = d.steps[k].id /\ e.step.id \in Reasons
           \/ \E i \in DOMAIN c.steps : /\ c.steps[i].status = "running" /\ c.steps[i].id = d.steps[k].id
                                        /\ ~(e.type = "step_completed" /\ e.step.id = d.steps[k].id)
<1>1. StepFits(e.type, e.step)
  BY DEF EventRec
<1>2. CASE e.type \notin StepTypes
  BY <1>2 DEF StepsFrom, StepTypes
<1>3. CASE e.type \in StepTypes /\ d.steps[k].id # e.step.id
  BY <1>3 DEF StepsFrom, MergesInto
<1>4. CASE e.type \in StepTypes /\ d.steps[k].id = e.step.id
  BY <1>1, <1>4 DEF StepsFrom, MergesInto, StepTypes, StepFits
<1> QED
  BY <1>2, <1>3, <1>4

\* No event but a start takes a closed card apart.
LEMMA StaysClosed ==
    ASSUME NEW c, NEW d, NEW e \in EventRec, StepsFrom(c, d, e), e.type # "step_started", AllClosed(c)
    PROVE  AllClosed(d)
BY RunsFrom DEF AllClosed

LEMMA StepsDrain ==
    ASSUME TypeInv, CoreInv, CoreInv', StepsInv, NEW e, Takes(e)
    PROVE  StepsInv'
<1> SUFFICES ASSUME transport = "tauri" PROVE StepsInv'
  BY DEF Takes, StepsInv
<1>1. /\ run \in RunRec /\ card \in CardRec /\ run.queue # <<>> /\ e = Head(run.queue) /\ run.queue \in Seq(EventRec)
      /\ UNCHANGED <<transport, mode, kernel, early>>
      /\ mode \in {"task", "os"} /\ Active /\ run.phase = "draining" /\ outcomes \in Nat
      /\ run.finished \in BOOLEAN /\ e \in EventRec
  BY FirstEvent DEF TypeInv, Takes, Active, RunRec
<1>2. CASE mode = "os"
  <2>1. card' = card
    BY <1>2 DEF Takes
  <2>2. run'.phase # "setup"
    BY <1>1 DEF Takes, LetGo
  <2> QED
    BY <1>1, <1>2, <2>1, <2>2 DEF StepsInv
<1>3. CASE mode = "task"
  <2>1. card' = HandleAgentEvent(card, e) /\ run'.phase # "setup"
    BY <1>1, <1>3 DEF Takes, LetGo
  <2>2. CardStep(card, card', e)
    BY <1>1, <2>1, HandledCard
  <2>3. StepsFrom(card, card', e) /\ UniqueIds(card'.steps)
    BY <1>1, <2>2, CardStepsFrom DEF StepsInv
  <2>4. ASSUME NEW k \in DOMAIN card'.steps, card'.steps[k].status = "running" PROVE card'.steps[k].id \in Reasons
    BY <1>1, <2>3, <2>4, RunsFrom DEF StepsInv
  <2>5. PICK q, t : q = run.queue /\ t = Tail(run.queue)
    OBVIOUS
  <2>6. /\ e = q[1] /\ 1 \in DOMAIN q
        /\ Len(q) \in Nat \ {0} /\ DOMAIN q = 1 .. Len(q) /\ DOMAIN t = 1 .. Len(q) - 1
        /\ \A i \in 1 .. Len(q) - 1 : t[i] = q[i + 1]
    BY <1>1, <2>5, FirstEvent
  <2>7. ASSUME ~early PROVE IF run.finished THEN ClosedInv ELSE OpenInv
    BY <1>1, <1>3, <2>7 DEF StepsInv
  <2>8. card.task = "completed" => early
    BY <2>7 DEF ClosedInv, OpenInv
  <2>9. ~run.finished => e.type \notin Terminal
    <3>1. ~run.finished => NoTerminal(run.queue)
      BY <1>1 DEF CoreInv, QueueInv
    <3> QED
      BY <2>5, <2>6, <3>1 DEF NoTerminal
  <2>10. ASSUME card'.task = "completed", ~early PROVE AllClosed(card')
    <3>1. e.type = "task_completed"
      BY <2>2, <2>8, <2>10 DEF CardStep
    <3>2. ClosedInv
      BY <2>7, <2>9, <2>10, <3>1 DEF Terminal
    <3>3. AllClosed(card)
      BY <2>5, <2>6, <3>1, <3>2 DEF ClosedInv, HasType
    <3> QED
      BY <1>1, <2>3, <3>1, <3>3, StaysClosed
  <2>11. ASSUME ~early, Active'
         PROVE  IF run'.finished THEN ClosedInv' ELSE OpenInv'
    <3>1. run'.queue = t /\ run'.idx = run.idx /\ (run'.finished <=> run.finished \/ e.type \in Terminal)
      BY <1>3, <2>5, <2>11 DEF Takes, LetGo, Active
    <3>2. outcomes' = 0
      BY <1>1, <2>11 DEF CoreInv, QueueInv, Doubled
    <3>3. e.type \notin Terminal
      BY <1>1, <3>2 DEF Takes
    <3>4. card'.task # "completed"
      BY <2>2, <2>8, <2>11, <3>3 DEF CardStep, Terminal
    <3>5. ASSUME NEW i \in DOMAIN t PROVE i + 1 \in DOMAIN q /\ t[i] = q[i + 1]
      BY <2>6
    <3>6. ASSUME run.finished PROVE ClosedInv'
      <4>1. ClosedInv
        BY <2>7, <2>11, <3>6
      <4>2. \A i \in DOMAIN t : t[i].type # "step_started"
        BY <2>5, <3>5, <4>1 DEF ClosedInv
      <4>3. HasType(t, "task_completed") => AllClosed(card)
        BY <2>5, <3>5, <4>1 DEF ClosedInv, HasType
      <4>4. e.type # "step_started"
        BY <2>5, <2>6, <4>1 DEF ClosedInv
      <4>5. AllClosed(card) => AllClosed(card')
        BY <1>1, <2>3, <4>4, StaysClosed
      <4> QED
        BY <3>1, <3>4, <4>2, <4>3, <4>5 DEF ClosedInv
    <3>7. ASSUME ~run.finished PROVE OpenInv'
      <4>1. OpenInv /\ Current' = Current
        BY <1>1, <2>7, <2>11, <3>1, <3>7 DEF Current
      \* A completion that comes later is still to come; the first one is taken now.
      <4>2. ASSUME NEW n, NEW i \in Nat, Closes(q, n, i)
            PROVE  (e.type = "step_completed" /\ e.step.id = ReasonStep(n) /\ i = 0) \/ (i > 0 /\ Closes(t, n, i - 1)) \/ (i = 0 /\ Closes(t, n, 0))
        <5>1. PICK j \in 1 .. Len(q) : j > i /\ q[j].type = "step_completed" /\ q[j].step.id = ReasonStep(n)
          BY <2>6, <4>2 DEF Closes
        <5>2. CASE j = 1
          BY <2>6, <5>1, <5>2
        <5>3. CASE j # 1
          <6>1. j - 1 \in 1 .. Len(q) - 1 /\ t[j - 1] = q[j] /\ j - 1 > i - 1 /\ j - 1 > 0
            BY <2>6, <5>1, <5>3
          <6> QED
            BY <2>6, <5>1, <6>1 DEF Closes
        <5> QED
          BY <5>2, <5>3
      <4>3. ASSUME NEW n \in Nat \ Current, Runs(card'.steps, n) PROVE Closes(t, n, 0)
        <5>1. PICK k \in DOMAIN card'.steps : card'.steps[k].status = "running" /\ card'.steps[k].id = ReasonStep(n)
          BY <4>3 DEF Runs
        <5>2. CASE e.type = "step_started" /\ e.step.id = ReasonStep(n)
          <6>1. Closes(q, n, 1)
            BY <2>5, <2>6, <4>1, <5>2 DEF OpenInv, Starts
          <6> QED
            BY <4>2, <6>1
        <5>3. CASE Runs(card.steps, n) /\ ~(e.type = "step_completed" /\ e.step.id = ReasonStep(n))
          <6>1. Closes(q, n, 0)
            BY <2>5, <4>1, <5>3 DEF OpenInv
          <6> QED
            BY <4>2, <5>3, <6>1
        <5> QED
          BY <1>1, <2>3, <5>1, <5>2, <5>3, RunsFrom DEF Runs
      <4>4. ASSUME NEW n \in Nat \ Current, NEW i \in DOMAIN t, Starts(t[i], n) PROVE Closes(t, n, i)
        <5>1. i + 1 \in DOMAIN q /\ t[i] = q[i + 1] /\ i + 1 \in Nat /\ i + 1 > 0 /\ (i + 1) - 1 = i /\ i + 1 # 0
          BY <2>6
        <5>2. Closes(q, n, i + 1)
          BY <2>5, <4>1, <4>4, <5>1 DEF OpenInv
        <5>3. i + 1 > 0 /\ Closes(t, n, (i + 1) - 1)
          BY <4>2, <5>1, <5>2
        <5> QED
          BY <5>1, <5>3
      <4> QED
        BY <3>1, <3>4, <4>1, <4>3, <4>4 DEF OpenInv
    <3> QED
      BY <3>1, <3>3, <3>6, <3>7
  <2> QED
    BY <1>1, <1>3, <2>1, <2>3, <2>4, <2>10, <2>11 DEF StepsInv
<1> QED
  BY <1>1, <1>2, <1>3

LEMMA StepsOther ==
    ASSUME TypeInv, CoreInv, StepsInv,
           Subscribe \/ SubscribeFails \/ YieldStarted \/ SubmitReturns \/ SubmitFails \/ DrainAborted
    PROVE  StepsInv'
<1>1. run \in RunRec /\ card \in CardRec /\ kernel \in KernelRec /\ RunInv /\ run.idx \in Nat
  BY DEF TypeInv, CoreInv, RunRec
<1> SUFFICES ASSUME transport = "tauri" PROVE StepsInv'
  BY DEF StepsInv, Subscribe, SubscribeFails, YieldStarted, SubmitReturns, SubmitFails, DrainAborted
<1>2. CASE Subscribe
  <2>1. /\ run.phase = "setup" /\ run'.queue = run.queue /\ run'.idx = run.idx /\ run'.phase # "setup"
        /\ run'.finished = run.finished
    BY <1>1, <1>2 DEF Subscribe, RunRec
  <2>2. UNCHANGED <<transport, mode, kernel, card, early>>
    BY <1>2 DEF Subscribe, uiVars, historyVars
  <2>3. run'.queue = <<>> /\ ~run'.finished /\ card.steps = <<>> /\ card.task # "completed"
    BY <1>1, <2>1 DEF RunInv, StepsInv
  <2>4. OpenInv'
    BY <2>2, <2>3 DEF OpenInv, Runs
  <2> QED
    BY <2>1, <2>2, <2>3, <2>4 DEF StepsInv
<1>3. CASE SubscribeFails
  BY <1>3 DEF SubscribeFails
<1>4. CASE YieldStarted
  <2>1. /\ run.phase = "subscribed" /\ run'.queue = run.queue /\ run'.idx = run.idx /\ run'.phase # "setup"
        /\ run'.finished = run.finished /\ UNCHANGED <<transport, mode, early>>
        /\ kernel.at # "respond" /\ kernel'.at # "respond"
    BY <1>1, <1>4 DEF YieldStarted, RunRec, historyVars, RunInv, KernelRec
  <2>2. card'.steps = card.steps /\ (card'.task = card.task \/ card'.task = "running")
    <3>1. CASE card' = card
      BY <3>1
    <3>2. CASE card' = HandleAgentEvent(card, Signal("task_started"))
      <4>1. CardStep(card, card', Signal("task_started")) /\ Signal("task_started").type = "task_started"
        BY <1>1, <3>2, SignalledCard
      <4> QED
        BY <4>1 DEF CardStep, StepTypes
    <3> QED
      BY <1>4, <3>1, <3>2 DEF YieldStarted
  <2>3. Active /\ Current' = Current
    BY <2>1 DEF Active, Current
  <2>4. (ClosedInv => ClosedInv') /\ (OpenInv => OpenInv')
    BY <2>1, <2>2, <2>3 DEF ClosedInv, OpenInv, AllClosed
  <2> QED
    BY <2>1, <2>2, <2>3, <2>4 DEF StepsInv, AllClosed
<1>5. CASE SubmitReturns \/ DrainAborted
  <2>1. UNCHANGED <<transport, mode, kernel, card, early>>
    BY <1>5 DEF SubmitReturns, DrainAborted, uiVars, historyVars
  <2>2. \/ LetGo(run, run')
        \/ /\ run.phase = "submitting" /\ run'.queue = run.queue /\ run'.idx = run.idx
           /\ run'.finished = run.finished /\ run'.phase # "setup"
    BY <1>1, <1>5, ReleaseLets DEF SubmitReturns, DrainAborted, RunRec
  <2>3. CASE LetGo(run, run')
    BY <2>1, <2>3 DEF LetGo, StepsInv, Active, AllClosed
  <2>4. CASE /\ run.phase = "submitting" /\ run'.queue = run.queue /\ run'.idx = run.idx
             /\ run'.finished = run.finished /\ run'.phase # "setup"
    <3>1. Active /\ Current' = Current
      BY <2>1, <2>4 DEF Active, Current
    <3>2. (ClosedInv => ClosedInv') /\ (OpenInv => OpenInv')
      BY <2>1, <2>4, <3>1 DEF ClosedInv, OpenInv, AllClosed
    <3> QED
      BY <2>1, <2>4, <3>1, <3>2 DEF StepsInv, AllClosed
  <2> QED
    BY <2>2, <2>3, <2>4
<1>6. CASE SubmitFails
  BY <1>6 DEF SubmitFails
<1> QED
  BY <1>2, <1>3, <1>4, <1>5, <1>6

LEMMA StepsUser ==
    ASSUME TypeInv, StepsInv, UserStep
    PROVE  StepsInv'
<1>1. run \in RunRec /\ card \in CardRec /\ kernel \in KernelRec
  BY DEF TypeInv
<1>2. UNCHANGED <<transport, mode, run, early>>
  BY DEF UserStep, Cancel, DecisionReturns, Remount, Decide, historyVars
<1>3. (kernel'.at = "respond") <=> (kernel.at = "respond")
  <2>1. \A a \in BOOLEAN : AfterVerdict(a) # "respond"
    BY DEF AfterVerdict
  <2> QED
    BY <1>1, <2>1 DEF UserStep, Cancel, DecisionReturns, Remount, Decide, KernelRec
<1>4. card'.steps = card.steps /\ (card'.task = card.task \/ card'.task # "completed")
  BY <1>1 DEF UserStep, Cancel, DecisionReturns, Remount, Decide, CancelCard, DecidedCard, UpdateTaskStatus, CardRec
<1>5. Current' = Current
  BY <1>2, <1>3 DEF Current
<1>6. (ClosedInv => ClosedInv') /\ (OpenInv => OpenInv')
  BY <1>2, <1>4, <1>5 DEF ClosedInv, OpenInv, AllClosed
<1> QED
  BY <1>2, <1>4, <1>6 DEF StepsInv, AllClosed, Active

LEMMA StepsStep ==
    TypeInv /\ CoreInv /\ StepsInv /\ [Next]_vars => StepsInv'
<1> SUFFICES ASSUME TypeInv, CoreInv, StepsInv, [Next]_vars PROVE StepsInv'
  OBVIOUS
<1>1. CASE KernelStep \/ FallbackFires \/ ConnectionLost
  BY <1>1, OutsideStep, StepsOutside DEF CoreInv
<1>2. CASE DrainToCard \/ DrainToChat
  BY <1>2, DrainTakes, CoreStep, StepsDrain
<1>3. CASE UNCHANGED vars
  BY <1>3 DEF vars, StepsInv, Active, OpenInv, ClosedInv, AllClosed, Current
<1> QED
  BY <1>1, <1>2, <1>3, StepsOther, StepsUser DEF Next, RunStep

(***************************************************************************)
(* The approval the kernel waits for, on its way to the prompt.              *)
(***************************************************************************)
Waits(steps, k) ==
    \E i \in DOMAIN steps : steps[i].id = ApprovalStep(k) /\ steps[i].status = "waiting_approval"
Asks(a, k) == a.type = "approval_required" /\ a.step.id = ApprovalStep(k)
WasAsked(i) == \E k \in 1 .. kernel.asks : i = ApprovalStep(k)

\* Approval steps on the card or in the queue are those the kernel asked for, and the
\* one it waits for now is on one of the two.
AskInv ==
    mode = "task" /\ transport = "tauri" =>
      /\ \A i \in DOMAIN card.steps : card.steps[i].status = "waiting_approval" => WasAsked(card.steps[i].id)
      /\ \A i \in DOMAIN card.steps :
            card.steps[i].id \in Approvals => card.steps[i].status = "waiting_approval"
      /\ Active => \A i \in DOMAIN run.queue :
            run.queue[i].type = "approval_required" => WasAsked(run.queue[i].step.id)
      /\ run.phase \in {"submitting", "draining"} /\ ~aborted /\ kernel.at = "asked" =>
            \/ Waits(card.steps, kernel.asks)
            \/ \E i \in DOMAIN run.queue : Asks(run.queue[i], kernel.asks)

LEMMA InitAsk == Init => AskInv
<1> SUFFICES ASSUME Init PROVE AskInv
  OBVIOUS
<1>1. run.phase = "setup"
  BY DEF Init, NewRun
<1>2. card.steps = <<>>
  BY InitCard DEF Fresh
<1>3. DOMAIN card.steps = {}
  BY <1>2
<1> QED
  BY <1>1, <1>3 DEF AskInv, Active

LEMMA AskOutside ==
    ASSUME TypeInv, CoreInv, AskInv, NEW q, NEW e, Outside(q, e)
    PROVE  AskInv'
<1> SUFFICES ASSUME mode = "task", transport = "tauri" PROVE AskInv'
  BY DEF Outside, Heard, AskInv
<1>1. /\ UNCHANGED <<transport, mode, card, aborted>> /\ q \in Seq(EventRec) /\ run.queue \in Seq(EventRec)
      /\ run'.queue = run.queue \o q /\ run'.phase = run.phase /\ run.finished \in BOOLEAN
      /\ kernel \in KernelRec /\ kernel.asks \in Nat /\ kernel'.asks \in Nat
      /\ RunInv /\ Moves(e)
  BY DEF Outside, Heard, Grows, uiVars, TypeInv, RunRec, KernelRec, CoreInv, Moves
<1>2. kernel'.asks = kernel.asks \/ kernel'.asks = kernel.asks + 1
  BY <1>1 DEF Moves
<1>3. \A i : WasAsked(i) => WasAsked(i)'
  BY <1>1, <1>2 DEF WasAsked
<1>4. PICK z : z = run.queue \o q
  OBVIOUS
<1>5. /\ Len(run.queue) \in Nat /\ Len(q) \in Nat
      /\ DOMAIN run.queue = 1 .. Len(run.queue) /\ DOMAIN q = 1 .. Len(q) /\ DOMAIN z = 1 .. Len(run.queue) + Len(q)
      /\ \A i \in 1 .. Len(run.queue) : z[i] = run.queue[i]
      /\ \A i \in 1 .. Len(q) : z[Len(run.queue) + i] = q[i]
  BY <1>1, <1>4, Joined
<1>6. Active => run.listening /\ TauriAsks(run, q, e)
  BY <1>1 DEF RunInv, Outside, Heard
<1>7. ASSUME Active, NEW i \in DOMAIN z, z[i].type = "approval_required" PROVE WasAsked(z[i].step.id)'
  <2>1. CASE i \in DOMAIN run.queue
    <3>1. z[i] = run.queue[i]
      BY <1>5, <2>1
    <3> QED
      BY <1>3, <1>7, <2>1, <3>1 DEF AskInv
  <2>2. ASSUME NEW k \in DOMAIN q, i = Len(run.queue) + k PROVE WasAsked(z[i].step.id)'
    <3>1. z[i] = q[k]
      BY <1>5, <2>2
    <3>2. e.name = "agent-approval-request" /\ z[i].step.id = ApprovalStep(e.key)
      BY <1>6, <1>7, <3>1 DEF TauriAsks
    <3>3. e.key = kernel'.asks /\ kernel'.asks \in 1 .. kernel'.asks
      BY <1>1, <3>2 DEF Moves
    <3> QED
      BY <3>2, <3>3 DEF WasAsked
  <2> QED
    BY <1>1, <1>4, <2>1, <2>2, Located
<1>8. ASSUME run.phase \in {"submitting", "draining"}, kernel'.at = "asked"
      PROVE  \E i \in DOMAIN z : Asks(z[i], kernel'.asks)
  <2>1. e.name = "agent-approval-request" /\ e.key = kernel'.asks
    BY <1>1, <1>8 DEF Moves
  <2>2. Active /\ kernel.at \notin Late
    BY <1>1, <1>8 DEF Active, Moves, Late
  <2>3. ~run.finished
    BY <1>1, <2>2 DEF RunInv
  <2>4. PICK k \in DOMAIN q : q[k].type = "approval_required" /\ q[k].step.id = ApprovalStep(e.key)
    BY <1>6, <2>1, <2>2, <2>3 DEF TauriAsks
  <2>5. Len(run.queue) + k \in DOMAIN z /\ z[Len(run.queue) + k] = q[k]
    BY <1>5
  <2> QED
    BY <2>1, <2>4, <2>5 DEF Asks
<1> QED
  BY <1>1, <1>3, <1>4, <1>7, <1>8 DEF AskInv, Active

LEMMA AskDrain ==
    ASSUME TypeInv, CoreInv, StepsInv, AskInv, NEW e, Takes(e)
    PROVE  AskInv'
<1> SUFFICES ASSUME mode = "task", transport = "tauri" PROVE AskInv'
  BY DEF Takes, AskInv
<1>1. /\ run \in RunRec /\ card \in CardRec /\ run.queue # <<>> /\ e = Head(run.queue)
      /\ UNCHANGED <<transport, mode, kernel, aborted>> /\ card' = HandleAgentEvent(card, e)
      /\ Active /\ run.phase = "draining" /\ ~aborted /\ e \in EventRec
  BY FirstEvent DEF TypeInv, Takes, Active
<1>2. CardStep(card, card', e)
  BY <1>1, HandledCard
<1>3. StepsFrom(card, card', e)
  BY <1>1, <1>2, CardStepsFrom DEF StepsInv
<1>4. PICK q, t : q = run.queue /\ t = Tail(run.queue)
  OBVIOUS
<1>5. /\ e = q[1] /\ 1 \in DOMAIN q
      /\ Len(q) \in Nat \ {0} /\ DOMAIN q = 1 .. Len(q) /\ DOMAIN t = 1 .. Len(q) - 1
      /\ \A i \in 1 .. Len(q) - 1 : t[i] = q[i + 1]
  BY <1>1, <1>4, FirstEvent
<1>6. /\ \A i \in DOMAIN card.steps : card.steps[i].status = "waiting_approval" => WasAsked(card.steps[i].id)
      /\ \A i \in DOMAIN card.steps : card.steps[i].id \in Approvals => card.steps[i].status = "waiting_approval"
      /\ \A i \in DOMAIN q : q[i].type = "approval_required" => WasAsked(q[i].step.id)
      /\ kernel.at = "asked" =>
            \/ Waits(card.steps, kernel.asks)
            \/ \E i \in DOMAIN q : Asks(q[i], kernel.asks)
  BY <1>1, <1>4 DEF AskInv
<1>7. /\ StepFits(e.type, e.step)
      /\ e.type \in StepTypes /\ e.step.id \in Approvals => e.step.status = "waiting_approval"
      /\ e.type \in StepTypes /\ e.step.status = "waiting_approval" => e.type = "approval_required"
  <2>1. StepFits(e.type, e.step)
    BY <1>1 DEF EventRec
  <2>2. e.step.id \in Approvals => e.step.id \notin Reasons
    BY DEF Approvals, Reasons, ApprovalStep, ReasonStep
  <2> QED
    BY <2>1, <2>2 DEF StepFits, StepTypes
<1>8. e.type = "approval_required" => WasAsked(e.step.id)
  BY <1>5, <1>6
<1>9. ASSUME NEW k \in DOMAIN card'.steps, card'.steps[k].status = "waiting_approval"
      PROVE  WasAsked(card'.steps[k].id)
  <2>1. CASE e.type \notin StepTypes
    BY <1>3, <1>6, <1>9, <2>1 DEF StepsFrom
  <2>2. CASE e.type \in StepTypes /\ card'.steps[k].id # e.step.id
    BY <1>3, <1>6, <1>9, <2>2 DEF StepsFrom, MergesInto
  <2>3. CASE e.type \in StepTypes /\ card'.steps[k].id = e.step.id
    <3>1. \/ e.step.status = "waiting_approval"
          \/ \E i \in DOMAIN card.steps : card.steps[i].id = e.step.id /\ card.steps[i].status = "waiting_approval"
      BY <1>3, <1>9, <2>3 DEF StepsFrom, MergesInto
    <3> QED
      BY <1>6, <1>7, <1>8, <2>3, <3>1
  <2> QED
    BY <2>1, <2>2, <2>3
<1>10. ASSUME NEW k \in DOMAIN card'.steps, card'.steps[k].id \in Approvals
       PROVE  card'.steps[k].status = "waiting_approval"
  <2>1. CASE e.type \notin StepTypes
    BY <1>3, <1>6, <1>10, <2>1 DEF StepsFrom
  <2>2. CASE e.type \in StepTypes /\ card'.steps[k].id # e.step.id
    BY <1>3, <1>6, <1>10, <2>2 DEF StepsFrom, MergesInto
  <2>3. CASE e.type \in StepTypes /\ card'.steps[k].id = e.step.id
    BY <1>3, <1>7, <1>10, <2>3 DEF StepsFrom, MergesInto
  <2> QED
    BY <2>1, <2>2, <2>3
<1>11. ASSUME NEW i \in DOMAIN t PROVE i + 1 \in DOMAIN q /\ t[i] = q[i + 1]
  BY <1>5
<1>12. ASSUME NEW n, Waits(card.steps, n), n \in Nat PROVE Waits(card'.steps, n)
  <2>1. PICK i \in DOMAIN card.steps : card.steps[i].id = ApprovalStep(n) /\ card.steps[i].status = "waiting_approval"
    BY <1>12 DEF Waits
  <2>2. CASE e.type \notin StepTypes
    BY <1>3, <1>12, <2>2 DEF StepsFrom
  <2>3. CASE e.type \in StepTypes /\ e.step.id # ApprovalStep(n)
    BY <1>3, <2>1, <2>3 DEF StepsFrom, MergesInto, Waits
  <2>4. CASE e.type \in StepTypes /\ e.step.id = ApprovalStep(n)
    <3>1. e.step.status = "waiting_approval"
      BY <1>7, <1>12, <2>4 DEF Approvals
    <3> QED
      BY <1>3, <2>4, <3>1 DEF StepsFrom, MergesInto, Waits
  <2> QED
    BY <2>2, <2>3, <2>4
<1>13. ASSUME NEW n, NEW i \in DOMAIN q, Asks(q[i], n)
       PROVE  Waits(card'.steps, n) \/ \E j \in DOMAIN t : Asks(t[j], n)
  <2>1. CASE i = 1
    <3>1. e.type = "approval_required" /\ e.step.id = ApprovalStep(n) /\ e.step.status = "waiting_approval"
      BY <1>5, <1>7, <1>13, <2>1 DEF Asks, StepFits
    <3> QED
      BY <1>3, <3>1 DEF StepsFrom, StepTypes, MergesInto, Waits
  <2>2. CASE i # 1
    <3>1. i - 1 \in DOMAIN t /\ t[i - 1] = q[i]
      BY <1>5, <2>2
    <3> QED
      BY <1>13, <3>1
  <2> QED
    BY <2>1, <2>2
<1>14. kernel.asks \in Nat
  BY DEF TypeInv, KernelRec
<1>15. LetGo(run, run') \/ (run'.queue = t /\ run'.phase = run.phase)
  BY <1>4 DEF Takes
<1>16. CASE LetGo(run, run')
  BY <1>1, <1>9, <1>10, <1>16 DEF AskInv, LetGo, Active, WasAsked
<1>17. CASE run'.queue = t /\ run'.phase = run.phase
  <2>1. \A i \in DOMAIN t : t[i].type = "approval_required" => WasAsked(t[i].step.id)
    BY <1>6, <1>11
  <2>2. kernel.at = "asked" => Waits(card'.steps, kernel.asks) \/ \E j \in DOMAIN t : Asks(t[j], kernel.asks)
    BY <1>6, <1>12, <1>13, <1>14
  <2> QED
    BY <1>1, <1>9, <1>10, <1>17, <2>1, <2>2 DEF AskInv, WasAsked
<1> QED
  BY <1>15, <1>16, <1>17

LEMMA AskOther ==
    ASSUME TypeInv, CoreInv, AskInv,
           Subscribe \/ SubscribeFails \/ YieldStarted \/ SubmitReturns \/ SubmitFails \/ DrainAborted
    PROVE  AskInv'
<1>1. run \in RunRec /\ card \in CardRec /\ kernel \in KernelRec /\ RunInv
  BY DEF TypeInv, CoreInv
<1> SUFFICES ASSUME mode = "task", transport = "tauri" PROVE AskInv'
  BY DEF AskInv, Subscribe, SubscribeFails, YieldStarted, SubmitReturns, SubmitFails, DrainAborted
<1>2. CASE Subscribe
  <2>1. run.phase = "setup" /\ run'.queue = run.queue /\ run'.phase = "subscribed"
    BY <1>1, <1>2 DEF Subscribe, RunRec
  <2>2. UNCHANGED <<transport, mode, kernel, card, aborted>>
    BY <1>2 DEF Subscribe, uiVars
  <2>3. run'.queue = <<>>
    BY <1>1, <2>1 DEF RunInv
  <2> QED
    BY <2>1, <2>2, <2>3 DEF AskInv, WasAsked
<1>4. CASE YieldStarted
  <2>1. /\ run.phase = "subscribed" /\ run'.queue = run.queue /\ UNCHANGED <<transport, mode, aborted>>
        /\ kernel'.asks = kernel.asks /\ kernel'.at # "asked"
    BY <1>1, <1>4 DEF YieldStarted, RunRec, RunInv, KernelRec
  <2>2. card'.steps = card.steps
    <3>1. CASE card' = card
      BY <3>1
    <3>2. CASE card' = HandleAgentEvent(card, Signal("task_started"))
      <4>1. CardStep(card, card', Signal("task_started")) /\ Signal("task_started").type = "task_started"
        BY <1>1, <3>2, SignalledCard
      <4> QED
        BY <4>1 DEF CardStep, StepTypes
    <3> QED
      BY <1>4, <3>1, <3>2 DEF YieldStarted
  <2> QED
    BY <2>1, <2>2 DEF AskInv, WasAsked, Active
<1>5. CASE SubmitReturns \/ DrainAborted
  <2>1. UNCHANGED <<transport, mode, kernel, card, aborted>>
    BY <1>5 DEF SubmitReturns, DrainAborted, uiVars
  <2>2. LetGo(run, run') \/ (run.phase = "submitting" /\ run'.queue = run.queue)
    BY <1>1, <1>5, ReleaseLets DEF SubmitReturns, DrainAborted, RunRec
  <2>3. CASE LetGo(run, run')
    BY <2>1, <2>3 DEF LetGo, AskInv, WasAsked, Active
  <2>4. CASE run.phase = "submitting" /\ run'.queue = run.queue
    BY <2>1, <2>4 DEF AskInv, WasAsked, Active
  <2> QED
    BY <2>2, <2>3, <2>4
<1> QED
  BY <1>2, <1>4, <1>5 DEF SubscribeFails, SubmitFails

LEMMA AskUser ==
    ASSUME TypeInv, AskInv, UserStep
    PROVE  AskInv'
<1>1. run \in RunRec /\ card \in CardRec /\ kernel \in KernelRec /\ aborted \in BOOLEAN
  BY DEF TypeInv
<1>2. UNCHANGED <<transport, mode, run>> /\ (aborted => aborted')
  <2>1. UNCHANGED <<transport, mode, run>>
    BY DEF UserStep, Cancel, DecisionReturns, Remount, Decide
  <2>2. CASE Cancel
    BY <2>1, <2>2 DEF Cancel
  <2>3. CASE DecisionReturns \/ Remount \/ \E a \in BOOLEAN : Decide(a)
    BY <2>1, <2>3 DEF DecisionReturns, Remount, Decide
  <2> QED
    BY <2>2, <2>3 DEF UserStep
<1>3. kernel'.asks = kernel.asks /\ (kernel'.at = "asked" => kernel.at = "asked")
  BY <1>1 DEF UserStep, Cancel, DecisionReturns, Remount, Decide, KernelRec
<1>4. card'.steps = card.steps
  BY <1>1 DEF UserStep, Cancel, DecisionReturns, Remount, Decide, CancelCard, DecidedCard, UpdateTaskStatus, CardRec
<1> QED
  BY <1>2, <1>3, <1>4 DEF AskInv, WasAsked, Active

LEMMA AskStep ==
    TypeInv /\ CoreInv /\ StepsInv /\ AskInv /\ [Next]_vars => AskInv'
<1> SUFFICES ASSUME TypeInv, CoreInv, StepsInv, AskInv, [Next]_vars PROVE AskInv'
  OBVIOUS
<1>1. CASE KernelStep \/ FallbackFires \/ ConnectionLost
  BY <1>1, OutsideStep, AskOutside DEF CoreInv
<1>2. CASE DrainToCard \/ DrainToChat
  BY <1>2, DrainTakes, AskDrain
<1>3. CASE UNCHANGED vars
  BY <1>3 DEF vars, AskInv, WasAsked, Active
<1> QED
  BY <1>1, <1>2, <1>3, AskOther, AskUser DEF Next, RunStep

\* With one approval asked for, the prompt can only be about that one.
LEMMA FirstIsOffered ==
    ASSUME TypeInv, AskInv, kernel.asks = 1
    PROVE  Offered
<1> SUFFICES ASSUME transport = "tauri", mode = "task", run.phase = "draining", ~aborted, Quiet, kernel.at = "asked"
             PROVE  PendingApproval(card).id = ApprovalStep(1)
  BY DEF Offered
<1> DEFINE waiting == {i \in DOMAIN card.steps : card.steps[i].status = "waiting_approval"}
<1>1. card.steps \in Seq(StepRec) /\ run.queue = <<>>
  BY DEF TypeInv, CardRec, Quiet
<1>2. Waits(card.steps, 1)
  BY <1>1 DEF AskInv
<1>3. waiting # {} /\ waiting \subseteq Nat
  BY <1>1, <1>2 DEF Waits
<1>4. PICK m : m = Min(waiting)
  OBVIOUS
<1>5. m \in waiting
  BY <1>3, <1>4, MinIsLeast
<1>6. WasAsked(card.steps[m].id)
  BY <1>5 DEF AskInv
<1>7. card.steps[m].id = ApprovalStep(1)
  BY <1>6 DEF WasAsked
<1> QED
  BY <1>3, <1>4, <1>7 DEF PendingApproval

(***************************************************************************)
(* The theorems.                                                             *)
(***************************************************************************)
AgentInv == TypeInv /\ CoreInv /\ AnswerInv /\ SurfaceInv /\ StepsInv /\ AskInv

(* The inductive invariant of a run: types; the run's phase against its      *)
(* listeners and the kernel's place; what the queue still holds against what *)
(* the consumer was told; the answer, the surface, the open steps and the    *)
(* approval on their way from the kernel through the queue to the card.      *)
THEOREM AgentInvariance == Spec => []AgentInv
<1>1. Init => AgentInv
  BY InitTypes, InitCore, InitAnswer, InitSurface, InitSteps, InitAsk DEF AgentInv
<1>2. AgentInv /\ [Next]_vars => AgentInv'
  BY TypeStep, CoreStep, AnswerStep, SurfaceStep, StepsStep, AskStep DEF AgentInv, CoreInv
<1> QED
  BY <1>1, <1>2, PTL DEF Spec

(* Every variable of a run keeps its type: what the listeners push and       *)
(* handleAgentEvent writes is what the queue and the card are declared to    *)
(* hold.                                                                     *)
THEOREM TypeCorrect == Spec => []TypeOK
<1>1. AgentInv => TypeOK
  BY DEF AgentInv, TypeInv, TypeOK, RunRec, CardRec, KernelRec, Phases
<1> QED
  BY <1>1, AgentInvariance, PTL

(* A run that is over has released its listeners and its event source, with  *)
(* the two exceptions SubscriptionsReleased names.                           *)
THEOREM Releases == Spec => []SubscriptionsReleased
<1>1. AgentInv => SubscriptionsReleased
  BY DEF AgentInv, TypeInv, CoreInv, RunInv, SubscriptionsReleased, Over
<1> QED
  BY <1>1, AgentInvariance, PTL

(* A run tells its consumer one outcome and gives a question of the chat one *)
(* answer, for any number of tools, rounds, approvals and lost events.       *)
THEOREM OneEnd == Spec => []ToldOnce
<1>1. AgentInv => ToldOnce
  BY DEF AgentInv, TypeInv, CoreInv, QueueInv, Replies, Doubled, ToldOnce, OneOutcome, OneReply
<1> QED
  BY <1>1, AgentInvariance, PTL

(* A card that is shown as running has a run, unless a verdict's reply came  *)
(* after the end or the run got no event source.                             *)
THEOREM NoRunnerlessCard == Spec => []RunningHasRun
<1>1. AgentInv => RunningHasRun
  BY DEF AgentInv, TypeInv, CoreInv, Running, RunningHasRun, Over
<1> QED
  BY <1>1, AgentInvariance, PTL

(* A surface that the run's A2UI messages began and did not delete is drawn  *)
(* on the completed card; the text of a run without such messages is among   *)
(* its blocks, unless the card draws an older run's surface or was generated *)
(* before.  No order of stream, response, fallback and error loses either.   *)
THEOREM AnswerArrives == Spec => []AnswerOnCard
<1>1. AgentInv => AnswerOnCard
  BY DEF AgentInv, AnswerInv, Answered, SurfaceInv, AnswerOnCard, HasSort
<1> QED
  BY <1>1, AgentInvariance, PTL

(* On Tauri a completed card has no open step but the first: the runner's    *)
(* own numbering closes what it opens, for any number of rounds and calls.   *)
THEOREM StepsAreClosed == Spec => []StepsClosed
<1>1. AgentInv => StepsClosed
  <2> SUFFICES ASSUME AgentInv, transport = "tauri", run.phase = "over", card.task = "completed", ~early
               PROVE  AllClosed(card)
    BY DEF StepsClosed, AllClosed
  <2> QED
    BY DEF AgentInv, StepsInv
<1> QED
  BY <1>1, AgentInvariance, PTL

(* The first approval the kernel waits for is the one the card's prompt      *)
(* offers, however many steps and patches came between.                      *)
THEOREM PromptIsForTheFirst == Spec => []FirstApprovalOffered
<1>1. AgentInv => FirstApprovalOffered
  BY FirstIsOffered DEF AgentInv, FirstApprovalOffered
<1> QED
  BY <1>1, AgentInvariance, PTL
=============================================================================
