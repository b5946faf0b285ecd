------------------------- MODULE ApprovalGateProofs -------------------------
(***************************************************************************)
(* Proofs about ApprovalGate for all tasks, tools, time limits and numbers  *)
(* of calls, with the intent cache on or off: what an agent runs is what    *)
(* the user approved, no answer is given twice, no verdict is reversed, and *)
(* an answer given in time finds the agent still waiting.                   *)
(***************************************************************************)
EXTENDS ApprovalGate, SequenceTheorems, TLAPS

-----------------------------------------------------------------------------
(* The inductive invariant.  A call is written <<t, n>>: the n-th           *)
(* destructive call of task t.                                              *)

Number == 0 .. MaxCalls

\* Call n of t is one t has finished, or its current one while t is at one of `places`.
Reached(t, n, places) == n < calls[t] \/ (n = calls[t] /\ at[t] \in places)

\* An agent's step holds no more calls than the task has left.
CallsLeft == \A t \in Tasks : Len(todo[t]) + calls[t] <= MaxCalls

\* An entry belongs to a call that reached the gate, and is as old as the agent's wait.
EntriesOK ==
    \A t \in Tasks, n \in Number : <<t, n>> \in DOMAIN pending =>
        /\ Reached(t, n, {"asking", "awaiting", "panicked"})
        /\ (n = calls[t] /\ at[t] = "awaiting") => waited[t] <= pending[<<t, n>>].age

\* A dialog shows a call that reached the user, under its own key, with its own tool.
ShownOK ==
    \A r \in shown :
        /\ r.key = r.call
        /\ \A t \in Tasks, n \in Number : r.call = <<t, n>> =>
             /\ Reached(t, n, {"awaiting", "executing"})
             /\ n = calls[t] => r.tool = Head(todo[t])

\* A call is shown in one dialog.
ShownOnce == \A r, s \in shown : r.call = s.call => r = s

\* What has been answered is pending no more.
RepliesOK == \A reply \in confirmed : reply.request.key \notin DOMAIN pending

\* The user said yes to the call at the head of t's list.
SaidYesToCurrent(t) ==
    \E reply \in confirmed : /\ reply.approved
                             /\ reply.request.call = ThisCall(t)
                             /\ reply.request.tool = Head(todo[t])

\* An agent has a receiver only while it asks or waits, and a yes in it is the user's.
ReceiverOK ==
    \A t \in Tasks :
        /\ at[t] \notin {"asking", "awaiting"} => answer[t] = "closed"
        /\ at[t] # "awaiting" => waited[t] = 0
        /\ at[t] = "asking" => answer[t] \in {"open", "closed"}
        /\ answer[t] = "approved" => SaidYesToCurrent(t)
        /\ at[t] = "executing" => SaidYesToCurrent(t)

\* Verdicts and runs are about calls already finished.
HistoryOK ==
    /\ \A t \in Tasks, n \in Number : <<t, n>> \in refused => n < calls[t]
    /\ \A run \in executed : run.via = "agent" =>
         \A t \in Tasks, n \in Number : run.call = <<t, n>> => n < calls[t]

GateInv == /\ EntriesOK /\ ShownOK /\ ShownOnce /\ RepliesOK /\ ReceiverOK
           /\ HistoryOK /\ FreshEntryHasWaiter

\* What is promised of finished calls follows from GateInv one step at a time.
Promises == RunsOnlyWhatWasApproved /\ AnsweredOnce /\ VerdictIsFinal

IInv == TypeOK /\ CallsLeft /\ GateInv /\ Promises

-----------------------------------------------------------------------------
(* Types. *)

\* The empty gate satisfies the invariant.
LEMMA InitIInv == Init => IInv
<1> SUFFICES ASSUME Init PROVE IInv
  OBVIOUS
<1> USE ApprovalAssumption DEF Init
<1>1. <<>> \in Seq(Destructive) /\ Len(<<>>) = 0
  OBVIOUS
<1>2. TypeOK
  BY <1>1 DEF TypeOK, Places
<1>3. CallsLeft
  <2>1. \A t \in Tasks : Len(todo[t]) = 0 /\ calls[t] = 0
    BY <1>1
  <2>2. 0 + 0 <= MaxCalls
    OBVIOUS
  <2> QED
    BY ONLY <2>1, <2>2 DEF CallsLeft
<1>4. GateInv
  BY DEF GateInv, EntriesOK, ShownOK, ShownOnce, RepliesOK, ReceiverOK, HistoryOK,
         FreshEntryHasWaiter
<1>5. Promises
  BY DEF Promises, RunsOnlyWhatWasApproved, AnsweredOnce, VerdictIsFinal
<1> QED
  BY <1>2, <1>3, <1>4, <1>5 DEF IInv

\* What the types say about one task.
LEMMA TaskTyped ==
    ASSUME IInv, NEW t \in Tasks
    PROVE  /\ calls[t] \in Number /\ waited[t] \in 0 .. Timeout
           /\ todo[t] \in Seq(Destructive) /\ Len(todo[t]) \in Nat
           /\ Len(todo[t]) + calls[t] <= MaxCalls
           /\ ThisCall(t) \in CallId
  BY LenProperties DEF IInv, TypeOK, CallsLeft, Number, ThisCall, CallId

\* A step that adds no call to a task keeps the calls within bounds.
LEMMA CallsUntouched ==
    ASSUME IInv, UNCHANGED <<todo, calls>>
    PROVE  CallsLeft'
  BY DEF IInv, CallsLeft

\* The next call, at its head of the list, when the current one is over.
LEMMA NextCallStep ==
    ASSUME IInv, NEW t \in Tasks, at[t] \in {"awaiting", "executing"},
           todo' = [todo EXCEPT ![t] = Tail(@)],
           calls' = [calls EXCEPT ![t] = @ + 1],
           Goto(t, NextCall(Tail(todo[t])))
    PROVE  /\ CallsLeft' /\ Head(todo[t]) \in Destructive
           /\ todo' \in [Tasks -> Seq(Destructive)]
           /\ calls' \in [Tasks -> 0 .. MaxCalls]
           /\ at' \in [Tasks -> Places] /\ at'[t] \in {"gate", "thinking"}
           /\ \A u \in Tasks : at'[u] \in {"gate", "asking", "awaiting", "executing"}
                                 => todo'[u] # <<>> /\ calls'[u] < MaxCalls
<1>1. todo[t] \in Seq(Destructive) /\ todo[t] # <<>> /\ calls[t] \in 0 .. MaxCalls - 1
  BY ApprovalAssumption DEF IInv, TypeOK
<1>2. /\ Tail(todo[t]) \in Seq(Destructive) /\ Len(Tail(todo[t])) = Len(todo[t]) - 1
      /\ Head(todo[t]) \in Destructive /\ Len(todo[t]) \in Nat
  BY <1>1, HeadTailProperties, LenProperties
<1>3. todo' \in [Tasks -> Seq(Destructive)] /\ calls' \in [Tasks -> 0 .. MaxCalls]
  BY <1>1, <1>2, ApprovalAssumption DEF IInv, TypeOK
<1>4. CallsLeft'
  BY <1>1, <1>2, TaskTyped DEF IInv, TypeOK, CallsLeft, Number
<1>5. at' \in [Tasks -> Places] /\ at'[t] \in {"gate", "thinking"}
  BY DEF IInv, TypeOK, Goto, NextCall, Places
<1>6. at'[t] = "gate" => Tail(todo[t]) # <<>>
  BY DEF IInv, TypeOK, Goto, NextCall
<1>7. Tail(todo[t]) # <<>> => Len(Tail(todo[t])) > 0
  BY <1>2, EmptySeq, LenProperties
<1>8. \A u \in Tasks : at'[u] \in {"gate", "asking", "awaiting", "executing"}
                         => todo'[u] # <<>> /\ calls'[u] < MaxCalls
  <2> SUFFICES ASSUME NEW u \in Tasks,
                      at'[u] \in {"gate", "asking", "awaiting", "executing"}
               PROVE  todo'[u] # <<>> /\ calls'[u] < MaxCalls
    OBVIOUS
  <2>1. CASE u = t
    BY <1>1, <1>2, <1>5, <1>6, <1>7, <2>1, TaskTyped, ApprovalAssumption
       DEF IInv, TypeOK, Number
  <2>2. CASE u # t
    BY <2>2 DEF IInv, TypeOK, Goto
  <2> QED
    BY <2>1, <2>2
<1> QED
  BY <1>2, <1>3, <1>4, <1>5, <1>8

\* The actions of a task that neither reach the gate nor come from it.
AwayFromGate(t) ==
    \/ Submit(t) \/ FindIntent(t) \/ ExtractArguments(t) \/ SafeReturns(t)
    \/ LeaveLoop(t) \/ LearnIntents(t)

LEMMA AwayTypes ==
    ASSUME IInv, NEW t \in Tasks, AwayFromGate(t)
    PROVE  TypeOK' /\ CallsLeft'
<1> USE DEF IInv, TypeOK, Goto, Places, agentVars, gateVars, history
<1>1. CASE Submit(t)
  BY <1>1, CallsUntouched DEF Submit
<1>2. CASE FindIntent(t)
  <2>1. \A row \in learned : row.tool \in Safe \cup Destructive
    BY DEF Row
  <2>2. toolSteps' \in [Tasks -> SUBSET (Safe \cup Destructive)]
    <3>1. \/ toolSteps' = toolSteps
          \/ \E row \in learned : toolSteps' = [toolSteps EXCEPT ![t] = {row.tool}]
      BY <1>2 DEF FindIntent
    <3>2. toolSteps \in [Tasks -> SUBSET (Safe \cup Destructive)]
      OBVIOUS
    <3> QED
      BY ONLY <2>1, <3>1, <3>2
  <2>3. at' \in [Tasks -> Places] /\ at'[t] \in {"extract", "thinking"}
        /\ \A u \in Tasks : u # t => at'[u] = at[u]
    BY <1>2 DEF FindIntent
  <2> QED
    BY <1>2, <2>2, <2>3, CallsUntouched DEF FindIntent
<1>3. CASE ExtractArguments(t)
  <2>1. toolSteps' \in [Tasks -> SUBSET (Safe \cup Destructive)]
    BY <1>3 DEF ExtractArguments
  <2> QED
    BY <1>3, <2>1, CallsUntouched DEF ExtractArguments
<1>4. CASE SafeReturns(t)
  BY <1>4, CallsUntouched DEF SafeReturns
<1>5. CASE LeaveLoop(t)
  BY <1>5, CallsUntouched DEF LeaveLoop
<1>6. CASE LearnIntents(t)
  <2>1. learned' \subseteq Row
    BY <1>6 DEF LearnIntents, Row
  <2> QED
    BY <1>6, <2>1, CallsUntouched DEF LearnIntents
<1> QED
  BY <1>1, <1>2, <1>3, <1>4, <1>5, <1>6 DEF AwayFromGate

LEMMA CallToolsTypes ==
    ASSUME IInv, NEW t \in Tasks, CallTools(t)
    PROVE  TypeOK' /\ CallsLeft'
<1>1. PICK safe \in SUBSET Safe, n \in 0 .. MaxCalls - calls[t] :
        \E batch \in [1 .. n -> Destructive] :
          /\ inflight' = [inflight EXCEPT ![t] = safe]
          /\ todo' = [todo EXCEPT ![t] = batch]
  BY DEF CallTools
<1>2. PICK batch \in [1 .. n -> Destructive] : todo' = [todo EXCEPT ![t] = batch]
  BY <1>1
<1>3. calls[t] \in 0 .. MaxCalls /\ n \in Nat /\ n + calls[t] <= MaxCalls
  BY ApprovalAssumption DEF IInv, TypeOK
<1>4. batch \in Seq(Destructive) /\ Len(batch) = n
  BY <1>2, <1>3
<1>5. CallsLeft'
  BY <1>2, <1>3, <1>4 DEF IInv, TypeOK, CallsLeft, CallTools
<1>6. TypeOK'
  BY <1>1, <1>2, <1>4 DEF IInv, TypeOK, CallTools, Goto, Places, gateVars, history
<1> QED
  BY <1>5, <1>6

LEMMA JoinAllTypes ==
    ASSUME IInv, NEW t \in Tasks, JoinAll(t)
    PROVE  TypeOK' /\ CallsLeft'
<1>1. todo[t] # <<>> => calls[t] < MaxCalls
  <2>1. todo[t] # <<>> => Len(todo[t]) > 0
    BY TaskTyped, EmptySeq, LenProperties
  <2> QED
    BY <2>1, TaskTyped, ApprovalAssumption DEF Number
<1>2. CallsLeft'
  BY CallsUntouched DEF JoinAll, agentVars
<1>3. TypeOK'
  BY <1>1 DEF IInv, TypeOK, JoinAll, Goto, NextCall, Places, agentVars, gateVars, history
<1> QED
  BY <1>2, <1>3

LEMMA ExecuteCachedTypes ==
    ASSUME IInv, NEW t \in Tasks, ExecuteCached(t)
    PROVE  TypeOK' /\ CallsLeft'
<1>1. executed' \subseteq [call : CallId, tool : Destructive, via : {"agent", "cache"}]
  BY TaskTyped DEF IInv, TypeOK, ExecuteCached
<1> QED
  BY <1>1, CallsUntouched
     DEF IInv, TypeOK, ExecuteCached, Goto, Places, agentVars, gateVars

LEMMA RequestTypes ==
    ASSUME IInv, NEW t \in Tasks, RequestApproval(t)
    PROVE  TypeOK' /\ CallsLeft'
<1>1. ThisCall(t) \in CallId /\ ApprovalKey(t) = ThisCall(t)
  BY TaskTyped DEF ApprovalKey, ThisCall
<1>2. DOMAIN pending' = Kept(ThisCall(t)) \cup {ThisCall(t)}
  BY <1>1 DEF RequestApproval
<1>3. DOMAIN pending' \subseteq CallId
  BY <1>1, <1>2 DEF IInv, TypeOK, Kept
<1>4. \A k \in DOMAIN pending' : pending'[k] \in Entry /\ pending'[k].call = k
  BY <1>1, <1>2, ApprovalAssumption DEF RequestApproval, IInv, TypeOK, Kept, Entry
<1>5. answer' \in [Tasks -> {"open", "approved", "rejected", "closed"}]
  BY DEF RequestApproval, IInv, TypeOK
<1> QED
  BY <1>3, <1>4, <1>5, CallsUntouched
     DEF IInv, TypeOK, RequestApproval, Goto, Places, agentVars, history

LEMMA AskUserTypes ==
    ASSUME IInv, NEW t \in Tasks, AskUser(t)
    PROVE  TypeOK' /\ CallsLeft'
<1>1. Head(todo[t]) \in Destructive
  BY HeadTailProperties DEF IInv, TypeOK, AskUser
<1>2. shown' \subseteq Request /\ shown \subseteq shown'
  BY <1>1, TaskTyped DEF AskUser, IInv, TypeOK, Request, ApprovalKey, ThisCall
<1>3. confirmed' \subseteq [request : shown', approved : BOOLEAN]
  BY <1>2 DEF AskUser, IInv, TypeOK
<1> QED
  BY <1>2, <1>3, CallsUntouched
     DEF IInv, TypeOK, AskUser, Goto, Places, agentVars, history

LEMMA ReceiverTypes ==
    ASSUME IInv, NEW t \in Tasks, PanicOnPreview(t) \/ Approved(t)
    PROVE  TypeOK' /\ CallsLeft'
<1> USE ApprovalAssumption
        DEF IInv, TypeOK, DropReceiver, Goto, Places, agentVars, gateVars, history
<1>1. CASE PanicOnPreview(t)
  BY <1>1, CallsUntouched DEF PanicOnPreview
<1>2. CASE Approved(t)
  BY <1>2, CallsUntouched DEF Approved
<1> QED
  BY <1>1, <1>2

LEMMA GiveUpTypes ==
    ASSUME IInv, NEW t \in Tasks, GiveUp(t)
    PROVE  TypeOK' /\ CallsLeft'
<1>1. /\ at[t] \in {"awaiting", "executing"}
      /\ todo' = [todo EXCEPT ![t] = Tail(@)]
      /\ calls' = [calls EXCEPT ![t] = @ + 1]
      /\ Goto(t, NextCall(Tail(todo[t])))
  BY DEF GiveUp
<1>2. refused' \subseteq CallId
  BY TaskTyped DEF GiveUp, IInv, TypeOK
<1>3. toolSteps' \in [Tasks -> SUBSET (Safe \cup Destructive)]
  BY <1>1, NextCallStep DEF GiveUp, IInv, TypeOK
<1>4. /\ answer' \in [Tasks -> {"open", "approved", "rejected", "closed"}]
      /\ waited' \in [Tasks -> 0 .. Timeout]
  BY ApprovalAssumption DEF GiveUp, DropReceiver, IInv, TypeOK
<1> QED
  BY <1>1, <1>2, <1>3, <1>4, NextCallStep DEF GiveUp, IInv, TypeOK, gateVars

LEMMA ExecuteTypes ==
    ASSUME IInv, NEW t \in Tasks, Execute(t)
    PROVE  TypeOK' /\ CallsLeft'
<1>1. /\ at[t] \in {"awaiting", "executing"}
      /\ todo' = [todo EXCEPT ![t] = Tail(@)]
      /\ calls' = [calls EXCEPT ![t] = @ + 1]
      /\ Goto(t, NextCall(Tail(todo[t])))
  BY DEF Execute
<1>2. Head(todo[t]) \in Destructive
  BY <1>1, NextCallStep
<1>3. executed' \subseteq [call : CallId, tool : Destructive, via : {"agent", "cache"}]
  BY <1>2, TaskTyped DEF Execute, IInv, TypeOK
<1>4. toolSteps' \in [Tasks -> SUBSET (Safe \cup Destructive)]
  BY <1>2 DEF Execute, IInv, TypeOK
<1> QED
  BY <1>1, <1>3, <1>4, NextCallStep DEF Execute, IInv, TypeOK, gateVars

LEMMA RespondTypes ==
    ASSUME IInv, NEW request \in shown, NEW approved \in BOOLEAN,
           Respond(request, approved)
    PROVE  TypeOK' /\ CallsLeft'
<1>1. /\ DOMAIN pending' \subseteq CallId
      /\ \A k \in DOMAIN pending' : pending'[k] \in Entry /\ pending'[k].call = k
  BY DEF Respond, PendingWithout, IInv, TypeOK
<1>2. answer' \in [Tasks -> {"open", "approved", "rejected", "closed"}]
  BY DEF Respond, IInv, TypeOK
<1>3. confirmed' \subseteq [request : shown, approved : BOOLEAN]
  BY DEF Respond, IInv, TypeOK
<1> QED
  BY <1>1, <1>2, <1>3, CallsUntouched DEF Respond, IInv, TypeOK, agentVars, history

LEMMA TickTypes ==
    ASSUME IInv, Tick
    PROVE  TypeOK' /\ CallsLeft'
<1>1. \A age \in 0 .. Timeout : Older(age) \in 0 .. Timeout
  BY ApprovalAssumption DEF Older
<1>2. /\ DOMAIN pending' \subseteq CallId
      /\ \A k \in DOMAIN pending' : pending'[k] \in Entry /\ pending'[k].call = k
  BY <1>1 DEF Tick, IInv, TypeOK, Entry
<1>3. waited' \in [Tasks -> 0 .. Timeout]
  BY <1>1 DEF Tick, IInv, TypeOK
<1> QED
  BY <1>2, <1>3, CallsUntouched DEF Tick, IInv, TypeOK, agentVars, history

-----------------------------------------------------------------------------
(* The gate.  One lemma per action that touches what GateInv speaks of.     *)

\* Where a task has business with the gate.
AtGate == {"asking", "awaiting", "executing", "panicked"}

\* A step of a task that has no business with the gate, before and after it.
LEMMA OutsideGate ==
    ASSUME IInv, NEW t \in Tasks, at[t] \notin AtGate, at'[t] \notin AtGate,
           \A u \in Tasks : u # t => at'[u] = at[u] /\ todo'[u] = todo[u],
           UNCHANGED <<calls, waited, answer, gateVars, refused>>,
           \A run \in executed' : run \in executed \/ run.via = "cache"
    PROVE  GateInv'
<1> USE DEF IInv, GateInv, gateVars, AtGate
<1>1. EntriesOK'
  BY DEF EntriesOK, Reached
<1>2. ShownOK'
  <2> SUFFICES ASSUME NEW r \in shown, NEW u \in Tasks, NEW n \in Number, r.call = <<u, n>>
               PROVE  /\ Reached(u, n, {"awaiting", "executing"})'
                      /\ n = calls[u] => r.tool = Head(todo'[u])
    BY DEF ShownOK
  <2>1. /\ Reached(u, n, {"awaiting", "executing"})
        /\ n = calls[u] => r.tool = Head(todo[u])
    BY DEF ShownOK
  <2>2. n \in Int /\ calls[u] \in Int
    BY TaskTyped DEF Number
  <2> QED
    BY <2>1, <2>2 DEF Reached
<1>3. ShownOnce' /\ RepliesOK'
  BY DEF ShownOnce, RepliesOK
<1>4. ReceiverOK'
  <2> SUFFICES ASSUME NEW u \in Tasks
               PROVE  /\ at'[u] \notin {"asking", "awaiting"} => answer[u] = "closed"
                      /\ at'[u] # "awaiting" => waited[u] = 0
                      /\ at'[u] = "asking" => answer[u] \in {"open", "closed"}
                      /\ answer[u] = "approved" => SaidYesToCurrent(u)'
                      /\ at'[u] = "executing" => SaidYesToCurrent(u)'
    BY DEF ReceiverOK
  <2>1. CASE u = t
    BY <2>1 DEF ReceiverOK
  <2>2. CASE u # t
    BY <2>2 DEF ReceiverOK, SaidYesToCurrent, ThisCall
  <2> QED
    BY <2>1, <2>2
<1>5. HistoryOK'
  BY DEF HistoryOK
<1>6. FreshEntryHasWaiter'
  BY DEF FreshEntryHasWaiter, ThisCall
<1> QED
  BY <1>1, <1>2, <1>3, <1>4, <1>5, <1>6

LEMMA AwayGate ==
    ASSUME IInv, NEW t \in Tasks,
           AwayFromGate(t) \/ CallTools(t) \/ JoinAll(t) \/ ExecuteCached(t)
    PROVE  GateInv'
<1> USE DEF IInv, TypeOK, Goto, AtGate, agentVars, history
<1>1. at[t] \notin AtGate /\ at'[t] \notin AtGate
  BY DEF AwayFromGate, Submit, FindIntent, ExtractArguments, SafeReturns, LeaveLoop,
         LearnIntents, CallTools, JoinAll, NextCall, ExecuteCached
<1>2. /\ \A u \in Tasks : u # t => at'[u] = at[u] /\ todo'[u] = todo[u]
      /\ UNCHANGED <<calls, waited, answer, gateVars, refused>>
  BY DEF AwayFromGate, Submit, FindIntent, ExtractArguments, SafeReturns, LeaveLoop,
         LearnIntents, CallTools, JoinAll, ExecuteCached
<1>3. \A run \in executed' : run \in executed \/ run.via = "cache"
  BY DEF AwayFromGate, Submit, FindIntent, ExtractArguments, SafeReturns, LeaveLoop,
         LearnIntents, CallTools, JoinAll, ExecuteCached
<1> QED
  BY <1>1, <1>2, <1>3, OutsideGate

\* A call is a task and a number, and tells both.
LEMMA CallTold ==
    ASSUME NEW k \in CallId
    PROVE  \E t \in Tasks, n \in Number : k = <<t, n>>
  BY DEF CallId, Number

\* Nobody has been shown the call a task is about to ask about, or is asking about.
LEMMA NotShownYet ==
    ASSUME IInv, NEW t \in Tasks, at[t] \notin {"awaiting", "executing"},
           NEW r \in shown
    PROVE  r.call # ThisCall(t)
<1>1. calls[t] \in Number /\ calls[t] \in Int
  BY TaskTyped DEF Number
<1>2. ~ Reached(t, calls[t], {"awaiting", "executing"})
  BY <1>1 DEF Reached
<1> QED
  BY <1>1, <1>2 DEF IInv, GateInv, ShownOK, ThisCall

LEMMA RequestGate ==
    ASSUME IInv, NEW t \in Tasks, RequestApproval(t)
    PROVE  GateInv'
<1> DEFINE key == ThisCall(t)
           kept == Kept(key)
<1>1. /\ at[t] = "gate" /\ key \in CallId /\ key = <<t, calls[t]>>
      /\ calls[t] \in Number
  BY TaskTyped DEF RequestApproval, ThisCall
<1>2. /\ DOMAIN pending' = kept \cup {key}
      /\ pending'[key] = [call |-> key, age |-> 0]
      /\ \A k \in kept : k \in DOMAIN pending /\ k # key /\ pending'[k] = pending[k]
      /\ \A u \in Tasks : answer'[u] = IF u = t THEN "open"
                                      ELSE IF Dropped(u, kept) THEN "closed"
                                      ELSE answer[u]
  BY DEF RequestApproval, ApprovalKey, ThisCall, Kept
<1>3. /\ at'[t] = "asking" /\ \A u \in Tasks : u # t => at'[u] = at[u]
      /\ UNCHANGED <<todo, calls, waited, shown, confirmed, refused, executed>>
  BY DEF RequestApproval, Goto, IInv, TypeOK, agentVars, history
<1> HIDE DEF key, kept
<1>4. EntriesOK'
  BY <1>1, <1>2, <1>3 DEF IInv, GateInv, EntriesOK, Reached
<1>5. ShownOK' /\ ShownOnce'
  BY <1>1, <1>3 DEF IInv, GateInv, ShownOK, ShownOnce, Reached
<1>6. RepliesOK'
  <2> SUFFICES ASSUME NEW reply \in confirmed PROVE reply.request.key \notin DOMAIN pending'
    BY <1>3 DEF RepliesOK
  <2>1. reply.request \in shown /\ reply.request.key = reply.request.call
    BY DEF IInv, TypeOK, GateInv, ShownOK
  <2>2. reply.request.call # key
    BY <1>1, <2>1, NotShownYet DEF key
  <2>3. reply.request.key \notin DOMAIN pending
    BY DEF IInv, GateInv, RepliesOK
  <2> QED
    BY <1>2, <2>1, <2>2, <2>3
<1>7. ReceiverOK'
  <2> SUFFICES ASSUME NEW u \in Tasks
               PROVE  /\ at'[u] \notin {"asking", "awaiting"} => answer'[u] = "closed"
                      /\ at'[u] # "awaiting" => waited'[u] = 0
                      /\ at'[u] = "asking" => answer'[u] \in {"open", "closed"}
                      /\ answer'[u] = "approved" => SaidYesToCurrent(u)'
                      /\ at'[u] = "executing" => SaidYesToCurrent(u)'
    BY DEF ReceiverOK
  <2>1. CASE u = t
    BY <1>1, <1>2, <1>3, <2>1 DEF IInv, GateInv, ReceiverOK
  <2>2. CASE u # t
    <3>1. SaidYesToCurrent(u)' = SaidYesToCurrent(u)
      BY <1>3 DEF SaidYesToCurrent, ThisCall
    <3> QED
      BY <1>2, <1>3, <2>2, <3>1 DEF IInv, GateInv, ReceiverOK
  <2> QED
    BY <2>1, <2>2
<1>8. HistoryOK'
  BY <1>3 DEF IInv, GateInv, HistoryOK
<1>9. FreshEntryHasWaiter'
  <2> SUFFICES ASSUME NEW k \in DOMAIN pending', ~ IsStale(pending'[k].age)
               PROVE  \E u \in Tasks :
                        /\ pending'[k].call = ThisCall(u)'
                        /\ \/ at'[u] = "panicked"
                           \/ at'[u] \in {"asking", "awaiting"} /\ answer'[u] = "open"
    BY DEF FreshEntryHasWaiter, IsStale
  <2>1. CASE k = key
    BY <1>2, <1>3, <2>1 DEF key, ThisCall
  <2>2. CASE k \in kept
    <3>1. k \in DOMAIN pending /\ pending'[k] = pending[k] /\ pending[k].call = k
      BY <1>2, <2>2 DEF IInv, TypeOK
    <3>2. PICK u \in Tasks :
            /\ pending[k].call = ThisCall(u)
            /\ \/ at[u] = "panicked"
               \/ at[u] \in {"asking", "awaiting"} /\ answer[u] = "open"
      BY <3>1 DEF IInv, GateInv, FreshEntryHasWaiter
    <3>3. u # t /\ ThisCall(u)' = ThisCall(u)
      BY <1>1, <1>3, <3>2 DEF ThisCall
    <3>4. ~ Dropped(u, kept)
      BY <2>2, <3>1, <3>2 DEF Dropped, IInv, TypeOK
    <3> QED
      BY <1>2, <1>3, <3>1, <3>2, <3>3, <3>4
  <2> QED
    BY <1>2, <2>1, <2>2
<1> QED
  BY <1>4, <1>5, <1>6, <1>7, <1>8, <1>9 DEF GateInv

LEMMA AskUserGate ==
    ASSUME IInv, NEW t \in Tasks, AskUser(t)
    PROVE  GateInv'
<1> DEFINE new == [key |-> ThisCall(t), call |-> ThisCall(t), tool |-> Head(todo[t])]
<1>1. /\ at[t] = "asking" /\ at'[t] = "awaiting"
      /\ \A u \in Tasks : u # t => at'[u] = at[u]
      /\ shown' = shown \cup {new}
      /\ UNCHANGED <<todo, calls, waited, answer, pending, confirmed, refused, executed>>
  BY DEF AskUser, ApprovalKey, ThisCall, Goto, IInv, TypeOK, agentVars, history
<1>2. \A r \in shown : r.call # new.call
  BY <1>1, NotShownYet
<1>3. new.key = new.call /\ new.call = <<t, calls[t]>> /\ new.tool = Head(todo[t])
  BY DEF ThisCall
<1> HIDE DEF new
<1>4. EntriesOK'
  <2> SUFFICES ASSUME NEW u \in Tasks, NEW n \in Number, <<u, n>> \in DOMAIN pending
               PROVE  /\ Reached(u, n, {"asking", "awaiting", "panicked"})'
                      /\ (n = calls[u] /\ at'[u] = "awaiting")
                            => waited[u] <= pending[<<u, n>>].age
    BY <1>1 DEF EntriesOK
  <2>1. /\ Reached(u, n, {"asking", "awaiting", "panicked"})
        /\ (n = calls[u] /\ at[u] = "awaiting") => waited[u] <= pending[<<u, n>>].age
    BY DEF IInv, GateInv, EntriesOK
  <2>2. CASE u = t
    <3>1. waited[t] = 0 /\ pending[<<u, n>>].age \in 0 .. Timeout
      BY <1>1 DEF IInv, GateInv, ReceiverOK, TypeOK, Entry
    <3> QED
      BY <1>1, <2>1, <2>2, <3>1, ApprovalAssumption DEF Reached
  <2>3. CASE u # t
    BY <1>1, <2>1, <2>3 DEF Reached
  <2> QED
    BY <2>2, <2>3
<1>5. ShownOK'
  <2> SUFFICES ASSUME NEW r \in shown'
               PROVE  /\ r.key = r.call
                      /\ \A u \in Tasks, n \in Number : r.call = <<u, n>> =>
                            /\ Reached(u, n, {"awaiting", "executing"})'
                            /\ n = calls[u] => r.tool = Head(todo[u])
    BY <1>1 DEF ShownOK
  <2>1. CASE r = new
    BY <1>1, <1>3, <2>1 DEF Reached
  <2>2. CASE r \in shown
    BY <1>1, <2>2 DEF IInv, GateInv, ShownOK, Reached
  <2> QED
    BY <1>1, <2>1, <2>2
<1>6. ShownOnce' /\ RepliesOK'
  BY <1>1, <1>2 DEF IInv, GateInv, ShownOnce, RepliesOK
<1>7. ReceiverOK'
  <2>1. \A u \in Tasks : SaidYesToCurrent(u)' = SaidYesToCurrent(u)
    BY <1>1 DEF SaidYesToCurrent, ThisCall
  <2> QED
    BY <1>1, <2>1 DEF IInv, GateInv, ReceiverOK
<1>8. HistoryOK'
  BY <1>1 DEF IInv, GateInv, HistoryOK
<1>9. FreshEntryHasWaiter'
  BY <1>1 DEF IInv, GateInv, FreshEntryHasWaiter, IsStale, ThisCall
<1> QED
  BY <1>4, <1>5, <1>6, <1>7, <1>8, <1>9 DEF GateInv

LEMMA PanicGate ==
    ASSUME IInv, NEW t \in Tasks, PanicOnPreview(t)
    PROVE  GateInv'
<1>1. /\ at[t] = "asking" /\ at'[t] = "panicked"
      /\ answer'[t] = "closed" /\ waited'[t] = 0
      /\ \A u \in Tasks : u # t => /\ at'[u] = at[u]
                                   /\ answer'[u] = answer[u] /\ waited'[u] = waited[u]
      /\ UNCHANGED <<todo, calls, pending, shown, confirmed, refused, executed>>
  BY DEF PanicOnPreview, DropReceiver, Goto, IInv, TypeOK, agentVars, gateVars, history
<1>2. EntriesOK'
  BY <1>1 DEF IInv, GateInv, EntriesOK, Reached
<1>3. ShownOK' /\ ShownOnce' /\ RepliesOK'
  BY <1>1 DEF IInv, GateInv, ShownOK, ShownOnce, RepliesOK, Reached
<1>4. ReceiverOK'
  <2>1. \A u \in Tasks : SaidYesToCurrent(u)' = SaidYesToCurrent(u)
    BY <1>1 DEF SaidYesToCurrent, ThisCall
  <2> QED
    BY <1>1, <2>1 DEF IInv, GateInv, ReceiverOK
<1>5. HistoryOK'
  BY <1>1 DEF IInv, GateInv, HistoryOK
<1>6. FreshEntryHasWaiter'
  BY <1>1 DEF IInv, GateInv, FreshEntryHasWaiter, IsStale, ThisCall
<1> QED
  BY <1>2, <1>3, <1>4, <1>5, <1>6 DEF GateInv

\* Once the user has said yes to the current call, its entry is gone.
LEMMA AnsweredNotPending ==
    ASSUME IInv, NEW t \in Tasks, SaidYesToCurrent(t)
    PROVE  ThisCall(t) \notin DOMAIN pending
<1>1. PICK reply \in confirmed : reply.request.call = ThisCall(t)
  BY DEF SaidYesToCurrent
<1>2. reply.request \in shown
  BY DEF IInv, TypeOK
<1> QED
  BY <1>1, <1>2 DEF IInv, GateInv, ShownOK, RepliesOK

LEMMA ApprovedGate ==
    ASSUME IInv, NEW t \in Tasks, Approved(t)
    PROVE  GateInv'
<1>1. /\ at[t] = "awaiting" /\ answer[t] = "approved" /\ at'[t] = "executing"
      /\ answer'[t] = "closed" /\ waited'[t] = 0
      /\ \A u \in Tasks : u # t => /\ at'[u] = at[u]
                                   /\ answer'[u] = answer[u] /\ waited'[u] = waited[u]
      /\ UNCHANGED <<todo, calls, pending, shown, confirmed, refused, executed>>
  BY DEF Approved, DropReceiver, Goto, IInv, TypeOK, agentVars, gateVars, history
<1>2. SaidYesToCurrent(t)
  BY <1>1 DEF IInv, GateInv, ReceiverOK
<1>3. <<t, calls[t]>> \notin DOMAIN pending
  BY <1>2, AnsweredNotPending DEF ThisCall
<1>4. EntriesOK'
  BY <1>1, <1>3 DEF IInv, GateInv, EntriesOK, Reached
<1>5. ShownOK' /\ ShownOnce' /\ RepliesOK'
  BY <1>1 DEF IInv, GateInv, ShownOK, ShownOnce, RepliesOK, Reached
<1>6. ReceiverOK'
  <2>1. \A u \in Tasks : SaidYesToCurrent(u)' = SaidYesToCurrent(u)
    BY <1>1 DEF SaidYesToCurrent, ThisCall
  <2> QED
    BY <1>1, <1>2, <2>1 DEF IInv, GateInv, ReceiverOK
<1>7. HistoryOK'
  BY <1>1 DEF IInv, GateInv, HistoryOK
<1>8. FreshEntryHasWaiter'
  BY <1>1 DEF IInv, GateInv, FreshEntryHasWaiter, IsStale, ThisCall
<1> QED
  BY <1>4, <1>5, <1>6, <1>7, <1>8 DEF GateInv

\* The current call of t is over: the books of its entry and its dialog are closed.
LEMMA CallOver ==
    ASSUME IInv, NEW t \in Tasks, at[t] \in {"awaiting", "executing"},
           at'[t] \in {"gate", "thinking"}, calls'[t] = calls[t] + 1, waited'[t] = 0,
           \A u \in Tasks : u # t => /\ at'[u] = at[u] /\ calls'[u] = calls[u]
                                     /\ todo'[u] = todo[u] /\ waited'[u] = waited[u],
           UNCHANGED <<pending, shown, confirmed>>
    PROVE  /\ EntriesOK' /\ ShownOK' /\ ShownOnce' /\ RepliesOK'
           /\ \A u \in Tasks : u # t => SaidYesToCurrent(u)' = SaidYesToCurrent(u)
           /\ calls[t] \in Nat
<1>1. calls[t] \in Nat /\ Number \subseteq Nat
  BY TaskTyped, ApprovalAssumption DEF Number
<1>2. EntriesOK'
  <2> SUFFICES ASSUME NEW u \in Tasks, NEW n \in Number, <<u, n>> \in DOMAIN pending
               PROVE  /\ Reached(u, n, {"asking", "awaiting", "panicked"})'
                      /\ (n = calls'[u] /\ at'[u] = "awaiting")
                            => waited'[u] <= pending[<<u, n>>].age
    BY DEF EntriesOK
  <2>1. /\ Reached(u, n, {"asking", "awaiting", "panicked"})
        /\ (n = calls[u] /\ at[u] = "awaiting") => waited[u] <= pending[<<u, n>>].age
    BY DEF IInv, GateInv, EntriesOK
  <2>2. CASE u = t
    BY <1>1, <2>1, <2>2 DEF Reached
  <2>3. CASE u # t
    BY <2>1, <2>3 DEF Reached
  <2> QED
    BY <2>2, <2>3
<1>3. ShownOK'
  <2> SUFFICES ASSUME NEW r \in shown, NEW u \in Tasks, NEW n \in Number, r.call = <<u, n>>
               PROVE  /\ Reached(u, n, {"awaiting", "executing"})'
                      /\ n = calls'[u] => r.tool = Head(todo'[u])
    BY DEF ShownOK, IInv, GateInv
  <2>1. /\ Reached(u, n, {"awaiting", "executing"})
        /\ n = calls[u] => r.tool = Head(todo[u])
    BY DEF IInv, GateInv, ShownOK
  <2>2. CASE u = t
    BY <1>1, <2>1, <2>2 DEF Reached
  <2>3. CASE u # t
    BY <2>1, <2>3 DEF Reached
  <2> QED
    BY <2>2, <2>3
<1>4. ShownOnce' /\ RepliesOK'
  BY DEF IInv, GateInv, ShownOnce, RepliesOK
<1>5. \A u \in Tasks : u # t => SaidYesToCurrent(u)' = SaidYesToCurrent(u)
  BY DEF SaidYesToCurrent, ThisCall
<1> QED
  BY <1>1, <1>2, <1>3, <1>4, <1>5

LEMMA GiveUpGate ==
    ASSUME IInv, NEW t \in Tasks, GiveUp(t)
    PROVE  GateInv'
<1>1. /\ at[t] = "awaiting" /\ at'[t] \in {"gate", "thinking"}
      /\ answer[t] \in {"rejected", "closed"} \/ TimedOut(t)
      /\ answer'[t] = "closed" /\ waited'[t] = 0 /\ calls'[t] = calls[t] + 1
      /\ \A u \in Tasks : u # t =>
           /\ at'[u] = at[u] /\ calls'[u] = calls[u] /\ todo'[u] = todo[u]
           /\ answer'[u] = answer[u] /\ waited'[u] = waited[u]
      /\ refused' = refused \cup {ThisCall(t)}
      /\ UNCHANGED <<pending, shown, confirmed, executed>>
  BY DEF GiveUp, DropReceiver, Goto, NextCall, IInv, TypeOK, gateVars
<1>2. /\ EntriesOK' /\ ShownOK' /\ ShownOnce' /\ RepliesOK'
      /\ \A u \in Tasks : u # t => SaidYesToCurrent(u)' = SaidYesToCurrent(u)
      /\ calls[t] \in Nat
  BY <1>1, CallOver
<1>3. ReceiverOK'
  BY <1>1, <1>2 DEF IInv, GateInv, ReceiverOK
<1>4. HistoryOK'
  <2> SUFFICES ASSUME NEW u \in Tasks, NEW n \in Number
               PROVE  /\ <<u, n>> \in refused' => n < calls'[u]
                      /\ \A run \in executed : (run.via = "agent" /\ run.call = <<u, n>>)
                                                 => n < calls'[u]
    BY <1>1 DEF HistoryOK
  <2>1. n \in Int /\ ThisCall(t) = <<t, calls[t]>>
    BY ApprovalAssumption DEF Number, ThisCall
  <2>2. CASE u = t
    BY <1>1, <1>2, <2>1, <2>2 DEF IInv, GateInv, HistoryOK
  <2>3. CASE u # t
    BY <1>1, <2>1, <2>3 DEF IInv, GateInv, HistoryOK
  <2> QED
    BY <2>2, <2>3
<1>5. FreshEntryHasWaiter'
  <2> SUFFICES ASSUME NEW k \in DOMAIN pending, ~ IsStale(pending[k].age)
               PROVE  \E u \in Tasks :
                        /\ pending[k].call = ThisCall(u)'
                        /\ \/ at'[u] = "panicked"
                           \/ at'[u] \in {"asking", "awaiting"} /\ answer'[u] = "open"
    BY <1>1 DEF FreshEntryHasWaiter, IsStale
  <2>1. PICK u \in Tasks :
          /\ pending[k].call = ThisCall(u)
          /\ \/ at[u] = "panicked"
             \/ at[u] \in {"asking", "awaiting"} /\ answer[u] = "open"
    BY DEF IInv, GateInv, FreshEntryHasWaiter
  <2>2. u # t
    <3> SUFFICES ASSUME u = t PROVE FALSE
      OBVIOUS
    <3>1. waited[t] >= Timeout /\ waited[t] \in Int
      BY <1>1, <2>1, TaskTyped DEF TimedOut
    <3>2. k = <<t, calls[t]>> /\ calls[t] \in Number
      BY <2>1, TaskTyped DEF IInv, TypeOK, ThisCall
    <3>3. waited[t] <= pending[k].age
      BY <1>1, <3>2 DEF IInv, GateInv, EntriesOK
    <3>4. pending[k].age \in Int
      BY DEF IInv, TypeOK, Entry
    <3> QED
      BY <3>1, <3>3, <3>4, ApprovalAssumption DEF IsStale
  <2> QED
    BY <1>1, <2>1, <2>2 DEF ThisCall
<1> QED
  BY <1>2, <1>3, <1>4, <1>5 DEF GateInv

LEMMA ExecuteGate ==
    ASSUME IInv, NEW t \in Tasks, Execute(t)
    PROVE  GateInv'
<1> DEFINE new == [call |-> ThisCall(t), tool |-> Head(todo[t]), via |-> "agent"]
<1>1. /\ at[t] = "executing" /\ at'[t] \in {"gate", "thinking"}
      /\ calls'[t] = calls[t] + 1
      /\ \A u \in Tasks : u # t =>
           at'[u] = at[u] /\ calls'[u] = calls[u] /\ todo'[u] = todo[u]
      /\ executed' = executed \cup {new}
      /\ UNCHANGED <<answer, waited, pending, shown, confirmed, refused>>
  BY DEF Execute, Goto, NextCall, IInv, TypeOK, gateVars
<1>2. waited[t] = 0 /\ answer[t] = "closed"
  BY <1>1 DEF IInv, GateInv, ReceiverOK
<1>3. /\ EntriesOK' /\ ShownOK' /\ ShownOnce' /\ RepliesOK'
      /\ \A u \in Tasks : u # t => SaidYesToCurrent(u)' = SaidYesToCurrent(u)
      /\ calls[t] \in Nat
  BY <1>1, <1>2, CallOver
<1>4. ReceiverOK'
  BY <1>1, <1>2, <1>3 DEF IInv, GateInv, ReceiverOK
<1>5. HistoryOK'
  <2> SUFFICES ASSUME NEW u \in Tasks, NEW n \in Number
               PROVE  /\ <<u, n>> \in refused => n < calls'[u]
                      /\ \A run \in executed' : (run.via = "agent" /\ run.call = <<u, n>>)
                                                  => n < calls'[u]
    BY <1>1 DEF HistoryOK
  <2>1. n \in Int /\ new.call = <<t, calls[t]>>
    BY ApprovalAssumption DEF Number, ThisCall
  <2> HIDE DEF new
  <2>2. CASE u = t
    BY <1>1, <1>3, <2>1, <2>2 DEF IInv, GateInv, HistoryOK
  <2>3. CASE u # t
    BY <1>1, <2>1, <2>3 DEF IInv, GateInv, HistoryOK
  <2> QED
    BY <2>2, <2>3
<1>6. FreshEntryHasWaiter'
  BY <1>1 DEF IInv, GateInv, FreshEntryHasWaiter, IsStale, ThisCall
<1> QED
  BY <1>3, <1>4, <1>5, <1>6 DEF GateInv

LEMMA RespondGate ==
    ASSUME IInv, NEW request \in shown, NEW approved \in BOOLEAN,
           Respond(request, approved)
    PROVE  GateInv'
<1> DEFINE new == [request |-> request, approved |-> approved]
<1>1. /\ request.key \in DOMAIN pending /\ pending[request.key].call = request.key
      /\ request.key = request.call
      /\ DOMAIN pending' = DOMAIN pending \ {request.key}
      /\ \A k \in DOMAIN pending' : pending'[k] = pending[k]
      /\ \A t \in Tasks : answer'[t] =
           IF at[t] = "awaiting" /\ request.key = ThisCall(t)
             THEN IF approved THEN "approved" ELSE "rejected"
             ELSE answer[t]
      /\ confirmed' = confirmed \cup {new}
      /\ UNCHANGED <<at, todo, calls, waited, shown, refused, executed>>
  BY DEF Respond, PendingWithout, IInv, TypeOK, GateInv, ShownOK, agentVars, history
<1>2. new.request = request /\ new.approved = approved
  OBVIOUS
<1> HIDE DEF new
<1>3. EntriesOK'
  BY <1>1 DEF IInv, GateInv, EntriesOK, Reached
<1>4. ShownOK' /\ ShownOnce'
  BY <1>1 DEF IInv, GateInv, ShownOK, ShownOnce, Reached
<1>5. RepliesOK'
  BY <1>1, <1>2 DEF IInv, GateInv, RepliesOK
<1>6. ReceiverOK'
  <2> SUFFICES ASSUME NEW t \in Tasks
               PROVE  /\ at[t] \notin {"asking", "awaiting"} => answer'[t] = "closed"
                      /\ at[t] # "awaiting" => waited[t] = 0
                      /\ at[t] = "asking" => answer'[t] \in {"open", "closed"}
                      /\ answer'[t] = "approved" => SaidYesToCurrent(t)'
                      /\ at[t] = "executing" => SaidYesToCurrent(t)'
    BY <1>1 DEF ReceiverOK
  <2>1. SaidYesToCurrent(t) => SaidYesToCurrent(t)'
    BY <1>1 DEF SaidYesToCurrent, ThisCall
  <2>2. CASE at[t] = "awaiting" /\ request.key = ThisCall(t)
    <3>1. request.call = <<t, calls[t]>> /\ calls[t] \in Number
      BY <1>1, <2>2, TaskTyped DEF ThisCall
    <3>2. request.tool = Head(todo[t])
      BY <3>1 DEF IInv, GateInv, ShownOK
    <3>3. approved => SaidYesToCurrent(t)'
      BY <1>1, <1>2, <2>2, <3>2 DEF SaidYesToCurrent, ThisCall
    <3> QED
      BY <1>1, <2>2, <3>3
  <2>3. CASE ~ (at[t] = "awaiting" /\ request.key = ThisCall(t))
    BY <1>1, <2>1, <2>3 DEF IInv, GateInv, ReceiverOK
  <2> QED
    BY <2>2, <2>3
<1>7. HistoryOK'
  BY <1>1 DEF IInv, GateInv, HistoryOK
<1>8. FreshEntryHasWaiter'
  <2> SUFFICES ASSUME NEW k \in DOMAIN pending', ~ IsStale(pending'[k].age)
               PROVE  \E u \in Tasks :
                        /\ pending'[k].call = ThisCall(u)
                        /\ \/ at[u] = "panicked"
                           \/ at[u] \in {"asking", "awaiting"} /\ answer'[u] = "open"
    BY <1>1 DEF FreshEntryHasWaiter, IsStale, ThisCall
  <2>1. k \in DOMAIN pending /\ k # request.key /\ pending'[k] = pending[k]
        /\ pending[k].call = k
    BY <1>1 DEF IInv, TypeOK
  <2>2. PICK u \in Tasks :
          /\ pending[k].call = ThisCall(u)
          /\ \/ at[u] = "panicked"
             \/ at[u] \in {"asking", "awaiting"} /\ answer[u] = "open"
    BY <2>1 DEF IInv, GateInv, FreshEntryHasWaiter
  <2> QED
    BY <1>1, <2>1, <2>2
<1> QED
  BY <1>3, <1>4, <1>5, <1>6, <1>7, <1>8 DEF GateInv

LEMMA TickGate ==
    ASSUME IInv, Tick
    PROVE  GateInv'
<1>1. \A a, b \in 0 .. Timeout : /\ Older(a) \in Int /\ a <= Older(a)
                                 /\ a <= b => Older(a) <= Older(b)
  BY ApprovalAssumption DEF Older
<1>2. /\ DOMAIN pending' = DOMAIN pending
      /\ \A k \in DOMAIN pending : /\ pending[k].age \in 0 .. Timeout
                                   /\ pending'[k].age = Older(pending[k].age)
                                   /\ pending'[k].call = pending[k].call
      /\ \A t \in Tasks : waited'[t] = IF at[t] = "awaiting" THEN Older(waited[t])
                                       ELSE waited[t]
      /\ UNCHANGED <<at, todo, calls, answer, shown, confirmed, refused, executed>>
  BY DEF Tick, IInv, TypeOK, Entry, agentVars, history
<1>3. EntriesOK'
  <2> SUFFICES ASSUME NEW t \in Tasks, NEW n \in Number, <<t, n>> \in DOMAIN pending
               PROVE  /\ Reached(t, n, {"asking", "awaiting", "panicked"})
                      /\ (n = calls[t] /\ at[t] = "awaiting")
                            => waited'[t] <= pending'[<<t, n>>].age
    BY <1>2 DEF EntriesOK, Reached
  <2> QED
    BY <1>1, <1>2, TaskTyped DEF IInv, GateInv, EntriesOK
<1>4. ShownOK' /\ ShownOnce' /\ RepliesOK'
  BY <1>2 DEF IInv, GateInv, ShownOK, ShownOnce, RepliesOK, Reached
<1>5. ReceiverOK'
  <2>1. \A t \in Tasks : SaidYesToCurrent(t)' = SaidYesToCurrent(t)
    BY <1>2 DEF SaidYesToCurrent, ThisCall
  <2> QED
    BY <1>2, <2>1 DEF IInv, GateInv, ReceiverOK
<1>6. HistoryOK'
  BY <1>2 DEF IInv, GateInv, HistoryOK
<1>7. FreshEntryHasWaiter'
  <2>1. \A k \in DOMAIN pending : IsStale(pending[k].age) => IsStale(pending'[k].age)
    BY <1>1, <1>2, ApprovalAssumption DEF IsStale
  <2> QED
    BY <1>2, <2>1 DEF IInv, GateInv, FreshEntryHasWaiter, IsStale, ThisCall
<1> QED
  BY <1>3, <1>4, <1>5, <1>6, <1>7 DEF GateInv

-----------------------------------------------------------------------------
(* The promises about finished calls. *)

\* A step that only adds runs from the cache to the books breaks no promise.
LEMMA BooksUntouched ==
    ASSUME IInv, UNCHANGED <<confirmed, refused>>,
           \A run \in executed' : run \in executed \/ run.via = "cache"
    PROVE  Promises'
  BY DEF IInv, Promises, RunsOnlyWhatWasApproved, AnsweredOnce, VerdictIsFinal, SaidYesTo

LEMMA GiveUpPromises ==
    ASSUME IInv, NEW t \in Tasks, GiveUp(t)
    PROVE  Promises'
<1>1. UNCHANGED <<confirmed, executed>> /\ refused' = refused \cup {ThisCall(t)}
  BY DEF GiveUp, gateVars
<1>2. \A run \in executed : run.via = "agent" => run.call # ThisCall(t)
  <2>1. calls[t] \in Number /\ calls[t] \in Int
    BY TaskTyped DEF Number
  <2>2. ThisCall(t) = <<t, calls[t]>>
    BY DEF ThisCall
  <2> QED
    BY <2>1, <2>2 DEF IInv, GateInv, HistoryOK
<1> QED
  BY <1>1, <1>2
     DEF IInv, Promises, RunsOnlyWhatWasApproved, AnsweredOnce, VerdictIsFinal, SaidYesTo

LEMMA ExecutePromises ==
    ASSUME IInv, NEW t \in Tasks, Execute(t)
    PROVE  Promises'
<1> DEFINE new == [call |-> ThisCall(t), tool |-> Head(todo[t]), via |-> "agent"]
<1>1. UNCHANGED <<confirmed, refused>> /\ executed' = executed \cup {new}
  BY DEF Execute, gateVars
<1>2. ThisCall(t) \notin refused
  <2>1. calls[t] \in Number /\ calls[t] \in Int
    BY TaskTyped DEF Number
  <2>2. ThisCall(t) = <<t, calls[t]>>
    BY DEF ThisCall
  <2> QED
    BY <2>1, <2>2 DEF IInv, GateInv, HistoryOK
<1>3. SaidYesTo(new)
  BY DEF Execute, IInv, GateInv, ReceiverOK, SaidYesToCurrent, SaidYesTo
<1>4. new.call = ThisCall(t)
  OBVIOUS
<1> HIDE DEF new
<1> QED
  BY <1>1, <1>2, <1>3, <1>4
     DEF IInv, Promises, RunsOnlyWhatWasApproved, AnsweredOnce, VerdictIsFinal, SaidYesTo

LEMMA RespondPromises ==
    ASSUME IInv, NEW request \in shown, NEW approved \in BOOLEAN,
           Respond(request, approved)
    PROVE  Promises'
<1> DEFINE new == [request |-> request, approved |-> approved]
<1>1. /\ UNCHANGED <<executed, refused>> /\ confirmed' = confirmed \cup {new}
      /\ request.key \in DOMAIN pending
  BY DEF Respond, history
<1>2. \A reply \in confirmed : reply.request.key # new.request.key
  BY <1>1 DEF IInv, GateInv, RepliesOK
<1> HIDE DEF new
<1> QED
  BY <1>1, <1>2
     DEF IInv, Promises, RunsOnlyWhatWasApproved, AnsweredOnce, VerdictIsFinal, SaidYesTo

-----------------------------------------------------------------------------
(* The theorems. *)

\* One step of one task.
LEMMA AdvanceIInv ==
    ASSUME IInv, NEW t \in Tasks, Advance(t)
    PROVE  IInv'
<1>1. CASE AwayFromGate(t) \/ CallTools(t) \/ JoinAll(t) \/ ExecuteCached(t)
  <2>1. TypeOK' /\ CallsLeft'
    BY <1>1, AwayTypes, CallToolsTypes, JoinAllTypes, ExecuteCachedTypes
  <2>2. /\ UNCHANGED <<confirmed, refused>>
        /\ \A run \in executed' : run \in executed \/ run.via = "cache"
    BY <1>1 DEF AwayFromGate, Submit, FindIntent, ExtractArguments, SafeReturns,
                LeaveLoop, LearnIntents, CallTools, JoinAll, ExecuteCached, gateVars,
                history
  <2> QED
    BY <1>1, <2>1, <2>2, AwayGate, BooksUntouched DEF IInv
<1>2. CASE RequestApproval(t)
  <2>1. UNCHANGED <<confirmed, refused, executed>>
    BY <1>2 DEF RequestApproval, history
  <2> QED
    BY <1>2, <2>1, RequestTypes, RequestGate, BooksUntouched DEF IInv
<1>3. CASE AskUser(t)
  <2>1. UNCHANGED <<confirmed, refused, executed>>
    BY <1>3 DEF AskUser, history
  <2> QED
    BY <1>3, <2>1, AskUserTypes, AskUserGate, BooksUntouched DEF IInv
<1>4. CASE PanicOnPreview(t) \/ Approved(t)
  <2>1. UNCHANGED <<confirmed, refused, executed>>
    BY <1>4 DEF PanicOnPreview, Approved, gateVars, history
  <2> QED
    BY <1>4, <2>1, ReceiverTypes, PanicGate, ApprovedGate, BooksUntouched DEF IInv
<1>5. CASE GiveUp(t)
  BY <1>5, GiveUpTypes, GiveUpGate, GiveUpPromises DEF IInv
<1>6. CASE Execute(t)
  BY <1>6, ExecuteTypes, ExecuteGate, ExecutePromises DEF IInv
<1> QED
  BY <1>1, <1>2, <1>3, <1>4, <1>5, <1>6 DEF Advance, AwayFromGate

LEMMA NextIInv == IInv /\ [Next]_vars => IInv'
<1> SUFFICES ASSUME IInv, [Next]_vars PROVE IInv'
  OBVIOUS
<1>1. ASSUME NEW t \in Tasks, Advance(t) PROVE IInv'
  BY <1>1, AdvanceIInv
<1>2. ASSUME NEW request \in shown, NEW approved \in BOOLEAN, Respond(request, approved)
      PROVE  IInv'
  BY <1>2, RespondTypes, RespondGate, RespondPromises DEF IInv
<1>3. CASE Tick
  <2>1. UNCHANGED <<confirmed, refused, executed>>
    BY <1>3 DEF Tick, history
  <2> QED
    BY <1>3, <2>1, TickTypes, TickGate, BooksUntouched DEF IInv
<1>4. CASE UNCHANGED vars
  <2>1. TypeOK' /\ CallsLeft'
    BY <1>4 DEF IInv, TypeOK, CallsLeft, vars
  <2>2. EntriesOK' /\ ShownOK' /\ ShownOnce' /\ RepliesOK' /\ HistoryOK'
    BY <1>4 DEF IInv, GateInv, EntriesOK, ShownOK, ShownOnce, RepliesOK, HistoryOK,
                Reached, vars
  <2>3. ReceiverOK'
    BY <1>4 DEF IInv, GateInv, ReceiverOK, SaidYesToCurrent, ThisCall, vars
  <2>4. FreshEntryHasWaiter'
    BY <1>4 DEF IInv, GateInv, FreshEntryHasWaiter, IsStale, ThisCall, vars
  <2>5. Promises'
    BY <1>4, BooksUntouched DEF vars
  <2> QED
    BY <2>1, <2>2, <2>3, <2>4, <2>5 DEF IInv, GateInv
<1> QED
  BY <1>1, <1>2, <1>3, <1>4 DEF Next

\* The inductive invariant holds in every reachable state of every instance.
THEOREM Invariance == Spec => []IInv
  BY InitIInv, NextIInv, PTL DEF Spec

\* Type correctness.
THEOREM TypeCorrect == Spec => []TypeOK
<1>1. IInv => TypeOK
  BY DEF IInv
<1> QED
  BY <1>1, Invariance, PTL

\* For any number of tasks, however their requests, the sweeps, the user's clicks and
\* the clock interleave, an agent executes a destructive tool only after a yes in the
\* dialog of that very call.
THEOREM ApprovalIsRequired == Spec => []RunsOnlyWhatWasApproved
<1>1. IInv => RunsOnlyWhatWasApproved
  BY DEF IInv, Promises
<1> QED
  BY <1>1, Invariance, PTL

\* A dialog answered again and again is accepted once.
THEOREM OneAnswerPerKey == Spec => []AnsweredOnce
<1>1. IInv => AnsweredOnce
  BY DEF IInv, Promises
<1> QED
  BY <1>1, Invariance, PTL

\* What an agent gave up as rejected or timed out it never executes.
THEOREM VerdictStands == Spec => []VerdictIsFinal
<1>1. IInv => VerdictIsFinal
  BY DEF IInv, Promises
<1> QED
  BY <1>1, Invariance, PTL

\* Whatever the timeout and whoever sweeps the map, an entry that has not expired still
\* has the agent at the other end of its channel.
THEOREM AnswerInTimeIsHeard == Spec => []FreshEntryHasWaiter
<1>1. IInv => FreshEntryHasWaiter
  BY DEF IInv, GateInv
<1> QED
  BY <1>1, Invariance, PTL
=============================================================================
