---------------------------- MODULE ApprovalGate ----------------------------
(***************************************************************************)
(* The human-in-the-loop gate: how a task's destructive tool calls reach    *)
(* the user and come back.  Three parts of the program meet here:           *)
(*                                                                          *)
(*  - submit_agent_task (src-tauri/src/lib.rs), which answers a query from  *)
(*    the intent cache or spawns an agent for it;                           *)
(*  - BaseAgent (agent.rs), which runs the safe calls of a step in          *)
(*    parallel, then its destructive calls one at a time, each behind       *)
(*    gate_destructive_tool, and at the end teaches the intent cache;       *)
(*  - ApprovalGate (approval_gate.rs), the map of pending requests that the *)
(*    respond_tool_approval command resolves.                               *)
(*                                                                          *)
(* Time is a clock that ages every pending entry and every waiting agent by *)
(* one tick; both the gate (APPROVAL_TIMEOUT) and the agent's own timer     *)
(* expire after Timeout ticks, and ages stop growing there.                 *)
(***************************************************************************)
EXTENDS Integers, Sequences

CONSTANTS
    Tasks,          \* the queries submitted, each the process_id of its task
    Intents,        \* classes of queries the intent cache cannot tell apart
    Safe,           \* tools that need no approval
    Destructive,    \* DESTRUCTIVE_TOOLS
    Timeout,        \* the 120 s of the gate and of the agent, in ticks
    MaxCalls,       \* bound: destructive calls one task makes
    CacheEnabled    \* the setting enable_intent_cache

ASSUME ApprovalAssumption ==
    /\ Timeout \in Nat \ {0}
    /\ MaxCalls \in Nat
    /\ CacheEnabled \in BOOLEAN
    /\ Safe \cap Destructive = {}

VARIABLES
    at,         \* where each task is
    intent,     \* the intent of its query
    todo,       \* the destructive calls left in the agent's step, in order
    inflight,   \* the safe calls of the step that have not returned
    calls,      \* how many destructive calls the task has finished
    waited,     \* ticks the agent has been waiting on its receiver
    answer,     \* what the agent's receiver holds
    toolSteps,  \* tool_steps: the tools the agent tried
    pending,    \* ApprovalGate.pending: key -> sender and age
    shown,      \* requests the user has been shown
    confirmed,  \* answers respond_tool_approval returned Ok(true) to
    refused,    \* calls the agent gave up as rejected or timed out
    executed,   \* destructive tools that have run
    learned     \* rows of the intent cache

vars == <<at, intent, todo, inflight, calls, waited, answer, toolSteps,
          pending, shown, confirmed, refused, executed, learned>>
agentVars == <<intent, todo, inflight, calls, toolSteps>>
gateVars == <<pending, shown, confirmed>>
history == <<refused, executed>>

CallId == Tasks \X (0 .. MaxCalls)
ThisCall(t) == <<t, calls[t]>>

\* Mutant of ApprovalKey: a key made of the process_id alone.
SharedKey(t) == <<t, 0>>

(* {process_id}:{uuid}: the uuid is a number no other request of the task   *)
(* has.                                                                     *)
ApprovalKey(t) == <<t, calls[t]>>

Row == [intent : Intents, tool : Safe \cup Destructive]
Entry == [call : CallId, age : 0 .. Timeout]
Request == [key : CallId, call : CallId, tool : Destructive]
Places == {"idle", "lookup", "extract", "cached", "thinking", "safe", "gate",
           "asking", "awaiting", "executing", "learning", "done", "panicked"}

(* One invariant for types.  The key of an entry is that of its call, so a *)
(* receiver can only be reached through its own request.                    *)
TypeOK ==
    /\ at \in [Tasks -> Places]
    /\ intent \in [Tasks -> Intents]
    /\ todo \in [Tasks -> Seq(Destructive)]
    /\ inflight \in [Tasks -> SUBSET Safe]
    /\ calls \in [Tasks -> 0 .. MaxCalls]
    /\ waited \in [Tasks -> 0 .. Timeout]
    /\ answer \in [Tasks -> {"open", "approved", "rejected", "closed"}]
    /\ toolSteps \in [Tasks -> SUBSET (Safe \cup Destructive)]
    /\ DOMAIN pending \subseteq CallId
    /\ \A k \in DOMAIN pending : pending[k] \in Entry /\ pending[k].call = k
    /\ shown \subseteq Request
    /\ confirmed \subseteq [request : shown, approved : BOOLEAN]
    /\ refused \subseteq CallId
    /\ executed \subseteq [call : CallId, tool : Destructive,
                           via : {"agent", "cache"}]
    /\ learned \subseteq Row
    /\ \A t \in Tasks : at[t] \in {"gate", "asking", "awaiting", "executing"}
                          => todo[t] # <<>> /\ calls[t] < MaxCalls

Init ==
    /\ at = [t \in Tasks |-> "idle"]
    /\ intent \in [Tasks -> Intents]
    /\ todo = [t \in Tasks |-> <<>>]
    /\ inflight = [t \in Tasks |-> {}]
    /\ calls = [t \in Tasks |-> 0]
    /\ waited = [t \in Tasks |-> 0]
    /\ answer = [t \in Tasks |-> "closed"]
    /\ toolSteps = [t \in Tasks |-> {}]
    /\ pending = [k \in {} |-> 0]
    /\ shown = {}
    /\ confirmed = {}
    /\ refused = {}
    /\ executed = {}
    /\ learned = {}

Goto(t, place) == at' = [at EXCEPT ![t] = place]

-----------------------------------------------------------------------------
(* submit_agent_task *)

(* The user submits a query; the cache is consulted if the setting is on.   *)
Submit(t) ==
    /\ at[t] = "idle"
    /\ Goto(t, IF CacheEnabled THEN "lookup" ELSE "thinking")
    /\ UNCHANGED <<agentVars, waited, answer, gateVars, history, learned>>

(* find_intent returns one of the rows nearest to the query, if any is      *)
(* similar enough; the tool it names waits in toolSteps for its arguments.  *)
FindIntent(t) ==
    /\ at[t] = "lookup"
    /\ \/ \E row \in learned :
            /\ row.intent = intent[t]
            /\ toolSteps' = [toolSteps EXCEPT ![t] = {row.tool}]
            /\ Goto(t, "extract")
       \/ /\ Goto(t, "thinking")
          /\ UNCHANGED toolSteps
    /\ UNCHANGED <<intent, todo, inflight, calls, waited, answer, gateVars,
                   history, learned>>

(* The extractor LLM produces the arguments, or refuses ("null", an error,  *)
(* something that is not JSON) and the task falls through to an agent.      *)
ExtractArguments(t) ==
    /\ at[t] = "extract"
    /\ \/ /\ Goto(t, "cached")
          /\ UNCHANGED toolSteps
       \/ /\ Goto(t, "thinking")
          /\ toolSteps' = [toolSteps EXCEPT ![t] = {}]
    /\ UNCHANGED <<intent, todo, inflight, calls, waited, answer, gateVars,
                   history, learned>>

(* The cached tool is sent to the kernel as a ToolRequest.  No approval is  *)
(* asked, and the task ends with its result.                                *)
ExecuteCached(t) ==
    /\ at[t] = "cached"
    /\ executed' = executed \cup
         {[call |-> ThisCall(t), tool |-> tool, via |-> "cache"] :
            tool \in toolSteps[t] \cap Destructive}
    /\ Goto(t, "done")
    /\ UNCHANGED <<agentVars, waited, answer, gateVars, refused, learned>>

-----------------------------------------------------------------------------
(* BaseAgent.run: one step of the ReAct loop, as far as its tools go *)

\* Mutant of NextCall: the end of the list is forgotten.
AlwaysGate(rest) == "gate"

(* Where the agent goes when `rest` is what is left of its destructive      *)
(* calls: to the gate for the next, or back to the LLM.                     *)
NextCall(rest) == IF rest = <<>> THEN "thinking" ELSE "gate"

(* The LLM answers with tool calls.  They are split in safe and destructive *)
(* ones; the safe ones are spawned together, and the destructive ones wait  *)
(* for join_all.                                                            *)
CallTools(t) ==
    /\ at[t] = "thinking"
    /\ \E safe \in SUBSET Safe :
         \E n \in 0 .. MaxCalls - calls[t] :
           \E batch \in [1 .. n -> Destructive] :
             /\ safe # {} \/ n > 0
             /\ inflight' = [inflight EXCEPT ![t] = safe]
             /\ todo' = [todo EXCEPT ![t] = batch]
    /\ Goto(t, "safe")
    /\ UNCHANGED <<intent, calls, toolSteps, waited, answer, gateVars, history,
                   learned>>

SafeReturns(t) ==
    /\ at[t] = "safe"
    /\ \E tool \in inflight[t] :
         /\ inflight' = [inflight EXCEPT ![t] = @ \ {tool}]
         /\ toolSteps' = [toolSteps EXCEPT ![t] = @ \cup {tool}]
    /\ UNCHANGED <<at, intent, todo, calls, waited, answer, gateVars, history,
                   learned>>

JoinAll(t) ==
    /\ at[t] = "safe"
    /\ inflight[t] = {}
    /\ Goto(t, NextCall(todo[t]))
    /\ UNCHANGED <<agentVars, waited, answer, gateVars, history, learned>>

(* The LLM answers with text, or fails: the loop is left.                   *)
LeaveLoop(t) ==
    /\ at[t] = "thinking"
    /\ Goto(t, "learning")
    /\ UNCHANGED <<agentVars, waited, answer, gateVars, history, learned>>

(* Every tool in tool_steps is learned for the query, whatever its result   *)
(* was: a rejected call is in tool_steps too.                               *)
LearnIntents(t) ==
    /\ at[t] = "learning"
    /\ learned' = learned \cup
         (IF CacheEnabled
            THEN {[intent |-> intent[t], tool |-> tool] : tool \in toolSteps[t]}
            ELSE {})
    /\ Goto(t, "done")
    /\ UNCHANGED <<agentVars, waited, answer, gateVars, history>>

-----------------------------------------------------------------------------
(* gate_destructive_tool and ApprovalGate.request *)

(* cleanup_stale_inner keeps the entries younger than the timeout.          *)
IsStale(age) == age >= Timeout
Kept(key) == {k \in DOMAIN pending : k # key /\ ~ IsStale(pending[k].age)}

(* Dropping a sender closes the receiver of an agent still waiting on it.   *)
Dropped(t, keys) ==
    /\ at[t] \in {"asking", "awaiting"}
    /\ answer[t] = "open"
    /\ \E k \in DOMAIN pending \ keys : pending[k].call = ThisCall(t)

(* request: drop the stale entries, insert the new one, return a receiver.  *)
RequestApproval(t) ==
    /\ at[t] = "gate"
    /\ LET key == ApprovalKey(t)
           kept == Kept(key)
       IN /\ pending' = [k \in kept \cup {key} |->
                           IF k = key THEN [call |-> ThisCall(t), age |-> 0]
                                      ELSE pending[k]]
          /\ answer' = [u \in Tasks |-> IF u = t THEN "open"
                                        ELSE IF Dropped(u, kept) THEN "closed"
                                        ELSE answer[u]]
    /\ Goto(t, "asking")
    /\ UNCHANGED <<agentVars, waited, shown, confirmed, history, learned>>

(* The request is emitted to the user and the agent starts waiting.         *)
AskUser(t) ==
    /\ at[t] = "asking"
    /\ shown' = shown \cup {[key |-> ApprovalKey(t), call |-> ThisCall(t),
                             tool |-> Head(todo[t])]}
    /\ Goto(t, "awaiting")
    /\ UNCHANGED <<agentVars, waited, answer, pending, confirmed, history, learned>>

(* The agent's receiver and its timer are dropped.                          *)
DropReceiver(t) ==
    /\ answer' = [answer EXCEPT ![t] = "closed"]
    /\ waited' = [waited EXCEPT ![t] = 0]

(* The status line shows &tool_input[..80]: when byte 80 falls inside a     *)
(* character the slice panics and the agent's task is gone, its entry left  *)
(* in the map.                                                              *)
PanicOnPreview(t) ==
    /\ at[t] = "asking"
    /\ DropReceiver(t)
    /\ Goto(t, "panicked")
    /\ UNCHANGED <<agentVars, gateVars, history, learned>>

(* The receiver holds true: the tool will run.                              *)
Approved(t) ==
    /\ at[t] = "awaiting"
    /\ answer[t] = "approved"
    /\ DropReceiver(t)
    /\ Goto(t, "executing")
    /\ UNCHANGED <<agentVars, gateVars, history, learned>>

\* Mutants of TimedOut: an agent timer shorter than the gate's; no timer of its own,
\* only the sweep of stale entries wakes the agent.
HastyTimedOut(t) == answer[t] = "open" /\ waited[t] >= Timeout - 1
SweptOnly(t) == answer[t] = "open" /\ ThisCall(t) \notin DOMAIN pending

(* The agent's own timer; a value already in the receiver is taken first.   *)
TimedOut(t) == answer[t] = "open" /\ waited[t] >= Timeout

\* Mutant of GiveUp: the rejection branch without its `continue`.
FallThroughGiveUp(t) ==
    /\ at[t] = "awaiting"
    /\ answer[t] \in {"rejected", "closed"} \/ TimedOut(t)
    /\ DropReceiver(t)
    /\ refused' = refused \cup {ThisCall(t)}
    /\ Goto(t, "executing")
    /\ UNCHANGED <<agentVars, gateVars, executed, learned>>

(* Rejected, timed out, or the sender dropped: the call is given up, and    *)
(* noted in tool_steps like one that ran.                                   *)
GiveUp(t) ==
    /\ at[t] = "awaiting"
    /\ answer[t] \in {"rejected", "closed"} \/ TimedOut(t)
    /\ DropReceiver(t)
    /\ refused' = refused \cup {ThisCall(t)}
    /\ toolSteps' = [toolSteps EXCEPT ![t] = @ \cup {Head(todo[t])}]
    /\ calls' = [calls EXCEPT ![t] = @ + 1]
    /\ todo' = [todo EXCEPT ![t] = Tail(@)]
    /\ Goto(t, NextCall(Tail(todo[t])))
    /\ UNCHANGED <<intent, inflight, gateVars, executed, learned>>

(* The approved call goes to the kernel and its result comes back.          *)
Execute(t) ==
    /\ at[t] = "executing"
    /\ executed' = executed \cup
         {[call |-> ThisCall(t), tool |-> Head(todo[t]), via |-> "agent"]}
    /\ toolSteps' = [toolSteps EXCEPT ![t] = @ \cup {Head(todo[t])}]
    /\ calls' = [calls EXCEPT ![t] = @ + 1]
    /\ todo' = [todo EXCEPT ![t] = Tail(@)]
    /\ Goto(t, NextCall(Tail(todo[t])))
    /\ UNCHANGED <<intent, inflight, waited, answer, gateVars, refused, learned>>

-----------------------------------------------------------------------------
(* The user and the clock *)

(* After an answer the entry is removed and its sender used up.             *)
PendingWithout(key) == [k \in DOMAIN pending \ {key} |-> pending[k]]

(* respond_tool_approval, from the dialog of a request whose key is still   *)
(* in the map.  The sender's result is ignored: the agent may be gone.  On  *)
(* any other key nothing changes and the command returns Ok(false).         *)
Respond(request, approved) ==
    /\ request.key \in DOMAIN pending
    /\ answer' = [t \in Tasks |->
         IF at[t] = "awaiting" /\ pending[request.key].call = ThisCall(t)
           THEN IF approved THEN "approved" ELSE "rejected"
           ELSE answer[t]]
    /\ confirmed' = confirmed \cup {[request |-> request, approved |-> approved]}
    /\ pending' = PendingWithout(request.key)
    /\ UNCHANGED <<at, agentVars, waited, shown, history, learned>>

Older(age) == IF age < Timeout THEN age + 1 ELSE age

Tick ==
    /\ pending' = [k \in DOMAIN pending |->
                     [pending[k] EXCEPT !.age = Older(@)]]
    /\ waited' = [t \in Tasks |-> IF at[t] = "awaiting" THEN Older(waited[t])
                                  ELSE waited[t]]
    /\ <<pending', waited'>> # <<pending, waited>>
    /\ UNCHANGED <<at, agentVars, answer, shown, confirmed, history, learned>>

Advance(t) ==
    \/ Submit(t) \/ FindIntent(t) \/ ExtractArguments(t) \/ ExecuteCached(t)
    \/ CallTools(t) \/ SafeReturns(t) \/ JoinAll(t) \/ LeaveLoop(t)
    \/ LearnIntents(t) \/ RequestApproval(t) \/ AskUser(t) \/ PanicOnPreview(t)
    \/ Approved(t) \/ GiveUp(t) \/ Execute(t)

Next ==
    \/ \E t \in Tasks : Advance(t)
    \/ \E request \in shown, approved \in BOOLEAN : Respond(request, approved)
    \/ Tick

Spec == Init /\ [][Next]_vars

(* The runtime polls every task that can go on, and the clock runs; nothing *)
(* obliges the user to answer.                                              *)
FairSpec == Spec /\ WF_vars(Tick) /\ \A t \in Tasks : WF_vars(Advance(t))

-----------------------------------------------------------------------------
(* Properties *)

(* The user said yes, in time, in the dialog that shows this very call.     *)
SaidYesTo(run) ==
    \E reply \in confirmed : /\ reply.approved
                             /\ reply.request.call = run.call
                             /\ reply.request.tool = run.tool

(* A destructive tool an agent ran is the very call the user was shown and  *)
(* said yes to: no answer to another call, one already timed out included,  *)
(* lets it through.                                                         *)
RunsOnlyWhatWasApproved ==
    \A run \in executed : run.via = "agent" => SaidYesTo(run)

(* A key is answered at most once: a yes after a no, or the reverse, is not *)
(* accepted, however often the user clicks.                                 *)
AnsweredOnce ==
    \A one, two \in confirmed :
      one.request.key = two.request.key => one = two

(* A call an agent gave up never runs, and it gives up no call that ran: a   *)
(* late answer, a second request or the sweep of stale entries cannot        *)
(* reverse the verdict.                                                      *)
VerdictIsFinal ==
    \A run \in executed : run.via = "agent" => run.call \notin refused

(* An entry that has not expired has its agent waiting for it, unless that   *)
(* agent panicked: an answer given in time is never lost, although the two   *)
(* timers are started at different moments and the sweep is run by others.   *)
FreshEntryHasWaiter ==
    \A k \in DOMAIN pending :
      ~ IsStale(pending[k].age) =>
        \E t \in Tasks : /\ pending[k].call = ThisCall(t)
                         /\ \/ at[t] = "panicked"
                            \/ at[t] \in {"asking", "awaiting"} /\ answer[t] = "open"

(* Every agent that waits for the user gets a verdict, whether the user      *)
(* answers or not.                                                           *)
EveryRequestDecided ==
    \A t \in Tasks : at[t] = "awaiting" ~> at[t] # "awaiting"

(* README.md:43: destructive syscalls "are hardcoded to require explicit    *)
(* user confirmation".  The cached-intent path asks for none.               *)
DestructiveNeedsConfirmation ==
    \A run \in executed : SaidYesTo(run)
=============================================================================
