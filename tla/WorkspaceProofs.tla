-------------------------- MODULE WorkspaceProofs --------------------------
(***************************************************************************)
(* The bookkeeping of runs in module Workspace: the count of running         *)
(* syntheses against the runs that hold a slot, the spinner, the query in    *)
(* flight; and its cards and links.  The first invariant relates the counter *)
(* to the cardinality of Holders, so each action is looked at through what   *)
(* it does to that set: it adds a run, takes one away, or leaves every run's *)
(* kind and liveness alone.                                                  *)
(***************************************************************************)
EXTENDS Workspace, FiniteSetTheorems, TLAPS

Slotted == {"task", "search", "stream"}
Phases == {"idle", "waiting", "sending", "running", "answered", "over"}
RunRecord == [kind : Kinds \cup {"none"}, query : Queries \cup {None},
              card : Cards \cup {None}, phase : Phases, aborted : BOOLEAN, listed : BOOLEAN]
RunsOK == runs \in [Runs -> RunRecord]

\* The query in flight is that of a live task or reply.
Flies(r) == Live(r) /\ runs[r].kind \in {"task", "reply"} /\ runs[r].query = queryInFlight

(* The inductive invariant.  Before everything was cancelled once the count   *)
(* is exact; after that it is a lower bound, which is what the spinner needs: *)
(* the count can only reach zero too early, never stay above the runs left.  *)
IInv ==
    /\ RunsOK
    /\ activeSynthCount \in Nat /\ isLoading \in BOOLEAN /\ overrun \in BOOLEAN
    /\ activeSynthCount <= Cardinality(Holders)
    /\ ~overrun => activeSynthCount = Cardinality(Holders) /\ activeSynthCount <= Limit
    /\ isLoading => \E r \in Runs : Live(r) /\ runs[r].kind # "refine"
    /\ queryInFlight # None => \E r \in Runs : Flies(r)

-----------------------------------------------------------------------------
(* Holders is finite, and so counted by a natural number.                    *)
LEMMA HoldersFinite ==
    IsFiniteSet(Holders) /\ Cardinality(Holders) \in Nat
BY WorkspaceAssumption, FS_Subset, FS_CardinalityType DEF Holders

LEMMA HoldersFiniteNext ==
    IsFiniteSet(Holders') /\ Cardinality(Holders') \in Nat
BY WorkspaceAssumption, FS_Subset, FS_CardinalityType DEF Holders

(* A run that starts is live, is the only one that changes, and counts when   *)
(* it takes a slot.                                                          *)
LEMMA Started ==
    ASSUME RunsOK, NEW r \in Runs, NEW k \in Kinds, NEW q \in Queries,
           NEW c \in Cards \cup {None}, NEW p \in {"sending", "running"},
           FreeRun(r), StartRun(r, k, q, c, p)
    PROVE  /\ RunsOK'
           /\ Live(r)' /\ runs'[r].kind = k /\ runs'[r].query = q
           /\ \A x \in Runs : Live(x) => Live(x)' /\ runs'[x] = runs[x]
           /\ k \in Slotted => Cardinality(Holders') = Cardinality(Holders) + 1
           /\ k \notin Slotted => Holders' = Holders
<1>1. /\ runs' = [runs EXCEPT ![r] = [kind |-> k, query |-> q, card |-> c, phase |-> p,
                                     aborted |-> FALSE, listed |-> k \notin {"search", "refine"}]]
      /\ runs[r] = NoRun
    BY DEF StartRun, FreeRun
<1>2. RunsOK' /\ runs'[r].kind = k /\ runs'[r].query = q /\ runs'[r].phase = p
    BY <1>1 DEF RunsOK, RunRecord, Phases
<1>3. \A x \in Runs \ {r} : runs'[x] = runs[x]
    BY <1>1 DEF RunsOK
<1>4. ~Live(r) /\ r \notin Holders
    BY <1>1 DEF Live, NoRun, Holders
<1>5. Live(r)'
    BY <1>2 DEF Live
<1>6. \A x \in Runs \ {r} : Live(x)' = Live(x)
    BY <1>3 DEF Live
<1>7. CASE k \in Slotted
    <2>1. Holders' = Holders \cup {r}
        BY <1>2, <1>3, <1>5, <1>6, <1>7 DEF Holders, Slotted
    <2> QED BY <2>1, <1>2, <1>3, <1>4, <1>5, <1>6, <1>7, HoldersFinite, FS_AddElement
<1>8. CASE k \notin Slotted
    <2>1. Holders' = Holders
        BY <1>2, <1>3, <1>4, <1>6, <1>8 DEF Holders, Slotted
    <2> QED BY <2>1, <1>2, <1>3, <1>4, <1>5, <1>6, <1>8
<1> QED BY <1>7, <1>8

(* A live run that ends frees its slot and leaves the other runs alone, even  *)
(* when its answer schedules a refinement.                                   *)
LEMMA Ended ==
    ASSUME RunsOK, NEW r \in Runs, Live(r),
           \/ runs' = Over(r)
           \/ \E x \in Runs : /\ FreeRun(x)
                              /\ runs' = [Over(r) EXCEPT ![x] =
                                    [NoRun EXCEPT !.kind = "refine", !.card = Subject(r), !.phase = "waiting"]]
    PROVE  /\ RunsOK'
           /\ \A x \in Runs \ {r} : Live(x) => Live(x)' /\ runs'[x] = runs[x]
           /\ runs[r].kind \in Slotted =>
                /\ r \in Holders /\ Holders' = Holders \ {r}
                /\ Cardinality(Holders') = Cardinality(Holders) - 1
           /\ runs[r].kind \notin Slotted => Holders' = Holders
<1>1. Subject(r) \in Cards \cup {None}
    BY DEF RunsOK, RunRecord, Subject
<1>2. /\ Over(r) \in [Runs -> RunRecord]
      /\ Over(r)[r].phase = "over"
      /\ \A x \in Runs \ {r} : Over(r)[x] = runs[x]
    BY DEF RunsOK, RunRecord, Phases, Over, NoRun
<1> DEFINE OnlyThisEnds == /\ RunsOK' /\ ~Live(r)'
                    /\ \A x \in Runs \ {r} : \/ runs'[x] = runs[x]
                                             \/ ~Live(x) /\ runs'[x].kind = "refine"
<1>3. OnlyThisEnds
    <2>1. CASE runs' = Over(r)
        BY <2>1, <1>2 DEF RunsOK, Live
    <2>2. ASSUME NEW x \in Runs, FreeRun(x),
                 runs' = [Over(r) EXCEPT ![x] =
                    [NoRun EXCEPT !.kind = "refine", !.card = Subject(r), !.phase = "waiting"]]
          PROVE  OnlyThisEnds
        <3>1. x # r /\ ~Live(x)
            BY <2>2 DEF FreeRun, Live, NoRun
        <3>2. [NoRun EXCEPT !.kind = "refine", !.card = Subject(r), !.phase = "waiting"] \in RunRecord
            BY <1>1 DEF NoRun, RunRecord, Phases, Kinds
        <3>3. RunsOK'
            BY <2>2, <3>2, <1>2 DEF RunsOK
        <3>4. runs'[r].phase = "over"
            BY <2>2, <3>1, <1>2
        <3>5. runs'[x].kind = "refine"
            BY <2>2, <3>1, <1>2 DEF NoRun
        <3>6. \A y \in Runs \ {r, x} : runs'[y] = runs[y]
            BY <2>2, <1>2
        <3> QED BY <3>1, <3>3, <3>4, <3>5, <3>6 DEF Live
    <2> QED BY <2>1, <2>2
<1>4. \A x \in Runs \ {r} : (x \in Holders') = (x \in Holders)
    BY <1>3 DEF Holders, Live
<1>5. r \notin Holders'
    BY <1>3 DEF Holders
<1>6. Holders \subseteq Runs /\ Holders' \subseteq Runs
    BY DEF Holders
<1>7. CASE runs[r].kind \in Slotted
    <2>1. r \in Holders
        BY <1>7 DEF Holders, Slotted
    <2>2. Holders' = Holders \ {r}
        BY <1>4, <1>5, <1>6
    <2> QED BY <2>1, <2>2, <1>3, <1>7, HoldersFinite, FS_RemoveElement DEF Live
<1>8. CASE runs[r].kind \notin Slotted
    <2>1. r \notin Holders
        BY <1>8 DEF Holders, Slotted
    <2>2. Holders' = Holders
        BY <2>1, <1>4, <1>5, <1>6
    <2> QED BY <2>2, <1>3, <1>8 DEF Live
<1> QED BY <1>7, <1>8

(* Marks on runs (aborted, listed, the phases of a live run) keep the holders. *)
LEMMA Marked ==
    ASSUME \A x \in Runs : Live(x)' = Live(x) /\ runs'[x].kind = runs[x].kind
                          /\ runs'[x].query = runs[x].query
    PROVE  Holders' = Holders
BY DEF Holders

-----------------------------------------------------------------------------
(* A step that leaves the bookkeeping alone, and one that only marks runs.   *)
LEMMA StutterKeeps ==
    ASSUME IInv, UNCHANGED <<synthVars, overrun>>
    PROVE  IInv'
BY DEF IInv, RunsOK, synthVars, Holders, Live, Flies

LEMMA MarkingKeeps ==
    ASSUME IInv, RunsOK', UNCHANGED <<activeSynthCount, isLoading, queryInFlight, overrun>>,
           \A x \in Runs : Live(x)' = Live(x) /\ runs'[x].kind = runs[x].kind
                          /\ runs'[x].query = runs[x].query
    PROVE  IInv'
<1>1. Holders' = Holders
    BY Marked
<1> QED BY <1>1 DEF IInv, Flies

\* Starting a run: with a slot, as a reply, as a chat message.
LEMMA StartKeeps ==
    ASSUME IInv, NEW r \in Runs, NEW k \in Kinds, NEW q \in Queries,
           NEW c \in Cards \cup {None}, NEW p \in {"sending", "running"},
           FreeRun(r), StartRun(r, k, q, c, p), k # "refine",
           isLoading' = TRUE, UNCHANGED overrun,
           IF k \in Slotted THEN TakeSlot ELSE UNCHANGED activeSynthCount,
           \/ UNCHANGED queryInFlight
           \/ k \in {"task", "reply"} /\ queryInFlight' = q
    PROVE  IInv'
<1>1. /\ RunsOK'
      /\ Live(r)' /\ runs'[r].kind = k /\ runs'[r].query = q
      /\ \A x \in Runs : Live(x) => Live(x)' /\ runs'[x] = runs[x]
      /\ k \in Slotted => Cardinality(Holders') = Cardinality(Holders) + 1
      /\ k \notin Slotted => Holders' = Holders
    BY Started DEF IInv
<1>2. Cardinality(Holders) \in Nat /\ Cardinality(Holders') \in Nat
    BY HoldersFinite, HoldersFiniteNext
<1>3. Limit \in Nat
    BY WorkspaceAssumption
<1>4. /\ activeSynthCount' \in Nat /\ activeSynthCount' <= Cardinality(Holders')
      /\ ~overrun' => activeSynthCount' = Cardinality(Holders') /\ activeSynthCount' <= Limit
    <2>1. CASE k \in Slotted
        BY <2>1, <1>1, <1>2, <1>3 DEF IInv, TakeSlot
    <2>2. CASE k \notin Slotted
        BY <2>2, <1>1 DEF IInv
    <2> QED BY <2>1, <2>2
<1>5. isLoading' => \E x \in Runs : Live(x)' /\ runs'[x].kind # "refine"
    BY <1>1
<1>6. queryInFlight' # None => \E x \in Runs : Flies(x)'
    <2>1. CASE UNCHANGED queryInFlight
        BY <2>1, <1>1 DEF IInv, Flies
    <2>2. CASE k \in {"task", "reply"} /\ queryInFlight' = q
        BY <2>2, <1>1 DEF Flies
    <2> QED BY <2>1, <2>2
<1> QED BY <1>1, <1>4, <1>5, <1>6 DEF IInv

(* The query in flight is forgotten when any task or reply ends, and the end  *)
(* of another run does not touch the run it is the query of.                 *)
LEMMA FlightEnds ==
    ASSUME IInv, NEW r \in Runs, Finally(r),
           \A x \in Runs \ {r} : Live(x) => Live(x)' /\ runs'[x] = runs[x]
    PROVE  queryInFlight' # None => \E x \in Runs : Flies(x)'
<1>1. CASE runs[r].kind \in {"task", "reply"}
    BY <1>1 DEF Finally
<1>2. CASE runs[r].kind \notin {"task", "reply"}
    <2>1. queryInFlight' = queryInFlight
        BY <1>2 DEF Finally
    <2>2. \A x \in Runs : Flies(x) => x # r
        BY <1>2 DEF Flies
    <2> QED BY <2>1, <2>2 DEF IInv, Flies
<1> QED BY <1>1, <1>2

(* The end of a run.  If its slot was the last of the count the spinner is    *)
(* off; if not, the count was at least two and so another run holds a slot.  *)
LEMMA EndKeeps ==
    ASSUME IInv, NEW r \in Runs, Live(r), runs[r].kind # "refine",
           \/ runs' = Over(r)
           \/ \E x \in Runs : /\ FreeRun(x)
                              /\ runs' = [Over(r) EXCEPT ![x] =
                                    [NoRun EXCEPT !.kind = "refine", !.card = Subject(r), !.phase = "waiting"]],
           Finally(r), UNCHANGED overrun
    PROVE  IInv'
<1>1. /\ RunsOK'
      /\ \A x \in Runs \ {r} : Live(x) => Live(x)' /\ runs'[x] = runs[x]
      /\ runs[r].kind \in Slotted =>
           /\ r \in Holders /\ Holders' = Holders \ {r}
           /\ Cardinality(Holders') = Cardinality(Holders) - 1
      /\ runs[r].kind \notin Slotted => Holders' = Holders
    BY Ended DEF IInv
<1>2. Cardinality(Holders) \in Nat /\ Cardinality(Holders') \in Nat
    BY HoldersFinite, HoldersFiniteNext
<1>3. Limit \in Nat
    BY WorkspaceAssumption
<1>4. CASE runs[r].kind \in Slotted
    <2>1. FreeSlot(isLoading)
        BY <1>4 DEF Finally, Slotted
    <2>2. /\ activeSynthCount' \in Nat /\ activeSynthCount' <= Cardinality(Holders')
          /\ ~overrun' => activeSynthCount' = Cardinality(Holders') /\ activeSynthCount' <= Limit
          /\ isLoading' \in BOOLEAN
        BY <2>1, <1>1, <1>2, <1>3, <1>4 DEF IInv, FreeSlot
    <2>3. isLoading' => \E x \in Runs : Live(x)' /\ runs'[x].kind # "refine"
        <3>1. SUFFICES ASSUME isLoading' PROVE \E x \in Runs : Live(x)' /\ runs'[x].kind # "refine"
            OBVIOUS
        <3>2. isLoading' <=> isLoading /\ activeSynthCount > 1
            BY <2>1 DEF FreeSlot
        <3>3. activeSynthCount > 1
            BY <3>1, <3>2
        <3>4. Cardinality(Holders') # 0
            BY <3>3, <1>1, <1>2, <1>4 DEF IInv
        <3>5. Holders' # {}
            BY <3>4, FS_EmptySet
        <3>6. PICK x \in Holders' : TRUE
            BY <3>5
        <3>7. x \in Runs /\ Live(x)' /\ runs'[x].kind # "refine"
            BY <3>6 DEF Holders
        <3> QED BY <3>7
    <2> QED BY <2>2, <2>3, <1>1, <1>4, FlightEnds DEF IInv
<1>5. CASE runs[r].kind \notin Slotted
    <2>1. isLoading' = FALSE /\ UNCHANGED activeSynthCount
        BY <1>5 DEF Finally, Slotted
    <2> QED BY <2>1, <1>1, <1>5, FlightEnds DEF IInv
<1> QED BY <1>4, <1>5

-----------------------------------------------------------------------------
(* The inductive invariant holds initially.                                  *)
LEMMA InitIInv == Init => IInv
<1> SUFFICES ASSUME Init PROVE IInv
    OBVIOUS
<1>1. Holders = {}
    BY DEF Init, Holders, Live, NoRun
<1>2. Cardinality(Holders) = 0
    BY <1>1, FS_EmptySet
<1>3. RunsOK
    BY DEF Init, RunsOK, RunRecord, Phases, NoRun
<1>4. /\ activeSynthCount = 0 /\ isLoading = FALSE /\ overrun = FALSE /\ queryInFlight = None
    BY DEF Init
<1>5. isLoading \in BOOLEAN /\ overrun \in BOOLEAN /\ ~isLoading
    BY <1>4
<1>6. /\ activeSynthCount \in Nat /\ activeSynthCount <= Cardinality(Holders)
      /\ activeSynthCount = Cardinality(Holders) /\ activeSynthCount <= Limit
    BY <1>2, <1>4, WorkspaceAssumption
<1> QED BY <1>3, <1>4, <1>5, <1>6 DEF IInv

\* What users do to cards leaves the runs alone, but for the two ways to cancel.
LEMMA UserStepKeeps == IInv /\ UserStep => IInv'
<1> SUFFICES ASSUME IInv, UserStep PROVE IInv'
    OBVIOUS
<1>1. ASSUME NEW c \in Cards, HandleCancelTask(c) PROVE IInv'
    <2> DEFINE rr == nodes[c].task
    <2>1. /\ \/ runs' = runs
             \/ /\ rr \in Runs /\ Live(rr)
                /\ runs' = [runs EXCEPT ![rr] = [@ EXCEPT !.aborted = TRUE, !.listed = FALSE]]
          /\ UNCHANGED <<activeSynthCount, isLoading, queryInFlight, overrun>>
        BY <1>1 DEF HandleCancelTask, historyVars
    <2> HIDE DEF rr
    <2>2. /\ RunsOK'
          /\ \A x \in Runs : /\ runs'[x].phase = runs[x].phase /\ runs'[x].kind = runs[x].kind
                             /\ runs'[x].query = runs[x].query
        <3>1. CASE runs' = runs
            BY <3>1 DEF IInv, RunsOK
        <3>2. CASE rr \in Runs /\ runs' = [runs EXCEPT ![rr] = [@ EXCEPT !.aborted = TRUE, !.listed = FALSE]]
            <4>1. [runs[rr] EXCEPT !.aborted = TRUE, !.listed = FALSE] \in RunRecord
                BY <3>2 DEF IInv, RunsOK, RunRecord
            <4>2. /\ runs'[rr] = [runs[rr] EXCEPT !.aborted = TRUE, !.listed = FALSE]
                  /\ \A x \in Runs \ {rr} : runs'[x] = runs[x]
                BY <3>2 DEF IInv, RunsOK
            <4>3. RunsOK'
                BY <3>2, <4>1 DEF IInv, RunsOK
            <4>4. runs[rr] \in RunRecord
                BY <3>2 DEF IInv, RunsOK
            <4>5. /\ runs'[rr].phase = runs[rr].phase /\ runs'[rr].kind = runs[rr].kind
                  /\ runs'[rr].query = runs[rr].query
                BY <4>2, <4>4 DEF RunRecord
            <4> QED BY <4>2, <4>3, <4>5
        <3> QED BY <2>1, <3>1, <3>2
    <2>3. \A x \in Runs : Live(x)' = Live(x)
        BY <2>2 DEF Live
    <2> QED BY <2>1, <2>2, <2>3, MarkingKeeps
<1>2. CASE CancelAllActive
    <2>1. /\ RunsOK'
          /\ \A x \in Runs : /\ runs'[x].phase = runs[x].phase /\ runs'[x].kind = runs[x].kind
                             /\ runs'[x].query = runs[x].query
        BY <1>2 DEF CancelAllActive, IInv, RunsOK, RunRecord
    <2>2. /\ activeSynthCount' = 0 /\ isLoading' = FALSE /\ queryInFlight' = queryInFlight
          /\ overrun' = (overrun \/ Holders # {})
        BY <1>2 DEF CancelAllActive
    <2>3. \A x \in Runs : Live(x)' = Live(x)
        BY <2>1 DEF Live
    <2>4. Holders' = Holders
        BY <2>1, <2>3, Marked
    <2>5. Cardinality(Holders) \in Nat
        BY HoldersFinite
    <2>6. overrun' \in BOOLEAN
        BY <2>2 DEF IInv
    <2>7. ~overrun' => activeSynthCount' = Cardinality(Holders') /\ activeSynthCount' <= Limit
        <3>1. SUFFICES ASSUME ~overrun' PROVE Cardinality(Holders) = 0 /\ 0 <= Limit
            BY <2>2, <2>4
        <3>2. Holders = {}
            BY <3>1, <2>2
        <3> QED BY <3>2, FS_EmptySet, WorkspaceAssumption
    <2>8. queryInFlight' # None => \E x \in Runs : Flies(x)'
        BY <2>1, <2>2, <2>3 DEF IInv, Flies
    <2>9. activeSynthCount' \in Nat /\ activeSynthCount' <= Cardinality(Holders')
        BY <2>2, <2>4, <2>5
    <2> QED BY <2>1, <2>2, <2>6, <2>7, <2>8, <2>9 DEF IInv
<1>3. ASSUME UNCHANGED <<synthVars, overrun>> PROVE IInv'
    BY <1>3, StutterKeeps
<1>4. \/ \E c \in Cards : HandleCancelTask(c)
      \/ CancelAllActive
      \/ UNCHANGED <<synthVars, overrun>>
    BY DEF UserStep, ActivateNode, CloseNode, CloseNodes, CloseAllSpaceNodes, CleanupStuckNodes,
           DeleteCard, DeleteCards, ClearAllCards,
           MinimizeNode, MinimizeAll, MinimizeNodes, AddNode, SwitchSpace, ToggleClearOnSwitch,
           StartLinkMode, CancelLinkMode, CompleteLinkMode, RemoveEdge, historyVars
<1> QED BY <1>1, <1>2, <1>3, <1>4

(* Every query handler starts its run under StartKeeps.                      *)
LEMMA QueryStepKeeps == IInv /\ QueryStep => IInv'
<1> SUFFICES ASSUME IInv, NEW r \in Runs, NEW q \in Queries,
                    \/ Chat(r, q)
                    \/ \E c \in Cards : \/ NewTask(r, q, c) \/ Reply(r, q, c)
                                        \/ Search(r, "search", q, c) \/ Search(r, "stream", q, c)
             PROVE  IInv'
    BY DEF QueryStep
<1>1. CASE Chat(r, q)
    BY <1>1, StartKeeps DEF Chat, historyVars, Kinds, Slotted
<1>2. ASSUME NEW c \in Cards, NewTask(r, q, c) PROVE IInv'
    BY <1>2, StartKeeps DEF NewTask, Kinds, Slotted
<1>3. ASSUME NEW c \in Cards, Reply(r, q, c) PROVE IInv'
    BY <1>3, StartKeeps DEF Reply, historyVars, Kinds, Slotted
<1>4. ASSUME NEW c \in Cards, NEW k \in {"search", "stream"}, Search(r, k, q, c) PROVE IInv'
    <2>1. k \in Kinds /\ k \in Slotted /\ k # "refine"
        BY <1>4 DEF Kinds, Slotted
    <2> QED BY <1>4, <2>1, StartKeeps DEF Search
<1> QED BY <1>1, <1>2, <1>3, <1>4

(* The events of runs: all but four of them end one.                         *)
LEMMA RunStepKeeps == IInv /\ RunStep => IInv'
<1> SUFFICES ASSUME IInv, NEW r \in Runs,
                    \/ TaskSucceeds(r) \/ TaskFails(r) \/ TaskThrows(r) \/ AbortSeen(r) \/ ChatEnds(r)
                    \/ StreamSubmitted(r) \/ StreamAnsweredEarly(r) \/ SearchSucceeds(r) \/ SearchFails(r)
                    \/ RefineStarts(r) \/ RefineEnds(r)
             PROVE  IInv'
    BY DEF RunStep
<1>1. CASE \/ TaskSucceeds(r) \/ TaskFails(r) \/ TaskThrows(r) \/ AbortSeen(r) \/ ChatEnds(r)
           \/ SearchSucceeds(r) \/ SearchFails(r)
    <2>1. Finally(r) /\ UNCHANGED overrun
        BY <1>1 DEF TaskSucceeds, TaskFails, TaskThrows, AbortSeen, ChatEnds, SearchSucceeds, SearchFails
    <2>2. Live(r) /\ runs[r].kind # "refine"
        BY <1>1 DEF TaskSucceeds, TaskFails, TaskThrows, AbortSeen, ChatEnds, SearchSucceeds, SearchFails,
                    Running, Live
    <2>3. \/ runs' = Over(r)
          \/ \E x \in Runs : /\ FreeRun(x)
                             /\ runs' = [Over(r) EXCEPT ![x] =
                                   [NoRun EXCEPT !.kind = "refine", !.card = Subject(r), !.phase = "waiting"]]
        BY <1>1 DEF TaskSucceeds, TaskFails, TaskThrows, AbortSeen, ChatEnds, SearchSucceeds, SearchFails
    <2> QED BY <2>1, <2>2, <2>3, EndKeeps
<1>2. CASE StreamSubmitted(r) \/ StreamAnsweredEarly(r) \/ RefineStarts(r)
    <2>1. /\ UNCHANGED <<activeSynthCount, isLoading, queryInFlight, overrun>>
          /\ runs[r].phase \in {"waiting", "sending"}
          /\ \E p \in {"running", "answered"} : runs' = [runs EXCEPT ![r].phase = p]
        BY <1>2 DEF StreamSubmitted, StreamAnsweredEarly, RefineStarts, historyVars
    <2>2. PICK p \in {"running", "answered"} : runs' = [runs EXCEPT ![r].phase = p]
        BY <2>1
    <2>3. RunsOK'
        BY <2>2 DEF IInv, RunsOK, RunRecord, Phases
    <2>4. /\ \A x \in Runs : runs'[x].kind = runs[x].kind /\ runs'[x].query = runs[x].query
          /\ \A x \in Runs \ {r} : runs'[x].phase = runs[x].phase
          /\ runs'[r].phase = p
        BY <2>2 DEF IInv, RunsOK, RunRecord
    <2>5. \A x \in Runs : Live(x)' = Live(x)
        BY <2>1, <2>4 DEF Live
    <2> QED BY <2>1, <2>3, <2>4, <2>5, MarkingKeeps
<1>3. CASE RefineEnds(r)
    <2>1. /\ runs' = Over(r) /\ runs[r].kind = "refine" /\ Live(r)
          /\ UNCHANGED <<activeSynthCount, isLoading, queryInFlight, overrun>>
        BY <1>3 DEF RefineEnds, Running, Live
    <2>2. /\ RunsOK' /\ Holders' = Holders
          /\ \A x \in Runs \ {r} : Live(x) => Live(x)' /\ runs'[x] = runs[x]
        BY <2>1, Ended DEF IInv, Slotted
    <2>3. isLoading' => \E x \in Runs : Live(x)' /\ runs'[x].kind # "refine"
        BY <2>1, <2>2 DEF IInv
    <2>4. queryInFlight' # None => \E x \in Runs : Flies(x)'
        BY <2>1, <2>2 DEF IInv, Flies
    <2> QED BY <2>1, <2>2, <2>3, <2>4 DEF IInv
<1> QED BY <1>1, <1>2, <1>3

(* Every behaviour keeps the inductive invariant.                            *)
LEMMA Inductive == Spec => []IInv
<1>1. IInv /\ [Next]_vars => IInv'
    <2>1. IInv /\ UNCHANGED vars => IInv'
        BY StutterKeeps DEF vars, historyVars
    <2> QED BY <2>1, UserStepKeeps, QueryStepKeeps, RunStepKeeps DEF Next
<1> QED BY <1>1, InitIInv, PTL DEF Spec

-----------------------------------------------------------------------------
(* The count of running syntheses never exceeds the runs that hold a slot, for *)
(* any limit and however many runs: no end of a run loses its slot.          *)
THEOREM SlotsAreNotLeaked == Spec => []SlotsNotLeaked
<1>1. IInv => SlotsNotLeaked
    BY DEF IInv, SlotsNotLeaked
<1> QED BY <1>1, Inductive, PTL

(* concurrentSynthesis is respected until everything is cancelled while a run *)
(* still holds its slot.                                                     *)
THEOREM LimitIsRespected == Spec => []LimitRespected
<1>1. IInv => LimitRespected
    BY DEF IInv, LimitRespected
<1> QED BY <1>1, Inductive, PTL

(* Both sides of the count, as the run checks them.                          *)
THEOREM SlotsAreCounted == Spec => []SlotsCounted
<1>1. SlotsNotLeaked /\ LimitRespected => SlotsCounted
    BY DEF SlotsCounted
<1> QED BY <1>1, SlotsAreNotLeaked, LimitIsRespected, PTL

(* Only a live run shows the spinner or makes a query a duplicate.           *)
THEOREM OnlyRunsBlock == Spec => []BlockedByRun
<1>1. IInv => BlockedByRun
    BY DEF IInv, BlockedByRun, Flies
<1> QED BY <1>1, Inductive, PTL

-----------------------------------------------------------------------------
(* The cards and links, for any number of cards, spaces and runs: every       *)
(* variable keeps its type, a card is in one place, and what a user put on a  *)
(* board survives every switch of spaces and every end of a run.  That a      *)
(* run's card is a card rests on the types of the runs, established above.    *)

(* The ids in use are in at most one place each, with a node of their type.  *)
CacheOK ==
    \A s \in Spaces : \A c \in DOMAIN spaceCache[s].nodes :
        /\ spaceCache[s].nodes[c] \in Node /\ spaceCache[s].nodes[c].space = s
        /\ c \notin board
        /\ \A t \in Spaces \ {s} : c \notin DOMAIN spaceCache[t].nodes

Places ==
    /\ Known \subseteq made /\ made \subseteq Cards /\ gone \subseteq Cards
    /\ \A c \in board : nodes[c] \in Node
    /\ DOMAIN spaceCache = Spaces
    /\ CacheOK

(* A link is where both its cards are: on the board, where they are of one    *)
(* space and so leave together, or with them in one cache.                   *)
OnBoard(e) == e \in edges /\ e \subseteq board /\ \A c, d \in e : nodes[c].space = nodes[d].space
InCache(e, s) == e \in spaceCache[s].edges /\ e \subseteq DOMAIN spaceCache[s].nodes
Linked(e) == e # {} /\ (OnBoard(e) \/ \E s \in Spaces : InCache(e, s))

BoardInv == Places /\ CardsKept /\ \A e \in links : Linked(e)

\* The variables beside the cards; a run that works on a card has one.
RunCards == \A r \in Runs : Live(r) /\ runs[r].kind # "chat" => runs[r].card \in Cards
Marks ==
    /\ missed \cup cardGeneratedFor \subseteq Cards
    /\ linkMode \in Cards \cup {None} /\ activeSpaceId \in Spaces
    /\ queryInFlight \in Queries \cup {None} /\ clearOnSwitch \in BOOLEAN
    /\ RunCards

-----------------------------------------------------------------------------
(* What the operations make of the cards.                                    *)

LEMMA CachedIn ==
    ASSUME NEW s \in Spaces, NEW c \in DOMAIN spaceCache[s].nodes
    PROVE  c \in Cached /\ c \in Known
BY DEF Cached, Known

\* Nodes change their status or task and keep their space.
LEMMA Restyled ==
    ASSUME BoardInv, board' = board,
           \A c \in board : nodes'[c] \in Node /\ nodes'[c].space = nodes[c].space,
           UNCHANGED <<edges, spaceCache, made, gone, links>>
    PROVE  BoardInv'
<1>1. Cached' = Cached /\ Known' = Known
    BY DEF Cached, Known
<1>2. Places'
    <2>1. CacheOK'
        BY DEF BoardInv, Places, CacheOK
    <2> QED BY <1>1, <2>1 DEF BoardInv, Places
<1>3. CardsKept'
    BY <1>1 DEF BoardInv, CardsKept
<1>4. ASSUME NEW e \in links PROVE Linked(e)'
    <2>1. CASE OnBoard(e)
        BY <2>1, <1>4 DEF BoardInv, Linked, OnBoard
    <2>2. CASE \E s \in Spaces : InCache(e, s)
        BY <2>2, <1>4 DEF BoardInv, Linked, InCache
    <2> QED BY <1>4, <2>1, <2>2 DEF BoardInv, Linked
<1> QED BY <1>2, <1>3, <1>4 DEF BoardInv

\* A new card: its id was nowhere.
LEMMA Added ==
    ASSUME BoardInv, NEW c \in Cards, NEW n \in Node, Add(c, n),
           UNCHANGED <<spaceCache, gone, links>>
    PROVE  BoardInv'
<1>1. /\ c \notin made /\ made' = made \cup {c}
      /\ board' = board \cup {c}
      /\ nodes'[c] = n /\ \A d \in board \ {c} : nodes'[d] = nodes[d]
      /\ edges' = CleanEdges(edges, board \cup {c})
    BY DEF Add, Both, One, board
<1>2. c \notin Known /\ Cached' = Cached /\ Known' = Known \cup {c}
    BY <1>1 DEF BoardInv, Places, Known, Cached
<1>3. CacheOK'
    <2>1. \A s \in Spaces : c \notin DOMAIN spaceCache[s].nodes
        BY <1>2, CachedIn
    <2> QED BY <1>1, <2>1 DEF BoardInv, Places, CacheOK
<1>4. Places'
    BY <1>1, <1>2, <1>3 DEF BoardInv, Places, Known
<1>5. CardsKept'
    BY <1>1, <1>2 DEF BoardInv, CardsKept
<1>6. ASSUME NEW e \in links PROVE Linked(e)'
    <2>1. CASE OnBoard(e)
        <3>1. c \notin e
            BY <2>1, <1>2 DEF OnBoard, Known
        <3> QED BY <1>1, <1>6, <2>1, <3>1 DEF BoardInv, Linked, OnBoard, CleanEdges
    <2>2. CASE \E s \in Spaces : InCache(e, s)
        BY <2>2, <1>6 DEF BoardInv, Linked, InCache
    <2> QED BY <1>6, <2>1, <2>2 DEF BoardInv, Linked
<1> QED BY <1>4, <1>5, <1>6 DEF BoardInv

\* The caches keep their cards and links; the nodes may lose their tasks.
CachesKept ==
    /\ DOMAIN spaceCache' = Spaces
    /\ \A s \in Spaces :
          /\ spaceCache'[s].edges = spaceCache[s].edges
          /\ DOMAIN spaceCache'[s].nodes = DOMAIN spaceCache[s].nodes
          /\ \A c \in DOMAIN spaceCache[s].nodes :
                spaceCache'[s].nodes[c] \in Node /\ spaceCache'[s].nodes[c].space = s

LEMMA Filtered ==
    ASSUME BoardInv, NEW S, Filter(S), CachesKept
    PROVE  BoardInv'
<1>1. /\ board' = board \ S /\ \A c \in board' : nodes'[c] = nodes[c]
      /\ edges' = CleanEdges(edges, board \ S)
      /\ gone' = gone \cup (S \cap board) /\ made' = made
      /\ links' = {e \in links : e \cap S \cap board = {}}
    BY DEF Filter, Only, board
<1>2. Cached' = Cached
    BY DEF Cached, CachesKept
<1>3. Known' = Known \ (S \cap board)
    <2>1. \A c \in Cached : c \notin board
        BY DEF BoardInv, Places, CacheOK, Cached
    <2> QED BY <1>1, <1>2, <2>1 DEF Known
<1>4. CacheOK'
    BY <1>1 DEF BoardInv, Places, CacheOK, CachesKept
<1>5. Places'
    <2>1. board \subseteq Cards
        BY DEF BoardInv, Places, Known
    <2> QED BY <1>1, <1>3, <1>4, <2>1 DEF BoardInv, Places, CachesKept
<1>6. CardsKept'
    BY <1>1, <1>3 DEF BoardInv, CardsKept
<1>7. ASSUME NEW e \in links' PROVE Linked(e)'
    <2>1. e \in links /\ e \cap S \cap board = {} /\ Linked(e)
        BY <1>1, <1>7 DEF BoardInv
    <2>2. CASE OnBoard(e)
        BY <1>1, <2>1, <2>2 DEF Linked, OnBoard, CleanEdges
    <2>3. CASE \E s \in Spaces : InCache(e, s)
        BY <2>1, <2>3 DEF Linked, InCache, CachesKept
    <2> QED BY <2>1, <2>2, <2>3 DEF Linked
<1> QED BY <1>5, <1>6, <1>7 DEF BoardInv

LEMMA CachesUntouched == ASSUME BoardInv, UNCHANGED spaceCache PROVE CachesKept
BY DEF BoardInv, Places, CacheOK, CachesKept

LEMMA CachesWithoutTasks ==
    ASSUME BoardInv, NEW S, TasksDeleted(S)
    PROVE  CachesKept
<1>1. /\ DOMAIN spaceCache' = Spaces
      /\ \A s \in Spaces :
            /\ spaceCache'[s].edges = spaceCache[s].edges
            /\ DOMAIN spaceCache'[s].nodes = DOMAIN spaceCache[s].nodes
            /\ \A c \in DOMAIN spaceCache[s].nodes :
                  spaceCache'[s].nodes[c] = IF c \in S THEN [spaceCache[s].nodes[c] EXCEPT !.task = None]
                                                       ELSE spaceCache[s].nodes[c]
    BY DEF TasksDeleted
<1>2. \A n \in Node : [n EXCEPT !.task = None] \in Node /\ [n EXCEPT !.task = None].space = n.space
    BY DEF Node
<1>3. ASSUME NEW s \in Spaces, NEW c \in DOMAIN spaceCache[s].nodes
      PROVE  spaceCache'[s].nodes[c] \in Node /\ spaceCache'[s].nodes[c].space = s
    <2>1. spaceCache[s].nodes[c] \in Node /\ spaceCache[s].nodes[c].space = s
        BY DEF BoardInv, Places, CacheOK
    <2> QED BY <1>1, <1>2, <2>1
<1> QED BY <1>1, <1>3 DEF CachesKept

-----------------------------------------------------------------------------
(* A switch of spaces with clearOnSwitch.                                    *)

Leaving == On(activeSpaceId)
Left == IF Leaving = {} THEN spaceCache
        ELSE [spaceCache EXCEPT ![activeSpaceId] = Snapshot(Leaving)]
Overwritten == IF clearOnSwitch /\ Leaving # {} THEN DOMAIN spaceCache[activeSpaceId].nodes ELSE {}

\* What the caches hold once the space was left: cards of their own space, and
\* together with the rest of the board all that was not overwritten.
LEMMA LeftOK ==
    ASSUME BoardInv, activeSpaceId \in Spaces, clearOnSwitch
    PROVE  /\ DOMAIN Left = Spaces
           /\ \A t \in Spaces : \A c \in DOMAIN Left[t].nodes :
                 /\ Left[t].nodes[c] \in Node /\ Left[t].nodes[c].space = t
                 /\ c \in Known /\ c \notin board \ Leaving
                 /\ \A u \in Spaces \ {t} : c \notin DOMAIN Left[u].nodes
           /\ \A c \in Known : \/ c \in Overwritten \/ c \in board \ Leaving
                               \/ \E t \in Spaces : c \in DOMAIN Left[t].nodes
<1> DEFINE a == activeSpaceId
<1>1. CASE Leaving = {}
    <2>1. Left = spaceCache /\ Overwritten = {}
        BY <1>1 DEF Left, Overwritten
    <2>2. \A t \in Spaces : \A c \in DOMAIN Left[t].nodes :
                 /\ Left[t].nodes[c] \in Node /\ Left[t].nodes[c].space = t
                 /\ c \in Known /\ c \notin board \ Leaving
                 /\ \A u \in Spaces \ {t} : c \notin DOMAIN Left[u].nodes
        BY <2>1, CachedIn DEF BoardInv, Places, CacheOK
    <2>3. \A c \in Known : \/ c \in board \ Leaving
                           \/ \E t \in Spaces : c \in DOMAIN Left[t].nodes
        BY <1>1, <2>1 DEF Known, Cached
    <2> QED BY <2>1, <2>2, <2>3 DEF BoardInv, Places
<1>2. CASE Leaving # {}
    <2>1. /\ DOMAIN Left = Spaces /\ Left[a] = Snapshot(Leaving)
          /\ \A t \in Spaces \ {a} : Left[t] = spaceCache[t]
          /\ Overwritten = DOMAIN spaceCache[a].nodes
        BY <1>2 DEF BoardInv, Places, Left, Overwritten
    <2>2. Leaving \subseteq board /\ \A c \in Leaving : nodes[c].space = a
        BY DEF Leaving, On
    <2>3. /\ DOMAIN Left[a].nodes = Leaving
          /\ \A c \in Leaving : Left[a].nodes[c] = nodes[c]
        BY <2>1, <2>2 DEF Snapshot, Only, board
    <2>4. \A t \in Spaces : \A c \in DOMAIN Left[t].nodes :
                 /\ Left[t].nodes[c] \in Node /\ Left[t].nodes[c].space = t
                 /\ c \in Known /\ c \notin board \ Leaving
                 /\ \A u \in Spaces \ {t} : c \notin DOMAIN Left[u].nodes
        <3>1. ASSUME NEW c \in DOMAIN Left[a].nodes
              PROVE  /\ Left[a].nodes[c] \in Node /\ Left[a].nodes[c].space = a
                     /\ c \in Known /\ c \notin board \ Leaving
                     /\ \A u \in Spaces \ {a} : c \notin DOMAIN Left[u].nodes
            BY <2>1, <2>2, <2>3 DEF BoardInv, Places, CacheOK, Known
        <3>2. ASSUME NEW t \in Spaces \ {a}, NEW c \in DOMAIN Left[t].nodes
              PROVE  /\ Left[t].nodes[c] \in Node /\ Left[t].nodes[c].space = t
                     /\ c \in Known /\ c \notin board \ Leaving
                     /\ \A u \in Spaces \ {t} : c \notin DOMAIN Left[u].nodes
            <4>1. c \in DOMAIN spaceCache[t].nodes /\ c \notin board
                BY <2>1 DEF BoardInv, Places, CacheOK
            <4>2. c \in Known
                BY <4>1, CachedIn
            <4>3. c \notin DOMAIN Left[a].nodes
                BY <4>1, <2>2, <2>3
            <4> QED BY <4>1, <4>2, <4>3, <2>1 DEF BoardInv, Places, CacheOK
        <3> QED BY <3>1, <3>2
    <2>5. ASSUME NEW c \in Known
          PROVE  \/ c \in Overwritten \/ c \in board \ Leaving
                 \/ \E t \in Spaces : c \in DOMAIN Left[t].nodes
        BY <2>1, <2>3 DEF Known, Cached
    <2> QED BY <2>1, <2>4, <2>5
<1> QED BY <1>1, <1>2

(* What the switch makes of the store, said with these.                      *)
LEMMA SwitchEffect ==
    ASSUME NEW s \in Spaces, SwitchSpace(s), clearOnSwitch, DOMAIN Left = Spaces
    PROVE  /\ board' = DOMAIN Left[s].nodes \cup (board \ Leaving)
           /\ \A c \in DOMAIN Left[s].nodes : nodes'[c] = Left[s].nodes[c]
           /\ \A c \in (board \ Leaving) \ DOMAIN Left[s].nodes : nodes'[c] = nodes[c]
           /\ edges' = CleanEdges({e \in edges : e \cap Leaving = {}} \cup Left[s].edges, board')
           /\ DOMAIN spaceCache' = Spaces /\ spaceCache'[s] = Empty
           /\ \A t \in Spaces \ {s} : spaceCache'[t] = Left[t]
           /\ gone' = gone \cup Overwritten /\ made' = made
           /\ links' = {e \in links : e \cap Overwritten = {}}
<1>1. /\ nodes' = Both(Left[s].nodes, Only(nodes, board \ Leaving))
      /\ edges' = CleanEdges({e \in edges : e \cap Leaving = {}} \cup Left[s].edges, DOMAIN nodes')
      /\ spaceCache' = [Left EXCEPT ![s] = Empty]
      /\ gone' = gone \cup Overwritten /\ made' = made
      /\ links' = {e \in links : e \cap Overwritten = {}}
    BY DEF SwitchSpace, Restored, Emptied, Left, Leaving, Overwritten
<1>2. /\ board' = DOMAIN Left[s].nodes \cup (board \ Leaving)
      /\ \A c \in DOMAIN Left[s].nodes : nodes'[c] = Left[s].nodes[c]
      /\ \A c \in (board \ Leaving) \ DOMAIN Left[s].nodes : nodes'[c] = nodes[c]
    BY <1>1 DEF Both, Only, board
<1>3. DOMAIN spaceCache' = Spaces /\ spaceCache'[s] = Empty
      /\ \A t \in Spaces \ {s} : spaceCache'[t] = Left[t]
    BY <1>1
<1> QED BY <1>1, <1>2, <1>3 DEF board

LEMMA Switched ==
    ASSUME BoardInv, activeSpaceId \in Spaces, NEW s \in Spaces, SwitchSpace(s), clearOnSwitch
    PROVE  BoardInv'
<1> DEFINE Rest == board \ Leaving
<1>1. /\ DOMAIN Left = Spaces
      /\ \A t \in Spaces : \A c \in DOMAIN Left[t].nodes :
            /\ Left[t].nodes[c] \in Node /\ Left[t].nodes[c].space = t
            /\ c \in Known /\ c \notin Rest
            /\ \A u \in Spaces \ {t} : c \notin DOMAIN Left[u].nodes
      /\ \A c \in Known : \/ c \in Overwritten \/ c \in Rest
                          \/ \E t \in Spaces : c \in DOMAIN Left[t].nodes
    BY LeftOK
<1>2. /\ board' = DOMAIN Left[s].nodes \cup Rest
      /\ \A c \in DOMAIN Left[s].nodes : nodes'[c] = Left[s].nodes[c]
      /\ \A c \in Rest \ DOMAIN Left[s].nodes : nodes'[c] = nodes[c]
      /\ edges' = CleanEdges({e \in edges : e \cap Leaving = {}} \cup Left[s].edges, board')
      /\ DOMAIN spaceCache' = Spaces /\ spaceCache'[s] = Empty
      /\ \A t \in Spaces \ {s} : spaceCache'[t] = Left[t]
      /\ gone' = gone \cup Overwritten /\ made' = made
      /\ links' = {e \in links : e \cap Overwritten = {}}
    BY <1>1, SwitchEffect
<1>3. DOMAIN spaceCache'[s].nodes = {}
    BY <1>2 DEF Empty, NoNodes
<1>4. CacheOK'
    BY <1>1, <1>2, <1>3 DEF CacheOK
<1>5. Known' \subseteq Known /\ Known \subseteq Known' \cup Overwritten
    <2>1. Known' \subseteq Known
        <3>1. board' \subseteq Known
            BY <1>1, <1>2 DEF Known
        <3>2. Cached' \subseteq Known
            BY <1>1, <1>2, <1>3 DEF Cached
        <3> QED BY <3>1, <3>2 DEF Known
    <2>2. ASSUME NEW c \in Known PROVE c \in Known' \cup Overwritten
        <3>1. CASE c \in Rest
            BY <3>1, <1>2 DEF Known
        <3>2. ASSUME NEW t \in Spaces, c \in DOMAIN Left[t].nodes PROVE c \in Known'
            BY <3>2, <1>2 DEF Known, Cached
        <3> QED BY <3>1, <3>2, <1>1
    <2> QED BY <2>1, <2>2
<1>6. Overwritten \subseteq Known
    BY CachedIn DEF Overwritten
<1>7. \A c \in board' : nodes'[c] \in Node
    BY <1>1, <1>2 DEF BoardInv, Places
<1>8. Places' /\ CardsKept'
    BY <1>2, <1>4, <1>5, <1>6, <1>7 DEF BoardInv, Places, CardsKept
<1>9. \A e \in Left[s].edges : e \subseteq DOMAIN Left[s].nodes => OnBoard(e)'
    BY <1>1, <1>2 DEF OnBoard, CleanEdges
<1>10. ASSUME NEW e, e # {}, NEW t \in Spaces,
              e \in Left[t].edges, e \subseteq DOMAIN Left[t].nodes
       PROVE  Linked(e)'
    <2>1. CASE t = s
        BY <1>9, <1>10, <2>1 DEF Linked
    <2>2. CASE t # s
        BY <1>2, <1>10, <2>2 DEF Linked, InCache
    <2> QED BY <2>1, <2>2
<1>11. ASSUME NEW e \in links' PROVE Linked(e)'
    <2>1. e \in links /\ e \cap Overwritten = {} /\ e # {} /\ Linked(e)
        BY <1>2, <1>11 DEF BoardInv, Linked
    <2>2. CASE OnBoard(e) /\ e \cap Leaving = {}
        <3>1. e \subseteq Rest /\ e \subseteq board' /\ \A c \in e : nodes'[c] = nodes[c]
            BY <1>1, <1>2, <2>2 DEF OnBoard
        <3> QED BY <1>2, <2>1, <2>2, <3>1 DEF Linked, OnBoard, CleanEdges
    <2>3. CASE OnBoard(e) /\ e \cap Leaving # {}
        <3>1. e \subseteq Leaving
            BY <2>3 DEF OnBoard, Leaving, On
        <3>2. Left[activeSpaceId] = Snapshot(Leaving)
            BY <2>3 DEF Left, BoardInv, Places
        <3>3. e \in Left[activeSpaceId].edges /\ e \subseteq DOMAIN Left[activeSpaceId].nodes
            BY <2>3, <3>1, <3>2 DEF Snapshot, Only, OnBoard, board
        <3> QED BY <1>10, <2>1, <3>3
    <2>4. ASSUME NEW t \in Spaces, InCache(e, t) PROVE Linked(e)'
        <3>1. Left[t] = spaceCache[t]
            BY <2>1, <2>4 DEF Left, Overwritten, InCache, BoardInv, Places
        <3> QED BY <1>10, <2>1, <2>4, <3>1 DEF InCache
    <2> QED BY <2>1, <2>2, <2>3, <2>4 DEF Linked
<1> QED BY <1>8, <1>11 DEF BoardInv

-----------------------------------------------------------------------------
(* The steps.                                                               *)

LEMMA Nothing == ASSUME BoardInv, UNCHANGED <<nodes, edges, spaceCache, made, gone, links>>
                 PROVE  BoardInv'
BY Restyled DEF BoardInv, Places, board

\* Nodes get another status and lose their task, all those of a set.
LEMMA MappedKeeps ==
    ASSUME BoardInv, NEW S, NEW st \in Statuses,
           \/ nodes' = Mapped(S, LAMBDA n : [n EXCEPT !.status = st])
           \/ nodes' = Mapped(S, LAMBDA n : [n EXCEPT !.status = st, !.task = None]),
           UNCHANGED <<edges, spaceCache, made, gone, links>>
    PROVE  BoardInv'
<1>1. ASSUME NEW n \in Node
      PROVE  /\ [n EXCEPT !.status = st] \in Node /\ [n EXCEPT !.status = st].space = n.space
             /\ [n EXCEPT !.status = st, !.task = None] \in Node
             /\ [n EXCEPT !.status = st, !.task = None].space = n.space
    BY DEF Node
<1>2. \A c \in board : nodes[c] \in Node
    BY DEF BoardInv, Places
<1>3. board' = board /\ \A c \in board : \/ nodes'[c] = nodes[c]
                                       \/ nodes'[c] = [nodes[c] EXCEPT !.status = st]
                                       \/ nodes'[c] = [nodes[c] EXCEPT !.status = st, !.task = None]
    BY DEF Mapped, board
<1> QED BY <1>1, <1>2, <1>3, Restyled

\* One node gets another status and another task.
LEMMA OneKeeps ==
    ASSUME BoardInv, NEW c \in board, NEW st \in Statuses, NEW t \in Runs \cup {None},
           \/ nodes' = [nodes EXCEPT ![c].status = st]
           \/ nodes' = [nodes EXCEPT ![c] = [@ EXCEPT !.status = st, !.task = t]],
           UNCHANGED <<edges, spaceCache, made, gone, links>>
    PROVE  BoardInv'
<1>1. ASSUME NEW n \in Node
      PROVE  /\ [n EXCEPT !.status = st] \in Node /\ [n EXCEPT !.status = st].space = n.space
             /\ [n EXCEPT !.status = st, !.task = t] \in Node
             /\ [n EXCEPT !.status = st, !.task = t].space = n.space
    BY DEF Node
<1>2. \A d \in board : nodes[d] \in Node
    BY DEF BoardInv, Places
<1>3. board' = board /\ \A d \in board : \/ nodes'[d] = nodes[d]
                                       \/ nodes'[d] = [nodes[d] EXCEPT !.status = st]
                                       \/ nodes'[d] = [nodes[d] EXCEPT !.status = st, !.task = t]
    BY DEF board
<1> QED BY <1>1, <1>2, <1>3, Restyled

LEMMA LinkDrawn ==
    ASSUME BoardInv, NEW c, CompleteLinkMode(c)
    PROVE  BoardInv'
<1>1. UNCHANGED <<nodes, spaceCache, made, gone>>
    BY DEF CompleteLinkMode
<1>2. CASE UNCHANGED <<edges, links>>
    BY <1>1, <1>2, Nothing
<1>3. CASE /\ edges' = edges \cup {{linkMode, c}}
           /\ links' = links \cup {e \in {{linkMode, c}} : e \subseteq On(activeSpaceId)}
    <2>1. Places' /\ CardsKept'
        BY <1>1 DEF BoardInv, Places, CacheOK, CardsKept, Known, Cached, board
    <2>2. ASSUME NEW e \in links' PROVE Linked(e)'
        <3>1. CASE e \in links
            BY <1>1, <1>3, <3>1 DEF BoardInv, Linked, OnBoard, InCache, board
        <3>2. CASE e = {linkMode, c} /\ e \subseteq On(activeSpaceId)
            BY <1>1, <1>3, <3>2 DEF Linked, OnBoard, On, board
        <3> QED BY <1>3, <2>2, <3>1, <3>2
    <2> QED BY <2>1, <2>2 DEF BoardInv
<1> QED BY <1>2, <1>3 DEF CompleteLinkMode

LEMMA LinkRemoved ==
    ASSUME BoardInv, NEW e, RemoveEdge(e)
    PROVE  BoardInv'
<1>1. /\ UNCHANGED <<nodes, spaceCache, made, gone>>
      /\ edges' = edges \ {e} /\ links' = links \ {e}
    BY DEF RemoveEdge, sceneVars
<1>2. Places' /\ CardsKept'
    BY <1>1 DEF BoardInv, Places, CacheOK, CardsKept, Known, Cached, board
<1>3. ASSUME NEW x \in links' PROVE Linked(x)'
    BY <1>1, <1>3 DEF BoardInv, Linked, OnBoard, InCache, board
<1> QED BY <1>2, <1>3 DEF BoardInv

LEMMA UserStepBoard == BoardInv /\ Marks /\ UserStep => BoardInv'
<1> SUFFICES ASSUME BoardInv, Marks, UserStep PROVE BoardInv'
    OBVIOUS
<1> USE DEF sceneVars, historyVars
<1>1. ASSUME NEW c \in Cards, ActivateNode(c) PROVE BoardInv'
    BY <1>1, OneKeeps DEF ActivateNode, Statuses
<1>2. ASSUME NEW S, CloseNodes(S) PROVE BoardInv'
    BY <1>2, Filtered, CachesUntouched DEF CloseNodes
<1>3. ASSUME NEW S, DeleteCards(S) PROVE BoardInv'
    BY <1>3, Filtered, CachesWithoutTasks DEF DeleteCards
<1>4. ASSUME NEW S, MinimizeNodes(S) PROVE BoardInv'
    BY <1>4, MappedKeeps DEF MinimizeNodes, Statuses
<1>5. ASSUME NEW c \in Cards, HandleCancelTask(c) PROVE BoardInv'
    BY <1>5, OneKeeps DEF HandleCancelTask, Statuses, On
<1>6. ASSUME NEW c \in Cards, NEW s \in Spaces, AddNode(c, s) PROVE BoardInv'
    BY <1>6, Added DEF AddNode, Node, Statuses
<1>7. ASSUME NEW s \in Spaces, SwitchSpace(s) PROVE BoardInv'
    <2>1. CASE clearOnSwitch
        BY <1>7, <2>1, Switched DEF Marks
    <2>2. CASE ~clearOnSwitch
        BY <1>7, <2>2, Nothing DEF SwitchSpace
    <2> QED BY <2>1, <2>2
<1>8. CASE CancelAllActive
    BY <1>8, MappedKeeps DEF CancelAllActive, Statuses
<1>9. CASE \/ ToggleClearOnSwitch \/ CancelLinkMode \/ \E c \in Cards : StartLinkMode(c)
    BY <1>9, Nothing DEF ToggleClearOnSwitch, CancelLinkMode, StartLinkMode
<1> QED BY <1>1, <1>2, <1>3, <1>4, <1>5, <1>6, <1>7, <1>8, <1>9, LinkDrawn, LinkRemoved
        DEF UserStep, CloseNode, CloseAllSpaceNodes, CleanupStuckNodes, DeleteCard, ClearAllCards,
            MinimizeNode, MinimizeAll

LEMMA QueryStepBoard == BoardInv /\ Marks /\ QueryStep => BoardInv'
<1> SUFFICES ASSUME BoardInv, Marks, NEW r \in Runs, NEW q \in Queries,
                    \/ Chat(r, q)
                    \/ \E c \in Cards : \/ NewTask(r, q, c) \/ Reply(r, q, c)
                                        \/ Search(r, "search", q, c) \/ Search(r, "stream", q, c)
             PROVE  BoardInv'
    BY DEF QueryStep
<1> USE DEF sceneVars, historyVars
<1>1. CASE Chat(r, q)
    BY <1>1, Nothing DEF Chat
<1>2. ASSUME NEW c \in Cards, NEW t \in Runs \cup {None}, NewCard(c, t),
             UNCHANGED <<spaceCache, gone, links>>
      PROVE  BoardInv'
    <2>1. [space |-> activeSpaceId, status |-> "synthesizing", task |-> t] \in Node
        BY DEF Marks, Node, Statuses
    <2> QED BY <1>2, <2>1, Added DEF NewCard
<1>3. ASSUME NEW c \in Cards, NewTask(r, q, c) PROVE BoardInv'
    BY <1>2, <1>3 DEF NewTask
<1>4. ASSUME NEW c \in Cards, Reply(r, q, c) PROVE BoardInv'
    BY <1>4, OneKeeps DEF Reply, On, Statuses
<1>5. ASSUME NEW c \in Cards, NEW k, Search(r, k, q, c) PROVE BoardInv'
    BY <1>2, <1>5 DEF Search
<1> QED BY <1>1, <1>3, <1>4, <1>5

LEMMA RunStepBoard == BoardInv /\ Marks /\ RunStep => BoardInv'
<1> SUFFICES ASSUME BoardInv, Marks, NEW r \in Runs,
                    \/ TaskSucceeds(r) \/ TaskFails(r) \/ TaskThrows(r) \/ AbortSeen(r) \/ ChatEnds(r)
                    \/ StreamSubmitted(r) \/ StreamAnsweredEarly(r) \/ SearchSucceeds(r) \/ SearchFails(r)
                    \/ RefineStarts(r) \/ RefineEnds(r)
             PROVE  BoardInv'
    BY DEF RunStep
<1> USE DEF sceneVars, historyVars
<1>1. ASSUME NEW st \in Statuses, UpdateCard(r, st), KeepCards, UNCHANGED spaceCache PROVE BoardInv'
    BY <1>1, MappedKeeps DEF UpdateCard, KeepCards
<1>2. CASE TaskSucceeds(r)
    BY <1>1, <1>2 DEF TaskSucceeds, Statuses
<1>3. CASE TaskFails(r) \/ SearchSucceeds(r)
    BY <1>1, <1>3 DEF TaskFails, SearchSucceeds, Statuses
<1>4. CASE TaskThrows(r) \/ SearchFails(r)
    BY <1>4, Filtered, CachesUntouched DEF TaskThrows, SearchFails, RemoveCard
<1>5. CASE AbortSeen(r) \/ ChatEnds(r) \/ StreamSubmitted(r) \/ StreamAnsweredEarly(r)
    BY <1>5, Nothing DEF AbortSeen, ChatEnds, StreamSubmitted, StreamAnsweredEarly, KeepCards
<1>6. CASE RefineStarts(r) \/ RefineEnds(r)
    BY <1>6, MappedKeeps DEF RefineStarts, RefineEnds, Statuses
<1> QED BY <1>2, <1>3, <1>4, <1>5, <1>6

-----------------------------------------------------------------------------
(* The variables beside the cards.                                           *)

LEMMA BusyIsKnown == ASSUME BoardInv PROVE BusyInCache \subseteq Cards
BY CachedIn DEF BusyInCache, BoardInv, Places

\* A run starts with a card of its own, ends, or is marked.
LEMMA RunCardsStart ==
    ASSUME RunsOK, RunCards, NEW r \in Runs, NEW k \in Kinds, NEW q \in Queries,
           NEW c \in Cards \cup {None}, NEW p \in {"sending", "running"},
           FreeRun(r), StartRun(r, k, q, c, p), k = "chat" \/ c \in Cards
    PROVE  RunCards'
<1>1. /\ runs'[r].kind = k /\ runs'[r].card = c
      /\ \A x \in Runs \ {r} : runs'[x] = runs[x]
    BY DEF StartRun, RunsOK
<1> QED BY <1>1 DEF RunCards, Live

LEMMA RunCardsOver ==
    ASSUME RunsOK, RunCards, NEW r \in Runs, runs' = Over(r)
    PROVE  RunCards'
<1>1. /\ runs'[r].phase = "over" /\ \A x \in Runs \ {r} : runs'[x] = runs[x]
    BY DEF Over, NoRun, RunsOK
<1> QED BY <1>1 DEF RunCards, Live

LEMMA RunCardsRefined ==
    ASSUME RunsOK, RunCards, NEW r \in Runs, Subject(r) \in Cards, NEW x \in Runs, x # r,
           runs' = [Over(r) EXCEPT ![x] =
                       [NoRun EXCEPT !.kind = "refine", !.card = Subject(r), !.phase = "waiting"]]
    PROVE  RunCards'
<1>1. /\ runs'[r].phase = "over" /\ runs'[x].card = Subject(r)
      /\ \A y \in Runs \ {r, x} : runs'[y] = runs[y]
    BY DEF Over, NoRun, RunsOK
<1> QED BY <1>1 DEF RunCards, Live

LEMMA RunCardsMarked ==
    ASSUME RunCards, \A x \in Runs : /\ runs'[x].phase = runs[x].phase \/ Live(x)
                                     /\ runs'[x].kind = runs[x].kind /\ runs'[x].card = runs[x].card
    PROVE  RunCards'
BY DEF RunCards, Live

LEMMA UserStepMarks == RunsOK /\ BoardInv /\ Marks /\ UserStep => Marks'
<1> SUFFICES ASSUME RunsOK, BoardInv, Marks, UserStep PROVE Marks'
    OBVIOUS
<1> USE DEF sceneVars, synthVars, historyVars
<1>1. ASSUME UNCHANGED <<missed, cardGeneratedFor, queryInFlight, runs>>,
             linkMode' \in Cards \cup {None}, activeSpaceId' \in Spaces, clearOnSwitch' \in BOOLEAN
      PROVE  Marks'
    BY <1>1 DEF Marks, RunCards, Live
<1>2. ASSUME NEW c \in Cards, HandleCancelTask(c) PROVE Marks'
    <2> DEFINE rr == nodes[c].task
    <2>1. /\ \/ runs' = runs
             \/ /\ rr \in Runs
                /\ runs' = [runs EXCEPT ![rr] = [@ EXCEPT !.aborted = TRUE, !.listed = FALSE]]
          /\ UNCHANGED <<missed, cardGeneratedFor, queryInFlight, linkMode, activeSpaceId, clearOnSwitch>>
        BY <1>2 DEF HandleCancelTask
    <2> HIDE DEF rr
    <2>2. \A x \in Runs : /\ runs'[x].phase = runs[x].phase
                          /\ runs'[x].kind = runs[x].kind /\ runs'[x].card = runs[x].card
        <3>1. CASE runs' = runs
            BY <3>1
        <3>2. CASE rr \in Runs /\ runs' = [runs EXCEPT ![rr] = [@ EXCEPT !.aborted = TRUE, !.listed = FALSE]]
            BY <3>2 DEF RunsOK, RunRecord
        <3> QED BY <2>1, <3>1, <3>2
    <2>3. RunCards'
        BY <2>2, RunCardsMarked DEF Marks
    <2> QED BY <2>1, <2>3 DEF Marks
<1>3. CASE CancelAllActive
    <2>1. /\ missed' \subseteq missed \cup BusyInCache
          /\ UNCHANGED <<cardGeneratedFor, queryInFlight, linkMode, activeSpaceId, clearOnSwitch>>
        BY <1>3 DEF CancelAllActive
    <2>2. \A x \in Runs : /\ runs'[x].phase = runs[x].phase
                          /\ runs'[x].kind = runs[x].kind /\ runs'[x].card = runs[x].card
        BY <1>3 DEF CancelAllActive, RunsOK, RunRecord
    <2>3. RunCards'
        BY <2>2, RunCardsMarked DEF Marks
    <2> QED BY <2>1, <2>3, BusyIsKnown DEF Marks
<1>4. ASSUME NEW s \in Spaces, SwitchSpace(s) PROVE Marks'
    BY <1>1, <1>4 DEF SwitchSpace, Marks
<1>5. CASE ToggleClearOnSwitch \/ CancelLinkMode
           \/ \E c \in Cards : StartLinkMode(c) \/ CompleteLinkMode(c)
    BY <1>1, <1>5 DEF ToggleClearOnSwitch, CancelLinkMode, StartLinkMode, CompleteLinkMode, Marks
<1>6. ASSUME UNCHANGED <<missed, cardGeneratedFor, queryInFlight, runs, linkMode, activeSpaceId,
                         clearOnSwitch>>
      PROVE  Marks'
    BY <1>1, <1>6 DEF Marks
<1>7. \/ \E c \in Cards : HandleCancelTask(c)
      \/ CancelAllActive
      \/ \E s \in Spaces : SwitchSpace(s)
      \/ ToggleClearOnSwitch \/ CancelLinkMode \/ \E c \in Cards : StartLinkMode(c) \/ CompleteLinkMode(c)
      \/ UNCHANGED <<missed, cardGeneratedFor, queryInFlight, runs, linkMode, activeSpaceId, clearOnSwitch>>
    BY DEF UserStep, ActivateNode, CloseNode, CloseNodes, CloseAllSpaceNodes, CleanupStuckNodes,
           DeleteCard, DeleteCards, ClearAllCards, MinimizeNode, MinimizeAll, MinimizeNodes, AddNode,
           RemoveEdge
<1> QED BY <1>2, <1>3, <1>4, <1>5, <1>6, <1>7

LEMMA QueryStepMarks == RunsOK /\ Marks /\ QueryStep => Marks'
<1> SUFFICES ASSUME RunsOK, Marks, NEW r \in Runs, NEW q \in Queries,
                    \/ Chat(r, q)
                    \/ \E c \in Cards : \/ NewTask(r, q, c) \/ Reply(r, q, c)
                                        \/ Search(r, "search", q, c) \/ Search(r, "stream", q, c)
             PROVE  Marks'
    BY DEF QueryStep
<1> USE DEF sceneVars, historyVars
<1>1. ASSUME RunCards', queryInFlight' \in Queries \cup {None},
             UNCHANGED <<missed, cardGeneratedFor, linkMode, activeSpaceId, clearOnSwitch>>
      PROVE  Marks'
    BY <1>1 DEF Marks
<1>2. ASSUME NEW k \in Kinds, NEW c \in Cards \cup {None}, NEW p \in {"sending", "running"},
             FreeRun(r), StartRun(r, k, q, c, p), k = "chat" \/ c \in Cards
      PROVE  RunCards'
    BY <1>2, RunCardsStart DEF Marks
<1>3. queryInFlight \in Queries \cup {None}
    BY DEF Marks
<1>4. CASE Chat(r, q)
    BY <1>1, <1>2, <1>3, <1>4 DEF Chat, Kinds
<1>5. ASSUME NEW c \in Cards, NewTask(r, q, c) PROVE Marks'
    BY <1>1, <1>2, <1>5 DEF NewTask, Kinds
<1>6. ASSUME NEW c \in Cards, Reply(r, q, c) PROVE Marks'
    BY <1>1, <1>2, <1>6 DEF Reply, Kinds
<1>7. ASSUME NEW c \in Cards, NEW k \in {"search", "stream"}, Search(r, k, q, c) PROVE Marks'
    <2>1. k \in Kinds
        BY DEF Kinds
    <2> QED BY <1>1, <1>2, <1>3, <1>7, <2>1 DEF Search
<1> QED BY <1>4, <1>5, <1>6, <1>7

LEMMA RunStepMarks == RunsOK /\ BoardInv /\ Marks /\ RunStep => Marks'
<1> SUFFICES ASSUME RunsOK, BoardInv, Marks, NEW r \in Runs,
                    \/ TaskSucceeds(r) \/ TaskFails(r) \/ TaskThrows(r) \/ AbortSeen(r) \/ ChatEnds(r)
                    \/ StreamSubmitted(r) \/ StreamAnsweredEarly(r) \/ SearchSucceeds(r) \/ SearchFails(r)
                    \/ RefineStarts(r) \/ RefineEnds(r)
             PROVE  Marks'
    BY DEF RunStep
<1> USE DEF sceneVars, historyVars
<1>1. ASSUME RunCards', queryInFlight' \in Queries \cup {None}, Misses(r) \/ UNCHANGED missed,
             cardGeneratedFor' \subseteq Cards, UNCHANGED <<linkMode, activeSpaceId, clearOnSwitch>>
      PROVE  Marks'
    BY <1>1, BusyIsKnown DEF Marks, Misses
<1>2. ASSUME runs' = Over(r) PROVE RunCards'
    BY <1>2, RunCardsOver DEF Marks
<1>3. queryInFlight \in Queries \cup {None} /\ cardGeneratedFor \subseteq Cards /\ RunCards
    BY DEF Marks
<1>4. ASSUME Finally(r) PROVE queryInFlight' \in Queries \cup {None}
    BY <1>3, <1>4 DEF Finally
<1>5. CASE TaskSucceeds(r)
    <2>1. Subject(r) \in Cards /\ Live(r)
        BY <1>5, <1>3 DEF TaskSucceeds, Running, RunCards, Live, Subject
    <2>2. RunCards'
        <3>1. ASSUME NEW x \in Runs, FreeRun(x),
                     runs' = [Over(r) EXCEPT ![x] = [NoRun EXCEPT !.kind = "refine",
                                              !.card = Subject(r), !.phase = "waiting"]]
              PROVE  RunCards'
            <4>1. x # r
                BY <2>1, <3>1 DEF FreeRun, NoRun, Live
            <4> QED BY <1>3, <2>1, <3>1, <4>1, RunCardsRefined
        <3> QED BY <1>2, <1>5, <3>1 DEF TaskSucceeds
    <2>3. cardGeneratedFor' \subseteq Cards
        BY <1>3, <1>5, <2>1 DEF TaskSucceeds
    <2> QED BY <1>1, <1>4, <1>5, <2>2, <2>3 DEF TaskSucceeds
<1>6. CASE TaskFails(r) \/ TaskThrows(r) \/ AbortSeen(r) \/ ChatEnds(r)
           \/ SearchSucceeds(r) \/ SearchFails(r)
    BY <1>1, <1>2, <1>3, <1>4, <1>6
    DEF TaskFails, TaskThrows, AbortSeen, ChatEnds, SearchSucceeds, SearchFails
<1>7. CASE StreamSubmitted(r) \/ StreamAnsweredEarly(r) \/ RefineStarts(r)
    <2>1. /\ \E p \in Phases : runs' = [runs EXCEPT ![r].phase = p]
          /\ Live(r)
          /\ UNCHANGED <<missed, cardGeneratedFor, queryInFlight, linkMode, activeSpaceId, clearOnSwitch>>
        BY <1>7 DEF StreamSubmitted, StreamAnsweredEarly, RefineStarts, Live, Phases
    <2>2. \A x \in Runs : /\ runs'[x].phase = runs[x].phase \/ Live(x)
                          /\ runs'[x].kind = runs[x].kind /\ runs'[x].card = runs[x].card
        BY <2>1 DEF RunsOK, RunRecord
    <2>3. RunCards'
        BY <1>3, <2>2, RunCardsMarked
    <2> QED BY <1>1, <1>3, <2>1, <2>3
<1>8. CASE RefineEnds(r)
    BY <1>1, <1>2, <1>3, <1>8 DEF RefineEnds
<1> QED BY <1>5, <1>6, <1>7, <1>8

-----------------------------------------------------------------------------
(* The theorems.                                                            *)

LEMMA InitBoard == Init => BoardInv /\ Marks
<1> SUFFICES ASSUME Init PROVE BoardInv /\ Marks
    OBVIOUS
<1>1. /\ board = {} /\ DOMAIN spaceCache = Spaces
      /\ \A s \in Spaces : DOMAIN spaceCache[s].nodes = {}
      /\ made = {} /\ gone = {} /\ links = {}
    BY DEF Init, NoNodes, Empty, board
<1>2. Known = {}
    BY <1>1 DEF Known, Cached
<1>3. BoardInv
    BY <1>1, <1>2 DEF BoardInv, Places, CacheOK, CardsKept
<1>4. RunCards
    BY DEF Init, RunCards, Live, NoRun
<1>5. Marks
    BY <1>4, WorkspaceAssumption DEF Init, Marks
<1> QED BY <1>3, <1>5

LEMMA BoardStep == IInv /\ BoardInv /\ Marks /\ [Next]_vars => BoardInv' /\ Marks'
<1> SUFFICES ASSUME IInv, BoardInv, Marks, [Next]_vars PROVE BoardInv' /\ Marks'
    OBVIOUS
<1>1. RunsOK
    BY DEF IInv
<1>2. CASE Next
    BY <1>1, <1>2, UserStepBoard, QueryStepBoard, RunStepBoard, UserStepMarks, QueryStepMarks, RunStepMarks
    DEF Next
<1>3. CASE UNCHANGED vars
    BY <1>3, Nothing DEF vars, sceneVars, synthVars, historyVars, Marks, RunCards, Live
<1> QED BY <1>2, <1>3

(* Cards and links of every reachable state, whatever the handlers do.       *)
THEOREM BoardInvariance == Spec => [](IInv /\ BoardInv /\ Marks)
<1>1. Init => BoardInv /\ Marks
    BY InitBoard
<1>2. IInv /\ BoardInv /\ Marks /\ [Next]_vars => BoardInv' /\ Marks'
    BY BoardStep
<1> QED BY <1>1, <1>2, Inductive, PTL DEF Spec

(* Every variable keeps its type, and an id is in one place: the store and    *)
(* its caches (nodesStore.ts) never hold two nodes of one id.                *)
THEOREM TypeCorrect == Spec => []TypeOK
<1>1. IInv /\ BoardInv /\ Marks => TypeOK
    <2> SUFFICES ASSUME IInv, BoardInv, Marks PROVE TypeOK
        OBVIOUS
    <2>1. {clearOnSwitch, isLoading, overrun} \subseteq BOOLEAN
        <3>1. clearOnSwitch \in BOOLEAN /\ isLoading \in BOOLEAN /\ overrun \in BOOLEAN
            BY DEF IInv, Marks
        <3> QED BY <3>1
    <2>2. activeSynthCount \in Nat
        BY DEF IInv
    <2> QED BY <2>1, <2>2 DEF TypeOK, BoardInv, Places, CacheOK, Marks
<1> QED BY <1>1, BoardInvariance, PTL

(* What a user put on a board survives every switch of spaces, for any number *)
(* of cards, spaces and runs that end meanwhile (switchSpace, nodesStore.ts). *)
THEOREM BoardIsKept == Spec => []BoardKept
<1>1. BoardInv => BoardKept
    <2> SUFFICES ASSUME BoardInv, NEW e \in links
                 PROVE  e \in edges \cup UNION {spaceCache[s].edges : s \in Spaces}
        BY DEF BoardInv, BoardKept, EdgesKept
    <2> QED BY DEF BoardInv, Linked, OnBoard, InCache
<1> QED BY <1>1, BoardInvariance, PTL
=============================================================================
