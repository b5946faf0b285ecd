------------------------- MODULE WorkspaceBusyProofs -------------------------
(***************************************************************************)
(* A card of module Workspace that shows as being synthesized has a run that *)
(* works on it, for any number of cards, spaces and runs.  A card keeps its  *)
(* status in a cache, where no run reaches it, so the invariant is about     *)
(* cards wherever they are; and a cancelled run goes on without touching its *)
(* card, so it is about runs that were not cancelled.                        *)
(***************************************************************************)
EXTENDS WorkspaceProofs

Busy(c) == (c \in board /\ nodes[c].status = "synthesizing") \/ c \in BusyInCache
Works(r, c) == Live(r) /\ ~runs[r].aborted /\ runs[r].kind # "chat" /\ runs[r].card = c
BusyWorked == \A c \in Cards \ missed : Busy(c) => \E r \in Runs : Works(r, c)

\* The task a card shows as running, on the board or in a cache, is its own: its
\* button cancels no other card's run.
HasTask(c, r) ==
    \/ c \in board /\ nodes[c].task = r
    \/ \E s \in Spaces : c \in DOMAIN spaceCache[s].nodes /\ spaceCache[s].nodes[c].task = r
IsTaskOf(r, c) ==
    runs[r] # NoRun /\ (Live(r) => runs[r].card = c /\ runs[r].kind # "refine")
TasksOwned == \A c \in Cards, r \in Runs : HasTask(c, r) => IsTaskOf(r, c)

\* Nothing cancels a refinement.
RefinesGoOn == \A r \in Runs : runs[r].kind = "refine" => ~runs[r].aborted /\ ~runs[r].listed

BusyInv == BusyWorked /\ TasksOwned /\ RefinesGoOn
AllInv == RunsOK /\ BoardInv /\ Marks /\ BusyInv

-----------------------------------------------------------------------------
(* Steps that make no card busy and give none a task, but for those of S.    *)
Calm(S) ==
    \A c \in Cards \ S : /\ Busy(c)' => Busy(c)
                         /\ \A r \in Runs : HasTask(c, r)' => HasTask(c, r)

\* A run that is live was live and has the card and the kind it had.
RunsLast ==
    \A r \in Runs : runs[r] # NoRun =>
        /\ runs'[r] # NoRun
        /\ Live(r)' => Live(r) /\ runs'[r].card = runs[r].card /\ runs'[r].kind = runs[r].kind

LEMMA CalmKeeps ==
    ASSUME BusyInv, NEW S \in SUBSET Cards, Calm(S), missed \subseteq missed', RunsLast, RefinesGoOn',
           \A c \in Cards \ S : \A r \in Runs :
               Works(r, c) /\ Busy(c)' => Works(r, c)' \/ c \in missed',
           \A c \in S : /\ Busy(c)' => c \in missed' \/ \E r \in Runs : Works(r, c)'
                        /\ \A r \in Runs : HasTask(c, r)' => IsTaskOf(r, c)'
    PROVE  BusyInv'
<1>1. BusyWorked'
    BY DEF BusyInv, BusyWorked, Calm
<1>2. TasksOwned'
    BY DEF BusyInv, TasksOwned, IsTaskOf, Calm, RunsLast
<1> QED BY <1>1, <1>2 DEF BusyInv

LEMMA SameRuns ==
    ASSUME RunsOK, UNCHANGED runs
    PROVE  RunsLast /\ \A r \in Runs, c \in Cards : Works(r, c) => Works(r, c)'
BY DEF RunsLast, Works, Live

\* The runs stay as they are.
LEMMA UserKeeps ==
    ASSUME RunsOK, BusyInv, Calm({}), UNCHANGED <<runs, missed>>
    PROVE  BusyInv'
<1>1. RefinesGoOn'
    BY DEF BusyInv, RefinesGoOn
<1> QED BY <1>1, SameRuns, CalmKeeps

-----------------------------------------------------------------------------
(* What the operations on cards make busy.                                   *)

\* Where a card is, its status and its task.
LEMMA Place ==
    ASSUME BoardInv, NEW c \in Cards
    PROVE  /\ c \in board => c \notin Cached /\ c \notin BusyInCache
           /\ \A s \in Spaces : c \in DOMAIN spaceCache[s].nodes =>
                 (c \in BusyInCache <=> spaceCache[s].nodes[c].status = "synthesizing")
<1>1. c \in BusyInCache => \E s \in Spaces : c \in DOMAIN spaceCache[s].nodes
                                             /\ spaceCache[s].nodes[c].status = "synthesizing"
    BY DEF BusyInCache
<1>2. ASSUME NEW s \in Spaces, c \in DOMAIN spaceCache[s].nodes
      PROVE  c \notin board /\ \A t \in Spaces \ {s} : c \notin DOMAIN spaceCache[t].nodes
    BY <1>2 DEF BoardInv, Places, CacheOK
<1>3. ASSUME NEW s \in Spaces, c \in DOMAIN spaceCache[s].nodes,
             spaceCache[s].nodes[c].status = "synthesizing"
      PROVE  c \in BusyInCache
    BY <1>3 DEF BusyInCache
<1> QED BY <1>1, <1>2, <1>3 DEF Cached

\* Nodes of the board only, outside S no node becomes busy or gets a task.
LEMMA CalmBoard ==
    ASSUME NEW S, UNCHANGED spaceCache,
           \A c \in board' \ S : /\ c \in board
                                 /\ nodes'[c].status = "synthesizing" => nodes[c].status = "synthesizing"
                                 /\ nodes'[c].task \in {nodes[c].task, None}
    PROVE  Calm(S)
<1>1. BusyInCache' = BusyInCache
    BY DEF BusyInCache
<1>2. None \notin Runs
    BY WorkspaceAssumption
<1> QED BY <1>1, <1>2 DEF Calm, Busy, HasTask

LEMMA CalmNothing == ASSUME UNCHANGED <<nodes, spaceCache>> PROVE Calm({})
BY CalmBoard DEF board

LEMMA CalmFilter == ASSUME NEW S, Filter(S), UNCHANGED spaceCache PROVE Calm({})
<1>1. board' = board \ S /\ \A c \in board' : nodes'[c] = nodes[c]
    BY DEF Filter, Only, board
<1> QED BY <1>1, CalmBoard

\* The settings page: as a filter, and cached cards lose their tasks.
LEMMA CalmDelete ==
    ASSUME BoardInv, NEW S, Filter(S), TasksDeleted(S)
    PROVE  Calm({})
<1>1. board' = board \ S /\ \A c \in board' : nodes'[c] = nodes[c]
    BY DEF Filter, Only, board
<1>2. ASSUME NEW s \in Spaces
      PROVE  /\ DOMAIN spaceCache'[s].nodes = DOMAIN spaceCache[s].nodes
             /\ \A c \in DOMAIN spaceCache[s].nodes :
                    /\ spaceCache'[s].nodes[c].status = spaceCache[s].nodes[c].status
                    /\ spaceCache'[s].nodes[c].task \in {spaceCache[s].nodes[c].task, None}
    <2>1. /\ DOMAIN spaceCache'[s].nodes = DOMAIN spaceCache[s].nodes
          /\ \A c \in DOMAIN spaceCache[s].nodes :
                spaceCache'[s].nodes[c] = IF c \in S THEN [spaceCache[s].nodes[c] EXCEPT !.task = None]
                                                     ELSE spaceCache[s].nodes[c]
        BY DEF TasksDeleted
    <2>2. \A n \in Node : /\ [n EXCEPT !.task = None].status = n.status
                          /\ [n EXCEPT !.task = None].task = None
        BY DEF Node
    <2>3. \A c \in DOMAIN spaceCache[s].nodes : spaceCache[s].nodes[c] \in Node
        BY DEF BoardInv, Places, CacheOK
    <2> QED BY <2>1, <2>2, <2>3
<1>3. BusyInCache' = BusyInCache
    BY <1>2 DEF BusyInCache
<1>4. None \notin Runs
    BY WorkspaceAssumption
<1>5. ASSUME NEW c \in Cards, NEW r \in Runs, HasTask(c, r)' PROVE HasTask(c, r)
    BY <1>1, <1>2, <1>4, <1>5 DEF HasTask
<1> QED BY <1>1, <1>3, <1>5 DEF Calm, Busy

\* A switch moves nodes as they are.
LEMMA CalmSwitch ==
    ASSUME BoardInv, Marks, NEW s \in Spaces, SwitchSpace(s)
    PROVE  Calm({})
<1>1. CASE ~clearOnSwitch
    BY <1>1, CalmNothing DEF SwitchSpace
<1>2. CASE clearOnSwitch
    <2> DEFINE Holds(n, c) == (c \in board /\ n = nodes[c])
                              \/ \E t \in Spaces : c \in DOMAIN spaceCache[t].nodes /\ n = spaceCache[t].nodes[c]
    <2>1. DOMAIN Left = Spaces
        BY <1>2, LeftOK DEF Marks
    <2>2. \A t \in Spaces : \A c \in DOMAIN Left[t].nodes : Holds(Left[t].nodes[c], c)
        BY DEF Left, Leaving, Snapshot, Only, On, board, BoardInv, Places
    <2>3. /\ board' = DOMAIN Left[s].nodes \cup (board \ Leaving)
          /\ \A c \in DOMAIN Left[s].nodes : nodes'[c] = Left[s].nodes[c]
          /\ \A c \in (board \ Leaving) \ DOMAIN Left[s].nodes : nodes'[c] = nodes[c]
          /\ spaceCache'[s] = Empty /\ \A t \in Spaces \ {s} : spaceCache'[t] = Left[t]
        BY <1>2, <2>1, SwitchEffect
    <2>4. \A c \in board' : Holds(nodes'[c], c)
        BY <2>2, <2>3
    <2>5. DOMAIN spaceCache'[s].nodes = {}
        BY <2>3 DEF Empty, NoNodes
    <2>6. \A t \in Spaces : \A c \in DOMAIN spaceCache'[t].nodes : Holds(spaceCache'[t].nodes[c], c)
        BY <2>2, <2>3, <2>5
    <2>7. ASSUME NEW n, NEW c, Holds(n, c)
          PROVE  /\ n.status = "synthesizing" => Busy(c)
                 /\ \A r \in Runs : n.task = r => HasTask(c, r)
        BY <2>7 DEF Busy, HasTask, BusyInCache
    <2> HIDE DEF Holds
    <2>8. ASSUME NEW c \in Cards, Busy(c)' PROVE Busy(c)
        BY <2>4, <2>6, <2>7, <2>8 DEF Busy, BusyInCache
    <2>9. ASSUME NEW c \in Cards, NEW r \in Runs, HasTask(c, r)' PROVE HasTask(c, r)
        BY <2>4, <2>6, <2>7, <2>9 DEF HasTask
    <2> QED BY <2>8, <2>9 DEF Calm
<1> QED BY <1>1, <1>2

\* A new card, and nodes that get another status.
LEMMA CalmAdd ==
    ASSUME BoardInv, NEW c \in Cards, NEW n, Add(c, n), UNCHANGED spaceCache
    PROVE  /\ Calm({c}) /\ nodes'[c] = n /\ c \in board'
           /\ c \notin BusyInCache' /\ c \notin Cached'
<1>1. /\ board' = board \cup {c} /\ nodes'[c] = n
      /\ \A d \in board \ {c} : nodes'[d] = nodes[d]
      /\ c \notin made
    BY DEF Add, Both, One, board
<1>2. c \notin Cached
    BY <1>1 DEF BoardInv, Places, Known
<1>3. BusyInCache \subseteq Cached
    BY DEF BusyInCache, Cached
<1>4. BusyInCache' = BusyInCache /\ Cached' = Cached
    BY DEF BusyInCache, Cached
<1> QED BY <1>1, <1>2, <1>3, <1>4, CalmBoard

LEMMA Restyling ==
    ASSUME NEW n \in Node, NEW st
    PROVE  /\ [n EXCEPT !.status = st].status = st /\ [n EXCEPT !.status = st].task = n.task
           /\ [n EXCEPT !.status = st, !.task = None].status = st
           /\ [n EXCEPT !.status = st, !.task = None].task = None
BY DEF Node

LEMMA CalmMapped ==
    ASSUME BoardInv, NEW S, NEW st \in Statuses,
           \/ nodes' = Mapped(S, LAMBDA n : [n EXCEPT !.status = st])
           \/ nodes' = Mapped(S, LAMBDA n : [n EXCEPT !.status = st, !.task = None]),
           UNCHANGED spaceCache
    PROVE  /\ Calm(S)
           /\ st # "synthesizing" => Calm({}) /\ \A c \in S : Busy(c)' => c \in BusyInCache
           /\ \A c \in Cards, r \in Runs : HasTask(c, r)' => HasTask(c, r)
<1>1. /\ board' = board
      /\ \A c \in board \ S : nodes'[c] = nodes[c]
      /\ \A c \in board \cap S : \/ nodes'[c] = [nodes[c] EXCEPT !.status = st]
                                 \/ nodes'[c] = [nodes[c] EXCEPT !.status = st, !.task = None]
    BY DEF Mapped, board
<1>2. \A c \in board : nodes[c] \in Node
    BY DEF BoardInv, Places
<1>3. \A c \in board \cap S : nodes'[c].status = st /\ nodes'[c].task \in {nodes[c].task, None}
    <2> SUFFICES ASSUME NEW c \in board, c \in S
                 PROVE  nodes'[c].status = st /\ nodes'[c].task \in {nodes[c].task, None}
        OBVIOUS
    <2>1. nodes[c] \in Node
        BY <1>2
    <2>2. CASE nodes'[c] = [nodes[c] EXCEPT !.status = st]
        BY <2>1, <2>2, Restyling
    <2>3. CASE nodes'[c] = [nodes[c] EXCEPT !.status = st, !.task = None]
        BY <2>1, <2>3, Restyling
    <2> QED BY <1>1, <2>2, <2>3
<1>4. Calm(S)
    BY <1>1, <1>3, CalmBoard
<1>5. st # "synthesizing" => Calm({})
    BY <1>1, <1>3, CalmBoard
<1>6. BusyInCache' = BusyInCache
    BY DEF BusyInCache
<1>7. None \notin Runs
    BY WorkspaceAssumption
<1>8. ASSUME NEW c \in Cards, NEW r \in Runs, HasTask(c, r)' PROVE HasTask(c, r)
    BY <1>1, <1>3, <1>7, <1>8 DEF HasTask
<1> QED BY <1>1, <1>3, <1>4, <1>6, <1>8, <1>5 DEF Busy

LEMMA CalmMore == ASSUME NEW S, Calm({}) PROVE Calm(S)
BY DEF Calm

-----------------------------------------------------------------------------
(* What users do to cards, and the two ways to cancel.                       *)

LEMMA CancelTaskBusy ==
    ASSUME AllInv, NEW c \in Cards, HandleCancelTask(c)
    PROVE  BusyInv'
<1> DEFINE rr == nodes[c].task
<1>1. /\ c \in board /\ rr # None
      /\ \/ runs' = runs /\ ~(rr \in Runs /\ Live(rr))
         \/ /\ rr \in Runs /\ Live(rr)
            /\ runs' = [runs EXCEPT ![rr] = [@ EXCEPT !.aborted = TRUE, !.listed = FALSE]]
      /\ nodes' = [nodes EXCEPT ![c] = [@ EXCEPT !.status = "active", !.task = None]]
      /\ UNCHANGED <<spaceCache, missed>>
    BY DEF HandleCancelTask, On, sceneVars, historyVars
<1>2. rr \in Runs => HasTask(c, rr)
    BY <1>1 DEF HasTask
<1> HIDE DEF rr
<1>3. rr \in Runs /\ Live(rr) => runs[rr].card = c /\ runs[rr].kind # "refine"
    BY <1>2 DEF AllInv, BusyInv, TasksOwned, IsTaskOf
<1>4. nodes[c] \in Node
    BY <1>1 DEF AllInv, BoardInv, Places
<1>5. /\ board' = board /\ \A d \in board \ {c} : nodes'[d] = nodes[d]
      /\ nodes'[c].status = "active" /\ nodes'[c].task = None
    BY <1>1, <1>4 DEF board, Node
<1>6. Calm({c})
    BY <1>1, <1>5, CalmBoard
<1>7. /\ \A x \in Runs : /\ runs'[x].phase = runs[x].phase /\ runs'[x].kind = runs[x].kind
                         /\ runs'[x].card = runs[x].card
                         /\ runs'[x] = runs[x] \/ runs'[x].aborted = TRUE
      /\ \A x \in Runs : ~(x = rr /\ Live(rr)) => runs'[x] = runs[x]
    <2>1. CASE runs' = runs /\ ~(rr \in Runs /\ Live(rr))
        BY <2>1
    <2>2. CASE /\ rr \in Runs /\ Live(rr)
               /\ runs' = [runs EXCEPT ![rr] = [@ EXCEPT !.aborted = TRUE, !.listed = FALSE]]
        <3>1. /\ runs'[rr] = [runs[rr] EXCEPT !.aborted = TRUE, !.listed = FALSE]
              /\ \A x \in Runs \ {rr} : runs'[x] = runs[x]
              /\ runs[rr] \in RunRecord
            BY <2>2 DEF AllInv, RunsOK
        <3>2. /\ runs'[rr].phase = runs[rr].phase /\ runs'[rr].kind = runs[rr].kind
              /\ runs'[rr].card = runs[rr].card /\ runs'[rr].aborted = TRUE
            BY <3>1 DEF RunRecord
        <3> QED BY <2>2, <3>1, <3>2
    <2> QED BY <1>1, <2>1, <2>2
<1>8. RunsLast
    BY <1>7 DEF RunsLast, Live, NoRun
<1>9. RefinesGoOn'
    BY <1>3, <1>7 DEF AllInv, BusyInv, RefinesGoOn
<1>10. ASSUME NEW d \in Cards \ {c}, NEW x \in Runs, Works(x, d) PROVE Works(x, d)'
    <2>1. runs'[x] = runs[x]
        BY <1>3, <1>7, <1>10 DEF Works
    <2> QED BY <2>1, <1>10 DEF Works, Live
<1>11. c \notin BusyInCache' /\ c \notin Cached'
    BY <1>1, Place DEF AllInv, BusyInCache, Cached
<1>12. ~Busy(c)' /\ \A x \in Runs : ~HasTask(c, x)'
    BY <1>5, <1>11, WorkspaceAssumption DEF Busy, HasTask, Cached
<1> QED BY <1>1, <1>6, <1>8, <1>9, <1>10, <1>12, CalmKeeps DEF AllInv

LEMMA CancelAllBusy ==
    ASSUME AllInv, CancelAllActive
    PROVE  BusyInv'
<1> DEFINE hit == {r \in Runs : Live(r) /\ runs[r].listed}
<1>1. /\ runs' = [r \in Runs |-> IF r \in hit THEN [runs[r] EXCEPT !.aborted = TRUE, !.listed = FALSE]
                                             ELSE runs[r]]
      /\ nodes' = Mapped(CancelledCards, LAMBDA n : [n EXCEPT !.status = "active", !.task = None])
      /\ missed' = missed \cup {c \in BusyInCache : \E r \in hit : Subject(r) = c}
      /\ UNCHANGED spaceCache
    BY DEF CancelAllActive, sceneVars
<1>2. /\ Calm({})
      /\ \A c \in CancelledCards : Busy(c)' => c \in BusyInCache
    BY <1>1, CalmMapped DEF AllInv, Statuses
<1>3. \A x \in Runs : /\ runs'[x].phase = runs[x].phase /\ runs'[x].kind = runs[x].kind
                      /\ runs'[x].card = runs[x].card
                      /\ x \notin hit => runs'[x] = runs[x]
    BY <1>1 DEF AllInv, RunsOK, RunRecord
<1>4. RunsLast
    <2>1. ASSUME NEW x \in Runs, runs[x] # NoRun PROVE runs'[x] # NoRun
        <3>1. CASE x \in hit
            BY <1>3, <3>1 DEF Live, NoRun
        <3>2. CASE x \notin hit
            BY <1>3, <2>1, <3>2
        <3> QED BY <3>1, <3>2
    <2> QED BY <2>1, <1>3 DEF RunsLast, Live
<1>5. RefinesGoOn'
    BY <1>3 DEF AllInv, BusyInv, RefinesGoOn
<1>6. ASSUME NEW c \in Cards, NEW x \in Runs, Works(x, c), Busy(c)'
      PROVE  Works(x, c)' \/ c \in missed'
    <2>1. CASE x \notin hit
        BY <1>3, <1>6, <2>1 DEF Works, Live
    <2>2. CASE x \in hit
        <3>1. c \in BusyInCache
            <4>1. Busy(c)
                BY <1>2, <1>6 DEF Calm
            <4>2. c \in CancelledCards \/ c \in BusyInCache
                BY <4>1 DEF Busy, CancelledCards
            <4> QED BY <4>2, <1>2, <1>6
        <3> QED BY <1>1, <1>6, <2>2, <3>1 DEF Works, Subject
    <2> QED BY <2>1, <2>2
<1> QED BY <1>1, <1>2, <1>4, <1>5, <1>6, CalmKeeps DEF AllInv

LEMMA UserStepBusy == AllInv /\ UserStep => BusyInv'
<1> SUFFICES ASSUME AllInv, UserStep PROVE BusyInv'
    OBVIOUS
<1> USE DEF sceneVars, synthVars, historyVars
<1>1. ASSUME Calm({}), UNCHANGED <<runs, missed>> PROVE BusyInv'
    BY <1>1, UserKeeps DEF AllInv
<1>2. ASSUME NEW c \in Cards, ActivateNode(c) PROVE BusyInv'
    <2>1. nodes[c] \in Node /\ c \in board
        BY <1>2 DEF ActivateNode, AllInv, BoardInv, Places
    <2>2. /\ board' = board /\ \A d \in board \ {c} : nodes'[d] = nodes[d]
          /\ nodes'[c] = [nodes[c] EXCEPT !.status = "active"]
        BY <1>2 DEF ActivateNode, board
    <2>3. nodes'[c].status = "active" /\ nodes'[c].task = nodes[c].task
        BY <2>1, <2>2, Restyling
    <2>4. Calm({})
        BY <1>2, <2>2, <2>3, CalmBoard DEF ActivateNode
    <2> QED BY <1>1, <1>2, <2>4 DEF ActivateNode
<1>3. ASSUME NEW S, CloseNodes(S) PROVE BusyInv'
    BY <1>1, <1>3, CalmFilter DEF CloseNodes
<1>4. ASSUME NEW S, DeleteCards(S) PROVE BusyInv'
    BY <1>1, <1>4, CalmDelete DEF DeleteCards, AllInv
<1>5. ASSUME NEW S, MinimizeNodes(S) PROVE BusyInv'
    <2>1. Calm({})
        BY <1>5, CalmMapped DEF MinimizeNodes, AllInv, Statuses
    <2> QED BY <1>1, <1>5, <2>1 DEF MinimizeNodes
<1>6. ASSUME NEW c \in Cards, NEW s \in Spaces, AddNode(c, s) PROVE BusyInv'
    <2>1. /\ Add(c, [space |-> s, status |-> "active", task |-> None])
          /\ UNCHANGED <<spaceCache, runs, missed>>
        BY <1>6 DEF AddNode
    <2>2. /\ Calm({c}) /\ c \in board' /\ c \notin BusyInCache' /\ c \notin Cached'
          /\ nodes'[c] = [space |-> s, status |-> "active", task |-> None]
        BY <2>1, CalmAdd DEF AllInv
    <2>3. ~Busy(c)' /\ \A x \in Runs : ~HasTask(c, x)'
        BY <2>2, WorkspaceAssumption DEF Busy, HasTask, Cached
    <2>4. RefinesGoOn'
        BY <2>1 DEF AllInv, BusyInv, RefinesGoOn
    <2> QED BY <2>1, <2>2, <2>3, <2>4, SameRuns, CalmKeeps DEF AllInv
<1>7. ASSUME NEW s \in Spaces, SwitchSpace(s) PROVE BusyInv'
    BY <1>1, <1>7, CalmSwitch DEF SwitchSpace, AllInv
<1>8. CASE \/ ToggleClearOnSwitch \/ CancelLinkMode
           \/ \E c \in Cards : StartLinkMode(c) \/ CompleteLinkMode(c)
           \/ \E e \in edges : RemoveEdge(e)
    <2>1. UNCHANGED <<nodes, spaceCache, runs, missed>>
        BY <1>8 DEF ToggleClearOnSwitch, CancelLinkMode, StartLinkMode, CompleteLinkMode, RemoveEdge
    <2> QED BY <1>1, <2>1, CalmNothing
<1> QED BY <1>2, <1>3, <1>4, <1>5, <1>6, <1>7, <1>8, CancelTaskBusy, CancelAllBusy
        DEF UserStep, CloseNode, CloseAllSpaceNodes, CleanupStuckNodes, DeleteCard, ClearAllCards,
            MinimizeNode, MinimizeAll

-----------------------------------------------------------------------------
(* How runs start and end.                                                   *)

\* The card of a run that starts is the only one that becomes busy, with the run.
LEMMA StartBusy ==
    ASSUME RunsOK, BusyInv, NEW r \in Runs, NEW k \in Kinds \ {"refine"}, NEW q \in Queries,
           NEW c \in Cards \cup {None}, NEW p \in {"sending", "running"},
           FreeRun(r), StartRun(r, k, q, c, p), UNCHANGED missed,
           NEW S \in SUBSET Cards, S \subseteq {c}, k # "chat" \/ S = {}, Calm(S),
           \A d \in S : \A x \in Runs : HasTask(d, x)' => x = r
    PROVE  BusyInv'
<1>1. /\ runs[r] = NoRun /\ \A x \in Runs \ {r} : runs'[x] = runs[x]
      /\ runs'[r] = [kind |-> k, query |-> q, card |-> c, phase |-> p,
                     aborted |-> FALSE, listed |-> k \notin {"search", "refine"}]
    BY DEF StartRun, FreeRun, RunsOK
<1>2. /\ runs'[r].kind = k /\ runs'[r].card = c /\ runs'[r].phase = p /\ runs'[r].aborted = FALSE
    BY <1>1
<1>3. runs'[r] # NoRun /\ Live(r)' /\ ~Live(r)
    BY <1>1, <1>2 DEF NoRun, Live
<1>4. RunsLast
    BY <1>1 DEF RunsLast, Live
<1>5. RefinesGoOn'
    BY <1>1, <1>2 DEF BusyInv, RefinesGoOn
<1>6. ASSUME NEW d \in Cards, NEW x \in Runs, Works(x, d) PROVE Works(x, d)'
    <2>1. x # r
        BY <1>3, <1>6 DEF Works
    <2> QED BY <1>1, <1>6, <2>1 DEF Works, Live
<1>7. ASSUME NEW d \in S
      PROVE  /\ Works(r, d)'
             /\ \A x \in Runs : HasTask(d, x)' => IsTaskOf(x, d)'
    <2>1. d = c /\ k # "chat" /\ k # "refine"
        BY <1>7
    <2> QED BY <1>2, <1>3, <1>7, <2>1 DEF Works, IsTaskOf
<1> QED BY <1>4, <1>5, <1>6, <1>7, CalmKeeps

LEMMA QueryStepBusy == AllInv /\ QueryStep => BusyInv'
<1> SUFFICES ASSUME AllInv, NEW r \in Runs, NEW q \in Queries,
                    \/ Chat(r, q)
                    \/ \E c \in Cards : \/ NewTask(r, q, c) \/ Reply(r, q, c)
                                        \/ Search(r, "search", q, c) \/ Search(r, "stream", q, c)
             PROVE  BusyInv'
    BY DEF QueryStep
<1> USE DEF sceneVars, historyVars
<1>1. CASE Chat(r, q)
    <2>1. /\ FreeRun(r) /\ StartRun(r, "chat", q, None, "running")
          /\ UNCHANGED missed /\ Calm({})
        BY <1>1, CalmNothing DEF Chat
    <2>2. "chat" \in Kinds \ {"refine"}
        BY DEF Kinds
    <2> QED BY <2>1, <2>2, StartBusy DEF AllInv
<1>2. ASSUME NEW c \in Cards, NEW t \in {r, None}, NewCard(c, t), UNCHANGED <<spaceCache, missed>>,
             NEW k \in {"task", "search", "stream"}, NEW p \in {"sending", "running"},
             FreeRun(r), StartRun(r, k, q, c, p)
      PROVE  BusyInv'
    <2>1. /\ Calm({c}) /\ c \notin Cached'
          /\ nodes'[c] = [space |-> activeSpaceId, status |-> "synthesizing", task |-> t]
        BY <1>2, CalmAdd DEF NewCard, AllInv
    <2>2. \A x \in Runs : HasTask(c, x)' => x = r
        BY <2>1, WorkspaceAssumption DEF HasTask, Cached
    <2>3. k \in Kinds \ {"refine"} /\ k # "chat"
        BY DEF Kinds
    <2> QED BY <1>2, <2>1, <2>2, <2>3, StartBusy DEF AllInv
<1>3. ASSUME NEW c \in Cards, NewTask(r, q, c) PROVE BusyInv'
    BY <1>2, <1>3 DEF NewTask
<1>4. ASSUME NEW c \in Cards, NEW k \in {"search", "stream"}, Search(r, k, q, c) PROVE BusyInv'
    BY <1>2, <1>4 DEF Search
<1>5. ASSUME NEW c \in Cards, Reply(r, q, c) PROVE BusyInv'
    <2>1. /\ FreeRun(r) /\ StartRun(r, "reply", q, c, "running") /\ c \in board
          /\ nodes' = [nodes EXCEPT ![c] = [@ EXCEPT !.status = "synthesizing", !.task = r]]
          /\ UNCHANGED <<spaceCache, missed>>
        BY <1>5 DEF Reply, On
    <2>2. nodes[c] \in Node
        BY <2>1 DEF AllInv, BoardInv, Places
    <2>3. /\ board' = board /\ \A d \in board \ {c} : nodes'[d] = nodes[d]
          /\ nodes'[c].task = r
        BY <2>1, <2>2 DEF board, Node
    <2>4. Calm({c})
        BY <2>1, <2>3, CalmBoard
    <2>5. c \notin Cached'
        BY <2>1, Place DEF AllInv, Cached
    <2>6. \A x \in Runs : HasTask(c, x)' => x = r
        BY <2>3, <2>5 DEF HasTask, Cached
    <2>7. "reply" \in Kinds \ {"refine"}
        BY DEF Kinds
    <2> QED BY <2>1, <2>4, <2>6, <2>7, StartBusy DEF AllInv
<1> QED BY <1>1, <1>3, <1>4, <1>5

(* A run that ends left its card alone only if it was cancelled; otherwise    *)
(* its card is not busy any more, or is missed in a cache.                   *)
LEMMA EndBusy ==
    ASSUME RunsOK, BusyInv, NEW r \in Runs, Live(r), Calm({}), missed \subseteq missed',
           \/ runs' = Over(r)
           \/ \E x \in Runs : /\ FreeRun(x)
                              /\ runs' = [Over(r) EXCEPT ![x] =
                                    [NoRun EXCEPT !.kind = "refine", !.card = Subject(r), !.phase = "waiting"]],
           \A c \in Cards : Works(r, c) /\ Busy(c)' => c \in missed'
    PROVE  BusyInv'
<1> DEFINE Ends == /\ runs'[r].kind = "none" /\ runs'[r].phase = "over"
                   /\ \A x \in Runs \ {r} :
                         \/ runs'[x] = runs[x]
                         \/ runs[x] = NoRun /\ ~runs'[x].aborted /\ ~runs'[x].listed
<1>1. /\ Over(r) \in [Runs -> RunRecord]
      /\ Over(r)[r].kind = "none" /\ Over(r)[r].phase = "over"
      /\ \A x \in Runs \ {r} : Over(r)[x] = runs[x]
    BY DEF RunsOK, RunRecord, Phases, Over, NoRun
<1>2. Ends
    <2>1. CASE runs' = Over(r)
        BY <2>1, <1>1
    <2>2. ASSUME NEW x \in Runs, FreeRun(x),
                 runs' = [Over(r) EXCEPT ![x] =
                    [NoRun EXCEPT !.kind = "refine", !.card = Subject(r), !.phase = "waiting"]]
          PROVE  Ends
        <3>1. x # r /\ runs[x] = NoRun
            BY <2>2 DEF FreeRun, Live, NoRun
        <3>2. ~runs'[x].aborted /\ ~runs'[x].listed
            BY <2>2, <1>1 DEF NoRun
        <3>3. \A y \in Runs \ {x} : runs'[y] = Over(r)[y]
            BY <2>2, <1>1
        <3> QED BY <3>1, <3>2, <3>3, <1>1
    <2> QED BY <2>1, <2>2
<1>3. ~Live(r)' /\ runs'[r] # NoRun
    BY <1>2 DEF Live, NoRun
<1>4. RunsLast
    BY <1>2, <1>3 DEF RunsLast, Live
<1>5. RefinesGoOn'
    BY <1>2 DEF BusyInv, RefinesGoOn
<1>6. ASSUME NEW c \in Cards, NEW x \in Runs, Works(x, c), Busy(c)'
      PROVE  Works(x, c)' \/ c \in missed'
    <2>1. CASE x = r
        BY <1>6, <2>1
    <2>2. CASE x # r
        <3>1. runs'[x] = runs[x]
            BY <1>2, <1>6, <2>2 DEF Works, Live, NoRun
        <3> QED BY <1>6, <3>1 DEF Works, Live
    <2> QED BY <2>1, <2>2
<1> QED BY <1>4, <1>5, <1>6, CalmKeeps

LEMMA RunStepBusy == AllInv /\ RunStep => BusyInv'
<1> SUFFICES ASSUME AllInv, NEW r \in Runs,
                    \/ TaskSucceeds(r) \/ TaskFails(r) \/ TaskThrows(r) \/ AbortSeen(r) \/ ChatEnds(r)
                    \/ StreamSubmitted(r) \/ StreamAnsweredEarly(r) \/ SearchSucceeds(r) \/ SearchFails(r)
                    \/ RefineStarts(r) \/ RefineEnds(r)
             PROVE  BusyInv'
    BY DEF RunStep
<1> USE DEF sceneVars, historyVars
<1> DEFINE Ends == \/ runs' = Over(r)
                   \/ \E x \in Runs : /\ FreeRun(x)
                                      /\ runs' = [Over(r) EXCEPT ![x] =
                                            [NoRun EXCEPT !.kind = "refine", !.card = Subject(r), !.phase = "waiting"]]
<1>1. ASSUME Live(r), Ends, Misses(r), UNCHANGED spaceCache, NEW st \in Statuses \ {"synthesizing"},
             \/ nodes' = Mapped({Subject(r)}, LAMBDA n : [n EXCEPT !.status = st])
             \/ nodes' = Mapped({Subject(r)}, LAMBDA n : [n EXCEPT !.status = st, !.task = None])
      PROVE  BusyInv'
    <2>1. /\ Calm({})
          /\ \A c \in {Subject(r)} : Busy(c)' => c \in BusyInCache
        BY <1>1, CalmMapped DEF AllInv
    <2>2. \A c \in Cards : Works(r, c) /\ Busy(c)' => c \in missed'
        BY <1>1, <2>1 DEF Works, Subject, Misses
    <2>3. missed \subseteq missed'
        BY <1>1 DEF Misses
    <2> QED BY <1>1, <2>1, <2>2, <2>3, EndBusy DEF AllInv
<1>2. ASSUME Live(r), Ends, RemoveCard(r), Misses(r), UNCHANGED spaceCache PROVE BusyInv'
    <2>1. Calm({})
        BY <1>2, CalmFilter DEF RemoveCard
    <2>2. Subject(r) \notin board'
        BY <1>2 DEF RemoveCard, Filter, Only, board
    <2>3. BusyInCache' = BusyInCache
        BY <1>2 DEF BusyInCache
    <2>4. \A c \in Cards : Works(r, c) /\ Busy(c)' => c \in missed'
        BY <1>2, <2>2, <2>3 DEF Works, Busy, Subject, Misses
    <2>5. missed \subseteq missed'
        BY <1>2 DEF Misses
    <2> QED BY <1>2, <2>1, <2>4, <2>5, EndBusy DEF AllInv
<1>3. CASE TaskSucceeds(r) \/ TaskFails(r) \/ SearchSucceeds(r)
    <2>1. /\ Live(r) /\ Ends /\ Misses(r) /\ UNCHANGED spaceCache
          /\ \E st \in Statuses \ {"synthesizing"} : UpdateCard(r, st)
        BY <1>3 DEF TaskSucceeds, TaskFails, SearchSucceeds, Running, Live, Statuses
    <2> QED BY <1>1, <2>1 DEF UpdateCard
<1>4. CASE TaskThrows(r) \/ SearchFails(r)
    BY <1>2, <1>4 DEF TaskThrows, SearchFails, Running, Live
<1>5. CASE AbortSeen(r) \/ ChatEnds(r)
    <2>1. /\ Live(r) /\ runs' = Over(r) /\ UNCHANGED <<nodes, spaceCache, missed>>
          /\ \A c \in Cards : ~Works(r, c)
        BY <1>5 DEF AbortSeen, ChatEnds, Running, Live, Works
    <2> QED BY <2>1, CalmNothing, EndBusy DEF AllInv
<1>6. ASSUME Live(r), NEW p \in {"running", "answered"}, runs' = [runs EXCEPT ![r].phase = p]
      PROVE  /\ RunsLast /\ RefinesGoOn'
             /\ \A x \in Runs, c \in Cards : Works(x, c) => Works(x, c)'
    <2>1. /\ \A x \in Runs \ {r} : runs'[x] = runs[x]
          /\ runs'[r].phase = p
          /\ runs'[r].kind = runs[r].kind /\ runs'[r].card = runs[r].card
          /\ runs'[r].aborted = runs[r].aborted /\ runs'[r].listed = runs[r].listed
        BY <1>6 DEF AllInv, RunsOK, RunRecord
    <2>2. Live(r)' /\ runs'[r] # NoRun
        BY <2>1 DEF Live, NoRun
    <2>3. RunsLast
        BY <1>6, <2>1, <2>2 DEF RunsLast, Live
    <2>4. RefinesGoOn'
        BY <2>1 DEF AllInv, BusyInv, RefinesGoOn
    <2>5. \A x \in Runs, c \in Cards : Works(x, c) => Works(x, c)'
        BY <2>1, <2>2 DEF Works, Live
    <2> QED BY <2>3, <2>4, <2>5
<1>7. CASE StreamSubmitted(r) \/ StreamAnsweredEarly(r)
    <2>1. /\ Live(r) /\ \E p \in {"running", "answered"} : runs' = [runs EXCEPT ![r].phase = p]
          /\ UNCHANGED <<nodes, spaceCache, missed>>
        BY <1>7 DEF StreamSubmitted, StreamAnsweredEarly, Live
    <2> QED BY <1>6, <2>1, CalmNothing, CalmKeeps DEF AllInv
<1>8. CASE RefineStarts(r)
    <2>1. /\ Live(r) /\ runs[r].kind = "refine" /\ runs' = [runs EXCEPT ![r].phase = "running"]
          /\ nodes' = Mapped({Subject(r)}, LAMBDA n : [n EXCEPT !.status = "synthesizing"])
          /\ UNCHANGED <<spaceCache, missed>>
        BY <1>8 DEF RefineStarts, Live
    <2>2. /\ RunsLast /\ RefinesGoOn'
          /\ \A x \in Runs, c \in Cards : Works(x, c) => Works(x, c)'
        BY <1>6, <2>1
    <2>3. /\ Calm({Subject(r)})
          /\ \A c \in Cards, x \in Runs : HasTask(c, x)' => HasTask(c, x)
        BY <2>1, CalmMapped DEF AllInv, Statuses
    <2>4. PICK c \in Cards : c = Subject(r)
        BY <2>1 DEF AllInv, Marks, RunCards, Subject
    <2>5. Works(r, c)'
        BY <2>1, <2>2, <2>4 DEF AllInv, BusyInv, RefinesGoOn, Works, Subject
    <2>6. \A x \in Runs : HasTask(c, x)' => IsTaskOf(x, c)'
        BY <2>2, <2>3 DEF AllInv, BusyInv, TasksOwned, IsTaskOf, RunsLast
    <2>7. Calm({c})
        BY <2>3, <2>4
    <2> QED BY <2>1, <2>2, <2>5, <2>6, <2>7, CalmKeeps DEF AllInv
<1>9. CASE RefineEnds(r)
    <2>1. /\ Live(r) /\ Ends /\ Misses(r) /\ UNCHANGED spaceCache
          /\ nodes' = Mapped({Subject(r)}, LAMBDA n : [n EXCEPT !.status = "active"])
          /\ "active" \in Statuses \ {"synthesizing"}
        BY <1>9 DEF RefineEnds, Running, Live, Statuses
    <2> QED BY <1>1, <2>1
<1> QED BY <1>3, <1>4, <1>5, <1>7, <1>8, <1>9

-----------------------------------------------------------------------------
(* The theorem.                                                             *)

LEMMA InitBusy == Init => BusyInv
<1> SUFFICES ASSUME Init PROVE BusyInv
    OBVIOUS
<1>1. /\ board = {} /\ \A s \in Spaces : DOMAIN spaceCache[s].nodes = {}
      /\ \A r \in Runs : runs[r].kind = "none"
    BY DEF Init, NoNodes, Empty, NoRun, board
<1> QED BY <1>1 DEF BusyInv, BusyWorked, Busy, BusyInCache, TasksOwned, HasTask, RefinesGoOn

LEMMA BusyStep == IInv /\ BoardInv /\ Marks /\ BusyInv /\ [Next]_vars => BusyInv'
<1> SUFFICES ASSUME IInv, BoardInv, Marks, BusyInv, [Next]_vars PROVE BusyInv'
    OBVIOUS
<1>1. AllInv
    BY DEF AllInv, IInv
<1>2. CASE Next
    BY <1>1, <1>2, UserStepBusy, QueryStepBusy, RunStepBusy DEF Next
<1>3. CASE UNCHANGED vars
    BY <1>1, <1>3, CalmNothing, UserKeeps DEF vars, sceneVars, synthVars, historyVars, AllInv
<1> QED BY <1>2, <1>3

(* No card of the board stays busy forever: one that shows as being           *)
(* synthesized has a run that works on it, unless it was in a cache when its *)
(* run ended (the updaters of useSynthesis.ts map over the board only).      *)
THEOREM BusyCardsHaveRuns == Spec => []BusyCardHasRun
<1>1. Init => BusyInv
    BY InitBusy
<1>2. IInv /\ BoardInv /\ Marks /\ BusyInv /\ [Next]_vars => BusyInv'
    BY BusyStep
<1>3. BoardInv /\ BusyInv => BusyCardHasRun
    <2> SUFFICES ASSUME BoardInv, BusyInv, NEW c \in board \ missed, nodes[c].status = "synthesizing"
                 PROVE  \E r \in Runs : Live(r) /\ Subject(r) = c
        BY DEF BusyCardHasRun
    <2>1. c \in Cards
        BY DEF BoardInv, Places, Known
    <2> QED BY <2>1 DEF BusyInv, BusyWorked, Busy, Works, Subject
<1> QED BY <1>1, <1>2, <1>3, BoardInvariance, PTL DEF Spec
=============================================================================
