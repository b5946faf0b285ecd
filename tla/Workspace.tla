------------------------------ MODULE Workspace ------------------------------
(***************************************************************************)
(* The desktop's workspace: the cards of the spaces (stores/nodesStore.ts)   *)
(* and the runs that fill them (hooks/useSynthesis.ts), with the edge effect *)
(* of hooks/useSynthesisNodesFromStore.ts.  A run works in the background    *)
(* while its user closes, minimises, links and cancels cards, switches       *)
(* spaces and starts more runs; both sides share the store, one in-flight    *)
(* query and one counter of running syntheses.                               *)
(*                                                                          *)
(* JavaScript handlers run to their next await, so each handler, and each    *)
(* piece of one between two awaits, is one step.  The events of one run are  *)
(* those of AgentRun, of which only the last changes what is modelled here.  *)
(* Contents and positions are left out, a card's status is not.              *)
(***************************************************************************)
EXTENDS Naturals, FiniteSets

CONSTANTS
    Cards,          \* node ids
    Spaces,         \* the configured spaces
    HomeSpace,      \* activeSpaceId at start
    Queries,        \* what users ask
    Runs,           \* bound: the runs of a session, by id
    Limit,          \* settings.concurrentSynthesis
    MaxNodes,       \* settings.maxNodes
    MaxLinks,       \* bound: edges on the board when a link is drawn
    None

ASSUME WorkspaceAssumption ==
    /\ HomeSpace \in Spaces /\ None \notin Cards \cup Queries \cup Runs
    /\ IsFiniteSet(Runs)
    /\ Limit \in Nat \ {0} /\ MaxNodes \in Nat /\ MaxLinks \in Nat

VARIABLES
    nodes,          \* nodes: from the ids in the store to their nodes
    spaceCache,     \* spaceCache: per space, the nodes and edges taken away
    edges,          \* edges: sets of two ids
    linkMode,       \* linkMode: the id a link starts from
    activeSpaceId,
    clearOnSwitch,  \* settings.clearOnSwitch
    runs,           \* the calls of the query handlers
    activeSynthCount, isLoading,
    queryInFlight,  \* queryInFlightRef
    cardGeneratedFor, \* cardGeneratedForRef
    made,           \* history: the ids that are in use
    gone,           \* history: cards a user closed or a run removed, and those
                    \* of a cache that was overwritten
    links,          \* history: the links a user drew between cards of one space
                    \* and did not remove, as long as no end is gone
    overrun,        \* history: everything was cancelled while a run held a slot
    missed          \* history: cards that were busy in a cache when their run ended

sceneVars == <<spaceCache, linkMode, activeSpaceId, clearOnSwitch>>
synthVars == <<runs, activeSynthCount, isLoading, queryInFlight, cardGeneratedFor>>
historyVars == <<made, gone, links, overrun, missed>>
vars == <<nodes, edges, sceneVars, synthVars, historyVars>>

Statuses == {"active", "synthesizing", "minimized"}
\* task: the run whose task the card shows as running; None without a task, or
\* with one shown as completed, failed or cancelled: nothing here tells these apart.
Node == [space : Spaces, status : Statuses, task : Runs \cup {None}]
\* handleQuery without and with a target node, handleSearch without and with
\* streamResponses, handleOsQuery, and the refinement autoRefine adds.
Kinds == {"task", "reply", "search", "stream", "chat", "refine"}

NoRun == [kind |-> "none", query |-> None, card |-> None, phase |-> "idle",
          aborted |-> FALSE, listed |-> FALSE]
NoNodes == [c \in {} |-> None]
Empty == [nodes |-> NoNodes, edges |-> {}]

board == DOMAIN nodes
Live(r) == runs[r].phase \in {"waiting", "sending", "running", "answered"}
\* The runs that took one of the Limit slots and have not given it back.
Holders == {r \in Runs : Live(r) /\ runs[r].kind \in {"task", "search", "stream"}}
Cached == UNION {DOMAIN spaceCache[s].nodes : s \in Spaces}
Known == board \cup Cached
BusyInCache == UNION {{c \in DOMAIN spaceCache[s].nodes :
                           spaceCache[s].nodes[c].status = "synthesizing"} : s \in Spaces}
On(s) == {c \in board : nodes[c].space = s}

-----------------------------------------------------------------------------
(* The store's operations on cards (stores/nodesStore.ts).                   *)

\* f on the ids of S, and the union of two collections of nodes.
Only(f, S) == [c \in DOMAIN f \cap S |-> f[c]]
Both(f, g) == [c \in DOMAIN f \cup DOMAIN g |-> IF c \in DOMAIN f THEN f[c] ELSE g[c]]
One(c, n) == [x \in {c} |-> n]
\* nodes.map over the ids of S.
Mapped(S, F(_)) == [c \in board |-> IF c \in S THEN F(nodes[c]) ELSE nodes[c]]

\* The effect that drops the edges whose ends are not both in the store.
CleanEdges(es, ids) == {e \in es : e \subseteq ids}

Add(c, n) ==
    /\ c \notin made /\ made' = made \cup {c}
    /\ nodes' = Both(One(c, n), nodes)
    /\ edges' = CleanEdges(edges, board \cup {c})

Filter(S) ==
    /\ nodes' = Only(nodes, board \ S)
    /\ edges' = CleanEdges(edges, board \ S)
    /\ gone' = gone \cup (S \cap board)
    /\ links' = {e \in links : e \cap S \cap board = {}}
    /\ UNCHANGED made

ActivateNode(c) ==
    /\ c \in board
    /\ nodes' = [nodes EXCEPT ![c].status = "active"]
    /\ UNCHANGED <<edges, sceneVars, synthVars, historyVars>>

CloseNodes(S) ==
    /\ S # {}
    /\ Filter(S)
    /\ UNCHANGED <<sceneVars, synthVars, overrun, missed>>

CloseNode(c) == c \in On(activeSpaceId) /\ CloseNodes({c})
CloseAllSpaceNodes == CloseNodes(On(activeSpaceId))

(* The settings page deletes one card of a conversation, or every card, with  *)
(* its tasks.  It looks at the board only: a cached card is not deleted, it   *)
(* comes back without its task, whose run goes on.                           *)
TasksDeleted(S) ==
    spaceCache' = [s \in Spaces |-> [nodes |-> [c \in DOMAIN spaceCache[s].nodes |->
                        IF c \in S THEN [spaceCache[s].nodes[c] EXCEPT !.task = None]
                                   ELSE spaceCache[s].nodes[c]],
                     edges |-> spaceCache[s].edges]]

DeleteCards(S) ==
    /\ Filter(S) /\ TasksDeleted(S)
    /\ UNCHANGED <<linkMode, activeSpaceId, clearOnSwitch, synthVars, overrun, missed>>

DeleteCard(c) == c \in Known /\ DeleteCards({c})
ClearAllCards == DeleteCards(Cards)

(* cleanupStuckNodes, a button of the settings: synthesizing cards that saw   *)
(* no update for two minutes, which any of them may be, are removed.         *)
CleanupStuckNodes ==
    \E S \in SUBSET {c \in board : nodes[c].status = "synthesizing"} : CloseNodes(S)

\* One card, or every visible card of the space (App.minimizeAll).
MinimizeNodes(S) ==
    /\ \E c \in S : nodes[c].status # "minimized"
    /\ nodes' = Mapped(S, LAMBDA n : [n EXCEPT !.status = "minimized"])
    /\ UNCHANGED <<edges, sceneVars, synthVars, historyVars>>

MinimizeNode(c) == c \in On(activeSpaceId) /\ MinimizeNodes({c})
MinimizeAll == MinimizeNodes(On(activeSpaceId))

\* spawnWidget, and addNode of a dropped file: it was dropped on space s, and a
\* text file is read before its card appears.
AddNode(c, s) ==
    /\ Add(c, [space |-> s, status |-> "active", task |-> None])
    /\ UNCHANGED <<sceneVars, synthVars, gone, links, overrun, missed>>

-----------------------------------------------------------------------------
(* Spaces.  With clearOnSwitch the nodes and edges of the space left go to    *)
(* its cache, as they are, and those of the space entered come back.         *)

Snapshot(S) == [nodes |-> Only(nodes, S), edges |-> {e \in edges : e \cap S # {}}]

\* Mutant of Restored: the cards that come back replace those of the board.
RestoredAlone(back, rest) == IF back = NoNodes THEN rest ELSE back
Restored(back, rest) == Both(back, rest)

\* Mutant of Emptied: the cache keeps what it gave back.
EmptiedNever(cache, s) == cache
Emptied(cache, s) == [cache EXCEPT ![s] = Empty]

SwitchSpace(s) ==
    LET leaving == On(activeSpaceId)
        left == IF leaving = {} THEN spaceCache
                ELSE [spaceCache EXCEPT ![activeSpaceId] = Snapshot(leaving)]
        back == left[s]
        kept == {e \in edges : e \cap leaving = {}}
        overwritten == IF clearOnSwitch /\ leaving # {}
                       THEN DOMAIN spaceCache[activeSpaceId].nodes ELSE {}
    IN  /\ IF clearOnSwitch
           THEN /\ nodes' = Restored(back.nodes, Only(nodes, board \ leaving))
                /\ edges' = CleanEdges(kept \cup back.edges, DOMAIN nodes')
                /\ spaceCache' = Emptied(left, s)
           ELSE UNCHANGED <<nodes, edges, spaceCache>>
        /\ activeSpaceId' = s
        /\ gone' = gone \cup overwritten
        /\ links' = {e \in links : e \cap overwritten = {}}
        /\ UNCHANGED <<linkMode, clearOnSwitch, synthVars, made, overrun, missed>>

ToggleClearOnSwitch ==
    /\ clearOnSwitch' = ~clearOnSwitch
    /\ UNCHANGED <<nodes, edges, spaceCache, linkMode, activeSpaceId, synthVars, historyVars>>

-----------------------------------------------------------------------------
(* Links.  linkMode survives a switch of space and the end of its card.      *)

StartLinkMode(c) ==
    /\ MaxLinks > 0 /\ c \in On(activeSpaceId)
    /\ linkMode' = c
    /\ UNCHANGED <<nodes, edges, spaceCache, activeSpaceId, clearOnSwitch, synthVars, historyVars>>

CancelLinkMode ==
    /\ linkMode # None
    /\ linkMode' = None
    /\ UNCHANGED <<nodes, edges, spaceCache, activeSpaceId, clearOnSwitch, synthVars, historyVars>>

CompleteLinkMode(c) ==
    /\ linkMode # None /\ c \in On(activeSpaceId)
    /\ linkMode' = None
    /\ IF linkMode = c THEN UNCHANGED <<edges, links>>
       ELSE /\ Cardinality(edges \cup {{linkMode, c}}) <= MaxLinks
            /\ edges' = edges \cup {{linkMode, c}}
            /\ links' = links \cup {e \in {{linkMode, c}} : e \subseteq On(activeSpaceId)}
    /\ UNCHANGED <<nodes, spaceCache, activeSpaceId, clearOnSwitch, synthVars,
                   made, gone, overrun, missed>>

\* Only an edge whose two ends are drawn can be pointed at.
RemoveEdge(e) ==
    /\ e \in edges /\ e \subseteq On(activeSpaceId)
    /\ edges' = edges \ {e}
    /\ links' = links \ {e}
    /\ UNCHANGED <<nodes, sceneVars, synthVars, made, gone, overrun, missed>>

-----------------------------------------------------------------------------
(* Starting a run (hooks/useSynthesis.ts).                                   *)

FreeRun(r) == runs[r] = NoRun
StartRun(r, k, q, c, p) ==
    runs' = [runs EXCEPT ![r] = [kind |-> k, query |-> q, card |-> c, phase |-> p,
                                 aborted |-> FALSE, listed |-> k \notin {"search", "refine"}]]

\* The node of a new run: on the board, active, being synthesized.
NewCard(c, t) ==
    Add(c, [space |-> activeSpaceId, status |-> "synthesizing", task |-> t])

TakeSlot == activeSynthCount < Limit /\ activeSynthCount' = activeSynthCount + 1

NewTask(r, q, c) ==
    /\ FreeRun(r) /\ queryInFlight # q
    /\ TakeSlot
    /\ queryInFlight' = q
    /\ StartRun(r, "task", q, c, "running")
    /\ NewCard(c, r)
    /\ isLoading' = TRUE
    /\ UNCHANGED <<sceneVars, cardGeneratedFor, gone, links, overrun, missed>>

\* A reply to a card takes no slot and is not limited.
Reply(r, q, c) ==
    /\ FreeRun(r) /\ queryInFlight # q /\ c \in On(activeSpaceId)
    /\ queryInFlight' = q
    /\ StartRun(r, "reply", q, c, "running")
    /\ nodes' = [nodes EXCEPT ![c] = [@ EXCEPT !.status = "synthesizing", !.task = r]]
    /\ isLoading' = TRUE
    /\ UNCHANGED <<edges, sceneVars, activeSynthCount, cardGeneratedFor, historyVars>>

(* handleSearch, when agentMode is off.  The slot is taken before the cards   *)
(* are counted and given back at once when there are too many.               *)
Search(r, k, q, c) ==
    /\ FreeRun(r)
    /\ Cardinality({x \in On(activeSpaceId) : nodes[x].status # "minimized"}) < MaxNodes
    /\ TakeSlot
    /\ StartRun(r, k, q, c, IF k = "stream" THEN "sending" ELSE "running")
    /\ NewCard(c, None)
    /\ isLoading' = TRUE
    /\ UNCHANGED <<sceneVars, queryInFlight, cardGeneratedFor, gone, links, overrun, missed>>

Chat(r, q) ==
    /\ FreeRun(r)
    /\ StartRun(r, "chat", q, None, "running")
    /\ isLoading' = TRUE
    /\ UNCHANGED <<nodes, edges, sceneVars, activeSynthCount, queryInFlight, cardGeneratedFor, historyVars>>

-----------------------------------------------------------------------------
(* How runs end.  A run whose card is not on the board changes no card: the   *)
(* updaters map over nodes, where it is not.                                 *)

Subject(r) == runs[r].card
Running(r, kinds) == runs[r].kind \in kinds /\ runs[r].phase = "running"
Over(r) == [runs EXCEPT ![r] = [NoRun EXCEPT !.phase = "over"]]
Misses(r) == missed' = missed \cup ({Subject(r)} \cap BusyInCache)

UpdateCard(r, status) ==
    nodes' = Mapped({Subject(r)}, LAMBDA n : [n EXCEPT !.status = status, !.task = None])

\* The catch clauses: the card of a run that threw is filtered out.
RemoveCard(r) == Filter({Subject(r)})
KeepCards == UNCHANGED <<edges, made, gone, links>>

\* Mutant of FreeSlot: a slot is given back only while the spinner is on.
FreeSlotIfLoading(running) ==
    /\ activeSynthCount' = IF running /\ activeSynthCount > 0
                            THEN activeSynthCount - 1 ELSE activeSynthCount
    /\ isLoading' = (running /\ activeSynthCount > 1)
FreeSlot(running) ==
    /\ activeSynthCount' = IF activeSynthCount = 0 THEN 0 ELSE activeSynthCount - 1
    /\ isLoading' = (running /\ activeSynthCount > 1)

\* Mutant of Finally: a reply does not clear the query in flight.
FinallyTask(r) ==
    /\ queryInFlight' = IF runs[r].kind = "task" THEN None ELSE queryInFlight
    /\ CASE runs[r].kind \in {"task", "search", "stream"} -> FreeSlot(isLoading)
         [] OTHER -> isLoading' = FALSE /\ UNCHANGED activeSynthCount

(* The finally clauses.  A run that took a slot gives it back, and the last   *)
(* one ends the spinner; a reply and a chat message end it whoever runs.     *)
Finally(r) ==
    /\ queryInFlight' = IF runs[r].kind \in {"task", "reply"} THEN None ELSE queryInFlight
    /\ CASE runs[r].kind \in {"task", "search", "stream"} -> FreeSlot(isLoading)
         [] OTHER -> isLoading' = FALSE /\ UNCHANGED activeSynthCount

(* The answer of the agent: a card and the completion.  The first generated   *)
(* card of a node makes it active, a later one is dropped and only ends its  *)
(* synthesis.  With autoRefine a second pass over it is due in two seconds.  *)
TaskSucceeds(r) ==
    LET c == Subject(r)
        again == c \in cardGeneratedFor /\ c \in board /\ nodes[c].status = "minimized"
    IN  /\ Running(r, {"task", "reply"}) /\ ~runs[r].aborted
        /\ UpdateCard(r, IF again THEN "minimized" ELSE "active")
        /\ cardGeneratedFor' = cardGeneratedFor \cup {c}
        /\ \/ runs' = Over(r)
           \/ /\ c \notin cardGeneratedFor
              /\ \E x \in Runs :
                    /\ FreeRun(x)
                    /\ runs' = [Over(r) EXCEPT ![x] = [NoRun EXCEPT !.kind = "refine",
                                                        !.card = c, !.phase = "waiting"]]
        /\ Finally(r) /\ KeepCards /\ Misses(r)
        /\ UNCHANGED <<sceneVars, overrun>>

TaskFails(r) ==
    /\ Running(r, {"task", "reply"}) /\ ~runs[r].aborted
    /\ UpdateCard(r, "active")
    /\ runs' = Over(r)
    /\ Finally(r) /\ KeepCards /\ Misses(r)
    /\ UNCHANGED <<sceneVars, cardGeneratedFor, overrun>>

TaskThrows(r) ==
    /\ Running(r, {"task", "reply"}) /\ ~runs[r].aborted
    /\ RemoveCard(r)
    /\ runs' = Over(r)
    /\ Finally(r) /\ Misses(r)
    /\ UNCHANGED <<sceneVars, cardGeneratedFor, overrun>>

\* An aborted run notices at the kernel's next event and leaves its card alone.
AbortSeen(r) ==
    /\ Running(r, {"task", "reply", "chat"}) /\ runs[r].aborted
    /\ runs' = Over(r)
    /\ Finally(r) /\ KeepCards
    /\ UNCHANGED <<nodes, sceneVars, cardGeneratedFor, overrun, missed>>

ChatEnds(r) ==
    /\ Running(r, {"chat"}) /\ ~runs[r].aborted
    /\ runs' = Over(r)
    /\ Finally(r) /\ KeepCards
    /\ UNCHANGED <<nodes, sceneVars, cardGeneratedFor, overrun, missed>>

\* The reply to the submission of a streamed search.
StreamSubmitted(r) ==
    /\ runs[r].kind = "stream" /\ runs[r].phase = "sending"
    /\ runs' = [runs EXCEPT ![r].phase = "running"]
    /\ UNCHANGED <<nodes, edges, sceneVars, activeSynthCount, isLoading, queryInFlight, cardGeneratedFor,
                   historyVars>>

(* The kernel's card.  Before the reply to the submission it only marks the   *)
(* generator finished, whose loop is then never entered.                     *)
StreamAnsweredEarly(r) ==
    /\ runs[r].kind = "stream" /\ runs[r].phase = "sending"
    /\ runs' = [runs EXCEPT ![r].phase = "answered"]
    /\ UNCHANGED <<nodes, edges, sceneVars, activeSynthCount, isLoading, queryInFlight, cardGeneratedFor,
                   historyVars>>

SearchSucceeds(r) ==
    /\ Running(r, {"search", "stream"}) /\ ~runs[r].aborted
    /\ UpdateCard(r, "active")
    /\ runs' = Over(r)
    /\ Finally(r) /\ KeepCards /\ Misses(r)
    /\ UNCHANGED <<sceneVars, cardGeneratedFor, overrun>>

\* An error, an answer that came too early, or an aborted stream: "no valid object".
SearchFails(r) ==
    /\ runs[r].kind \in {"search", "stream"} /\ Live(r)
    /\ RemoveCard(r)
    /\ runs' = Over(r)
    /\ Finally(r) /\ Misses(r)
    /\ UNCHANGED <<sceneVars, cardGeneratedFor, overrun>>

\* autoRefine: the card is synthesizing again, of no task and under no count.
RefineStarts(r) ==
    /\ runs[r].kind = "refine" /\ runs[r].phase = "waiting"
    /\ runs' = [runs EXCEPT ![r].phase = "running"]
    /\ nodes' = Mapped({Subject(r)}, LAMBDA n : [n EXCEPT !.status = "synthesizing"])
    /\ UNCHANGED <<edges, sceneVars, activeSynthCount, isLoading, queryInFlight,
                   cardGeneratedFor, historyVars>>

RefineEnds(r) ==
    /\ Running(r, {"refine"})
    /\ runs' = Over(r)
    /\ nodes' = Mapped({Subject(r)}, LAMBDA n : [n EXCEPT !.status = "active"])
    /\ Misses(r)
    /\ UNCHANGED <<edges, sceneVars, activeSynthCount, isLoading, queryInFlight,
                   cardGeneratedFor, made, gone, links, overrun>>

-----------------------------------------------------------------------------
(* Cancelling.                                                              *)

\* The button of a card whose task is shown as running.
HandleCancelTask(c) ==
    /\ c \in On(activeSpaceId) /\ nodes[c].task # None
    /\ LET r == nodes[c].task
       IN  runs' = IF r \in Runs /\ Live(r)
                   THEN [runs EXCEPT ![r] = [@ EXCEPT !.aborted = TRUE, !.listed = FALSE]] ELSE runs
    /\ nodes' = [nodes EXCEPT ![c] = [@ EXCEPT !.status = "active", !.task = None]]
    /\ UNCHANGED <<edges, sceneVars, activeSynthCount, isLoading, queryInFlight,
                   cardGeneratedFor, historyVars>>

\* Mutant of CancelledCards: the cards of agent tasks are passed over.
CancelledSearches == {c \in board : nodes[c].status = "synthesizing" /\ nodes[c].task = None}
CancelledCards == {c \in board : nodes[c].status = "synthesizing"}

(* The button of the input bar: every listed controller is aborted and the    *)
(* count is zeroed, though the aborted runs still hold their slots and will  *)
(* each subtract one.                                                        *)
CancelAllActive ==
    LET hit == {r \in Runs : Live(r) /\ runs[r].listed}
    IN  /\ isLoading
        /\ runs' = [r \in Runs |-> IF r \in hit THEN [runs[r] EXCEPT !.aborted = TRUE, !.listed = FALSE]
                                               ELSE runs[r]]
        /\ nodes' = Mapped(CancelledCards, LAMBDA n :
                        [n EXCEPT !.status = "active", !.task = None])
        /\ activeSynthCount' = 0
        /\ isLoading' = FALSE
        /\ overrun' = (overrun \/ Holders # {})
        /\ missed' = missed \cup {c \in BusyInCache : \E r \in hit : Subject(r) = c}
        /\ UNCHANGED <<edges, sceneVars, queryInFlight, cardGeneratedFor,
                       made, gone, links>>

-----------------------------------------------------------------------------
Init ==
    /\ nodes = NoNodes /\ edges = {}
    /\ spaceCache = [s \in Spaces |-> Empty]
    /\ linkMode = None /\ activeSpaceId = HomeSpace
    /\ clearOnSwitch \in BOOLEAN
    /\ runs = [r \in Runs |-> NoRun]
    /\ activeSynthCount = 0 /\ isLoading = FALSE
    /\ queryInFlight = None /\ cardGeneratedFor = {}
    /\ made = {} /\ gone = {} /\ links = {} /\ overrun = FALSE /\ missed = {}

UserStep ==
    \/ \E c \in Cards : \/ ActivateNode(c) \/ CloseNode(c) \/ DeleteCard(c) \/ MinimizeNode(c)
                        \/ StartLinkMode(c) \/ CompleteLinkMode(c) \/ HandleCancelTask(c)
                        \/ \E s \in Spaces : AddNode(c, s)
    \/ \E s \in Spaces : SwitchSpace(s)
    \/ \E e \in edges : RemoveEdge(e)
    \/ CloseAllSpaceNodes \/ ClearAllCards \/ MinimizeAll \/ CleanupStuckNodes
    \/ ToggleClearOnSwitch \/ CancelLinkMode \/ CancelAllActive

QueryStep ==
    \E r \in Runs, q \in Queries :
        \/ Chat(r, q)
        \/ \E c \in Cards : \/ NewTask(r, q, c) \/ Reply(r, q, c)
                            \/ Search(r, "search", q, c) \/ Search(r, "stream", q, c)

RunStep ==
    \E r \in Runs :
        \/ TaskSucceeds(r) \/ TaskFails(r) \/ TaskThrows(r) \/ AbortSeen(r) \/ ChatEnds(r)
        \/ StreamSubmitted(r) \/ StreamAnsweredEarly(r) \/ SearchSucceeds(r) \/ SearchFails(r)
        \/ RefineStarts(r) \/ RefineEnds(r)

Next == UserStep \/ QueryStep \/ RunStep
Spec == Init /\ [][Next]_vars

-----------------------------------------------------------------------------
(* Every variable keeps its type; in particular an id is on the board or in    *)
(* one cache, never in two places, and a cache holds cards of its own space.  *)
TypeOK ==
    /\ Known \cup made \cup gone \cup missed \cup cardGeneratedFor \subseteq Cards
    /\ \A c \in board : nodes[c] \in Node
    /\ DOMAIN spaceCache = Spaces
    /\ \A s \in Spaces : \A c \in DOMAIN spaceCache[s].nodes :
          /\ spaceCache[s].nodes[c] \in Node /\ spaceCache[s].nodes[c].space = s
          /\ c \notin board
          /\ \A t \in Spaces \ {s} : c \notin DOMAIN spaceCache[t].nodes
    /\ linkMode \in Cards \cup {None}
    /\ activeSpaceId \in Spaces
    /\ activeSynthCount \in Nat
    /\ queryInFlight \in Queries \cup {None}
    /\ {clearOnSwitch, isLoading, overrun} \subseteq BOOLEAN

(* The count of running syntheses never exceeds the runs that hold a slot:    *)
(* whatever ends, fails, throws or is cancelled, no slot is lost for good,   *)
(* so a user can always start a task again (useSynthesis.ts, the finally     *)
(* clauses against cancelAllActive's reset).                                 *)
SlotsNotLeaked == activeSynthCount <= Cardinality(Holders)

(* Until a user cancels everything while a run still holds its slot, no more  *)
(* than concurrentSynthesis runs that count work at once.                    *)
LimitRespected == ~overrun => Cardinality(Holders) <= Limit

(* The two sides of the count: it neither blocks a user for good nor lets     *)
(* more run than the setting allows.                                          *)
SlotsCounted == SlotsNotLeaked /\ LimitRespected

(* The input bar is blocked only while something runs: the spinner is on, or  *)
(* a query is refused as a duplicate, only while a run of it is live.        *)
BlockedByRun ==
    /\ isLoading => \E r \in Runs : Live(r) /\ runs[r].kind # "refine"
    /\ queryInFlight # None => \E r \in Runs : Live(r) /\ runs[r].query = queryInFlight

(* A card that shows as being synthesized has a run that works on it: no card *)
(* of the board stays busy forever, but for the cards that were in a space's *)
(* cache when the run ended or was cancelled.                                *)
BusyCardHasRun ==
    \A c \in board \ missed :
        nodes[c].status = "synthesizing" => \E r \in Runs : Live(r) /\ Subject(r) = c

(* A card is on the board or in the cache of its space until a user closes it *)
(* or its run removes it.  The exception is a space that was entered with     *)
(* clearOnSwitch off: what its cache still holds is overwritten when the      *)
(* space is left with the setting on again.                                   *)
CardsKept == made \subseteq gone \cup Known

(* A link a user drew between two cards of one space is kept, on the board or *)
(* in the cache with its cards, until it or a card of it is removed.          *)
EdgesKept == links \subseteq edges \cup UNION {spaceCache[s].edges : s \in Spaces}

(* What a user put on a board survives every switch of spaces.                *)
BoardKept == CardsKept /\ EdgesKept
=============================================================================
