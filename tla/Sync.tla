-------------------------------- MODULE Sync --------------------------------
(***************************************************************************)
(* A user's workspace on one device among others: hooks/useUserSyncState.ts  *)
(* and context/SyncStateContext.tsx exchange whole documents with the        *)
(* server, hooks/useSynthesisNodesFromStore.ts and lib/storage.ts keep a     *)
(* copy on the device.  The last document that reaches the server is the     *)
(* server's; the page shows it only if nothing changed there for three       *)
(* seconds and no agent is at work on a card it shows.                       *)
(*                                                                          *)
(* A document is the set of its cards with what their agents do.  The other  *)
(* devices of the user run the same code: all this one sees of them are      *)
(* documents, of cards that reached the server or are their own.  Time is    *)
(* kept as the order of the code's delays: 500 ms to a write, three seconds  *)
(* to quiet.  One request for the document is under way at a time; settings, *)
(* spaces and logging out are left out.                                      *)
(***************************************************************************)
EXTENDS Naturals, FiniteSets

CONSTANTS
    Own, Foreign,   \* the cards users make here and on their other devices
    MaxPuts,        \* bound: documents on their way to the server
    MaxLeft,        \* bound: of these, the ones a closed page leaves to the next
    None

ASSUME SyncAssumption ==
    /\ MaxPuts \in Nat /\ MaxLeft \in Nat
    /\ None \notin UNION {[S -> {"running", "done"}] : S \in SUBSET (Own \cup Foreign)}

VARIABLES
    server,         \* the workspace the server keeps for the user
    page,           \* what the page holds
    stored,         \* the copy on the device
    get,            \* the request for the document: none, asked, read by the server,
                    \* or answered and its task records being saved
    puts,           \* the documents on their way to the server
    agents,         \* the cards the page runs agents for
    made,           \* history: the cards made here
    served,         \* history: the cards of this device the server ever had
    unsent,         \* history: cards made here after the load, in no document sent
                    \* since, and not replaced by a load of the local copy
    parted          \* history: cards of agents at work that were closed, or that a
                    \* load of the local copy replaced

historyVars == <<made, served, unsent, parted>>
vars == <<server, page, stored, get, puts, agents, historyVars>>

Cards == Own \cup Foreign
Documents == UNION {[S -> {"running", "done"}] : S \in SUBSET Cards}
NoCards == [c \in {} |-> "done"]
HasCards(doc) == doc # None /\ DOMAIN doc # {}
InFlight(doc) == {c \in DOMAIN doc : doc[c] = "running"}

NoGet == [phase |-> "none", doc |-> None]
Asked == [phase |-> "asked", doc |-> None]
SavingTasks == [phase |-> "saving", doc |-> None]

\* attempted and status: SyncStateContext; done: initialLoadDone; loading:
\* loadState under way; recent: less than 3 s since lastWorkspaceChangeAt; armed:
\* the timer of flushToServer; known: payloadRef is set; cleaned:
\* hasCleanedStuckRef.  The timer of the local copy runs while that copy is not
\* what a hydrated page shows.
Page == [open : BOOLEAN, nodes : Documents, attempted : BOOLEAN,
         status : {"pending", "ok", "failed"}, hydrated : BOOLEAN, done : BOOLEAN,
         loading : BOOLEAN, recent : BOOLEAN, armed : BOOLEAN, known : BOOLEAN,
         cleaned : BOOLEAN]
NoPage == [open |-> FALSE, nodes |-> NoCards, attempted |-> FALSE,
           status |-> "pending", hydrated |-> FALSE, done |-> FALSE,
           loading |-> FALSE, recent |-> FALSE, armed |-> FALSE, known |-> FALSE,
           cleaned |-> FALSE]

Init ==
    /\ server = None /\ stored = None
    /\ page = NoPage
    /\ get = NoGet /\ puts = {}
    /\ agents = {}
    /\ made = {} /\ served = {} /\ unsent = {} /\ parted = {}

-----------------------------------------------------------------------------
(* What a change of the cards, of the settings or of the load does to a page. *)

\* The effects on nodes: the timestamp, the timers and payloadRef.
\* Mutant: the write to the server does not wait for the first load.
ChangedUnguarded(p, doc) ==
    [p EXCEPT !.nodes = doc, !.recent = TRUE, !.armed = TRUE,
              !.known = @ \/ p.done]
Changed(p, doc) ==
    [p EXCEPT !.nodes = doc, !.recent = TRUE, !.armed = @ \/ p.done,
              !.known = @ \/ p.done]

\* Becoming hydrated starts the local copy and, once per page, marks the cards
\* S, whose agents gave no sign for five minutes, as failed.
Hydrated(p, S) ==
    LET q == [p EXCEPT !.hydrated = TRUE, !.cleaned = TRUE]
    IN  IF S = {} THEN q
        ELSE Changed(q, [c \in DOMAIN p.nodes |-> IF c \in S THEN "done" ELSE p.nodes[c]])
Stuck(p) == IF p.cleaned THEN {} ELSE InFlight(p.nodes) \ agents

\* The end of doFetch, and the hydration effect when it made a difference: with
\* the server's workspace (serverWorkspaceApplied) or after a failed request the
\* page is hydrated, otherwise it loads the local copy.
\* Mutant: only a request that succeeded counts as an attempt.
LoadedIfOk(p, s, applied, S) ==
    LET q == [p EXCEPT !.done = TRUE, !.attempted = @ \/ s = "ok", !.status = s]
    IN  IF ~q.attempted \/ (p.attempted /\ p.status = s) THEN q
        ELSE IF applied \/ s = "failed" THEN Hydrated([q EXCEPT !.loading = FALSE], S)
        ELSE [q EXCEPT !.hydrated = FALSE, !.loading = TRUE]
Loaded(p, s, applied, S) ==
    LET q == [p EXCEPT !.done = TRUE, !.attempted = TRUE, !.status = s]
    IN  IF p.attempted /\ p.status = s THEN q
        ELSE IF applied \/ s = "failed" THEN Hydrated([q EXCEPT !.loading = FALSE], S)
        ELSE [q EXCEPT !.hydrated = FALSE, !.loading = TRUE]

-----------------------------------------------------------------------------
(* Requests for the document (doFetch).                                      *)

\* The server reads the document for the first request of a page, or for a
\* poll, a retry or a page that became visible: these leave no trace on the page
\* before the server read for them, so asking and reading are one step.
ServerReads ==
    /\ get' = [phase |-> "read", doc |-> server]
    /\ UNCHANGED <<server, page, stored, puts, agents, historyVars>>

FirstRead == get = Asked /\ ServerReads
Poll == page.open /\ get = NoGet /\ ServerReads

\* shouldApplyWorkspace.  Mutants: no time to send what was changed; no regard
\* to agents at work.
MayApplyAtOnce(p) == InFlight(p.nodes) = {}
MayApplyAnyway(p) == ~p.recent
MayApply(p) == ~p.recent /\ InFlight(p.nodes) = {}

(* The answer: the settings are applied in any case, which arms the write to  *)
(* the server; the workspace only if the page may take it.  Here it is dealt *)
(* with in one go: the page does not take it, or it holds no task records;   *)
(* each card comes with the record of its query.                             *)
Answer ==
    LET doc == get.doc
        taken == IF doc # None /\ MayApply(page) THEN Changed(page, doc) ELSE page
    IN  /\ get.phase = "read"
        /\ HasCards(doc) => ~MayApply(page)
        /\ get' = NoGet
        /\ \E S \in SUBSET Stuck(taken) :
               LET p == IF doc # None /\ ~taken.hydrated THEN Hydrated(taken, S) ELSE taken
               IN  page' = [Loaded(p, "ok", doc # None, {}) EXCEPT !.armed = TRUE, !.known = TRUE]
        /\ UNCHANGED <<server, stored, puts, agents, historyVars>>

(* The workspace is taken, and its task records are awaited one by one before *)
(* anything says so; meanwhile the effects of the change run.  A record that *)
(* cannot be saved fails the request (Fails), with the workspace in place.   *)
AnswerTaken ==
    /\ get.phase = "read" /\ get.doc # None /\ MayApply(page)
    /\ get' = SavingTasks
    /\ page' = Changed(page, get.doc)
    /\ UNCHANGED <<server, stored, puts, agents, historyVars>>

TasksSaved ==
    /\ get = SavingTasks /\ get' = NoGet
    /\ \E S \in SUBSET Stuck(page) :
           page' = Loaded(IF page.hydrated THEN page ELSE Hydrated(page, S), "ok", TRUE, {})
    /\ UNCHANGED <<server, stored, puts, agents, historyVars>>

Fails ==
    /\ get # NoGet
    /\ \E S \in SUBSET Stuck(page) : page' = Loaded(page, "failed", FALSE, S)
    /\ get' = NoGet
    /\ UNCHANGED <<server, stored, puts, agents, historyVars>>

\* loadState: the copy of the device, when it has cards, replaces what is shown.
LoadLocal ==
    LET takes == HasCards(stored)
        p == IF takes THEN Changed(page, stored) ELSE page
    IN  /\ page.loading
        /\ \E S \in SUBSET Stuck(p) : page' = Hydrated([p EXCEPT !.loading = FALSE], S)
        /\ parted' = IF takes THEN agents ELSE parted
        /\ unsent' = IF takes THEN {} ELSE unsent
        /\ UNCHANGED <<server, stored, get, puts, agents, made, served>>

-----------------------------------------------------------------------------
(* Writes.                                                                   *)

\* A document leaves for the server: flushToServer and apiPutSyncStateKeepalive.
Send ==
    /\ Cardinality(puts) < MaxPuts
    /\ puts' = puts \cup {page.nodes}

Flush ==
    /\ page.armed
    /\ Send
    /\ page' = [page EXCEPT !.armed = FALSE]
    /\ unsent' = unsent \ DOMAIN page.nodes
    /\ UNCHANGED <<server, stored, get, agents, made, served, parted>>

\* The page is hidden: its document is sent at once.
Hide ==
    /\ page.done /\ page.known
    /\ Send
    /\ unsent' = unsent \ DOMAIN page.nodes
    /\ UNCHANGED <<server, page, stored, get, agents, made, served, parted>>

PutArrives ==
    \E doc \in puts :
        /\ server' = doc
        /\ puts' = puts \ {doc}
        /\ served' = served \cup (DOMAIN doc \cap Own)
        /\ UNCHANGED <<page, stored, get, agents, made, unsent, parted>>

\* An error is swallowed; nothing is sent again.
PutLost ==
    /\ \E doc \in puts : puts' = puts \ {doc}
    /\ UNCHANGED <<server, page, stored, get, agents, historyVars>>

(* A document of another device: of cards it had from the server or made.    *)
Elsewhere ==
    /\ \E S \in SUBSET (served \cup Foreign) : server' \in [S -> {"running", "done"}]
    /\ UNCHANGED <<page, stored, get, puts, agents, historyVars>>

Saving == page.hydrated /\ stored # page.nodes
Save ==
    /\ Saving
    /\ stored' = page.nodes
    /\ UNCHANGED <<server, page, get, puts, agents, historyVars>>

\* Three seconds without a change, in which the 500 ms timers have fired.
Quiet ==
    /\ page.recent /\ ~page.armed /\ ~Saving
    /\ page' = [page EXCEPT !.recent = FALSE]
    /\ UNCHANGED <<server, stored, get, puts, agents, historyVars>>

-----------------------------------------------------------------------------
(* The user.                                                                 *)

\* The app is opened: the effects of the first render ask for the document and
\* count the empty workspace as a change.
Start ==
    /\ ~page.open /\ Cardinality(puts) <= MaxLeft
    /\ page' = [NoPage EXCEPT !.open = TRUE, !.recent = TRUE]
    /\ get' = Asked
    /\ UNCHANGED <<server, stored, puts, agents, historyVars>>

\* The page goes away, with a last document (pagehide) or without one (a crash);
\* a request under way is cancelled.
\* Mutant: the answer still finds the page.
Uncancelled == page' = NoPage /\ UNCHANGED get
Cancelled == page' = NoPage /\ get' = NoGet

Stop ==
    /\ page.open
    /\ (Send /\ page.done /\ page.known) \/ UNCHANGED puts
    /\ Cancelled
    /\ agents' = {} /\ unsent' = {} /\ parted' = {}
    /\ UNCHANGED <<server, stored, made, served>>

\* A query makes a card and an agent for it, or sets one to work on a card.
StartAgent(c) ==
    /\ page.open
    /\ c \in Own \ made \/ c \in DOMAIN page.nodes \ InFlight(page.nodes)
    /\ made' = made \cup ({c} \cap Own)
    /\ unsent' = IF c \in Own \ made /\ page.done THEN unsent \cup {c} ELSE unsent
    /\ page' = Changed(page, [x \in DOMAIN page.nodes \cup {c} |->
                                   IF x = c THEN "running" ELSE page.nodes[x]])
    /\ agents' = agents \cup {c}
    /\ parted' = parted \ {c}
    /\ UNCHANGED <<server, stored, get, puts, served>>

EndAgent(c) ==
    /\ c \in agents
    /\ agents' = agents \ {c}
    /\ page' = IF c \in DOMAIN page.nodes
               THEN Changed(page, [page.nodes EXCEPT ![c] = "done"]) ELSE page
    /\ parted' = parted \ {c}
    /\ UNCHANGED <<server, stored, get, puts, made, served, unsent>>

Close(c) ==
    /\ c \in DOMAIN page.nodes
    /\ page' = Changed(page, [x \in DOMAIN page.nodes \ {c} |-> page.nodes[x]])
    /\ parted' = parted \cup ({c} \cap agents)
    /\ unsent' = unsent \ {c}
    /\ UNCHANGED <<server, stored, get, puts, agents, made, served>>

Request == FirstRead \/ Answer \/ AnswerTaken \/ TasksSaved

Next ==
    \/ Start \/ Stop \/ Hide \/ Poll \/ Request \/ Fails \/ LoadLocal
    \/ Flush \/ PutArrives \/ PutLost \/ Elsewhere \/ Save \/ Quiet
    \/ \E c \in Cards : StartAgent(c) \/ EndAgent(c) \/ Close(c)

Spec == Init /\ [][Next]_vars
\* Requests are answered or fail, and the load ends; nobody has to poll.
FairSpec == Spec /\ WF_vars(Request) /\ WF_vars(LoadLocal)

-----------------------------------------------------------------------------
(* Properties.                                                               *)

TypeOK ==
    /\ server \in Documents \cup {None}
    /\ page \in Page
    /\ stored \in Documents \cup {None}
    /\ get \in [phase : {"none", "asked", "read", "saving"}, doc : Documents \cup {None}]
    /\ puts \subseteq Documents
    /\ {agents, parted} \subseteq SUBSET Cards /\ {made, served, unsent} \subseteq SUBSET Own
    /\ ~page.open => page = NoPage /\ get = NoGet /\ agents = {}

\* The card of an agent at work stays on the page that runs it, as running,
\* whatever documents arrive, unless its user closed it or it was there when the
\* page loaded its local copy (shouldApplyWorkspace, hasInFlightAgent).
RunningCardKept == agents \ parted \subseteq InFlight(page.nodes)

\* No answer takes away a card the page made after its first load and has not
\* sent yet, and the timer that will send it runs: the three seconds an answer
\* respects are more than the debounce, and no change loses an earlier one's write.
\* A load of the local copy may take it, and is left out: it respects no delay.
UnsentKept == unsent # {} => page.armed /\ unsent \subseteq DOMAIN page.nodes

\* Before its first load ended a page writes neither the server's document nor
\* its own copy: an empty page would replace what it has not read yet.
NothingWrittenBeforeLoad ==
    [][stored' # stored \/ ~(puts' \subseteq puts) => page.attempted]_vars

\* An opened page becomes hydrated, with the server's workspace, with its local
\* copy or, when the request failed, with what it has; it needs no further poll.
FirstLoadEnds == page.open ~> (page.hydrated \/ ~page.open)

\* "Loads full sync state from server on login (settings + workspace) and
\* applies it as the session state": the first answer of a page on which the
\* user did nothing yet is shown.
LoginShowsWorkspace ==
    [][~page.attempted /\ page'.attempted /\ page'.status = "ok"
           /\ page.nodes = NoCards /\ agents = {} /\ get.doc # None
           => DOMAIN page'.nodes = DOMAIN get.doc]_vars
=============================================================================
