----------------------------- MODULE SyncProofs -----------------------------
(***************************************************************************)
(* The page of module Sync, for every set of cards: what a page may show     *)
(* while its agents are at work, what it may not lose before it sent it, and *)
(* what it may not write before its first load ended.                       *)
(*                                                                          *)
(* Three operators change what a page holds: Changed, Hydrated and Loaded.   *)
(* A lemma for each says what it keeps, and the invariant of the page        *)
(* follows for every action that applies some of them in a row.             *)
(***************************************************************************)
EXTENDS Sync, TLAPS

\* A page learned about its load before it has anything to send or to save.
Attempts(p) == p.done \/ p.known \/ p.armed \/ p.hydrated \/ p.loading => p.attempted

\* Cards not sent yet were made less than three seconds ago: the timer that
\* sends them is the reason that the quiet has not begun.
NotQuiet == unsent # {} => page.recent

IInv ==
    /\ TypeOK
    /\ Attempts(page)
    /\ RunningCardKept
    /\ UnsentKept
    /\ NotQuiet

-----------------------------------------------------------------------------
(* Documents.                                                                *)

LEMMA DocumentType ==
    \A doc : doc \in Documents <=>
        DOMAIN doc \subseteq Cards /\ doc \in [DOMAIN doc -> {"running", "done"}]
BY DEF Documents

LEMMA NoCardsType == NoCards \in Documents /\ InFlight(NoCards) = {}
<1>1. DOMAIN NoCards = {} /\ NoCards \in [DOMAIN NoCards -> {"running", "done"}]
    BY DEF NoCards
<1> QED BY <1>1, DocumentType DEF InFlight

LEMMA NoPageType == NoPage \in Page /\ Attempts(NoPage) /\ InFlight(NoPage.nodes) = {}
BY NoCardsType DEF NoPage, Page, Attempts

-----------------------------------------------------------------------------
(* What the operators on a page keep.                                        *)

LEMMA ChangedKeeps ==
    ASSUME NEW p \in Page, NEW doc \in Documents
    PROVE  /\ Changed(p, doc) \in Page
           /\ Changed(p, doc).nodes = doc /\ Changed(p, doc).recent
           /\ p.armed \/ p.done => Changed(p, doc).armed
           /\ Changed(p, doc).open = p.open /\ Changed(p, doc).attempted = p.attempted
           /\ Attempts(p) => Attempts(Changed(p, doc))
<1>1. Changed(p, doc) \in Page
    BY DEF Changed, Page
<1>2. /\ Changed(p, doc).nodes = doc /\ Changed(p, doc).recent
      /\ p.armed \/ p.done => Changed(p, doc).armed
      /\ Changed(p, doc).open = p.open /\ Changed(p, doc).attempted = p.attempted
    BY DEF Changed, Page
<1>3. Attempts(p) => Attempts(Changed(p, doc))
    BY DEF Changed, Page, Attempts
<1> QED BY <1>1, <1>2, <1>3

(* What a load does to a page, the document it takes apart: no card goes, no  *)
(* agent at work loses its card, and nothing that was to be sent is dropped.  *)
Keeps(p, q) ==
    /\ q \in Page
    /\ DOMAIN q.nodes = DOMAIN p.nodes
    /\ InFlight(p.nodes) \cap agents \subseteq InFlight(q.nodes)
    /\ q.recent = p.recent \/ q.recent
    /\ p.armed => q.armed
    /\ q.open = p.open
    /\ p.attempted => q.attempted

LEMMA HydratedKeeps ==
    ASSUME NEW p \in Page, NEW S, S \subseteq InFlight(p.nodes) \ agents
    PROVE  Keeps(p, Hydrated(p, S))
<1> DEFINE q == [p EXCEPT !.hydrated = TRUE, !.cleaned = TRUE]
<1> DEFINE doc == [c \in DOMAIN p.nodes |-> IF c \in S THEN "done" ELSE p.nodes[c]]
<1>1. q \in Page /\ p.nodes \in Documents
    BY DEF Page
<1>2. /\ q.nodes = p.nodes /\ q.recent = p.recent /\ q.armed = p.armed
      /\ q.open = p.open /\ q.attempted = p.attempted
    BY DEF Page
<1>3. CASE S = {}
    <2>1. Hydrated(p, S) = q
        BY <1>3 DEF Hydrated
    <2> HIDE DEF q
    <2> QED BY <2>1, <1>1, <1>2 DEF Keeps
<1>4. CASE S # {}
    <2>1. Hydrated(p, S) = Changed(q, doc)
        BY <1>4 DEF Hydrated
    <2>2. DOMAIN doc = DOMAIN p.nodes /\ doc \in Documents
        BY <1>1, DocumentType
    <2>3. InFlight(p.nodes) \cap agents \subseteq InFlight(doc)
        BY DEF InFlight
    <2> HIDE DEF q, doc
    <2>4. /\ Changed(q, doc) \in Page /\ Changed(q, doc).nodes = doc
          /\ Changed(q, doc).recent /\ (q.armed => Changed(q, doc).armed)
          /\ Changed(q, doc).open = q.open /\ Changed(q, doc).attempted = q.attempted
        BY <1>1, <2>2, ChangedKeeps
    <2> QED BY <2>1, <2>2, <2>3, <2>4, <1>2 DEF Keeps
<1> QED BY <1>3, <1>4

LEMMA LoadedKeeps ==
    ASSUME NEW p \in Page, NEW s \in {"ok", "failed"}, NEW applied \in BOOLEAN,
           NEW S, S \subseteq InFlight(p.nodes) \ agents
    PROVE  Keeps(p, Loaded(p, s, applied, S)) /\ Loaded(p, s, applied, S).attempted
<1> DEFINE q == [p EXCEPT !.done = TRUE, !.attempted = TRUE, !.status = s]
<1> DEFINE r == [q EXCEPT !.loading = FALSE]
<1> DEFINE t == [q EXCEPT !.hydrated = FALSE, !.loading = TRUE]
<1>1. q \in Page /\ r \in Page /\ t \in Page
    BY DEF Page
<1>2. /\ Keeps(p, q) /\ q.attempted
      /\ Keeps(p, t) /\ t.attempted
      /\ Keeps(p, r) /\ r.attempted /\ r.nodes = p.nodes
    BY <1>1 DEF Page, Keeps
<1>3. Keeps(r, Hydrated(r, S))
    BY <1>1, <1>2, HydratedKeeps
<1>4. Keeps(p, Hydrated(r, S)) /\ Hydrated(r, S).attempted
    BY <1>2, <1>3 DEF Keeps
<1>5. Loaded(p, s, applied, S) \in {q, t, Hydrated(r, S)}
    BY DEF Loaded
<1> HIDE DEF q, r, t
<1> QED BY <1>2, <1>4, <1>5

LEMMA StuckCards == \A p : Stuck(p) \subseteq InFlight(p.nodes) \ agents
BY DEF Stuck

-----------------------------------------------------------------------------
(* What is known of a state.                                                 *)

LEMMA Here ==
    ASSUME IInv
    PROVE  /\ page \in Page /\ page.nodes \in Documents
           /\ server \in Documents \cup {None} /\ stored \in Documents \cup {None}
           /\ get \in [phase : {"none", "asked", "read", "saving"}, doc : Documents \cup {None}]
           /\ puts \subseteq Documents
           /\ agents \subseteq Cards /\ parted \subseteq Cards
           /\ made \subseteq Own /\ served \subseteq Own /\ unsent \subseteq Own
           /\ ~page.open => page = NoPage /\ get = NoGet /\ agents = {}
           /\ Attempts(page) /\ RunningCardKept /\ UnsentKept /\ NotQuiet
BY DEF IInv, TypeOK, Page

\* A page that is open is all the type invariant asks of it.
LEMMA OpenType ==
    ASSUME page' \in Page, page'.open,
           server' \in Documents \cup {None}, stored' \in Documents \cup {None},
           get' \in [phase : {"none", "asked", "read", "saving"}, doc : Documents \cup {None}],
           puts' \subseteq Documents, agents' \subseteq Cards, parted' \subseteq Cards,
           made' \subseteq Own, served' \subseteq Own, unsent' \subseteq Own
    PROVE  TypeOK'
BY DEF TypeOK

LEMMA GetTypes ==
    /\ NoGet \in [phase : {"none", "asked", "read", "saving"}, doc : Documents \cup {None}]
    /\ Asked \in [phase : {"none", "asked", "read", "saving"}, doc : Documents \cup {None}]
    /\ SavingTasks \in [phase : {"none", "asked", "read", "saving"}, doc : Documents \cup {None}]
    /\ NoGet # Asked /\ NoGet # SavingTasks /\ NoGet.phase = "none" /\ Asked.phase = "asked"
BY DEF NoGet, Asked, SavingTasks

LEMMA Sent ==
    ASSUME IInv, Send
    PROVE  puts' \subseteq Documents
BY Here DEF Send

\* The page is unchanged: what is said of it still is.
LEMMA PageStays ==
    ASSUME IInv, UNCHANGED <<page, agents, unsent, parted>>, TypeOK'
    PROVE  IInv'
BY DEF IInv, Attempts, RunningCardKept, UnsentKept, NotQuiet

-----------------------------------------------------------------------------
(* One lemma for each action.                                                *)

LEMMA StartStep == ASSUME IInv, Start PROVE IInv'
<1> DEFINE P == [NoPage EXCEPT !.open = TRUE, !.recent = TRUE]
<1>1. page' = P /\ get' = Asked /\ ~page.open /\ UNCHANGED <<server, stored, puts, agents, historyVars>>
    BY DEF Start
<1>2. P \in Page /\ P.open /\ Attempts(P)
    BY NoPageType DEF NoPage, Page, Attempts
<1>3. agents = {} /\ ~page.armed /\ unsent = {}
    BY <1>1, Here DEF NoPage, UnsentKept
<1> HIDE DEF P
<1>4. TypeOK'
    BY <1>1, <1>2, Here, GetTypes, OpenType DEF historyVars
<1> QED BY <1>1, <1>2, <1>3, <1>4 DEF IInv, RunningCardKept, UnsentKept, NotQuiet, historyVars

LEMMA StopStep == ASSUME IInv, Stop PROVE IInv'
<1>1. /\ page' = NoPage /\ get' = NoGet /\ agents' = {} /\ unsent' = {} /\ parted' = {}
      /\ UNCHANGED <<server, stored, made, served>>
    BY DEF Stop, Cancelled
<1>2. puts' \subseteq Documents
    BY Here, Sent DEF Stop
<1>3. TypeOK'
    BY <1>1, <1>2, Here, NoPageType, GetTypes DEF TypeOK
<1> QED BY <1>1, <1>3, NoPageType DEF IInv, RunningCardKept, UnsentKept, NotQuiet

LEMMA HideStep == ASSUME IInv, Hide PROVE IInv'
<1>1. /\ puts' \subseteq Documents /\ unsent' = unsent \ DOMAIN page.nodes
      /\ UNCHANGED <<server, page, stored, get, agents, made, served, parted>>
    BY Sent DEF Hide
<1>2. TypeOK'
    BY <1>1, Here DEF TypeOK
<1> QED BY <1>1, <1>2 DEF IInv, Attempts, RunningCardKept, UnsentKept, NotQuiet

LEMMA FlushStep == ASSUME IInv, Flush PROVE IInv'
<1> DEFINE P == [page EXCEPT !.armed = FALSE]
<1>1. /\ puts' \subseteq Documents /\ unsent' = unsent \ DOMAIN page.nodes
      /\ page' = P /\ page.armed
      /\ UNCHANGED <<server, stored, get, agents, made, served, parted>>
    BY Sent DEF Flush
<1>2. page.open /\ unsent' = {}
    BY <1>1, Here DEF NoPage, UnsentKept
<1>3. P \in Page /\ P.open /\ P.nodes = page.nodes /\ Attempts(P)
    BY <1>2, Here DEF Page, Attempts
<1> HIDE DEF P
<1>4. TypeOK'
    BY <1>1, <1>2, <1>3, Here, OpenType
<1>5. RunningCardKept'
    BY <1>1, <1>3, Here DEF RunningCardKept
<1> QED BY <1>1, <1>2, <1>3, <1>4, <1>5 DEF IInv, UnsentKept, NotQuiet

\* The server reads, a document arrives or is lost, another device writes.
LEMMA ServerReadsStep == ASSUME IInv, page.open, ServerReads PROVE IInv'
<1>1. TypeOK'
    BY Here DEF ServerReads, historyVars, TypeOK
<1> QED BY <1>1, PageStays DEF ServerReads, historyVars

LEMMA PutArrivesStep == ASSUME IInv, PutArrives PROVE IInv'
<1>1. TypeOK'
    BY Here DEF PutArrives, TypeOK
<1> QED BY <1>1, PageStays DEF PutArrives

LEMMA PutLostStep == ASSUME IInv, PutLost PROVE IInv'
<1>1. TypeOK'
    BY Here DEF PutLost, historyVars, TypeOK
<1> QED BY <1>1, PageStays DEF PutLost, historyVars

LEMMA ElsewhereStep == ASSUME IInv, Elsewhere PROVE IInv'
<1>1. server' \in Documents
    <2>1. PICK S \in SUBSET (served \cup Foreign) : server' \in [S -> {"running", "done"}]
        BY DEF Elsewhere
    <2>2. S \subseteq Cards
        BY <2>1, Here DEF Cards
    <2> QED BY <2>1, <2>2 DEF Documents
<1>2. TypeOK'
    BY <1>1, Here DEF Elsewhere, historyVars, TypeOK
<1> QED BY <1>2, PageStays DEF Elsewhere, historyVars

LEMMA SaveStep == ASSUME IInv, Save PROVE IInv'
<1>1. TypeOK'
    BY Here DEF Save, historyVars, TypeOK
<1> QED BY <1>1, PageStays DEF Save, historyVars

\* The quiet begins only when nothing is left to send.
LEMMA QuietStep == ASSUME IInv, Quiet PROVE IInv'
<1> DEFINE P == [page EXCEPT !.recent = FALSE]
<1>1. /\ page' = P /\ page.recent /\ ~page.armed
      /\ UNCHANGED <<server, stored, get, puts, agents, historyVars>>
    BY DEF Quiet
<1>2. page.open /\ unsent = {}
    BY <1>1, Here DEF NoPage, UnsentKept
<1>3. P \in Page /\ P.open /\ P.nodes = page.nodes /\ Attempts(P)
    BY <1>2, Here DEF Page, Attempts
<1> HIDE DEF P
<1>4. TypeOK'
    BY <1>1, <1>3, Here, OpenType DEF historyVars
<1>5. RunningCardKept'
    BY <1>1, <1>3, Here DEF RunningCardKept, historyVars
<1> QED BY <1>1, <1>2, <1>3, <1>4, <1>5 DEF IInv, UnsentKept, NotQuiet, historyVars

(* An answer: its workspace is taken only by a page that is quiet, so that    *)
(* nothing is unsent, and that shows no running card, so that every agent at  *)
(* work has parted from its card.                                            *)
LEMMA AnswerStep == ASSUME IInv, Answer PROVE IInv'
<1> DEFINE doc == get.doc
<1> DEFINE taken == IF doc # None /\ MayApply(page) THEN Changed(page, doc) ELSE page
<1>1. PICK S \in SUBSET Stuck(taken) :
        LET p == IF doc # None /\ ~taken.hydrated THEN Hydrated(taken, S) ELSE taken
        IN  page' = [Loaded(p, "ok", doc # None, {}) EXCEPT !.armed = TRUE, !.known = TRUE]
    BY DEF Answer
<1> DEFINE p == IF doc # None /\ ~taken.hydrated THEN Hydrated(taken, S) ELSE taken
<1> DEFINE q == Loaded(p, "ok", doc # None, {})
<1>2. get.phase = "read" /\ get' = NoGet /\ UNCHANGED <<server, stored, puts, agents, historyVars>>
    BY DEF Answer
<1>3. page.open
    BY <1>2, Here, GetTypes
<1>4. /\ taken \in Page /\ taken.open
      /\ agents \ parted \subseteq InFlight(taken.nodes)
      /\ unsent # {} => taken.recent /\ unsent \subseteq DOMAIN taken.nodes
    <2>1. CASE doc # None /\ MayApply(page)
        <3>1. doc \in Documents /\ taken = Changed(page, doc)
            BY <2>1, Here
        <3>2. agents \ parted = {} /\ unsent = {}
            BY <2>1, Here DEF MayApply, RunningCardKept, NotQuiet
        <3> HIDE DEF taken, doc
        <3> QED BY <3>1, <3>2, <1>3, Here, ChangedKeeps
    <2>2. CASE ~(doc # None /\ MayApply(page))
        <3>1. taken = page
            BY <2>2
        <3> HIDE DEF taken
        <3> QED BY <3>1, <1>3, Here DEF RunningCardKept, UnsentKept, NotQuiet
    <2> QED BY <2>1, <2>2
<1> HIDE DEF taken
<1>5. Keeps(taken, p)
    <2>1. Keeps(taken, taken)
        BY <1>4 DEF Keeps
    <2>2. S \subseteq InFlight(taken.nodes) \ agents
        BY StuckCards
    <2> QED BY <1>4, <2>1, <2>2, HydratedKeeps
<1> HIDE DEF p
<1>6. Keeps(p, q) /\ q.attempted
    BY <1>5, LoadedKeeps DEF Keeps
<1> HIDE DEF q, doc
<1>7. /\ page' = [q EXCEPT !.armed = TRUE, !.known = TRUE]
      /\ q \in Page
    BY <1>1, <1>6 DEF Keeps, p, q, doc
<1>8. /\ page' \in Page /\ page'.armed /\ page'.nodes = q.nodes /\ page'.open = q.open
      /\ page'.attempted = q.attempted /\ page'.recent = q.recent
    BY <1>7 DEF Page
<1>9. /\ page'.open /\ page'.attempted
      /\ agents \ parted \subseteq InFlight(page'.nodes)
      /\ unsent # {} => page'.recent /\ unsent \subseteq DOMAIN page'.nodes
    BY <1>4, <1>5, <1>6, <1>8 DEF Keeps
<1>10. TypeOK'
    BY <1>2, <1>8, <1>9, Here, GetTypes, OpenType DEF historyVars
<1> QED BY <1>2, <1>8, <1>9, <1>10
        DEF IInv, Attempts, RunningCardKept, UnsentKept, NotQuiet, historyVars

\* The answer that saves task records, up to the first of them and after the last.
LEMMA AnswerTakenStep == ASSUME IInv, AnswerTaken PROVE IInv'
<1>1. /\ get.phase = "read" /\ get.doc # None /\ MayApply(page)
      /\ page' = Changed(page, get.doc) /\ get' = SavingTasks
      /\ UNCHANGED <<server, stored, puts, agents, historyVars>>
    BY DEF AnswerTaken
<1>2. page.open /\ get.doc \in Documents
    BY <1>1, Here, GetTypes
<1>3. get' \in [phase : {"none", "asked", "read", "saving"}, doc : Documents \cup {None}]
    BY <1>1, GetTypes
<1>4. agents \ parted = {} /\ unsent = {}
    BY <1>1, Here DEF MayApply, RunningCardKept, NotQuiet
<1>5. page' \in Page /\ page'.open /\ Attempts(page')
    BY <1>1, <1>2, Here, ChangedKeeps
<1>6. TypeOK'
    BY <1>1, <1>3, <1>5, Here, OpenType DEF historyVars
<1> QED BY <1>1, <1>4, <1>5, <1>6 DEF IInv, RunningCardKept, UnsentKept, NotQuiet, historyVars

LEMMA TasksSavedStep == ASSUME IInv, TasksSaved PROVE IInv'
<1>1. PICK S \in SUBSET Stuck(page) :
        page' = Loaded(IF page.hydrated THEN page ELSE Hydrated(page, S), "ok", TRUE, {})
    BY DEF TasksSaved
<1>2. get = SavingTasks /\ get' = NoGet /\ UNCHANGED <<server, stored, puts, agents, historyVars>>
    BY DEF TasksSaved
<1>3. page.open
    BY <1>2, Here, GetTypes
<1>4. PICK p : p = IF page.hydrated THEN page ELSE Hydrated(page, S)
    OBVIOUS
<1>5. Keeps(page, p)
    <2>1. Keeps(page, page)
        BY Here DEF Keeps
    <2>2. S \subseteq InFlight(page.nodes) \ agents
        BY StuckCards
    <2> QED BY <1>4, <2>1, <2>2, Here, HydratedKeeps
<1>6. Keeps(p, page') /\ page'.attempted
    BY <1>1, <1>4, <1>5, LoadedKeeps DEF Keeps
<1>7. Keeps(page, page')
    BY <1>5, <1>6 DEF Keeps
<1>8. TypeOK'
    BY <1>2, <1>3, <1>7, Here, GetTypes, OpenType DEF Keeps, historyVars
<1>9. RunningCardKept'
    BY <1>2, <1>7, Here DEF Keeps, RunningCardKept, historyVars
<1>10. UnsentKept' /\ NotQuiet'
    BY <1>2, <1>7, Here DEF Keeps, UnsentKept, NotQuiet, historyVars
<1> QED BY <1>6, <1>8, <1>9, <1>10 DEF IInv, Attempts

LEMMA FailsStep == ASSUME IInv, Fails PROVE IInv'
<1>1. PICK S \in SUBSET Stuck(page) : page' = Loaded(page, "failed", FALSE, S)
    BY DEF Fails
<1>2. get # NoGet /\ get' = NoGet /\ UNCHANGED <<server, stored, puts, agents, historyVars>>
    BY DEF Fails
<1>3. page.open
    BY <1>2, Here
<1>4. Keeps(page, page') /\ page'.attempted
    BY <1>1, Here, StuckCards, LoadedKeeps
<1>5. TypeOK'
    BY <1>2, <1>3, <1>4, Here, GetTypes, OpenType DEF Keeps, historyVars
<1>6. RunningCardKept'
    BY <1>2, <1>4, Here DEF Keeps, RunningCardKept, historyVars
<1>7. UnsentKept' /\ NotQuiet'
    BY <1>2, <1>4, Here DEF Keeps, UnsentKept, NotQuiet, historyVars
<1> QED BY <1>4, <1>5, <1>6, <1>7 DEF IInv, Attempts

LEMMA LoadLocalStep == ASSUME IInv, LoadLocal PROVE IInv'
<1> DEFINE p == IF HasCards(stored) THEN Changed(page, stored) ELSE page
<1> DEFINE q == [p EXCEPT !.loading = FALSE]
<1>1. PICK S \in SUBSET Stuck(p) : page' = Hydrated(q, S)
    BY DEF LoadLocal
<1>2. /\ page.loading
      /\ parted' = IF HasCards(stored) THEN agents ELSE parted
      /\ unsent' = IF HasCards(stored) THEN {} ELSE unsent
      /\ UNCHANGED <<server, stored, get, puts, agents, made, served>>
    BY DEF LoadLocal
<1>3. page.open /\ page.attempted
    BY <1>2, Here DEF NoPage, Attempts
<1>4. /\ p \in Page /\ p.open /\ p.attempted
      /\ agents' \ parted' \subseteq InFlight(p.nodes)
      /\ unsent' # {} => p.recent /\ p.armed /\ unsent' \subseteq DOMAIN p.nodes
    <2>1. CASE HasCards(stored)
        <3>1. stored \in Documents /\ p = Changed(page, stored)
            BY <2>1, Here DEF HasCards
        <3> HIDE DEF p
        <3> QED BY <2>1, <3>1, <1>2, <1>3, Here, ChangedKeeps
    <2>2. CASE ~HasCards(stored)
        <3>1. p = page
            BY <2>2
        <3> HIDE DEF p
        <3> QED BY <2>2, <3>1, <1>2, <1>3, Here DEF RunningCardKept, UnsentKept, NotQuiet
    <2> QED BY <2>1, <2>2
<1> HIDE DEF p
<1>5. /\ q \in Page /\ q.open /\ q.attempted /\ q.nodes = p.nodes
      /\ q.recent = p.recent /\ q.armed = p.armed
    BY <1>4 DEF Page
<1> HIDE DEF q
<1>6. Keeps(q, page')
    BY <1>1, <1>5, StuckCards, HydratedKeeps
<1>7. TypeOK'
    BY <1>2, <1>5, <1>6, Here, OpenType DEF Keeps
<1>8. RunningCardKept'
    BY <1>2, <1>4, <1>5, <1>6 DEF Keeps, RunningCardKept
<1>9. UnsentKept' /\ NotQuiet'
    BY <1>4, <1>5, <1>6 DEF Keeps, UnsentKept, NotQuiet
<1> QED BY <1>5, <1>6, <1>7, <1>8, <1>9 DEF IInv, Attempts, Keeps

(* A new card is in the page before the timer that sends it fires.           *)
LEMMA StartAgentStep == ASSUME IInv, NEW c \in Cards, StartAgent(c) PROVE IInv'
<1> DEFINE doc == [x \in DOMAIN page.nodes \cup {c} |-> IF x = c THEN "running" ELSE page.nodes[x]]
<1>1. /\ page.open /\ page' = Changed(page, doc) /\ agents' = agents \cup {c}
      /\ made' = made \cup ({c} \cap Own) /\ parted' = parted \ {c}
      /\ unsent' = IF c \in Own \ made /\ page.done THEN unsent \cup {c} ELSE unsent
      /\ UNCHANGED <<server, stored, get, puts, served>>
    BY DEF StartAgent
<1>2. doc \in Documents
    BY Here, DocumentType
<1>3. DOMAIN doc = DOMAIN page.nodes \cup {c} /\ InFlight(doc) = InFlight(page.nodes) \cup {c}
    BY DEF InFlight
<1> HIDE DEF doc
<1>4. /\ page' \in Page /\ page'.open /\ page'.nodes = doc /\ page'.recent /\ Attempts(page')
      /\ page.armed \/ page.done => page'.armed
    BY <1>1, <1>2, Here, ChangedKeeps
<1>5. TypeOK'
    BY <1>1, <1>4, Here, OpenType
<1>6. RunningCardKept'
    BY <1>1, <1>3, <1>4, Here DEF RunningCardKept
<1>7. UnsentKept'
    BY <1>1, <1>3, <1>4, Here DEF UnsentKept
<1> QED BY <1>4, <1>5, <1>6, <1>7 DEF IInv, NotQuiet, Attempts

LEMMA EndAgentStep == ASSUME IInv, NEW c \in Cards, EndAgent(c) PROVE IInv'
<1> DEFINE doc == [page.nodes EXCEPT ![c] = "done"]
<1>1. /\ c \in agents /\ agents' = agents \ {c} /\ parted' = parted \ {c}
      /\ UNCHANGED <<server, stored, get, puts, made, served, unsent>>
      /\ page' = IF c \in DOMAIN page.nodes THEN Changed(page, doc) ELSE page
    BY DEF EndAgent
<1>2. page.open
    BY <1>1, Here
<1>3. doc \in Documents /\ DOMAIN doc = DOMAIN page.nodes
    BY Here, DocumentType
<1>4. InFlight(page.nodes) \ {c} \subseteq InFlight(doc)
    BY Here, DocumentType DEF InFlight
<1> HIDE DEF doc
<1>5. /\ page' \in Page /\ page'.open /\ Attempts(page')
      /\ DOMAIN page'.nodes = DOMAIN page.nodes
      /\ InFlight(page.nodes) \ {c} \subseteq InFlight(page'.nodes)
      /\ page.recent => page'.recent
      /\ page.armed => page'.armed
    BY <1>1, <1>2, <1>3, <1>4, Here, ChangedKeeps
<1>6. TypeOK'
    BY <1>1, <1>5, Here, OpenType
<1>7. RunningCardKept'
    BY <1>1, <1>5, Here DEF RunningCardKept
<1>8. UnsentKept' /\ NotQuiet'
    BY <1>1, <1>5, Here DEF UnsentKept, NotQuiet
<1> QED BY <1>5, <1>6, <1>7, <1>8 DEF IInv, Attempts

LEMMA CloseStep == ASSUME IInv, NEW c \in Cards, Close(c) PROVE IInv'
<1> DEFINE doc == [x \in DOMAIN page.nodes \ {c} |-> page.nodes[x]]
<1>1. /\ c \in DOMAIN page.nodes /\ page' = Changed(page, doc)
      /\ parted' = parted \cup ({c} \cap agents) /\ unsent' = unsent \ {c}
      /\ UNCHANGED <<server, stored, get, puts, agents, made, served>>
    BY DEF Close
<1>2. page.open
    BY <1>1, Here, NoPageType DEF NoPage, NoCards
<1>3. doc \in Documents /\ DOMAIN doc = DOMAIN page.nodes \ {c}
    BY Here, DocumentType
<1>4. InFlight(doc) = InFlight(page.nodes) \ {c}
    BY DEF InFlight
<1> HIDE DEF doc
<1>5. /\ page' \in Page /\ page'.open /\ page'.nodes = doc /\ page'.recent /\ Attempts(page')
      /\ page.armed => page'.armed
    BY <1>1, <1>2, <1>3, Here, ChangedKeeps
<1>6. TypeOK'
    BY <1>1, <1>5, Here, OpenType
<1>7. RunningCardKept'
    BY <1>1, <1>4, <1>5, Here DEF RunningCardKept
<1>8. UnsentKept'
    BY <1>1, <1>3, <1>5, Here DEF UnsentKept
<1> QED BY <1>5, <1>6, <1>7, <1>8 DEF IInv, NotQuiet, Attempts

-----------------------------------------------------------------------------
LEMMA InitHolds == Init => IInv
<1> SUFFICES ASSUME Init PROVE IInv
    OBVIOUS
<1>1. TypeOK
    BY NoPageType, GetTypes DEF Init, TypeOK
<1> QED BY <1>1, NoPageType DEF Init, IInv, RunningCardKept, UnsentKept, NotQuiet

LEMMA NextHolds == IInv /\ [Next]_vars => IInv'
<1> SUFFICES ASSUME IInv, [Next]_vars PROVE IInv'
    OBVIOUS
<1>1. CASE Start
    BY <1>1, StartStep
<1>2. CASE Stop
    BY <1>2, StopStep
<1>3. CASE Hide
    BY <1>3, HideStep
<1>4. CASE Poll
    BY <1>4, ServerReadsStep DEF Poll
<1>5. CASE Request
    <2>1. CASE FirstRead
        <3>1. page.open
            BY <2>1, Here, GetTypes DEF FirstRead
        <3> QED BY <2>1, <3>1, ServerReadsStep DEF FirstRead
    <2> QED BY <1>5, <2>1, AnswerStep, AnswerTakenStep, TasksSavedStep DEF Request
<1>6. CASE Fails
    BY <1>6, FailsStep
<1>7. CASE LoadLocal
    BY <1>7, LoadLocalStep
<1>8. CASE Flush
    BY <1>8, FlushStep
<1>9. CASE PutArrives
    BY <1>9, PutArrivesStep
<1>10. CASE PutLost
    BY <1>10, PutLostStep
<1>11. CASE Elsewhere
    BY <1>11, ElsewhereStep
<1>12. CASE Save
    BY <1>12, SaveStep
<1>13. CASE Quiet
    BY <1>13, QuietStep
<1>14. ASSUME NEW c \in Cards, StartAgent(c) \/ EndAgent(c) \/ Close(c) PROVE IInv'
    BY <1>14, StartAgentStep, EndAgentStep, CloseStep
<1>15. CASE UNCHANGED vars
    <2>1. TypeOK'
        BY <1>15, Here DEF vars, historyVars, TypeOK
    <2> QED BY <1>15, <2>1, PageStays DEF vars, historyVars
<1> QED BY <1>1, <1>2, <1>3, <1>4, <1>5, <1>6, <1>7, <1>8, <1>9, <1>10, <1>11, <1>12,
           <1>13, <1>14, <1>15 DEF Next

LEMMA Invariance == Spec => []IInv
BY InitHolds, NextHolds, PTL DEF Spec

(* The state of a page, of its copy and of its requests is well formed, and a  *)
(* page that is closed keeps nothing.                                        *)
THEOREM TypeCorrect == Spec => []TypeOK
<1>1. IInv => TypeOK
    BY DEF IInv
<1> QED BY <1>1, Invariance, PTL

(* An agent at work keeps its card on the page that runs it, whatever          *)
(* documents arrive (useUserSyncState.ts, shouldApplyWorkspace).             *)
THEOREM AgentsKeepCards == Spec => []RunningCardKept
<1>1. IInv => RunningCardKept
    BY DEF IInv
<1> QED BY <1>1, Invariance, PTL

(* No answer takes a card away that was not sent, and its write is armed       *)
(* (useUserSyncState.ts: three seconds of respect, 500 ms of debounce).        *)
THEOREM NothingUnsentLost == Spec => []UnsentKept
<1>1. IInv => UnsentKept
    BY DEF IInv
<1> QED BY <1>1, Invariance, PTL

(* Nothing is written, to the server or to the device, before the first load   *)
(* of the page ended (initialLoadDoneRef, hydrated).                         *)
LEMMA WritesAreLate ==
    IInv /\ [Next]_vars =>
        [stored' # stored \/ ~(puts' \subseteq puts) => page.attempted]_vars
<1> SUFFICES ASSUME IInv, Next, ~page.attempted
             PROVE  stored' = stored /\ puts' \subseteq puts
    BY DEF vars
<1>1. ~page.armed /\ ~page.done /\ ~page.known /\ ~page.hydrated /\ ~page.loading
    BY Here DEF Attempts
<1>2. CASE Start \/ Poll \/ Request \/ Fails \/ PutArrives \/ Elsewhere \/ Quiet
    BY <1>2 DEF Start, Poll, Request, FirstRead, ServerReads, Answer, AnswerTaken, TasksSaved, Fails,
                PutArrives, Elsewhere, Quiet
<1>3. CASE Stop \/ Hide \/ Flush \/ Save \/ LoadLocal \/ PutLost
    BY <1>1, <1>3 DEF Stop, Hide, Flush, Save, Saving, LoadLocal, PutLost
<1>4. ASSUME NEW c \in Cards, StartAgent(c) \/ EndAgent(c) \/ Close(c)
      PROVE  stored' = stored /\ puts' \subseteq puts
    BY <1>4 DEF StartAgent, EndAgent, Close
<1> QED BY <1>2, <1>3, <1>4 DEF Next

THEOREM LoadBeforeWrite == Spec => NothingWrittenBeforeLoad
BY Invariance, WritesAreLate, PTL DEF Spec, NothingWrittenBeforeLoad
=============================================================================
