------------------------------ MODULE Accounts ------------------------------
(* Accounts on the server and the sessions of the browsers that use them:   *)
(* first-run setup, login, the check of a stored token, impersonation,      *)
(* profiles and the onboarding wizard, and the two resets.  The server is   *)
(* AuthManager (auth.rs) behind its HTTP handlers; a device is one tab with *)
(* AuthProvider > SettingsProvider > ProfileProvider > App (main.tsx).      *)
(* A request is a step of its own.  One that changes nothing on the server  *)
(* is evaluated when its answer comes: the page keeps what it was told, so  *)
(* the server may change right after.  A lost answer and an error answer    *)
(* are the same to the page.                                                *)
EXTENDS Naturals, FiniteSets

CONSTANTS
    Devices,
    Desktop,     \* the device inside Tauri, the only one with reset_all_data
    Accounts,    \* the ids accounts may get, each used once
    MaxProfiles, \* bound: MaxProfiles[d] profiles made on device d
    MaxRestarts, \* bound: restarts of the server
    None

ASSUME AccountsAssumption ==
    /\ Desktop \in Devices
    /\ None \notin Accounts \cup [user : Accounts, epoch : Nat]
    /\ MaxProfiles \in [Devices -> Nat]
    /\ MaxRestarts \in Nat

VARIABLES
    users,     \* table users
    docs,      \* accounts with a row in user_client_state, which references users
    epoch,     \* the JWT secret: a new one at every start of the server
    made,      \* account ids given out so far
    creating,  \* setup requests that found no user and now create theirs
    put,       \* the account a PUT of the workspace was authorised for (bound: one)
    page,      \* page[d]: the React state of the tab
    browser,   \* browser[d]: local and session storage, written with the state
    call,      \* call[d]: the request of LoginView
    reset,     \* reset[d]: the request of "Volver al setup inicial"
    me,        \* me[d]: the checks of a token that are out (refreshUser)
    naming     \* naming[d]: clicks on "Finish profile" that await the profile summary

vars == <<users, docs, epoch, made, creating, put, page, browser, call, reset, me, naming>>

serverVars == <<users, docs, epoch, made, creating, put>>

-----------------------------------------------------------------------------
(* Tokens, pages and what a page shows *)

Token(a) == [user |-> a, epoch |-> epoch]

\* auth_layer: the signature is of the current secret and the account exists.
Valid(t) == t # None /\ t.epoch = epoch /\ t.user \in users

NoPage == [open |-> FALSE, booted |-> FALSE, user |-> None, imp |-> None,
           loading |-> FALSE, view |-> "none", choices |-> {}]

NoCall == [kind |-> "none", at |-> "none", who |-> None]

NoReset == [at |-> "none", token |-> None]

NoBrowser == [token |-> None, first |-> FALSE, profiles |-> {}, active |-> 0]

\* App renders the login view only when the check of the token has ended.
AtLogin(d) == page[d].booted /\ ~page[d].loading /\ page[d].user = None

AtDesktop(d) == page[d].booted /\ ~AtLogin(d)

\* OnboardingWizard covers everything else while there is no profile.
AtWizard(d) == AtDesktop(d) /\ browser[d].profiles = {}

-----------------------------------------------------------------------------
(* AuthProvider *)

\* refreshUser, run by the effect on every new token; `as` is the header
\* X-Impersonate-User, read when the request is made.
Checking(t, imp) == [token |-> t, as |-> imp]

Open(d) ==
    /\ ~page[d].open
    /\ page' = [page EXCEPT ![d] = [NoPage EXCEPT !.open = TRUE,
                                    !.loading = browser[d].token # None]]
    /\ me' = [me EXCEPT ![d] = IF browser[d].token = None THEN {}
                               ELSE {Checking(browser[d].token, None)}]
    /\ UNCHANGED <<serverVars, browser, call, reset, naming>>

\* auth_layer and auth_me: whom the server answers for.
Effective(m) == IF m.as \in users THEN m.as ELSE m.token.user

MeAnswered(d) == \E m \in me[d] :
    /\ Valid(m.token)
    /\ page' = [page EXCEPT ![d] = [@ EXCEPT !.user = Effective(m), !.loading = FALSE,
                                           !.view = "none", !.choices = {}]]
    /\ me' = [me EXCEPT ![d] = @ \ {m}]
    /\ UNCHANGED <<serverVars, browser, call, reset, naming>>

\* A failed check that leaves `isLoading`.
MeFailedLoading(d) == \E m \in me[d] :
    /\ page' = [page EXCEPT ![d].user = None]
    /\ browser' = [browser EXCEPT ![d].token = None]
    /\ me' = [me EXCEPT ![d] = @ \ {m}]
    /\ UNCHANGED <<serverVars, call, reset, naming>>

\* The catch of refreshUser: any failure signs out, and leaves `impersonating`.
MeFailed(d) == \E m \in me[d] :
    /\ page' = [page EXCEPT ![d] = [@ EXCEPT !.user = None, !.loading = FALSE,
                                           !.view = "none", !.choices = {}]]
    /\ browser' = [browser EXCEPT ![d].token = None]
    /\ me' = [me EXCEPT ![d] = @ \ {m}]
    /\ UNCHANGED <<serverVars, call, reset, naming>>

\* A login that keeps acting as somebody else.
SignedInAsBefore(d, t) ==
    /\ page' = [page EXCEPT ![d].user = t.user, ![d].view = "none", ![d].choices = {}]
    /\ me' = [me EXCEPT ![d] = @ \cup {Checking(t, page'[d].imp)}]

\* login and loginWithSession, and the effect on the new token.
SignedIn(d, t) ==
    /\ page' = [page EXCEPT ![d] = [@ EXCEPT !.user = t.user, !.imp = None,
                                           !.view = "none", !.choices = {}]]
    /\ me' = [me EXCEPT ![d] = @ \cup {Checking(t, None)}]

Impersonate(d) ==
    /\ AtDesktop(d)
    /\ page[d].user # None
    /\ ~AtWizard(d)
    /\ \E a \in (users \ {page[d].user}) \cup {None} : page' = [page EXCEPT ![d].imp = a]
    /\ UNCHANGED <<serverVars, browser, call, reset, me, naming>>

-----------------------------------------------------------------------------
(* LoginView *)

Ask(d, kind, a) == call' = [call EXCEPT ![d] = [NoCall EXCEPT
                                !.kind = kind, !.at = "sent", !.who = a]]

Done(d) == call' = [call EXCEPT ![d] = NoCall]

\* On mount, and the retry button of the error screen.
AskStatus(d) ==
    /\ AtLogin(d)
    /\ page[d].view \in {"none", "error"}
    /\ page' = [page EXCEPT ![d].view = "loading"]
    /\ Ask(d, "status", None)
    /\ UNCHANGED <<serverVars, browser, me, reset, naming>>

StatusAnswered(d) ==
    /\ call[d].kind = "status"
    /\ page' = [page EXCEPT ![d] = [@ EXCEPT !.view = "form", !.choices = users]]
    /\ Done(d)
    /\ UNCHANGED <<serverVars, browser, me, reset, naming>>

SubmitLogin(d, a) ==
    /\ page[d].view = "form"
    /\ a \in page[d].choices
    /\ call[d] = NoCall
    /\ Ask(d, "login", a)
    /\ UNCHANGED <<serverVars, page, browser, me, reset, naming>>

LoginAnswered(d) ==
    /\ call[d].kind = "login"
    /\ call[d].who \in users
    /\ SignedIn(d, Token(call[d].who))
    /\ browser' = [browser EXCEPT ![d].token = Token(call[d].who)]
    /\ Done(d)
    /\ UNCHANGED <<serverVars, reset, naming>>

\* No account when the status was asked: FirstRunSetupStep1.
SubmitSetup(d) ==
    /\ page[d].view = "form"
    /\ page[d].choices = {}
    /\ call[d] = NoCall
    /\ Ask(d, "setup", None)
    /\ UNCHANGED <<serverVars, page, browser, me, reset, naming>>

\* handleSetupSubmit after the answer.
SetupAnswered(d) ==
    /\ call[d].kind = "setup"
    /\ call[d].at = "ok"
    /\ SignedIn(d, call[d].who)
    /\ browser' = [browser EXCEPT ![d] = [@ EXCEPT
            !.token = call[d].who, !.first = TRUE, !.profiles = {}, !.active = 0]]
    /\ Done(d)
    /\ UNCHANGED <<serverVars, reset, naming>>

\* The catch of each submit.
CallFailed(d) ==
    /\ call[d].kind # "none"
    /\ IF call[d].kind = "status"
       THEN page' = [page EXCEPT ![d] = [@ EXCEPT !.view = "error", !.choices = {}]]
       ELSE UNCHANGED page
    /\ Done(d)
    /\ UNCHANGED <<serverVars, browser, me, reset, naming>>

-----------------------------------------------------------------------------
(* The server *)

\* auth_setup counts the users, and creates one after the password is hashed.
SetupCounted(d) ==
    /\ call[d].kind = "setup"
    /\ call[d].at = "sent"
    /\ users = {}
    /\ d \notin creating
    /\ creating' = creating \cup {d}
    /\ call' = [call EXCEPT ![d].at = "counted"]
    /\ UNCHANGED <<users, docs, epoch, made, put, page, browser, me, reset, naming>>

SetupCreated(d) ==
    /\ d \in creating
    /\ creating' = creating \ {d}
    /\ \E a \in Accounts \ made :
        /\ users' = users \cup {a}
        /\ made' = made \cup {a}
        /\ call' = [call EXCEPT ![d] = IF @.at = "counted"
                        THEN [@ EXCEPT !.at = "ok", !.who = Token(a)] ELSE @]
    /\ UNCHANGED <<docs, epoch, put, page, browser, me, reset, naming>>

\* clear_all_users.
ResetServed(d) ==
    /\ reset[d].at = "sent"
    /\ Valid(reset[d].token)
    /\ docs' = {}
    /\ users' = {}
    /\ reset' = [reset EXCEPT ![d].at = "ok"]
    /\ UNCHANGED <<epoch, made, creating, put, page, browser, call, me, naming>>

\* A PUT of the workspace passes auth_layer, for the account that is impersonated if
\* there is one, and set_client_state runs later: the foreign key refuses a row of
\* an account that has gone.
PutAuthorised(d) ==
    /\ AtDesktop(d)
    /\ page[d].user # None
    /\ put = None
    /\ Valid(browser[d].token)
    /\ put' = Effective(Checking(browser[d].token, page[d].imp))
    /\ UNCHANGED <<users, docs, epoch, made, creating, page, browser, call, reset, me, naming>>

WrittenAnyway(a) == docs \cup {a}

Written(a) == IF a \in users THEN docs \cup {a} ELSE docs

PutWritten ==
    /\ put # None
    /\ docs' = Written(put)
    /\ put' = None
    /\ UNCHANGED <<users, epoch, made, creating, page, browser, call, reset, me, naming>>

Restart ==
    /\ epoch < MaxRestarts
    /\ epoch' = epoch + 1
    /\ creating' = {}
    /\ put' = None
    /\ call' = [d \in Devices |-> IF call[d].at = "counted"
                                  THEN [call[d] EXCEPT !.at = "failed"] ELSE call[d]]
    /\ UNCHANGED <<users, docs, made, page, browser, me, reset, naming>>

-----------------------------------------------------------------------------
(* SettingsProvider, ProfileProvider and OnboardingWizard *)

\* The boot screens end and ProfileProvider mounts: a stored active profile
\* that is not in the list gives way to the first one.
Booted(d) ==
    /\ page[d].open
    /\ ~page[d].booted
    /\ page' = [page EXCEPT ![d].booted = TRUE]
    /\ \E p \in browser[d].profiles \cup {0} :
        /\ browser' = [browser EXCEPT ![d].active =
                IF browser[d].profiles = {} \/ @ \in browser[d].profiles THEN @ ELSE p]
        /\ (p = 0) = (browser[d].profiles = {})
    /\ UNCHANGED <<serverVars, call, reset, me, naming>>

\* handleFinalize: the button stays enabled while the summary is awaited.
FinishProfile(d) ==
    /\ AtWizard(d)
    /\ naming[d] < MaxProfiles[d]
    /\ naming' = [naming EXCEPT ![d] = @ + 1]
    /\ UNCHANGED <<serverVars, page, browser, call, reset, me>>

Created(b) == LET p == Cardinality(b.profiles) + 1
              IN  [b EXCEPT !.profiles = @ \cup {p}, !.active = p, !.first = FALSE]

ProfileCreated(d) ==
    /\ naming[d] > 0
    /\ naming' = [naming EXCEPT ![d] = @ - 1]
    /\ Cardinality(browser[d].profiles) < MaxProfiles[d]
    /\ browser' = [browser EXCEPT ![d] = Created(@)]
    /\ UNCHANGED <<serverVars, page, call, reset, me>>

\* ProfileSelector.
SelectProfile(d, p) ==
    /\ AtDesktop(d)
    /\ Cardinality(browser[d].profiles) > 1
    /\ p \in browser[d].profiles
    /\ browser' = [browser EXCEPT ![d].active = p]
    /\ UNCHANGED <<serverVars, page, call, reset, me, naming>>

-----------------------------------------------------------------------------
(* UsersSection: the two resets *)

\* handleResetToSetup up to the request: local state goes first.
Cleared(b) == [b EXCEPT !.profiles = {}, !.active = 0, !.first = TRUE]

ResetToSetup(d) ==
    /\ AtDesktop(d)
    /\ page[d].user # None
    /\ ~AtWizard(d)
    /\ reset[d] = NoReset
    /\ browser' = [browser EXCEPT ![d] = Cleared(@)]
    /\ reset' = [reset EXCEPT ![d] = [at |-> "sent", token |-> browser[d].token]]
    /\ UNCHANGED <<serverVars, page, call, me, naming>>

\* A reload that an awaited profile name outlives.
ReloadedMidway(d) ==
    /\ page' = [page EXCEPT ![d] = NoPage]
    /\ me' = [me EXCEPT ![d] = {}]
    /\ reset' = [reset EXCEPT ![d] = NoReset]
    /\ UNCHANGED naming
    /\ Done(d)

\* A load of the page: React state, requests and awaits are gone.
Reloaded(d) ==
    /\ page' = [page EXCEPT ![d] = NoPage]
    /\ me' = [me EXCEPT ![d] = {}]
    /\ naming' = [naming EXCEPT ![d] = 0]
    /\ reset' = [reset EXCEPT ![d] = NoReset]
    /\ Done(d)

\* logout and window.location.reload.
ResetAnswered(d) ==
    /\ reset[d].at = "ok"
    /\ browser' = [browser EXCEPT ![d].token = None]
    /\ Reloaded(d)
    /\ UNCHANGED serverVars

\* An alert, and local state stays cleared.
ResetFailed(d) ==
    /\ reset[d].at # "none"
    /\ reset' = [reset EXCEPT ![d] = NoReset]
    /\ UNCHANGED <<serverVars, page, browser, call, me, naming>>

\* handleReset and reset_all_data: reset_and_seed deletes the users but not
\* their client state, so the foreign key refuses it as soon as there is any.
ResetAllData ==
    /\ AtDesktop(Desktop)
    /\ page[Desktop].user # None
    /\ ~AtWizard(Desktop)
    /\ reset[Desktop] = NoReset
    /\ docs = {}
    /\ \E a \in Accounts \ made :
        /\ users' = {a}
        /\ made' = made \cup {a}
    /\ Reloaded(Desktop)
    /\ UNCHANGED <<docs, epoch, creating, put, browser>>

\* The tab is closed (session storage goes with it) or loaded anew.
Close(d) ==
    /\ page[d].open
    /\ \/ UNCHANGED browser
       \/ browser' = [browser EXCEPT ![d].first = FALSE]
    /\ Reloaded(d)
    /\ UNCHANGED serverVars

-----------------------------------------------------------------------------
Init ==
    /\ users = {}
    /\ docs = {}
    /\ epoch = 0
    /\ made = {}
    /\ creating = {}
    /\ put = None
    /\ page = [d \in Devices |-> NoPage]
    /\ browser = [d \in Devices |-> NoBrowser]
    /\ call = [d \in Devices |-> NoCall]
    /\ reset = [d \in Devices |-> NoReset]
    /\ me = [d \in Devices |-> {}]
    /\ naming = [d \in Devices |-> 0]

Answer(d) == MeAnswered(d) \/ MeFailed(d) \/ StatusAnswered(d) \/ LoginAnswered(d)
                \/ SetupAnswered(d) \/ ResetAnswered(d) \/ CallFailed(d) \/ ResetFailed(d)

Serve(d) == SetupCounted(d) \/ SetupCreated(d) \/ ResetServed(d) \/ PutAuthorised(d)

User(d) == Open(d) \/ Close(d) \/ Impersonate(d) \/ SubmitSetup(d) \/ FinishProfile(d)
                \/ ProfileCreated(d) \/ ResetToSetup(d)
                \/ (\E a \in Accounts : SubmitLogin(d, a))
                \/ (\E p \in 1..MaxProfiles[d] : SelectProfile(d, p))

Next == Restart \/ ResetAllData \/ PutWritten
            \/ \E d \in Devices : Answer(d) \/ Serve(d) \/ User(d) \/ Booted(d) \/ AskStatus(d)

Spec == Init /\ [][Next]_vars

-----------------------------------------------------------------------------
(* Properties *)

Tokens == [user : Accounts, epoch : 0..MaxRestarts]

\* Types, and: a closed page has no state, a request waits for nobody else.
TypeOK ==
    /\ users \subseteq made /\ made \subseteq Accounts
    /\ epoch \in 0..MaxRestarts
    /\ creating \subseteq Devices
    /\ put \in made \cup {None}
    /\ \A d \in Devices :
        /\ page[d].user \in made \cup {None}
        /\ page[d].imp \in made \cup {None}
        /\ browser[d].token \in Tokens \cup {None}
        /\ browser[d].profiles \subseteq 1..MaxProfiles[d]
        /\ call[d].kind = "none" <=> call[d] = NoCall
        /\ ~page[d].open => /\ page[d] = NoPage /\ me[d] = {} /\ call[d] = NoCall
                          /\ reset[d] = NoReset /\ naming[d] = 0

\* Whoever the page shows as signed in is the account of the token its requests
\* carry, whatever order checks, logins, impersonations and resets end in.
UserOwnsToken == \A d \in Devices : page[d].user # None =>
                    /\ browser[d].token # None
                    /\ browser[d].token.user = page[d].user

\* No document is left behind for an account that has been reset, even when the
\* PUT was authorised before the reset.
DocumentsHaveOwner == docs \subseteq users

\* Whatever shows a spinner waits for a request that is out: a page is never
\* left with "Loading..." or an unchecked token and nothing to end it.
SpinnerHasRequest == \A d \in Devices :
    /\ page[d].loading => me[d] # {}
    /\ page[d].view = "loading" => call[d].kind = "status"
=============================================================================
