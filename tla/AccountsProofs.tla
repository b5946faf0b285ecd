--------------------------- MODULE AccountsProofs ---------------------------
(***************************************************************************)
(* The sessions of module Accounts, for every set of devices and accounts:   *)
(* a page shows the account of its token, its spinners have a request that   *)
(* ends them, and no document outlives its account.                         *)
(*                                                                          *)
(* What a device does touches that device only, apart from the accounts it   *)
(* makes or removes.  So the invariant is a conjunct about the server, one   *)
(* about types and, of every device, two about the values it holds; lemma    *)
(* OneDevice reduces an action to what it makes of those values.             *)
(***************************************************************************)
EXTENDS Accounts, FiniteSetTheorems, TLAPS

PageRec == [open : BOOLEAN, booted : BOOLEAN, user : Accounts \cup {None},
            imp : Accounts \cup {None}, loading : BOOLEAN,
            view : {"none", "loading", "form", "error"}, choices : SUBSET Accounts]
BrowserRec == [token : Tokens \cup {None}, first : BOOLEAN, profiles : SUBSET Nat, active : Nat]
CallRec == [kind : {"none", "status", "login", "setup"},
            at : {"none", "sent", "counted", "ok", "failed"},
            who : Accounts \cup {None} \cup Tokens]
ResetRec == [at : {"none", "sent", "ok"}, token : Tokens \cup {None}]
MeRec == [token : Tokens \cup {None}, as : Accounts \cup {None}]

Types ==
    /\ page \in [Devices -> PageRec]
    /\ browser \in [Devices -> BrowserRec]
    /\ call \in [Devices -> CallRec]
    /\ reset \in [Devices -> ResetRec]
    /\ me \in [Devices -> SUBSET MeRec]
    /\ naming \in [Devices -> Nat]

ServerOK ==
    /\ users \subseteq made /\ made \subseteq Accounts
    /\ docs \subseteq users
    /\ epoch \in 0..MaxRestarts
    /\ creating \subseteq Devices
    /\ put \in made \cup {None}

(* The heart of it, on the page, browser, call and checks of a device: every  *)
(* check that is out is of the token the browser has now and acts for nobody  *)
(* else, and the login view has requests only while no check is out and       *)
(* nobody is signed in.  So no answer can come for a token that was replaced. *)
Session(p, b, c, m) ==
    /\ p.user # None => b.token # None /\ b.token.user = p.user
    /\ m \subseteq {Checking(b.token, None)}
    /\ m # {} => b.token # None /\ (p.loading \/ p.user # None)
    /\ p.loading => m # {}
    /\ c.kind # "none" \/ p.view # "none" => p.user = None /\ ~p.loading /\ m = {}
    /\ p.view = "loading" => c.kind = "status"

\* The rest of TypeOK: accounts (all) that were made, and a closed page is empty.
Rest(d, all, p, b, c, r, m, n) ==
    /\ p.user \in all \cup {None} /\ p.imp \in all \cup {None}
    /\ b.profiles \subseteq 1..MaxProfiles[d]
    /\ c.kind = "none" => c = NoCall
    /\ c.at = "ok" => c.who \in Tokens /\ c.who.user \in all
    /\ ~p.open => p = NoPage /\ m = {} /\ c = NoCall /\ r = NoReset /\ n = 0

SessionOK(d) == Session(page[d], browser[d], call[d], me[d])
RestOK(d) == Rest(d, made, page[d], browser[d], call[d], reset[d], me[d], naming[d])
IInv == ServerOK /\ Types /\ \A d \in Devices : SessionOK(d) /\ RestOK(d)

-----------------------------------------------------------------------------
(* A token is a record, and None is not one.                                 *)
LEMMA TokenFacts ==
    ASSUME NEW a \in Accounts, epoch \in 0..MaxRestarts
    PROVE  Token(a) \in Tokens /\ Token(a) # None /\ Token(a).user = a
BY AccountsAssumption DEF Tokens, Token

LEMMA EmptyValues == NoPage \in PageRec /\ NoCall \in CallRec /\ NoReset \in ResetRec
BY DEF NoPage, NoCall, NoReset, PageRec, CallRec, ResetRec

LEMMA TokensAreSomething == \A t \in Tokens : t # None /\ t.user \in Accounts
BY AccountsAssumption DEF Tokens

(* What is known of one device, with the types of its fields.                *)
LEMMA Here ==
    ASSUME IInv, NEW d \in Devices
    PROVE  /\ SessionOK(d) /\ RestOK(d) /\ ServerOK /\ Types
           /\ page[d] \in PageRec /\ browser[d] \in BrowserRec /\ call[d] \in CallRec
           /\ reset[d] \in ResetRec /\ me[d] \in SUBSET MeRec /\ naming[d] \in Nat
BY DEF IInv, Types

(* More accounts that were made: what was said of a device still holds.      *)
LEMMA RestMonotone ==
    ASSUME NEW d, NEW all, NEW more, all \subseteq more,
           NEW p, NEW b, NEW c, NEW r, NEW m, NEW n, Rest(d, all, p, b, c, r, m, n)
    PROVE  Rest(d, more, p, b, c, r, m, n)
BY DEF Rest

(* A step that gives one device new values, which satisfy what is said of a   *)
(* device, preserves the invariant.                                          *)
LEMMA OneDevice ==
    ASSUME IInv, NEW d \in Devices, ServerOK', made \subseteq made',
           NEW p \in PageRec, NEW b \in BrowserRec, NEW c \in CallRec,
           NEW r \in ResetRec, NEW m \in SUBSET MeRec, NEW n \in Nat,
           page' = [page EXCEPT ![d] = p], browser' = [browser EXCEPT ![d] = b],
           call' = [call EXCEPT ![d] = c], reset' = [reset EXCEPT ![d] = r],
           me' = [me EXCEPT ![d] = m], naming' = [naming EXCEPT ![d] = n],
           Session(p, b, c, m), Rest(d, made', p, b, c, r, m, n)
    PROVE  IInv'
<1>1. Types'
    BY DEF IInv, Types
<1>2. SessionOK(d)' /\ RestOK(d)'
    <2>1. /\ page'[d] = p /\ browser'[d] = b /\ call'[d] = c
          /\ reset'[d] = r /\ me'[d] = m /\ naming'[d] = n
        BY DEF IInv, Types
    <2> QED BY <2>1 DEF SessionOK, RestOK
<1>3. ASSUME NEW e \in Devices, e # d PROVE SessionOK(e)' /\ RestOK(e)'
    <2>1. /\ page'[e] = page[e] /\ browser'[e] = browser[e] /\ call'[e] = call[e]
          /\ reset'[e] = reset[e] /\ me'[e] = me[e] /\ naming'[e] = naming[e]
        BY <1>3 DEF IInv, Types
    <2>2. SessionOK(e) /\ RestOK(e)
        BY DEF IInv
    <2> QED BY <2>1, <2>2, RestMonotone DEF SessionOK, RestOK
<1> QED BY <1>1, <1>2, <1>3 DEF IInv

(* The same when nothing of any device changes.                              *)
LEMMA NoDevice ==
    ASSUME IInv, ServerOK', made \subseteq made',
           UNCHANGED <<page, browser, call, reset, me, naming>>
    PROVE  IInv'
<1>1. Types'
    BY DEF IInv, Types
<1>2. ASSUME NEW e \in Devices PROVE SessionOK(e)' /\ RestOK(e)'
    BY RestMonotone DEF IInv, SessionOK, RestOK
<1> QED BY <1>1, <1>2 DEF IInv

-----------------------------------------------------------------------------
(* One lemma for each action of a device.                                    *)

(* The first check is of the stored token. *)
LEMMA OpenStep ==
    ASSUME IInv, NEW d \in Devices, Open(d)
    PROVE  IInv'
<1>0. call[d].kind = "none"
    BY Here DEF RestOK, Rest, Open, NoCall
<1> DEFINE P == [NoPage EXCEPT !.open = TRUE, !.loading = (browser[d].token # None)]
<1> DEFINE M == IF browser[d].token = None THEN {} ELSE {Checking(browser[d].token, None)}
<1>1. ServerOK' /\ made \subseteq made'
    BY Here DEF ServerOK, Open, serverVars
<1>2. P \in PageRec /\ M \in SUBSET MeRec
    <2>1. P \in PageRec
        BY DEF NoPage, PageRec
    <2>2. M \in SUBSET MeRec
        BY Here, AccountsAssumption DEF Checking, MeRec, BrowserRec
    <2> QED BY <2>1, <2>2
<1>3. Session(P, browser[d], call[d], M)
    BY <1>0 DEF Session, NoPage, NoCall
<1>4. Rest(d, made', P, browser[d], call[d], reset[d], M, naming[d])
    BY Here, <1>1 DEF RestOK, Rest, Open
<1>5. /\ page' = [page EXCEPT ![d] = P]
      /\ browser' = [browser EXCEPT ![d] = browser[d]]
      /\ call' = [call EXCEPT ![d] = call[d]]
      /\ reset' = [reset EXCEPT ![d] = reset[d]]
      /\ me' = [me EXCEPT ![d] = M]
      /\ naming' = [naming EXCEPT ![d] = naming[d]]
    BY Here, <1>0 DEF Types, Open, serverVars, NoCall
<1> HIDE DEF P, M
<1> QED BY <1>1, <1>2, <1>3, <1>4, <1>5, Here, OneDevice

(* The answer is about the account of the token, as nobody is impersonated. *)
LEMMA MeAnsweredStep ==
    ASSUME IInv, NEW d \in Devices, MeAnswered(d)
    PROVE  IInv'
<1>0. PICK m \in me[d] :
        /\ Valid(m.token)
           /\ page' = [page EXCEPT ![d] = [@ EXCEPT !.user = Effective(m), !.loading = FALSE,
                                                  !.view = "none", !.choices = {}]]
           /\ me' = [me EXCEPT ![d] = @ \ {m}]
           /\ UNCHANGED <<serverVars, browser, call, reset, naming>>
    BY DEF MeAnswered
<1>a. me[d] = {m} /\ m = Checking(browser[d].token, None) /\ browser[d].token # None
    BY Here, <1>0 DEF SessionOK, Session
<1>b. m.token = browser[d].token /\ m.as = None
    BY <1>a DEF Checking
<1>c. call[d].kind = "none" /\ page[d].view = "none" /\ browser[d].token \in Tokens
    BY <1>a, Here, m \in me[d] DEF SessionOK, Session, BrowserRec
<1>d. Effective(m) = browser[d].token.user /\ browser[d].token.user \in users
    BY <1>0, <1>b, Here, AccountsAssumption DEF Effective, Valid, ServerOK
<1> DEFINE P == [page[d] EXCEPT !.user = browser[d].token.user, !.loading = FALSE,
                                  !.view = "none", !.choices = {}]
<1> DEFINE M == {}
<1>1. ServerOK' /\ made \subseteq made'
    BY Here DEF ServerOK, MeAnswered, serverVars
<1>2. P \in PageRec /\ M \in SUBSET MeRec
    <2>1. P \in PageRec
        BY Here, <1>d DEF ServerOK, PageRec
    <2>2. M \in SUBSET MeRec
        OBVIOUS
    <2> QED BY <2>1, <2>2
<1>3. Session(P, browser[d], call[d], M)
    BY Here, <1>a, <1>c DEF SessionOK, Session, PageRec
<1>4. Rest(d, made', P, browser[d], call[d], reset[d], M, naming[d])
    BY Here, <1>d, <1>1 DEF RestOK, Rest, ServerOK
<1>5. /\ page' = [page EXCEPT ![d] = P]
      /\ browser' = [browser EXCEPT ![d] = browser[d]]
      /\ call' = [call EXCEPT ![d] = call[d]]
      /\ reset' = [reset EXCEPT ![d] = reset[d]]
      /\ me' = [me EXCEPT ![d] = M]
      /\ naming' = [naming EXCEPT ![d] = naming[d]]
    BY Here, <1>0, <1>a, <1>d DEF Types
<1> HIDE DEF P, M
<1> QED BY <1>1, <1>2, <1>3, <1>4, <1>5, Here, OneDevice

(* The check that fails was the only one. *)
LEMMA MeFailedStep ==
    ASSUME IInv, NEW d \in Devices, MeFailed(d)
    PROVE  IInv'
<1>0. PICK m \in me[d] :
        /\ page' = [page EXCEPT ![d] = [@ EXCEPT !.user = None, !.loading = FALSE,
                                                  !.view = "none", !.choices = {}]]
           /\ browser' = [browser EXCEPT ![d].token = None]
           /\ me' = [me EXCEPT ![d] = @ \ {m}]
           /\ UNCHANGED <<serverVars, call, reset, naming>>
    BY DEF MeFailed
<1>a. me[d] = {m} /\ m = Checking(browser[d].token, None) /\ browser[d].token # None
    BY Here, <1>0 DEF SessionOK, Session
<1>b. m.token = browser[d].token /\ m.as = None
    BY <1>a DEF Checking
<1>c. call[d].kind = "none" /\ page[d].view = "none" /\ browser[d].token \in Tokens
    BY <1>a, Here, m \in me[d] DEF SessionOK, Session, BrowserRec
<1> DEFINE P == [page[d] EXCEPT !.user = None, !.loading = FALSE, !.view = "none", !.choices = {}]
<1> DEFINE B == [browser[d] EXCEPT !.token = None]
<1> DEFINE M == {}
<1>1. ServerOK' /\ made \subseteq made'
    BY Here DEF ServerOK, MeFailed, serverVars
<1>2. P \in PageRec /\ B \in BrowserRec /\ M \in SUBSET MeRec
    <2>1. P \in PageRec
        BY Here DEF PageRec
    <2>2. B \in BrowserRec
        BY Here DEF BrowserRec
    <2>3. M \in SUBSET MeRec
        OBVIOUS
    <2> QED BY <2>1, <2>2, <2>3
<1>3. Session(P, B, call[d], M)
    BY Here, <1>c DEF Session, PageRec, BrowserRec
<1>4. Rest(d, made', P, B, call[d], reset[d], M, naming[d])
    BY Here, <1>1 DEF RestOK, Rest
<1>5. /\ page' = [page EXCEPT ![d] = P]
      /\ browser' = [browser EXCEPT ![d] = B]
      /\ call' = [call EXCEPT ![d] = call[d]]
      /\ reset' = [reset EXCEPT ![d] = reset[d]]
      /\ me' = [me EXCEPT ![d] = M]
      /\ naming' = [naming EXCEPT ![d] = naming[d]]
    BY Here, <1>0, <1>a DEF Types
<1> HIDE DEF P, B, M
<1> QED BY <1>1, <1>2, <1>3, <1>4, <1>5, Here, OneDevice

(* Impersonation starts no check. *)
LEMMA ImpersonateStep ==
    ASSUME IInv, NEW d \in Devices, Impersonate(d)
    PROVE  IInv'
<1>0. PICK a \in (users \ {page[d].user}) \cup {None} : page' = [page EXCEPT ![d].imp = a]
    BY DEF Impersonate
<1> DEFINE P == [page[d] EXCEPT !.imp = a]
<1>1. ServerOK' /\ made \subseteq made'
    BY Here DEF ServerOK, Impersonate, serverVars
<1>2. P \in PageRec
    BY Here, <1>0 DEF ServerOK, PageRec
<1>3. Session(P, browser[d], call[d], me[d])
    BY Here DEF SessionOK, Session
<1>4. Rest(d, made', P, browser[d], call[d], reset[d], me[d], naming[d])
    BY Here, <1>1 DEF ServerOK, RestOK, Rest, Impersonate, NoPage
<1>5. /\ page' = [page EXCEPT ![d] = P]
      /\ browser' = [browser EXCEPT ![d] = browser[d]]
      /\ call' = [call EXCEPT ![d] = call[d]]
      /\ reset' = [reset EXCEPT ![d] = reset[d]]
      /\ me' = [me EXCEPT ![d] = me[d]]
      /\ naming' = [naming EXCEPT ![d] = naming[d]]
    BY Here, <1>0 DEF Types, Impersonate, AtDesktop
<1> HIDE DEF P
<1> QED BY <1>1, <1>2, <1>3, <1>4, <1>5, Here, OneDevice

(* The login view asks when nothing else is out. *)
LEMMA AskStatusStep ==
    ASSUME IInv, NEW d \in Devices, AskStatus(d)
    PROVE  IInv'
<1> DEFINE P == [page[d] EXCEPT !.view = "loading"]
<1> DEFINE C == [NoCall EXCEPT !.kind = "status", !.at = "sent", !.who = None]
<1>1. ServerOK' /\ made \subseteq made'
    BY Here DEF ServerOK, AskStatus, serverVars
<1>2. P \in PageRec /\ C \in CallRec
    <2>1. P \in PageRec
        BY Here DEF PageRec
    <2>2. C \in CallRec
        BY DEF NoCall, CallRec
    <2> QED BY <2>1, <2>2
<1>3. Session(P, browser[d], C, me[d])
    BY Here DEF SessionOK, Session, AskStatus, AtLogin
<1>4. Rest(d, made', P, browser[d], C, reset[d], me[d], naming[d])
    BY Here DEF RestOK, Rest, AskStatus, serverVars, AtLogin, NoPage
<1>5. /\ page' = [page EXCEPT ![d] = P]
      /\ browser' = [browser EXCEPT ![d] = browser[d]]
      /\ call' = [call EXCEPT ![d] = C]
      /\ reset' = [reset EXCEPT ![d] = reset[d]]
      /\ me' = [me EXCEPT ![d] = me[d]]
      /\ naming' = [naming EXCEPT ![d] = naming[d]]
    BY Here DEF Types, AskStatus, Ask
<1> HIDE DEF P, C
<1> QED BY <1>1, <1>2, <1>3, <1>4, <1>5, Here, OneDevice

(* An answered status. *)
LEMMA StatusAnsweredStep ==
    ASSUME IInv, NEW d \in Devices, StatusAnswered(d)
    PROVE  IInv'
<1> DEFINE P == [page[d] EXCEPT !.view = "form", !.choices = users]
<1> DEFINE C == NoCall
<1>1. ServerOK' /\ made \subseteq made'
    BY Here DEF ServerOK, StatusAnswered, serverVars
<1>2. P \in PageRec /\ C \in CallRec
    <2>1. P \in PageRec
        BY Here DEF PageRec, ServerOK
    <2>2. C \in CallRec
        BY EmptyValues
    <2> QED BY <2>1, <2>2
<1>3. Session(P, browser[d], C, me[d])
    BY Here DEF SessionOK, Session, StatusAnswered
<1>4. Rest(d, made', P, browser[d], C, reset[d], me[d], naming[d])
    BY Here DEF RestOK, Rest, StatusAnswered, serverVars, NoCall
<1>5. /\ page' = [page EXCEPT ![d] = P]
      /\ browser' = [browser EXCEPT ![d] = browser[d]]
      /\ call' = [call EXCEPT ![d] = C]
      /\ reset' = [reset EXCEPT ![d] = reset[d]]
      /\ me' = [me EXCEPT ![d] = me[d]]
      /\ naming' = [naming EXCEPT ![d] = naming[d]]
    BY Here DEF Types, StatusAnswered, serverVars, Done, NoCall
<1> HIDE DEF P, C
<1> QED BY <1>1, <1>2, <1>3, <1>4, <1>5, Here, OneDevice

(* A submitted login. *)
LEMMA SubmitLoginStep ==
    ASSUME IInv, NEW d \in Devices, NEW a \in Accounts, SubmitLogin(d, a)
    PROVE  IInv'
<1> DEFINE C == [NoCall EXCEPT !.kind = "login", !.at = "sent", !.who = a]
<1>1. ServerOK' /\ made \subseteq made'
    BY Here DEF ServerOK, SubmitLogin, serverVars
<1>2. C \in CallRec
    BY DEF NoCall, CallRec
<1>3. Session(page[d], browser[d], C, me[d])
    BY Here DEF SessionOK, Session, SubmitLogin
<1>4. Rest(d, made', page[d], browser[d], C, reset[d], me[d], naming[d])
    BY Here DEF RestOK, Rest, SubmitLogin, serverVars, NoPage
<1>5. /\ page' = [page EXCEPT ![d] = page[d]]
      /\ browser' = [browser EXCEPT ![d] = browser[d]]
      /\ call' = [call EXCEPT ![d] = C]
      /\ reset' = [reset EXCEPT ![d] = reset[d]]
      /\ me' = [me EXCEPT ![d] = me[d]]
      /\ naming' = [naming EXCEPT ![d] = naming[d]]
    BY Here DEF Types, SubmitLogin, serverVars, Ask, NoCall
<1> HIDE DEF C
<1> QED BY <1>1, <1>2, <1>3, <1>4, <1>5, Here, OneDevice

(* A login signs in the account of its token. *)
LEMMA LoginAnsweredStep ==
    ASSUME IInv, NEW d \in Devices, LoginAnswered(d)
    PROVE  IInv'
<1> DEFINE P == [page[d] EXCEPT !.user = Token(call[d].who).user, !.imp = None,
                                  !.view = "none", !.choices = {}]
<1> DEFINE B == [browser[d] EXCEPT !.token = Token(call[d].who)]
<1> DEFINE C == NoCall
<1> DEFINE M == me[d] \cup {Checking(Token(call[d].who), None)}
<1>1. ServerOK' /\ made \subseteq made'
    BY Here DEF ServerOK, LoginAnswered, serverVars
<1>2. P \in PageRec /\ B \in BrowserRec /\ C \in CallRec /\ M \in SUBSET MeRec
    <2>1. P \in PageRec
        BY Here, EmptyValues, TokenFacts DEF ServerOK, LoginAnswered, PageRec
    <2>2. B \in BrowserRec
        BY Here, TokenFacts DEF ServerOK, LoginAnswered, BrowserRec
    <2>3. C \in CallRec
        BY EmptyValues
    <2>4. M \in SUBSET MeRec
        BY Here, TokenFacts DEF ServerOK, LoginAnswered, Checking, MeRec
    <2> QED BY <2>1, <2>2, <2>3, <2>4
<1>3. Session(P, B, C, M)
    BY Here, AccountsAssumption, TokenFacts
        DEF ServerOK, SessionOK, Session, LoginAnswered, NoCall
<1>4. Rest(d, made', P, B, C, reset[d], M, naming[d])
    BY Here, TokenFacts DEF ServerOK, RestOK, Rest, LoginAnswered, serverVars, NoCall
<1>5. /\ page' = [page EXCEPT ![d] = P]
      /\ browser' = [browser EXCEPT ![d] = B]
      /\ call' = [call EXCEPT ![d] = C]
      /\ reset' = [reset EXCEPT ![d] = reset[d]]
      /\ me' = [me EXCEPT ![d] = M]
      /\ naming' = [naming EXCEPT ![d] = naming[d]]
    BY Here DEF Types, LoginAnswered, SignedIn, Done
<1> HIDE DEF P, B, C, M
<1> QED BY <1>1, <1>2, <1>3, <1>4, <1>5, Here, OneDevice

(* A submitted setup. *)
LEMMA SubmitSetupStep ==
    ASSUME IInv, NEW d \in Devices, SubmitSetup(d)
    PROVE  IInv'
<1> DEFINE C == [NoCall EXCEPT !.kind = "setup", !.at = "sent", !.who = None]
<1>1. ServerOK' /\ made \subseteq made'
    BY Here DEF ServerOK, SubmitSetup, serverVars
<1>2. C \in CallRec
    BY DEF NoCall, CallRec
<1>3. Session(page[d], browser[d], C, me[d])
    BY Here DEF SessionOK, Session, SubmitSetup
<1>4. Rest(d, made', page[d], browser[d], C, reset[d], me[d], naming[d])
    BY Here DEF RestOK, Rest, SubmitSetup, serverVars, NoPage
<1>5. /\ page' = [page EXCEPT ![d] = page[d]]
      /\ browser' = [browser EXCEPT ![d] = browser[d]]
      /\ call' = [call EXCEPT ![d] = C]
      /\ reset' = [reset EXCEPT ![d] = reset[d]]
      /\ me' = [me EXCEPT ![d] = me[d]]
      /\ naming' = [naming EXCEPT ![d] = naming[d]]
    BY Here DEF Types, SubmitSetup, serverVars, Ask, NoCall
<1> HIDE DEF C
<1> QED BY <1>1, <1>2, <1>3, <1>4, <1>5, Here, OneDevice

(* So does a setup. *)
LEMMA SetupAnsweredStep ==
    ASSUME IInv, NEW d \in Devices, SetupAnswered(d)
    PROVE  IInv'
<1>0. call[d].who \in Tokens
    BY Here DEF SetupAnswered, RestOK, Rest
<1> DEFINE P == [page[d] EXCEPT !.user = call[d].who.user, !.imp = None,
                                  !.view = "none", !.choices = {}]
<1> DEFINE B == [browser[d] EXCEPT !.token = call[d].who, !.first = TRUE,
                                     !.profiles = {}, !.active = 0]
<1> DEFINE C == NoCall
<1> DEFINE M == me[d] \cup {Checking(call[d].who, None)}
<1>1. ServerOK' /\ made \subseteq made'
    BY Here DEF ServerOK, SetupAnswered, serverVars
<1>2. P \in PageRec /\ B \in BrowserRec /\ C \in CallRec /\ M \in SUBSET MeRec
    <2>1. P \in PageRec
        BY Here, <1>0, EmptyValues, TokensAreSomething DEF PageRec
    <2>2. B \in BrowserRec
        BY Here, <1>0 DEF BrowserRec
    <2>3. C \in CallRec
        BY EmptyValues
    <2>4. M \in SUBSET MeRec
        BY Here, <1>0 DEF Checking, MeRec
    <2> QED BY <2>1, <2>2, <2>3, <2>4
<1>3. Session(P, B, C, M)
    BY Here, <1>0, AccountsAssumption, TokensAreSomething
        DEF SessionOK, Session, RestOK, Rest, NoCall
<1>4. Rest(d, made', P, B, C, reset[d], M, naming[d])
    BY Here, <1>1 DEF RestOK, Rest, SetupAnswered, NoCall
<1>5. /\ page' = [page EXCEPT ![d] = P]
      /\ browser' = [browser EXCEPT ![d] = B]
      /\ call' = [call EXCEPT ![d] = C]
      /\ reset' = [reset EXCEPT ![d] = reset[d]]
      /\ me' = [me EXCEPT ![d] = M]
      /\ naming' = [naming EXCEPT ![d] = naming[d]]
    BY Here, <1>0 DEF Types, SetupAnswered, SignedIn, Done
<1> HIDE DEF P, B, C, M
<1> QED BY <1>1, <1>2, <1>3, <1>4, <1>5, Here, OneDevice

(* A request of the login view fails. *)
LEMMA CallFailedStep ==
    ASSUME IInv, NEW d \in Devices, CallFailed(d)
    PROVE  IInv'
<1> DEFINE P == IF call[d].kind = "status"
                THEN [page[d] EXCEPT !.view = "error", !.choices = {}] ELSE page[d]
<1> DEFINE C == NoCall
<1>1. ServerOK' /\ made \subseteq made'
    BY Here DEF ServerOK, CallFailed, serverVars
<1>2. P \in PageRec /\ C \in CallRec
    <2>1. P \in PageRec
        BY Here DEF PageRec
    <2>2. C \in CallRec
        BY EmptyValues
    <2> QED BY <2>1, <2>2
<1>3. Session(P, browser[d], C, me[d])
    BY Here DEF SessionOK, Session, CallFailed
<1>4. Rest(d, made', P, browser[d], C, reset[d], me[d], naming[d])
    BY Here, <1>1 DEF RestOK, Rest, NoCall
<1>5. /\ page' = [page EXCEPT ![d] = P]
      /\ browser' = [browser EXCEPT ![d] = browser[d]]
      /\ call' = [call EXCEPT ![d] = C]
      /\ reset' = [reset EXCEPT ![d] = reset[d]]
      /\ me' = [me EXCEPT ![d] = me[d]]
      /\ naming' = [naming EXCEPT ![d] = naming[d]]
    BY Here DEF Types, CallFailed, serverVars, Done, NoCall
<1> HIDE DEF P, C
<1> QED BY <1>1, <1>2, <1>3, <1>4, <1>5, Here, OneDevice

(* The server finds no account. *)
LEMMA SetupCountedStep ==
    ASSUME IInv, NEW d \in Devices, SetupCounted(d)
    PROVE  IInv'
<1> DEFINE C == [call[d] EXCEPT !.at = "counted"]
<1>1. ServerOK' /\ made \subseteq made'
    BY Here DEF ServerOK, SetupCounted
<1>2. C \in CallRec
    BY Here DEF CallRec
<1>3. Session(page[d], browser[d], C, me[d])
    BY Here DEF SessionOK, Session
<1>4. Rest(d, made', page[d], browser[d], C, reset[d], me[d], naming[d])
    BY Here DEF RestOK, Rest, SetupCounted, NoCall
<1>5. /\ page' = [page EXCEPT ![d] = page[d]]
      /\ browser' = [browser EXCEPT ![d] = browser[d]]
      /\ call' = [call EXCEPT ![d] = C]
      /\ reset' = [reset EXCEPT ![d] = reset[d]]
      /\ me' = [me EXCEPT ![d] = me[d]]
      /\ naming' = [naming EXCEPT ![d] = naming[d]]
    BY Here DEF Types, SetupCounted, serverVars, NoCall
<1> HIDE DEF C
<1> QED BY <1>1, <1>2, <1>3, <1>4, <1>5, Here, OneDevice

(* It makes one, also when the page that asked has gone. *)
LEMMA SetupCreatedStep ==
    ASSUME IInv, NEW d \in Devices, SetupCreated(d)
    PROVE  IInv'
<1>0. PICK a \in Accounts \ made :
        /\ users' = users \cup {a}
        /\ made' = made \cup {a}
        /\ call' = [call EXCEPT ![d] = IF @.at = "counted"
                                       THEN [@ EXCEPT !.at = "ok", !.who = Token(a)] ELSE @]
    BY DEF SetupCreated
<1>a. Token(a) \in Tokens /\ Token(a) # None /\ Token(a).user = a
    BY Here, TokenFacts DEF ServerOK
<1> DEFINE C == IF call[d].at = "counted"
                THEN [call[d] EXCEPT !.at = "ok", !.who = Token(a)] ELSE call[d]
<1>1. ServerOK' /\ made \subseteq made'
    BY Here DEF ServerOK, SetupCreated
<1>2. C \in CallRec
    BY Here, <1>a DEF CallRec
<1>3. Session(page[d], browser[d], C, me[d])
    BY Here DEF SessionOK, Session
<1>4. Rest(d, made', page[d], browser[d], C, reset[d], me[d], naming[d])
    BY Here, <1>0, <1>a DEF RestOK, Rest, NoCall
<1>5. /\ page' = [page EXCEPT ![d] = page[d]]
      /\ browser' = [browser EXCEPT ![d] = browser[d]]
      /\ call' = [call EXCEPT ![d] = C]
      /\ reset' = [reset EXCEPT ![d] = reset[d]]
      /\ me' = [me EXCEPT ![d] = me[d]]
      /\ naming' = [naming EXCEPT ![d] = naming[d]]
    BY Here, <1>0 DEF Types, SetupCreated, serverVars, NoCall
<1> HIDE DEF C
<1> QED BY <1>1, <1>2, <1>3, <1>4, <1>5, Here, OneDevice

(* A reset removes documents and accounts together. *)
LEMMA ResetServedStep ==
    ASSUME IInv, NEW d \in Devices, ResetServed(d)
    PROVE  IInv'
<1> DEFINE R == [reset[d] EXCEPT !.at = "ok"]
<1>1. ServerOK' /\ made \subseteq made'
    BY Here DEF ServerOK, ResetServed
<1>2. R \in ResetRec
    BY Here DEF ResetRec
<1>3. Session(page[d], browser[d], call[d], me[d])
    BY Here DEF SessionOK
<1>4. Rest(d, made', page[d], browser[d], call[d], R, me[d], naming[d])
    BY Here DEF RestOK, Rest, ResetServed, NoReset
<1>5. /\ page' = [page EXCEPT ![d] = page[d]]
      /\ browser' = [browser EXCEPT ![d] = browser[d]]
      /\ call' = [call EXCEPT ![d] = call[d]]
      /\ reset' = [reset EXCEPT ![d] = R]
      /\ me' = [me EXCEPT ![d] = me[d]]
      /\ naming' = [naming EXCEPT ![d] = naming[d]]
    BY Here DEF Types, ResetServed, serverVars, NoCall
<1> HIDE DEF R
<1> QED BY <1>1, <1>2, <1>3, <1>4, <1>5, Here, OneDevice

(* The providers mount. *)
LEMMA BootedStep ==
    ASSUME IInv, NEW d \in Devices, Booted(d)
    PROVE  IInv'
<1>0. PICK p \in browser[d].profiles \cup {0} :
        browser' = [browser EXCEPT ![d].active =
            IF browser[d].profiles = {} \/ @ \in browser[d].profiles THEN @ ELSE p]
    BY DEF Booted
<1> DEFINE P == [page[d] EXCEPT !.booted = TRUE]
<1> DEFINE B == [browser[d] EXCEPT !.active =
                    IF browser[d].profiles = {} \/ browser[d].active \in browser[d].profiles
                    THEN browser[d].active ELSE p]
<1>1. ServerOK' /\ made \subseteq made'
    BY Here DEF ServerOK, Booted, serverVars
<1>2. P \in PageRec /\ B \in BrowserRec
    <2>1. P \in PageRec
        BY Here DEF PageRec
    <2>2. B \in BrowserRec
        BY Here, <1>0 DEF BrowserRec
    <2> QED BY <2>1, <2>2
<1>3. Session(P, B, call[d], me[d])
    BY Here DEF SessionOK, Session
<1>4. Rest(d, made', P, B, call[d], reset[d], me[d], naming[d])
    BY Here, <1>1 DEF RestOK, Rest, Booted
<1>5. /\ page' = [page EXCEPT ![d] = P]
      /\ browser' = [browser EXCEPT ![d] = B]
      /\ call' = [call EXCEPT ![d] = call[d]]
      /\ reset' = [reset EXCEPT ![d] = reset[d]]
      /\ me' = [me EXCEPT ![d] = me[d]]
      /\ naming' = [naming EXCEPT ![d] = naming[d]]
    BY Here, <1>0 DEF Types, Booted, serverVars, NoCall
<1> HIDE DEF P, B
<1> QED BY <1>1, <1>2, <1>3, <1>4, <1>5, Here, OneDevice

(* A click in the wizard. *)
LEMMA FinishProfileStep ==
    ASSUME IInv, NEW d \in Devices, FinishProfile(d)
    PROVE  IInv'
<1> DEFINE N == naming[d] + 1
<1>1. ServerOK' /\ made \subseteq made'
    BY Here DEF ServerOK, FinishProfile, serverVars
<1>2. N \in Nat
    BY Here
<1>3. Session(page[d], browser[d], call[d], me[d])
    BY Here DEF SessionOK
<1>4. Rest(d, made', page[d], browser[d], call[d], reset[d], me[d], N)
    BY Here DEF RestOK, Rest, FinishProfile, serverVars, AtWizard, AtDesktop, NoPage
<1>5. /\ page' = [page EXCEPT ![d] = page[d]]
      /\ browser' = [browser EXCEPT ![d] = browser[d]]
      /\ call' = [call EXCEPT ![d] = call[d]]
      /\ reset' = [reset EXCEPT ![d] = reset[d]]
      /\ me' = [me EXCEPT ![d] = me[d]]
      /\ naming' = [naming EXCEPT ![d] = N]
    BY Here DEF Types, FinishProfile
<1> HIDE DEF N
<1> QED BY <1>1, <1>2, <1>3, <1>4, <1>5, Here, OneDevice

(* A profile gets the next number. *)
LEMMA ProfileCreatedStep ==
    ASSUME IInv, NEW d \in Devices, ProfileCreated(d)
    PROVE  IInv'
<1>0. PICK k \in 1..MaxProfiles[d] :
        browser' = [browser EXCEPT ![d] =
            [browser[d] EXCEPT !.profiles = browser[d].profiles \cup {k},
                               !.active = k, !.first = FALSE]]
    <2>1. browser[d].profiles \subseteq 1..MaxProfiles[d] /\ MaxProfiles[d] \in Nat
        BY Here, AccountsAssumption DEF RestOK, Rest
    <2>2. IsFiniteSet(1..MaxProfiles[d])
        BY <2>1, FS_Interval
    <2>3. Cardinality(browser[d].profiles) \in Nat
        BY <2>1, <2>2, FS_Subset, FS_CardinalityType
    <2>4. /\ Cardinality(browser[d].profiles) < MaxProfiles[d]
          /\ browser' = [browser EXCEPT ![d] = Created(browser[d])]
        BY Here DEF Types, ProfileCreated
    <2>5. Cardinality(browser[d].profiles) + 1 \in 1..MaxProfiles[d]
        BY <2>1, <2>3, <2>4
    <2> QED BY <2>4, <2>5 DEF Created
<1>a. k \in Nat
    BY AccountsAssumption
<1>b. browser[d].profiles \cup {k} \in SUBSET Nat
    BY <1>a, Here DEF BrowserRec
<1>c. browser[d] \in BrowserRec
    BY Here
<1> DEFINE B == [browser[d] EXCEPT !.profiles = browser[d].profiles \cup {k},
                                     !.active = k, !.first = FALSE]
<1> DEFINE N == naming[d] - 1
<1>1. ServerOK' /\ made \subseteq made'
    BY Here DEF ServerOK, ProfileCreated, serverVars
<1>2. B \in BrowserRec /\ N \in Nat
    <2>1. B \in BrowserRec
        BY <1>a, <1>b, <1>c DEF BrowserRec
    <2>2. N \in Nat
        BY Here DEF ProfileCreated
    <2> QED BY <2>1, <2>2
<1>3. Session(page[d], B, call[d], me[d])
    BY Here DEF SessionOK, Session, BrowserRec
<1>4. Rest(d, made', page[d], B, call[d], reset[d], me[d], N)
    BY Here, <1>1 DEF RestOK, Rest, ProfileCreated
<1>5. /\ page' = [page EXCEPT ![d] = page[d]]
      /\ browser' = [browser EXCEPT ![d] = B]
      /\ call' = [call EXCEPT ![d] = call[d]]
      /\ reset' = [reset EXCEPT ![d] = reset[d]]
      /\ me' = [me EXCEPT ![d] = me[d]]
      /\ naming' = [naming EXCEPT ![d] = N]
    BY Here, <1>0 DEF Types, ProfileCreated, serverVars
<1> HIDE DEF B, N
<1> QED BY <1>1, <1>2, <1>3, <1>4, <1>5, Here, OneDevice

(* A profile is chosen. *)
LEMMA SelectProfileStep ==
    ASSUME IInv, NEW d \in Devices, NEW p \in 1..MaxProfiles[d], SelectProfile(d, p)
    PROVE  IInv'
<1> DEFINE B == [browser[d] EXCEPT !.active = p]
<1>1. ServerOK' /\ made \subseteq made'
    BY Here DEF ServerOK, SelectProfile, serverVars
<1>2. B \in BrowserRec
    BY Here, AccountsAssumption DEF BrowserRec
<1>3. Session(page[d], B, call[d], me[d])
    BY Here DEF SessionOK, Session
<1>4. Rest(d, made', page[d], B, call[d], reset[d], me[d], naming[d])
    BY Here, <1>1 DEF RestOK, Rest
<1>5. /\ page' = [page EXCEPT ![d] = page[d]]
      /\ browser' = [browser EXCEPT ![d] = B]
      /\ call' = [call EXCEPT ![d] = call[d]]
      /\ reset' = [reset EXCEPT ![d] = reset[d]]
      /\ me' = [me EXCEPT ![d] = me[d]]
      /\ naming' = [naming EXCEPT ![d] = naming[d]]
    BY Here DEF Types, SelectProfile, AtDesktop
<1> HIDE DEF B
<1> QED BY <1>1, <1>2, <1>3, <1>4, <1>5, Here, OneDevice

(* The token outlives the cleared state. *)
LEMMA ResetToSetupStep ==
    ASSUME IInv, NEW d \in Devices, ResetToSetup(d)
    PROVE  IInv'
<1> DEFINE B == [browser[d] EXCEPT !.profiles = {}, !.active = 0, !.first = TRUE]
<1> DEFINE R == [at |-> "sent", token |-> browser[d].token]
<1>1. ServerOK' /\ made \subseteq made'
    BY Here DEF ServerOK, ResetToSetup, serverVars
<1>2. B \in BrowserRec /\ R \in ResetRec
    <2>1. B \in BrowserRec
        BY Here DEF BrowserRec
    <2>2. R \in ResetRec
        BY Here DEF BrowserRec, ResetRec
    <2> QED BY <2>1, <2>2
<1>3. Session(page[d], B, call[d], me[d])
    BY Here DEF SessionOK, Session
<1>4. Rest(d, made', page[d], B, call[d], R, me[d], naming[d])
    BY Here DEF RestOK, Rest, ResetToSetup, serverVars, NoPage
<1>5. /\ page' = [page EXCEPT ![d] = page[d]]
      /\ browser' = [browser EXCEPT ![d] = B]
      /\ call' = [call EXCEPT ![d] = call[d]]
      /\ reset' = [reset EXCEPT ![d] = R]
      /\ me' = [me EXCEPT ![d] = me[d]]
      /\ naming' = [naming EXCEPT ![d] = naming[d]]
    BY Here DEF Types, ResetToSetup, Cleared
<1> HIDE DEF B, R
<1> QED BY <1>1, <1>2, <1>3, <1>4, <1>5, Here, OneDevice

(* The page is loaded anew without a token. *)
LEMMA ResetAnsweredStep ==
    ASSUME IInv, NEW d \in Devices, ResetAnswered(d)
    PROVE  IInv'
<1> DEFINE P == NoPage
<1> DEFINE B == [browser[d] EXCEPT !.token = None]
<1> DEFINE C == NoCall
<1> DEFINE R == NoReset
<1> DEFINE M == {}
<1> DEFINE N == 0
<1>1. ServerOK' /\ made \subseteq made'
    BY Here DEF ServerOK, ResetAnswered, serverVars
<1>2. /\ P \in PageRec /\ B \in BrowserRec /\ C \in CallRec
      /\ R \in ResetRec /\ M \in SUBSET MeRec /\ N \in Nat
    <2>1. P \in PageRec
        BY EmptyValues
    <2>2. B \in BrowserRec
        BY Here DEF BrowserRec
    <2>3. C \in CallRec
        BY EmptyValues
    <2>4. R \in ResetRec
        BY EmptyValues
    <2>5. M \in SUBSET MeRec
        OBVIOUS
    <2>6. N \in Nat
        OBVIOUS
    <2> QED BY <2>1, <2>2, <2>3, <2>4, <2>5, <2>6
<1>3. Session(P, B, C, M)
    BY DEF Session, NoPage
<1>4. Rest(d, made', P, B, C, R, M, N)
    BY Here DEF RestOK, Rest, NoPage, NoCall
<1>5. /\ page' = [page EXCEPT ![d] = P]
      /\ browser' = [browser EXCEPT ![d] = B]
      /\ call' = [call EXCEPT ![d] = C]
      /\ reset' = [reset EXCEPT ![d] = R]
      /\ me' = [me EXCEPT ![d] = M]
      /\ naming' = [naming EXCEPT ![d] = N]
    BY DEF ResetAnswered, Reloaded, Done
<1> HIDE DEF P, B, C, R, M, N
<1> QED BY <1>1, <1>2, <1>3, <1>4, <1>5, Here, OneDevice

(* A failed reset. *)
LEMMA ResetFailedStep ==
    ASSUME IInv, NEW d \in Devices, ResetFailed(d)
    PROVE  IInv'
<1> DEFINE R == NoReset
<1>1. ServerOK' /\ made \subseteq made'
    BY Here DEF ServerOK, ResetFailed, serverVars
<1>2. R \in ResetRec
    BY EmptyValues
<1>3. Session(page[d], browser[d], call[d], me[d])
    BY Here DEF SessionOK
<1>4. Rest(d, made', page[d], browser[d], call[d], R, me[d], naming[d])
    BY Here, <1>1 DEF RestOK, Rest
<1>5. /\ page' = [page EXCEPT ![d] = page[d]]
      /\ browser' = [browser EXCEPT ![d] = browser[d]]
      /\ call' = [call EXCEPT ![d] = call[d]]
      /\ reset' = [reset EXCEPT ![d] = R]
      /\ me' = [me EXCEPT ![d] = me[d]]
      /\ naming' = [naming EXCEPT ![d] = naming[d]]
    BY Here DEF Types, ResetFailed, serverVars, NoCall
<1> HIDE DEF R
<1> QED BY <1>1, <1>2, <1>3, <1>4, <1>5, Here, OneDevice

(* A page goes. *)
LEMMA CloseStep ==
    ASSUME IInv, NEW d \in Devices, Close(d)
    PROVE  IInv'
<1>0. PICK f \in BOOLEAN : browser' = [browser EXCEPT ![d] = [browser[d] EXCEPT !.first = f]]
    <2>1. CASE UNCHANGED browser
        <3>1. browser[d] = [browser[d] EXCEPT !.first = browser[d].first] /\ browser[d].first \in BOOLEAN
            BY Here DEF BrowserRec
        <3> QED BY <2>1, <3>1, Here DEF Types
    <2>2. CASE browser' = [browser EXCEPT ![d].first = FALSE]
        BY <2>2, Here DEF Types
    <2> QED BY <2>1, <2>2 DEF Close
<1> DEFINE P == NoPage
<1> DEFINE B == [browser[d] EXCEPT !.first = f]
<1> DEFINE C == NoCall
<1> DEFINE R == NoReset
<1> DEFINE M == {}
<1> DEFINE N == 0
<1>1. ServerOK' /\ made \subseteq made'
    BY Here DEF ServerOK, Close, serverVars
<1>2. /\ P \in PageRec /\ B \in BrowserRec /\ C \in CallRec
      /\ R \in ResetRec /\ M \in SUBSET MeRec /\ N \in Nat
    <2>1. P \in PageRec
        BY EmptyValues
    <2>2. B \in BrowserRec
        BY Here, <1>0 DEF BrowserRec
    <2>3. C \in CallRec
        BY EmptyValues
    <2>4. R \in ResetRec
        BY EmptyValues
    <2>5. M \in SUBSET MeRec
        OBVIOUS
    <2>6. N \in Nat
        OBVIOUS
    <2> QED BY <2>1, <2>2, <2>3, <2>4, <2>5, <2>6
<1>3. Session(P, B, C, M)
    BY DEF Session, NoPage
<1>4. Rest(d, made', P, B, C, R, M, N)
    BY Here DEF RestOK, Rest, NoPage, NoCall
<1>5. /\ page' = [page EXCEPT ![d] = P]
      /\ browser' = [browser EXCEPT ![d] = B]
      /\ call' = [call EXCEPT ![d] = C]
      /\ reset' = [reset EXCEPT ![d] = R]
      /\ me' = [me EXCEPT ![d] = M]
      /\ naming' = [naming EXCEPT ![d] = N]
    BY <1>0 DEF Close, Reloaded, Done
<1> HIDE DEF P, B, C, R, M, N
<1> QED BY <1>1, <1>2, <1>3, <1>4, <1>5, Here, OneDevice

-----------------------------------------------------------------------------
(* The server and the desktop's own reset.                                   *)

(* A document that is authorised, and one that is written only if its account *)
(* is still there, change no device.                                         *)
LEMMA PutStep ==
    ASSUME IInv, PutWritten \/ \E d \in Devices : PutAuthorised(d)
    PROVE  IInv'
<1>1. ServerOK
    BY DEF IInv
<1>2. CASE PutWritten
    <2>1. ServerOK' /\ made \subseteq made'
        BY <1>1, <1>2 DEF ServerOK, PutWritten, Written
    <2> QED BY <1>2, <2>1, NoDevice DEF PutWritten
<1>3. ASSUME NEW d \in Devices, PutAuthorised(d) PROVE IInv'
    <2>1. put' \in users
        BY <1>3 DEF PutAuthorised, Valid, Effective, Checking
    <2>2. ServerOK' /\ made \subseteq made'
        BY <1>1, <1>3, <2>1 DEF ServerOK, PutAuthorised
    <2> QED BY <1>3, <2>2, NoDevice DEF PutAuthorised
<1> QED BY <1>2, <1>3

(* A restart makes every setup that was counted fail.                        *)
LEMMA RestartStep ==
    ASSUME IInv, Restart
    PROVE  IInv'
<1> DEFINE C(d) == IF call[d].at = "counted" THEN [call[d] EXCEPT !.at = "failed"] ELSE call[d]
<1>1. ServerOK'
    BY AccountsAssumption DEF IInv, ServerOK, Restart
<1>2. \A d \in Devices : C(d) \in CallRec
    BY Here DEF CallRec
<1>3. call' = [d \in Devices |-> C(d)]
    BY DEF Restart
<1>4. Types'
    BY <1>2, <1>3 DEF IInv, Types, Restart
<1>5. ASSUME NEW d \in Devices PROVE SessionOK(d)' /\ RestOK(d)'
    <2>1. SessionOK(d) /\ RestOK(d)
        BY DEF IInv
    <2>2. call'[d].kind = call[d].kind
        BY <1>3, Here DEF CallRec
    <2>3. SessionOK(d)'
        BY <2>1, <2>2 DEF SessionOK, Session, Restart
    <2>4. call'[d] = NoCall <=> call[d] = NoCall
        BY <1>3, Here DEF CallRec, NoCall
    <2>5. call'[d].at = "ok" => call[d].at = "ok" /\ call'[d].who = call[d].who
        BY <1>3, Here DEF CallRec
    <2>6. RestOK(d)'
        BY <2>1, <2>4 DEF RestOK, Rest, Restart
    <2> QED BY <2>3, <2>6
<1> QED BY <1>1, <1>4, <1>5 DEF IInv

(* The desktop's reset replaces the accounts when there is no document.      *)
LEMMA ResetAllDataStep ==
    ASSUME IInv, ResetAllData
    PROVE  IInv'
<1>1. Desktop \in Devices
    BY AccountsAssumption
<1>2. ServerOK' /\ made \subseteq made'
    BY DEF IInv, ServerOK, ResetAllData
<1>3. /\ page' = [page EXCEPT ![Desktop] = NoPage]
      /\ browser' = [browser EXCEPT ![Desktop] = browser[Desktop]]
      /\ call' = [call EXCEPT ![Desktop] = NoCall]
      /\ reset' = [reset EXCEPT ![Desktop] = NoReset]
      /\ me' = [me EXCEPT ![Desktop] = {}]
      /\ naming' = [naming EXCEPT ![Desktop] = 0]
    BY <1>1 DEF IInv, Types, ResetAllData, Reloaded, Done
<1>4. Session(NoPage, browser[Desktop], NoCall, {})
    BY DEF Session, NoPage, NoCall
<1>5. Rest(Desktop, made', NoPage, browser[Desktop], NoCall, NoReset, {}, 0)
    BY <1>1, Here DEF RestOK, Rest, NoPage, NoCall
<1> QED BY <1>1, <1>2, <1>3, <1>4, <1>5, Here, EmptyValues, OneDevice

-----------------------------------------------------------------------------
(* The invariant.                                                            *)

LEMMA InitHolds == Init => IInv
<1> SUFFICES ASSUME Init PROVE IInv
    OBVIOUS
<1>1. ServerOK
    BY AccountsAssumption DEF Init, ServerOK
<1>2. NoBrowser \in BrowserRec
    BY DEF NoBrowser, BrowserRec
<1>3. Types
    BY <1>2, EmptyValues DEF Init, Types
<1>4. ASSUME NEW d \in Devices PROVE SessionOK(d) /\ RestOK(d)
    BY DEF Init, SessionOK, Session, RestOK, Rest, NoPage, NoCall, NoBrowser
<1> QED BY <1>1, <1>3, <1>4 DEF IInv

LEMMA StutterHolds == IInv /\ UNCHANGED vars => IInv'
BY NoDevice DEF vars, IInv, ServerOK

LEMMA NextHolds == IInv /\ [Next]_vars => IInv'
<1> SUFFICES ASSUME IInv, [Next]_vars PROVE IInv'
    OBVIOUS
<1>1. ASSUME NEW d \in Devices, Answer(d) PROVE IInv'
    BY <1>1, MeAnsweredStep, MeFailedStep, StatusAnsweredStep, LoginAnsweredStep,
       SetupAnsweredStep, ResetAnsweredStep, CallFailedStep, ResetFailedStep DEF Answer
<1>2. ASSUME NEW d \in Devices, Serve(d) PROVE IInv'
    BY <1>2, SetupCountedStep, SetupCreatedStep, ResetServedStep, PutStep DEF Serve
<1>3. ASSUME NEW d \in Devices, User(d) PROVE IInv'
    BY <1>3, OpenStep, CloseStep, ImpersonateStep, SubmitSetupStep, FinishProfileStep,
       ProfileCreatedStep, ResetToSetupStep, SubmitLoginStep, SelectProfileStep DEF User
<1>4. ASSUME NEW d \in Devices, Booted(d) \/ AskStatus(d) PROVE IInv'
    BY <1>4, BootedStep, AskStatusStep
<1>5. CASE Restart \/ ResetAllData \/ PutWritten
    BY <1>5, RestartStep, ResetAllDataStep, PutStep
<1>6. CASE UNCHANGED vars
    BY <1>6, StutterHolds
<1> QED BY <1>1, <1>2, <1>3, <1>4, <1>5, <1>6 DEF Next

(* The invariant holds in every state of every behaviour of Accounts.        *)
THEOREM Invariance == Spec => []IInv
<1>1. Init => IInv
    BY InitHolds
<1>2. IInv /\ [Next]_vars => IInv'
    BY NextHolds
<1> QED BY <1>1, <1>2, PTL DEF Spec

(* Every variable keeps its type, a closed page holds no state, and the login *)
(* view has no request it does not wait for.                                 *)
THEOREM TypeCorrect == Spec => []TypeOK
<1>1. IInv => TypeOK
    <2> SUFFICES ASSUME IInv PROVE TypeOK
        OBVIOUS
    <2>1. ASSUME NEW d \in Devices
          PROVE  /\ page[d].user \in made \cup {None}
                 /\ page[d].imp \in made \cup {None}
                 /\ browser[d].token \in Tokens \cup {None}
                 /\ browser[d].profiles \subseteq 1..MaxProfiles[d]
                 /\ call[d].kind = "none" <=> call[d] = NoCall
                 /\ ~page[d].open => /\ page[d] = NoPage /\ me[d] = {} /\ call[d] = NoCall
                                   /\ reset[d] = NoReset /\ naming[d] = 0
        BY Here DEF RestOK, Rest, BrowserRec, NoCall
    <2> QED BY <2>1 DEF IInv, ServerOK, TypeOK
<1> QED BY <1>1, Invariance, PTL

(* For any number of devices and accounts, and however checks, logins,        *)
(* impersonations, resets and restarts overlap, the account a page shows as  *)
(* signed in is that of the token it sends (AuthContext.tsx).                *)
THEOREM PagesOwnTheirTokens == Spec => []UserOwnsToken
<1>1. IInv => UserOwnsToken
    BY DEF IInv, SessionOK, Session, UserOwnsToken
<1> QED BY <1>1, Invariance, PTL

(* No document stays behind for an account that was reset (auth.rs, the       *)
(* foreign key of user_client_state; http_server.rs, user_sync_state_put).   *)
THEOREM NoOrphanDocuments == Spec => []DocumentsHaveOwner
<1>1. IInv => DocumentsHaveOwner
    BY DEF IInv, ServerOK, DocumentsHaveOwner
<1> QED BY <1>1, Invariance, PTL

(* What shows a spinner waits for a request that is out (AuthContext.tsx,     *)
(* LoginView.tsx).                                                           *)
THEOREM SpinnersEnd == Spec => []SpinnerHasRequest
<1>1. IInv => SpinnerHasRequest
    BY DEF IInv, SessionOK, Session, SpinnerHasRequest
<1> QED BY <1>1, Invariance, PTL
=============================================================================
