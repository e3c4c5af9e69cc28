----------------------------- MODULE OidcSession -----------------------------
(***************************************************************************)
(* The Portal's OIDC session in one browser tab (web/src/lib/oidc.ts and   *)
(* apiFetch in web/src/lib/api.ts): what is in sessionStorage, the API     *)
(* calls that refresh it, logging in, out and the callback.                *)
(*                                                                         *)
(* JavaScript runs one task at a time: an action is the code between two   *)
(* awaits that really wait (a response, the digest of crypto.subtle); an   *)
(* await on a value that is there resumes in the same task.  Assigning     *)
(* window.location only starts a navigation: the page runs on until it is  *)
(* unloaded.  The IdP is external: it rotates refresh tokens, so that each *)
(* is good for one exchange.                                               *)
(***************************************************************************)
EXTENDS Naturals, FiniteSets

CONSTANTS
    Calls,   \* API calls that run at once (polls of tree and detail)
    NoCall,  \* refreshInFlight is null
    Gens,    \* refresh tokens; a spent one's name may come back
    Logins,  \* `state` values of logins
    Mounts,  \* times React mounts the callback page (StrictMode: twice)
    None     \* nothing stored; no navigation

ASSUME NoCallAssumption == NoCall \notin Calls
ASSUME NoneAssumption == None \notin Gens \cup Logins
ASSUME NamesAssumption == "logout" \notin Logins \cup {None}
ASSUME MountsAssumption == IsFiniteSet(Mounts)

VARIABLES
    page,       \* where the tab is
    target,     \* the navigation under way: a login, "logout" or None
    store,      \* sessionStorage: the session
    pending,    \* sessionStorage: PKCE verifier and state of a login
    calls,      \* apiFetch
    exchanges,  \* doRefreshAccessToken, by the call that started it
    inFlight,   \* refreshInFlight
    callback,   \* doHandleCallback: the code's state and the exchange
    leaving,    \* a logout has cleared the session and awaits discover()
    tokens      \* IdP: what became of each refresh token

vars == <<page, target, store, pending, calls, exchanges, inFlight, callback,
          leaving, tokens>>

-----------------------------------------------------------------------------
Session == [gen: Gens \cup {None}, fresh: BOOLEAN, renewable: BOOLEAN]

\* ensure, retry: awaits the refresh, before the request or after its 401;
\* login: handleSessionExpired, between clearSession and the redirect.
Call == [pc: {"idle", "ensure", "retry", "fetch", "login"},
         on: Calls \cup {NoCall},   \* the exchange awaited
         retried: BOOLEAN]

Exchange == [st: {"none", "sent", "granted", "refused"}, gen: Gens \cup {None},
             next: Gens \cup {None}]

Callback == [state: Logins \cup {None}, mounts: SUBSET Mounts,
             sends: 0..Cardinality(Mounts)]

NoSession == [gen |-> None, fresh |-> FALSE, renewable |-> FALSE]
Idle == [pc |-> "idle", on |-> NoCall, retried |-> FALSE]
NoExchange == [st |-> "none", gen |-> None, next |-> None]
NoCallback == [state |-> None, mounts |-> {}, sends |-> 0]

InApp == page = "app"

\* isAuthenticated
Authenticated == store.gen # None /\ (store.fresh \/ store.renewable)

\* The tokens of a grant: a name that no store, exchange or grant still holds.
Unused ==
    {g \in Gens : tokens[g] \in {"unissued", "spent"} /\ store.gen # g
                    /\ \A c \in Calls : g \notin {exchanges[c].gen, exchanges[c].next}}

-----------------------------------------------------------------------------
Init ==
    /\ page = "loading"
    /\ target = None
    /\ store = NoSession
    /\ pending = None
    /\ calls = [c \in Calls |-> Idle]
    /\ exchanges = [c \in Calls |-> NoExchange]
    /\ inFlight = NoCall
    /\ callback = NoCallback
    /\ leaving = FALSE
    /\ tokens = [g \in Gens |-> "unissued"]

\* clearSession removes the session and the pending login with it.
Clear == store' = NoSession /\ pending' = None

\* startLogin, after its awaits: a new state is stored and the browser sent to
\* the IdP with it.
Redirect ==
    \E n \in Logins \ {pending, target} : pending' = n /\ target' = n

-----------------------------------------------------------------------------
(* Page loads *)

\* AppShell and RootRedirect: the app, or startLogin.
Load ==
    /\ page = "loading"
    /\ target = None
    /\ \/ /\ Authenticated
          /\ page' = "app"
          /\ UNCHANGED <<target, pending>>
       \/ ~Authenticated /\ Redirect /\ UNCHANGED page
    /\ UNCHANGED <<store, calls, exchanges, inFlight, callback, leaving, tokens>>

\* The navigation takes place: the page and everything it runs are gone.
Unload ==
    /\ target # None
    /\ page \in {"loading", "app", "login"}
    /\ page' = "away"
    /\ calls' = [c \in Calls |-> Idle]
    /\ exchanges' = [c \in Calls |-> NoExchange]
    /\ inFlight' = NoCall
    /\ leaving' = FALSE
    /\ tokens' = [g \in Gens |->
                    IF tokens[g] \in {"presented", "lost"} THEN "lost" ELSE tokens[g]]
    /\ UNCHANGED <<target, store, pending, callback>>

\* The IdP sends the browser back: to /login after a logout, else to /callback
\* with a code for the login's state.
Return ==
    /\ page = "away"
    /\ target' = None
    /\ IF target = "logout"
       THEN page' = "login" /\ UNCHANGED callback
       ELSE /\ page' = "callback"
            /\ callback' = [NoCallback EXCEPT !.state = target]
    /\ UNCHANGED <<store, pending, calls, exchanges, inFlight, leaving, tokens>>

\* The login page: SSO button, or the link of one who is still signed in.
LoginPage ==
    /\ page = "login"
    /\ target = None
    /\ \/ Authenticated /\ page' = "app" /\ UNCHANGED <<target, pending>>
       \/ ~Authenticated /\ Redirect /\ UNCHANGED page
    /\ UNCHANGED <<store, calls, exchanges, inFlight, callback, leaving, tokens>>

-----------------------------------------------------------------------------
(* handleCallback *)

Exchanging == callback.mounts # {}

\* Mutant of CallbackMount: every mount makes an exchange of its own.
CallbackMountAlone(m) ==
    /\ page = "callback"
    /\ m \notin callback.mounts
    /\ callback' = [callback EXCEPT !.mounts = @ \cup {m}, !.sends = @ + 1]
    /\ UNCHANGED <<page, target, store, pending, calls, exchanges, inFlight,
                   leaving, tokens>>

\* A mount of CallbackPage: the first starts the exchange of the code, others
\* share it.  Without the pending login of that state it fails.
CallbackMount(m) ==
    /\ page = "callback"
    /\ m \notin callback.mounts
    /\ IF Exchanging \/ pending = callback.state
       THEN /\ callback' = [callback EXCEPT
                 !.mounts = @ \cup {m},
                 !.sends = IF Exchanging THEN @ ELSE @ + 1]
            /\ UNCHANGED page
       ELSE page' = "error" /\ callback' = NoCallback
    /\ UNCHANGED <<target, store, pending, calls, exchanges, inFlight,
                   leaving, tokens>>

\* The tokens come (then userinfo): saveSession, and on to the app.
CallbackDone ==
    /\ page = "callback"
    /\ Exchanging
    /\ \E g \in Unused, renewable \in BOOLEAN :
         /\ store' = [gen |-> g, fresh |-> TRUE, renewable |-> renewable]
         /\ tokens' = [tokens EXCEPT ![g] = "valid"]
    /\ pending' = None
    /\ page' = "app"
    /\ callback' = NoCallback
    /\ UNCHANGED <<target, calls, exchanges, inFlight, leaving>>

\* The exchange is refused or fails; or userinfo does, when the pending login is
\* gone already.
CallbackFails ==
    /\ page = "callback"
    /\ Exchanging
    /\ pending' \in {pending, None}
    /\ page' = "error"
    /\ callback' = NoCallback
    /\ UNCHANGED <<target, store, calls, exchanges, inFlight, leaving, tokens>>

\* The user opens the Portal again.
Reopen ==
    /\ page = "error"
    /\ page' = "loading"
    /\ UNCHANGED <<target, store, pending, calls, exchanges, inFlight,
                   callback, leaving, tokens>>

-----------------------------------------------------------------------------
(* apiFetch *)

SetCall(c, pc, on, retried) ==
    calls' = [calls EXCEPT ![c] = [pc |-> pc, on |-> on, retried |-> retried]]

\* handleSessionExpired up to startLogin's awaits.
Expired(c) ==
    /\ Clear
    /\ SetCall(c, "login", NoCall, FALSE)
    /\ UNCHANGED <<exchanges, inFlight>>

\* Mutant of JoinRefresh: callers do not share the refresh in flight.
JoinRefreshAlone(c, pc) ==
    \/ /\ store.renewable
       /\ inFlight' = c
       /\ exchanges' = [exchanges EXCEPT
                          ![c] = [st |-> "sent", gen |-> store.gen, next |-> None]]
       /\ SetCall(c, pc, c, calls[c].retried)
       /\ UNCHANGED <<store, pending>>
    \/ ~store.renewable /\ Expired(c)

\* refreshAccessToken: share the refresh in flight, or start one with the
\* session read now; without a refresh token it fails at once.
JoinRefresh(c, pc) ==
    \/ /\ inFlight # NoCall
       /\ SetCall(c, pc, inFlight, calls[c].retried)
       /\ UNCHANGED <<store, pending, exchanges, inFlight>>
    \/ /\ inFlight = NoCall
       /\ store.renewable
       /\ inFlight' = c
       /\ exchanges' = [exchanges EXCEPT
                          ![c] = [st |-> "sent", gen |-> store.gen, next |-> None]]
       /\ SetCall(c, pc, c, calls[c].retried)
       /\ UNCHANGED <<store, pending>>
    \/ inFlight = NoCall /\ ~store.renewable /\ Expired(c)

\* ensureAccessToken of a new call.
StartCall(c) ==
    /\ InApp
    /\ calls[c].pc = "idle"
    /\ \/ /\ store.gen = None
          /\ Expired(c)
       \/ /\ store.gen # None /\ store.fresh
          /\ SetCall(c, "fetch", NoCall, FALSE)
          /\ UNCHANGED <<store, pending, exchanges, inFlight>>
       \/ /\ store.gen # None /\ ~store.fresh
          /\ JoinRefresh(c, "ensure")
    /\ UNCHANGED <<page, target, callback, leaving, tokens>>

\* A response that is not 401, or no response.
FetchDone(c) ==
    /\ calls[c].pc = "fetch"
    /\ SetCall(c, "idle", NoCall, FALSE)
    /\ UNCHANGED <<page, target, store, pending, exchanges, inFlight,
                   callback, leaving, tokens>>

\* Mutant of Fetch401: the retry after a refresh is not counted.
Fetch401Forever(c) ==
    /\ calls[c].pc = "fetch"
    /\ JoinRefresh(c, "retry")
    /\ UNCHANGED <<page, target, callback, leaving, tokens>>

\* 401: refresh and retry once, then give up.
Fetch401(c) ==
    /\ calls[c].pc = "fetch"
    /\ IF calls[c].retried THEN Expired(c) ELSE JoinRefresh(c, "retry")
    /\ UNCHANGED <<page, target, callback, leaving, tokens>>

\* startLogin after its awaits.
GoLogin(c) ==
    /\ calls[c].pc = "login"
    /\ SetCall(c, "idle", NoCall, FALSE)
    /\ Redirect
    /\ UNCHANGED <<page, store, exchanges, inFlight, callback, leaving, tokens>>

-----------------------------------------------------------------------------
(* doRefreshAccessToken *)

\* The IdP (external) gets the exchange: a valid token is spent and replaced.
IdpAnswers(c) ==
    /\ exchanges[c].st = "sent"
    /\ LET g == exchanges[c].gen IN
         \/ /\ tokens[g] = "valid"
            /\ \E n \in Unused :
                 /\ tokens' = [tokens EXCEPT ![g] = "presented", ![n] = "valid"]
                 /\ exchanges' = [exchanges EXCEPT ![c].st = "granted", ![c].next = n]
         \/ /\ tokens' = [tokens EXCEPT
                            ![g] = IF @ = "valid" THEN "presented" ELSE @]
            /\ exchanges' = [exchanges EXCEPT ![c].st = "refused"]
    /\ UNCHANGED <<page, target, store, pending, calls, inFlight, callback, leaving>>

\* Those who wait for the exchange of c.
Waiting(c) == {d \in Calls : calls[d].pc \in {"ensure", "retry"} /\ calls[d].on = c}

\* The promise settles: every waiting call goes on in the same task.
Resume(c, pcEnsure, pcRetry) ==
    /\ calls' = [d \in Calls |->
         IF d \notin Waiting(c) THEN calls[d]
         ELSE [pc |-> IF calls[d].pc = "ensure" THEN pcEnsure ELSE pcRetry,
               on |-> NoCall,
               retried |-> calls[d].retried \/ calls[d].pc = "retry"]]
    /\ exchanges' = [exchanges EXCEPT ![c] = NoExchange]
    /\ inFlight' = IF inFlight = c THEN NoCall ELSE inFlight

\* The session read at the start, with the new tokens, is saved; whatever has
\* happened to the session meanwhile.
RefreshDone(c) ==
    /\ exchanges[c].st = "granted"
    /\ store' = [gen |-> exchanges[c].next, fresh |-> TRUE, renewable |-> TRUE]
    /\ tokens' = [tokens EXCEPT ![exchanges[c].gen] = "spent"]
    /\ Resume(c, "fetch", "fetch")
    /\ UNCHANGED <<page, target, pending, callback, leaving>>

\* The IdP refuses: clearSession, and every waiting call starts a login.
RefreshRefused(c) ==
    /\ exchanges[c].st = "refused"
    /\ Clear
    /\ tokens' = [tokens EXCEPT
                    ![exchanges[c].gen] = IF @ = "presented" THEN "spent" ELSE @]
    /\ Resume(c, "login", "login")
    /\ UNCHANGED <<page, target, callback, leaving>>

\* No answer comes: not a SessionExpiredError, so a call that had not sent its
\* request just fails; one that had got a 401 starts a login.
RefreshLost(c) ==
    /\ exchanges[c].st # "none"
    /\ tokens' = [tokens EXCEPT
                    ![exchanges[c].gen] = IF @ = "presented" THEN "lost" ELSE @]
    /\ Resume(c, "idle", "login")
    /\ IF \E d \in Waiting(c) : calls[d].pc = "retry"
       THEN Clear ELSE UNCHANGED <<store, pending>>
    /\ UNCHANGED <<page, target, callback, leaving>>

-----------------------------------------------------------------------------
\* Sign out: clearSession, then discover(), which waits unless it is cached.
Logout ==
    /\ InApp
    /\ Clear
    /\ leaving' = TRUE
    /\ UNCHANGED <<page, target, calls, exchanges, inFlight, callback, tokens>>

\* The redirect of the logout; without discovery there is none.
LogoutGoes ==
    /\ leaving
    /\ leaving' = FALSE
    /\ target' \in {"logout", target}
    /\ UNCHANGED <<page, store, pending, calls, exchanges, inFlight, callback, tokens>>

\* Time passes: the access token comes within a minute of its end.
Stale ==
    /\ store.fresh
    /\ store' = [store EXCEPT !.fresh = FALSE]
    /\ UNCHANGED <<page, target, pending, calls, exchanges, inFlight,
                   callback, leaving, tokens>>

CallStep(c) ==
    \/ FetchDone(c) \/ Fetch401(c) \/ GoLogin(c)
    \/ IdpAnswers(c) \/ RefreshDone(c) \/ RefreshRefused(c) \/ RefreshLost(c)

Next ==
    \/ Load \/ Unload \/ Return \/ LoginPage
    \/ \E m \in Mounts : CallbackMount(m)
    \/ CallbackDone \/ CallbackFails \/ Reopen
    \/ \E c \in Calls : StartCall(c) \/ CallStep(c)
    \/ Logout \/ LogoutGoes \/ Stale

Spec == Init /\ [][Next]_vars

\* Requests end with an answer or an error, and the event loop runs what is
\* ready.
Fairness == \A c \in Calls : WF_vars(CallStep(c))

FairSpec == Spec /\ Fairness

-----------------------------------------------------------------------------
(* Properties *)

TypeOK ==
    /\ page \in {"loading", "app", "away", "login", "callback", "error"}
    /\ target \in Logins \cup {"logout", None}
    /\ store \in Session
    /\ pending \in Logins \cup {None}
    /\ calls \in [Calls -> Call]
    /\ exchanges \in [Calls -> Exchange]
    /\ inFlight \in Calls \cup {NoCall}
    /\ callback \in Callback
    /\ leaving \in BOOLEAN
    /\ tokens \in [Gens -> {"unissued", "valid", "presented", "spent", "lost"}]

\* refreshInFlight is the one exchange that runs, and a call awaits no other: a
\* promise that stayed there after it settled would hand its old token to every
\* later call, one that was overwritten would leave two exchanges running.
SessionInvariant ==
    /\ TypeOK
    /\ \A c \in Calls : exchanges[c].st # "none" <=> inFlight = c
    /\ \A c \in Calls :
         calls[c].pc \in {"ensure", "retry"} => calls[c].on = inFlight /\ inFlight # NoCall

\* "Concurrent callers share one in-flight refresh": however calls expire, get
\* 401s and retry, no two exchanges ever run with one refresh token, which a
\* rotating IdP would take for theft.
NoConcurrentReplay ==
    \A c, d \in Calls :
        (c # d /\ exchanges[c].st # "none" /\ exchanges[d].st # "none")
            => exchanges[c].gen # exchanges[d].gen

\* "The auth code is single-use": mounted twice, the callback page sends it once.
CodeSentOnce == callback.sends <= 1

\* Several calls may start a login at once, each with a state of its own: the
\* browser never goes to the IdP with another state than the stored one.
RedirectMatchesPending ==
    (target \in Logins /\ pending # None) => pending = target

\* However often a login is started and its answer is delivered, it is one login
\* with one code.
OneLogin == CodeSentOnce /\ RedirectMatchesPending

\* Every API call comes to an end - an answer, an error, or the page gone to
\* the login - however often the API says 401.
EveryCallSettles ==
    \A c \in Calls : calls[c].pc # "idle" ~> calls[c].pc = "idle"

\* A browser that comes back from the login it was sent to finds the pending
\* login ("Clear local session and start OIDC login again").
CallbackFindsItsLogin ==
    (page = "callback" /\ callback.mounts = {}) => pending = callback.state

\* Arrived at /login after a logout the tab has no session ("`/login` shows a
\* manual SSO button. Logout returns to `/login`").
LogoutEndsSession == page = "login" => store.gen = None
=============================================================================
