-------------------------- MODULE OidcSessionProofs --------------------------
(***************************************************************************)
(* Theorems about OidcSession: one refresh at a time, however the API      *)
(* calls interleave, and one code and one `state` per login.               *)
(*                                                                         *)
(* SessionInvariant is inductive as it stands: a call that awaits a        *)
(* refresh awaits the one that runs, so the end of that one lets no call   *)
(* wait on.  OneLogin needs that the code was not sent before the first    *)
(* mount of the callback page.                                             *)
(***************************************************************************)
EXTENDS OidcSession, FiniteSetTheorems, TLAPS

\* The exchange that runs is the one in refreshInFlight.
OneInFlight == \A c \in Calls : exchanges[c].st # "none" <=> inFlight = c

\* A call awaits the exchange that runs.
WaitersJoined ==
    \A c \in Calls :
        calls[c].pc \in {"ensure", "retry"} => calls[c].on = inFlight /\ inFlight # NoCall

\* Before the first mount of the callback page no code was sent.
SentByFirstMount == callback.mounts = {} => callback.sends = 0

-----------------------------------------------------------------------------
(* What the operators shared by the actions return *)

\* A redirect is for a login that exists.
LEMMA RedirectTypes ==
    ASSUME Redirect
    PROVE  pending' \in Logins /\ target' = pending'
BY DEF Redirect

\* A call that moves on is still a call.
LEMMA SetCallTypes ==
    ASSUME TypeOK, NEW c \in Calls, NEW pc \in {"idle", "ensure", "retry", "fetch", "login"},
           NEW on \in Calls \cup {NoCall}, NEW retried \in BOOLEAN, SetCall(c, pc, on, retried)
    PROVE  calls' \in [Calls -> Call]
<1>1. [pc |-> pc, on |-> on, retried |-> retried] \in Call
  BY DEF Call
<1> QED
  BY <1>1 DEF SetCall, TypeOK

\* The fields of a call and of its exchange.
LEMMA CallTypes ==
    ASSUME TypeOK, NEW c \in Calls
    PROVE  /\ calls[c].pc \in {"idle", "ensure", "retry", "fetch", "login"}
           /\ calls[c].on \in Calls \cup {NoCall}
           /\ calls[c].retried \in BOOLEAN
           /\ exchanges[c].st \in {"none", "sent", "granted", "refused"}
           /\ exchanges[c].gen \in Gens \cup {None}
           /\ exchanges[c].next \in Gens \cup {None}
BY DEF TypeOK, Call, Exchange

\* The fields of a session.
LEMMA SessionTypes ==
    ASSUME TypeOK
    PROVE  /\ store.gen \in Gens \cup {None}
           /\ store.fresh \in BOOLEAN
           /\ store.renewable \in BOOLEAN
           /\ NoSession \in Session
           /\ Idle \in Call
           /\ NoExchange \in Exchange
           /\ NoCallback \in Callback
<1>1. NoCallback \in Callback
  <2>1. Cardinality(Mounts) \in Nat
    BY MountsAssumption, FS_CardinalityType
  <2> QED
    BY <2>1 DEF NoCallback, Callback
<1> QED
  BY <1>1 DEF TypeOK, Session, NoSession, Call, Idle, Exchange, NoExchange

\* Clear empties what it clears.
LEMMA ClearTypes ==
    ASSUME TypeOK, Clear
    PROVE  store' \in Session /\ pending' = None
BY SessionTypes DEF Clear

\* A refresh that is joined or started, or a call that gives up: the state it
\* touches keeps its type, and the joined exchange is the one that runs.
LEMMA JoinRefreshKeeps ==
    ASSUME SessionInvariant, NEW c \in Calls, NEW pc \in {"ensure", "retry"},
           JoinRefresh(c, pc)
    PROVE  /\ store' \in Session
           /\ pending' \in {pending, None}
           /\ calls' \in [Calls -> Call]
           /\ exchanges' \in [Calls -> Exchange]
           /\ inFlight' \in Calls \cup {NoCall}
           /\ OneInFlight'
           /\ WaitersJoined'
<1> USE NoCallAssumption
<1>0. TypeOK /\ OneInFlight /\ WaitersJoined
  BY DEF SessionInvariant, OneInFlight, WaitersJoined
<1>1. CASE inFlight # NoCall /\ SetCall(c, pc, inFlight, calls[c].retried)
             /\ UNCHANGED <<store, pending, exchanges, inFlight>>
  <2>1. calls' \in [Calls -> Call]
    BY <1>0, <1>1, CallTypes, SetCallTypes DEF TypeOK
  <2>2. WaitersJoined'
    BY <1>0, <1>1 DEF WaitersJoined, SetCall, TypeOK
  <2> QED
    BY <1>0, <1>1, <2>1, <2>2 DEF TypeOK, OneInFlight
<1>2. CASE /\ inFlight = NoCall
           /\ inFlight' = c
           /\ exchanges' = [exchanges EXCEPT
                              ![c] = [st |-> "sent", gen |-> store.gen, next |-> None]]
           /\ SetCall(c, pc, c, calls[c].retried)
           /\ UNCHANGED <<store, pending>>
  <2>1. calls' \in [Calls -> Call]
    BY <1>0, <1>2, CallTypes, SetCallTypes
  <2>2. [st |-> "sent", gen |-> store.gen, next |-> None] \in Exchange
    BY <1>0, SessionTypes DEF Exchange
  <2>3. exchanges' \in [Calls -> Exchange]
    BY <1>0, <1>2, <2>2 DEF TypeOK
  <2>4. WaitersJoined'
    BY <1>0, <1>2 DEF WaitersJoined, SetCall, TypeOK
  <2>5. OneInFlight'
    BY <1>0, <1>2 DEF OneInFlight, TypeOK
  <2> QED
    BY <1>0, <1>2, <2>1, <2>3, <2>4, <2>5 DEF TypeOK
<1>3. CASE inFlight = NoCall /\ Expired(c)
  <2>1. calls' \in [Calls -> Call] /\ store' \in Session /\ pending' = None
    BY <1>0, <1>3, SetCallTypes, ClearTypes DEF Expired
  <2>2. WaitersJoined'
    BY <1>0, <1>3 DEF WaitersJoined, SetCall, TypeOK, Expired
  <2> QED
    BY <1>0, <1>3, <2>1, <2>2 DEF TypeOK, OneInFlight, Expired
<1> QED
  BY <1>1, <1>2, <1>3 DEF JoinRefresh

\* What an expired call leaves of the session.
LEMMA ExpiredKeeps ==
    ASSUME SessionInvariant, NEW c \in Calls, Expired(c)
    PROVE  /\ store' \in Session
           /\ pending' = None
           /\ calls' \in [Calls -> Call]
           /\ UNCHANGED <<exchanges, inFlight>>
           /\ WaitersJoined'
<1>0. TypeOK /\ WaitersJoined
  BY DEF SessionInvariant, WaitersJoined
<1>1. calls' \in [Calls -> Call] /\ store' \in Session /\ pending' = None
  BY <1>0, SetCallTypes, ClearTypes, NoCallAssumption DEF Expired
<1>2. WaitersJoined'
  BY <1>0 DEF WaitersJoined, SetCall, TypeOK, Expired
<1> QED
  BY <1>1, <1>2 DEF Expired

\* The end of an exchange: it is the one that runs, all who wait go on, and
\* none runs any more.
LEMMA SettledKeeps ==
    ASSUME SessionInvariant, NEW c \in Calls, exchanges[c].st # "none",
           NEW p \in {"idle", "fetch", "login"}, NEW q \in {"idle", "fetch", "login"},
           Resume(c, p, q)
    PROVE  /\ calls' \in [Calls -> Call]
           /\ exchanges' \in [Calls -> Exchange]
           /\ inFlight' = NoCall
           /\ OneInFlight'
           /\ WaitersJoined'
<1> USE NoCallAssumption
<1>0. TypeOK /\ OneInFlight /\ WaitersJoined
  BY DEF SessionInvariant, OneInFlight, WaitersJoined
<1>1. inFlight = c /\ inFlight' = NoCall
  BY <1>0 DEF OneInFlight, Resume
<1>2. \A d \in Calls : calls'[d] \in Call /\ calls'[d].pc \notin {"ensure", "retry"}
  <2> SUFFICES ASSUME NEW d \in Calls
               PROVE  calls'[d] \in Call /\ calls'[d].pc \notin {"ensure", "retry"}
    OBVIOUS
  <2>1. CASE d \in Waiting(c)
    <3> DEFINE r == [pc |-> IF calls[d].pc = "ensure" THEN p ELSE q,
                     on |-> NoCall,
                     retried |-> calls[d].retried \/ calls[d].pc = "retry"]
    <3>1. calls'[d] = r
      BY <2>1 DEF Resume
    <3>2. r \in Call
      BY DEF Call
    <3> QED
      BY <3>1, <3>2
  <2>2. CASE d \notin Waiting(c)
    <3>1. calls'[d] = calls[d]
      BY <2>2 DEF Resume
    <3>2. calls[d].pc \notin {"ensure", "retry"}
      BY <1>0, <1>1, <2>2 DEF Waiting, WaitersJoined
    <3> QED
      BY <1>0, <3>1, <3>2 DEF TypeOK
  <2> QED
    BY <2>1, <2>2
<1>3. calls' \in [Calls -> Call]
  BY <1>2 DEF Resume
<1>4. exchanges' \in [Calls -> Exchange]
  BY <1>0, SessionTypes DEF Resume, TypeOK
<1>5. OneInFlight'
  BY <1>0, <1>1 DEF OneInFlight, Resume, TypeOK, NoExchange
<1>6. WaitersJoined'
  BY <1>2 DEF WaitersJoined
<1> QED
  BY <1>1, <1>3, <1>4, <1>5, <1>6

-----------------------------------------------------------------------------
(* SessionInvariant *)

\* A fresh tab satisfies the invariant.
LEMMA SessionInit ==
    ASSUME Init
    PROVE  SessionInvariant
<1>1. TypeOK
  <2>1. Cardinality(Mounts) \in Nat
    BY MountsAssumption, FS_CardinalityType
  <2>2. NoCallback \in Callback
    BY <2>1 DEF NoCallback, Callback
  <2>3. NoSession \in Session /\ Idle \in Call /\ NoExchange \in Exchange
    BY DEF NoSession, Session, Idle, Call, NoExchange, Exchange
  <2> QED
    BY <2>2, <2>3 DEF Init, TypeOK
<1> QED
  BY <1>1, NoCallAssumption DEF Init, SessionInvariant, Idle, NoExchange

\* A mount of the callback page: its record keeps its type, and the code is
\* sent by the first mount only.
LEMMA MountKeeps ==
    ASSUME TypeOK, SentByFirstMount, CodeSentOnce, NEW m \in Mounts, CallbackMount(m)
    PROVE  callback' \in Callback /\ SentByFirstMount' /\ CodeSentOnce'
<1>1. Cardinality(Mounts) \in Nat /\ Cardinality(Mounts) # 0
  BY MountsAssumption, FS_CardinalityType, FS_EmptySet
<1>2. callback.sends \in Nat /\ callback \in Callback
  BY <1>1 DEF TypeOK, Callback
<1>3. CASE Exchanging
  <2>1. callback' = [callback EXCEPT !.mounts = @ \cup {m}]
    BY <1>2, <1>3 DEF CallbackMount, Callback
  <2>2. callback'.mounts = callback.mounts \cup {m} /\ callback'.sends = callback.sends
    BY <1>2, <2>1 DEF Callback
  <2>3. callback' \in Callback
    BY <1>2, <2>1 DEF Callback
  <2> QED
    BY <2>2, <2>3 DEF SentByFirstMount, CodeSentOnce
<1>4. CASE ~Exchanging /\ pending = callback.state
  <2>1. callback' = [callback EXCEPT !.mounts = @ \cup {m}, !.sends = @ + 1]
    BY <1>4 DEF CallbackMount
  <2>2. callback.sends = 0
    BY <1>4 DEF Exchanging, SentByFirstMount
  <2>3. callback'.mounts = callback.mounts \cup {m} /\ callback'.sends = 1
        /\ callback'.state = callback.state
    BY <1>2, <2>1, <2>2 DEF Callback
  <2>4. 1 \in 0..Cardinality(Mounts)
    BY <1>1
  <2>5. callback' \in Callback
    <3>1. callback' = [[callback EXCEPT !.mounts = @ \cup {m}] EXCEPT !.sends = 1]
      BY <1>2, <2>1, <2>2 DEF Callback
    <3>2. [callback EXCEPT !.mounts = @ \cup {m}] \in Callback
      BY <1>2 DEF Callback
    <3> QED
      BY <2>4, <3>1, <3>2 DEF Callback
  <2> QED
    BY <2>3, <2>5 DEF SentByFirstMount, CodeSentOnce
<1>5. CASE ~Exchanging /\ pending # callback.state
  <2>1. callback' = NoCallback
    BY <1>5 DEF CallbackMount
  <2>2. callback'.mounts = {} /\ callback'.sends = 0
    BY <2>1 DEF NoCallback
  <2> QED
    BY <2>1, <2>2, SessionTypes DEF SentByFirstMount, CodeSentOnce
<1> QED
  BY <1>3, <1>4, <1>5

\* A step that leaves the API calls and their exchanges alone, and gives the
\* rest values of their types.
LEMMA QuietStep ==
    ASSUME SessionInvariant, UNCHANGED <<calls, exchanges, inFlight>>,
           page' \in {"loading", "app", "away", "login", "callback", "error"},
           target' \in Logins \cup {"logout", None}, store' \in Session,
           pending' \in Logins \cup {None}, callback' \in Callback, leaving' \in BOOLEAN,
           tokens' \in [Gens -> {"unissued", "valid", "presented", "spent", "lost"}]
    PROVE  SessionInvariant'
BY DEF SessionInvariant, TypeOK

\* A step of one API call or of its refresh, for which the lemmas above gave
\* what becomes of the calls and of the exchanges.
LEMMA CallsStep ==
    ASSUME SessionInvariant, UNCHANGED <<page, callback, leaving>>,
           target' \in Logins \cup {"logout", None}, store' \in Session,
           pending' \in Logins \cup {None},
           tokens' \in [Gens -> {"unissued", "valid", "presented", "spent", "lost"}],
           calls' \in [Calls -> Call], exchanges' \in [Calls -> Exchange],
           inFlight' \in Calls \cup {NoCall}, OneInFlight', WaitersJoined'
    PROVE  SessionInvariant'
BY DEF SessionInvariant, TypeOK, OneInFlight, WaitersJoined

\* It is inductive, beside what the callback page needs.
LEMMA SessionStep ==
    ASSUME SessionInvariant, SentByFirstMount, CodeSentOnce, [Next]_vars
    PROVE  SessionInvariant'
<1> USE NoCallAssumption
<1>0. TypeOK /\ OneInFlight /\ WaitersJoined
  BY DEF SessionInvariant, OneInFlight, WaitersJoined
<1>1. ASSUME Load PROVE SessionInvariant'
  BY <1>0, <1>1, QuietStep, RedirectTypes DEF Load, TypeOK
<1>2. ASSUME Unload PROVE SessionInvariant'
  <2>1. calls' \in [Calls -> Call] /\ exchanges' \in [Calls -> Exchange]
    BY <1>0, <1>2, SessionTypes DEF Unload
  <2>2. tokens' \in [Gens -> {"unissued", "valid", "presented", "spent", "lost"}]
    BY <1>0, <1>2 DEF Unload, TypeOK
  <2>3. \A c \in Calls : calls'[c].pc = "idle" /\ exchanges'[c].st = "none"
    BY <1>2 DEF Unload, Idle, NoExchange
  <2>4. inFlight' = NoCall
    BY <1>2 DEF Unload
  <2>5. TypeOK'
    BY <1>0, <1>2, <2>1, <2>2, <2>4 DEF Unload, TypeOK
  <2> QED
    BY <2>3, <2>4, <2>5 DEF SessionInvariant
<1>3. ASSUME Return PROVE SessionInvariant'
  <2>1. CASE target = "logout"
    BY <1>0, <1>3, <2>1, QuietStep DEF Return, TypeOK
  <2>2. CASE target # "logout"
    <3>1. callback' = [NoCallback EXCEPT !.state = target]
      BY <1>3, <2>2 DEF Return
    <3>2. target \in Logins \cup {None}
      BY <1>0, <2>2 DEF TypeOK
    <3>3. callback' \in Callback
      BY <1>0, <3>1, <3>2, SessionTypes DEF Callback
    <3> QED
      BY <1>0, <1>3, <2>2, <3>3, QuietStep DEF Return, TypeOK
  <2> QED
    BY <2>1, <2>2
<1>4. ASSUME LoginPage PROVE SessionInvariant'
  BY <1>0, <1>4, QuietStep, RedirectTypes DEF LoginPage, TypeOK
<1>5. ASSUME NEW m \in Mounts, CallbackMount(m) PROVE SessionInvariant'
  BY <1>0, <1>5, QuietStep, MountKeeps DEF CallbackMount, TypeOK
<1>6. ASSUME CallbackDone PROVE SessionInvariant'
  <2> PICK g \in Unused, renewable \in BOOLEAN :
             /\ store' = [gen |-> g, fresh |-> TRUE, renewable |-> renewable]
             /\ tokens' = [tokens EXCEPT ![g] = "valid"]
    BY <1>6 DEF CallbackDone
  <2>1. store' \in Session
    BY DEF Unused, Session
  <2> QED
    BY <1>0, <1>6, <2>1, QuietStep, SessionTypes DEF CallbackDone, TypeOK
<1>7. ASSUME CallbackFails PROVE SessionInvariant'
  BY <1>0, <1>7, QuietStep, SessionTypes DEF CallbackFails, TypeOK
<1>8. ASSUME Reopen PROVE SessionInvariant'
  BY <1>0, <1>8, QuietStep DEF Reopen, TypeOK
<1>9. ASSUME NEW c \in Calls, StartCall(c) PROVE SessionInvariant'
  <2>1. CASE Expired(c)
    BY <1>0, <1>9, <2>1, ExpiredKeeps, CallsStep DEF StartCall, TypeOK, OneInFlight
  <2>2. CASE SetCall(c, "fetch", NoCall, FALSE) /\ UNCHANGED <<store, pending, exchanges, inFlight>>
    <3>1. calls' \in [Calls -> Call]
      BY <1>0, <2>2, SetCallTypes
    <3>2. OneInFlight' /\ WaitersJoined'
      BY <1>0, <2>2 DEF OneInFlight, WaitersJoined, SetCall, TypeOK
    <3> QED
      BY <1>0, <1>9, <2>2, <3>1, <3>2, CallsStep DEF StartCall, TypeOK
  <2>3. CASE JoinRefresh(c, "ensure")
    BY <1>0, <1>9, <2>3, JoinRefreshKeeps, CallsStep DEF StartCall, TypeOK
  <2> QED
    BY <1>9, <2>1, <2>2, <2>3 DEF StartCall
<1>10. ASSUME NEW c \in Calls, FetchDone(c) PROVE SessionInvariant'
  <2>1. calls' \in [Calls -> Call]
    BY <1>0, <1>10, SetCallTypes DEF FetchDone
  <2>2. OneInFlight' /\ WaitersJoined'
    BY <1>0, <1>10 DEF OneInFlight, WaitersJoined, SetCall, TypeOK, FetchDone
  <2> QED
    BY <1>0, <1>10, <2>1, <2>2, CallsStep DEF FetchDone, TypeOK
<1>11. ASSUME NEW c \in Calls, Fetch401(c) PROVE SessionInvariant'
  <2>1. CASE Expired(c)
    BY <1>0, <1>11, <2>1, ExpiredKeeps, CallsStep DEF Fetch401, TypeOK, OneInFlight
  <2>2. CASE JoinRefresh(c, "retry")
    BY <1>0, <1>11, <2>2, JoinRefreshKeeps, CallsStep DEF Fetch401, TypeOK
  <2> QED
    BY <1>11, <2>1, <2>2 DEF Fetch401
<1>12. ASSUME NEW c \in Calls, GoLogin(c) PROVE SessionInvariant'
  <2>1. calls' \in [Calls -> Call]
    BY <1>0, <1>12, SetCallTypes DEF GoLogin
  <2>2. OneInFlight' /\ WaitersJoined'
    BY <1>0, <1>12 DEF OneInFlight, WaitersJoined, SetCall, TypeOK, GoLogin
  <2> QED
    BY <1>0, <1>12, <2>1, <2>2, RedirectTypes, CallsStep DEF GoLogin, TypeOK
<1>13. ASSUME NEW c \in Calls, IdpAnswers(c) PROVE SessionInvariant'
  <2>1. exchanges[c].st = "sent"
    BY <1>13 DEF IdpAnswers
  <2>2. PICK e \in Exchange : e.st # "none" /\ exchanges' = [exchanges EXCEPT ![c] = e]
    <3>1. exchanges[c] \in Exchange
      BY <1>0 DEF TypeOK
    <3>2. CASE exchanges' = [exchanges EXCEPT ![c].st = "refused"]
      <4>1. [exchanges[c] EXCEPT !.st = "refused"] \in Exchange
        BY <3>1 DEF Exchange
      <4>2. [exchanges[c] EXCEPT !.st = "refused"].st = "refused"
        BY <3>1 DEF Exchange
      <4> QED
        BY <1>0, <3>2, <4>1, <4>2
    <3>3. ASSUME NEW n \in Gens,
                 exchanges' = [exchanges EXCEPT ![c].st = "granted", ![c].next = n]
          PROVE  \E e \in Exchange :
                    e.st # "none" /\ exchanges' = [exchanges EXCEPT ![c] = e]
      <4> DEFINE e == [exchanges[c] EXCEPT !.st = "granted", !.next = n]
      <4>1. e \in Exchange
        BY <3>1 DEF Exchange
      <4>2. e.st = "granted"
        BY <3>1 DEF Exchange
      <4>3. exchanges' = [exchanges EXCEPT ![c] = e]
        BY <1>0, <3>3 DEF TypeOK
      <4> QED
        BY <4>1, <4>2, <4>3
    <3> QED
      BY <1>13, <3>2, <3>3 DEF IdpAnswers, Unused
  <2>3. exchanges' \in [Calls -> Exchange]
    BY <1>0, <2>2 DEF TypeOK
  <2>4. tokens' \in [Gens -> {"unissued", "valid", "presented", "spent", "lost"}]
    BY <1>0, <1>13 DEF IdpAnswers, TypeOK, Unused
  <2>5. OneInFlight'
    BY <1>0, <1>13, <2>1, <2>2 DEF OneInFlight, TypeOK, IdpAnswers
  <2>6. WaitersJoined'
    BY <1>0, <1>13 DEF WaitersJoined, IdpAnswers
  <2> QED
    BY <1>0, <1>13, <2>3, <2>4, <2>5, <2>6, CallsStep DEF IdpAnswers, TypeOK
<1>14. ASSUME NEW c \in Calls, RefreshDone(c) PROVE SessionInvariant'
  <2>1. store' \in Session
    BY <1>0, <1>14, CallTypes DEF RefreshDone, Session
  <2>2. tokens' \in [Gens -> {"unissued", "valid", "presented", "spent", "lost"}]
    BY <1>0, <1>14 DEF RefreshDone, TypeOK
  <2> QED
    BY <1>0, <1>14, <2>1, <2>2, SettledKeeps, CallsStep DEF RefreshDone, TypeOK
<1>15. ASSUME NEW c \in Calls, RefreshRefused(c) PROVE SessionInvariant'
  <2>1. tokens' \in [Gens -> {"unissued", "valid", "presented", "spent", "lost"}]
    BY <1>0, <1>15 DEF RefreshRefused, TypeOK
  <2> QED
    BY <1>0, <1>15, <2>1, ClearTypes, SettledKeeps, CallsStep DEF RefreshRefused, TypeOK
<1>16. ASSUME NEW c \in Calls, RefreshLost(c) PROVE SessionInvariant'
  <2>1. tokens' \in [Gens -> {"unissued", "valid", "presented", "spent", "lost"}]
    BY <1>0, <1>16 DEF RefreshLost, TypeOK
  <2>2. store' \in Session /\ pending' \in Logins \cup {None}
    BY <1>0, <1>16, ClearTypes DEF RefreshLost, TypeOK
  <2> QED
    BY <1>0, <1>16, <2>1, <2>2, SettledKeeps, CallsStep DEF RefreshLost, TypeOK
<1>17. ASSUME Logout PROVE SessionInvariant'
  BY <1>0, <1>17, QuietStep, ClearTypes DEF Logout, TypeOK
<1>20. ASSUME LogoutGoes PROVE SessionInvariant'
  BY <1>0, <1>20, QuietStep DEF LogoutGoes, TypeOK
<1>18. ASSUME Stale PROVE SessionInvariant'
  <2>1. store' \in Session
    BY <1>0, <1>18 DEF Stale, TypeOK, Session
  <2> QED
    BY <1>0, <1>18, <2>1, QuietStep DEF Stale, TypeOK
<1>19. ASSUME UNCHANGED vars PROVE SessionInvariant'
  BY <1>0, <1>19, QuietStep DEF vars, TypeOK
<1> QED
  BY <1>1, <1>2, <1>3, <1>4, <1>5, <1>6, <1>7, <1>8, <1>9, <1>10, <1>11, <1>12, <1>13,
     <1>14, <1>15, <1>16, <1>17, <1>18, <1>19, <1>20
  DEF Next, CallStep

-----------------------------------------------------------------------------
(* OneLogin *)

\* What is inductive of OneLogin.
LoginInvariant == SentByFirstMount /\ CodeSentOnce /\ RedirectMatchesPending

\* No login has begun in a fresh tab.
LEMMA LoginInit ==
    ASSUME Init
    PROVE  LoginInvariant
BY DEF Init, LoginInvariant, SentByFirstMount, CodeSentOnce, RedirectMatchesPending, NoCallback

\* A redirect stores the state that it sends; every other step leaves the
\* browser's target and the pending login alone, forgets the one, or goes
\* elsewhere than to a login.
LEMMA RedirectStep ==
    ASSUME TypeOK, RedirectMatchesPending,
           \/ Redirect
           \/ UNCHANGED <<target, pending>>
           \/ pending' = None
           \/ target' \notin Logins
    PROVE  RedirectMatchesPending'
BY RedirectTypes DEF RedirectMatchesPending

\* The invariant of the logins is inductive.
LEMMA LoginStep ==
    ASSUME SessionInvariant, LoginInvariant, [Next]_vars
    PROVE  LoginInvariant'
<1>0. /\ TypeOK
      /\ SentByFirstMount /\ CodeSentOnce /\ RedirectMatchesPending
  BY DEF SessionInvariant, LoginInvariant
<1>1. SentByFirstMount' /\ CodeSentOnce'
  <2>1. ASSUME NEW m \in Mounts, CallbackMount(m) PROVE SentByFirstMount' /\ CodeSentOnce'
    BY <1>0, <2>1, MountKeeps
  <2>2. ASSUME Return \/ CallbackDone \/ CallbackFails
        PROVE  SentByFirstMount' /\ CodeSentOnce'
    <3>1. callback' = callback \/ (callback'.mounts = {} /\ callback'.sends = 0)
      <4>1. CASE Return
        <5>1. callback' = [NoCallback EXCEPT !.state = target]
                => callback'.mounts = {} /\ callback'.sends = 0
          BY DEF NoCallback
        <5> QED
          BY <4>1, <5>1 DEF Return
      <4>2. CASE CallbackDone \/ CallbackFails
        BY <4>2 DEF CallbackDone, CallbackFails, NoCallback
      <4> QED
        BY <2>2, <4>1, <4>2
    <3> QED
      BY <1>0, <3>1 DEF SentByFirstMount, CodeSentOnce
  <2>3. ASSUME callback' = callback PROVE SentByFirstMount' /\ CodeSentOnce'
    BY <1>0, <2>3 DEF SentByFirstMount, CodeSentOnce
  <2> QED
    BY <2>1, <2>2, <2>3
    DEF Next, CallStep, vars, Load, Unload, LoginPage, Reopen, StartCall, FetchDone,
        Fetch401, GoLogin, IdpAnswers, RefreshDone, RefreshRefused, RefreshLost, Logout,
        LogoutGoes, Stale
<1>2. RedirectMatchesPending'
  <2>1. ASSUME NEW c \in Calls, StartCall(c) \/ Fetch401(c)
        PROVE  pending' = None \/ UNCHANGED <<target, pending>>
    BY <2>1 DEF StartCall, Fetch401, Expired, JoinRefresh, Clear
  <2>2. ASSUME Return PROVE target' \notin Logins
    BY <2>2, NoneAssumption DEF Return
  <2>3. ASSUME LogoutGoes PROVE target' \notin Logins \/ UNCHANGED <<target, pending>>
    BY <2>3, NamesAssumption DEF LogoutGoes
  <2> QED
    BY <1>0, <2>1, <2>2, <2>3, RedirectStep
    DEF Next, CallStep, vars, Clear, Logout, Load, Unload, LoginPage, Reopen, CallbackMount,
        CallbackDone, CallbackFails, FetchDone, GoLogin, IdpAnswers, RefreshDone,
        RefreshRefused, RefreshLost, Stale
<1> QED
  BY <1>1, <1>2 DEF LoginInvariant

-----------------------------------------------------------------------------
(* The theorems *)

\* Both hold in every reachable state.
LEMMA InvariantHolds == Spec => [](SessionInvariant /\ LoginInvariant)
<1>1. Init => SessionInvariant /\ LoginInvariant
  BY SessionInit, LoginInit
<1>2. SessionInvariant /\ LoginInvariant /\ [Next]_vars
        => (SessionInvariant /\ LoginInvariant)'
  BY SessionStep, LoginStep DEF LoginInvariant
<1> QED
  BY <1>1, <1>2, PTL DEF Spec

\* refreshInFlight is the one exchange that runs, and no call awaits another,
\* for any number of API calls.
THEOREM RefreshesAreShared == Spec => []SessionInvariant
BY InvariantHolds, PTL

\* However many API calls expire and retry at once, no refresh token is sent by
\* two exchanges that run at once.
THEOREM TokensAreNotReplayed == Spec => []NoConcurrentReplay
<1>1. SessionInvariant => NoConcurrentReplay
  BY DEF SessionInvariant, NoConcurrentReplay
<1> QED
  BY <1>1, InvariantHolds, PTL

\* However often the callback page mounts and logins are started, one code is
\* sent and the IdP gets the state that is stored.
THEOREM LoginsAreOne == Spec => []OneLogin
<1>1. LoginInvariant => OneLogin
  BY DEF LoginInvariant, OneLogin
<1> QED
  BY <1>1, InvariantHolds, PTL
=============================================================================
