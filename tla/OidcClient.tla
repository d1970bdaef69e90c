----------------------------- MODULE OidcClient -----------------------------
(***************************************************************************)
(* The browser client of packages/caselaw-auth/src/client.ts, running in   *)
(* every tab an application has open.  The tabs share localStorage; each   *)
(* has a sessionStorage of its own, and a client object that lives as long *)
(* as the document does.  JavaScript runs to completion between awaits, so *)
(* an action is the code from one await to the next, and everything that   *)
(* is awaited (discovery, the token endpoint) is a separate step in which  *)
(* the other operations of the tab, and the other tabs, may run.           *)
(*                                                                         *)
(* The provider is IdentityProvider; a request reaches it, and its answer  *)
(* comes back, in steps of their own.                                      *)
(***************************************************************************)
EXTENDS IdentityProvider

CONSTANTS
    Tabs,           \* browser tabs of one origin
    Foreign,        \* a callback state this browser never created
    None,           \* an absent value: undefined, null, a missing key
    SignedInAs,     \* the login whose session is stored at the start, or None
    MaxRefreshes,   \* bound: calls of refresh()
    MaxLogouts,     \* bound: calls of logout()
    MaxFailures     \* bound: failed network round trips

ASSUME StatesAssumption == /\ Foreign \notin States
                           /\ None \notin States \cup {Foreign}
                           /\ SignedInAs \in States \cup {None}
ASSUME BoundsAssumption == /\ MaxRefreshes \in Nat /\ MaxLogouts \in Nat
                           /\ MaxFailures \in Nat

VARIABLES
    session,        \* localStorage[storageKey]
    local,          \* the login states in localStorage
    tab,            \* tab[t]: the login states in t's sessionStorage
    url,            \* url[t]: the `state` parameter of the document's URL
    leaving,        \* leaving[t]: where location.assign has sent t
    away,           \* away[t]: t's document is gone, the provider shows its page
    discovery,      \* discovery[t]: what t's discoveryPromise settled to, or None
    login,          \* the operations in flight in t's document ...
    callback,
    refresh,
    logout,         \* ... one of each kind
    spent,          \* how much of each bound is used
    lost,           \* history: granted refreshes nobody received, since one was
    taken,          \* history: taken[t], states whose callback t has handled
    wiped,          \* history: t's own code cleared the state t is leaving with
    signOut         \* history: how the last sign-out went

storage  == <<session, local, tab>>
document == <<url, leaving, away, discovery>>
ops      == <<login, callback, refresh, logout>>
history  == <<lost, taken, wiped, signOut>>
vars     == <<session, local, tab, url, leaving, away, discovery, login, callback,
              refresh, logout, codes, issued, live, tokens, spent, lost, taken, wiped, signOut>>

Session == [login : States, gen : Nat]

ASSUME NoneAssumption == None \notin Session \cup {"loaded", "failed"}

Stay       == [to |-> "nowhere", for |-> None]
Idle       == [pc |-> "idle", for |-> None, gen |-> NoToken]
NotLeaving == [pc |-> "idle", hint |-> FALSE]
Pcs        == {"idle", "discover", "sent", "granted", "refused", "erred"}

Departure  == [to : {"nowhere", "login", "hinted", "unhinted", "here"}, for : States \cup {None}]
CallbackOp == [pc : Pcs, for : States \cup {None}, gen : Nat]
RefreshOp  == [pc : Pcs, for : Session \cup {None}, gen : Nat]
LogoutOp   == [pc : {"idle", "discover"}, hint : BOOLEAN]
Spent      == [logins : SUBSET States, refreshes : Nat, logouts : Nat, failures : Nat]

TypeOK ==
    /\ session \in Session \cup {None}
    /\ local \in SUBSET States
    /\ tab \in [Tabs -> SUBSET States]
    /\ url \in [Tabs -> States \cup {None, Foreign}]
    /\ leaving \in [Tabs -> Departure]
    /\ away \in [Tabs -> BOOLEAN]
    /\ discovery \in [Tabs -> {None, "loaded", "failed"}]
    /\ login \in [Tabs -> {"idle", "discover"}]
    /\ callback \in [Tabs -> CallbackOp]
    /\ refresh \in [Tabs -> RefreshOp]
    /\ logout \in [Tabs -> LogoutOp]
    /\ ProviderTypeOK
    /\ spent \in Spent
    /\ lost \in Nat
    /\ taken \in [Tabs -> SUBSET (States \cup {Foreign})]
    /\ wiped \in [Tabs -> BOOLEAN]
    /\ signOut \in {"none", "clean", "overlapped"}

(* A browser with one session stored by an earlier page load, or with none. *)
Init ==
    /\ session = IF SignedInAs = None THEN None ELSE [login |-> SignedInAs, gen |-> FirstToken]
    /\ local = {}
    /\ tab = [t \in Tabs |-> {}]
    /\ url = [t \in Tabs |-> None]
    /\ leaving = [t \in Tabs |-> Stay]
    /\ away = [t \in Tabs |-> FALSE]
    /\ discovery = [t \in Tabs |-> None]
    /\ login = [t \in Tabs |-> "idle"]
    /\ callback = [t \in Tabs |-> Idle]
    /\ refresh = [t \in Tabs |-> Idle]
    /\ logout = [t \in Tabs |-> NotLeaving]
    /\ ProviderInit({SignedInAs} \ {None})
    /\ spent = [logins |-> {SignedInAs} \ {None}, refreshes |-> 0, logouts |-> 0,
                failures |-> 0]
    /\ lost = 0
    /\ taken = [t \in Tabs |-> {SignedInAs} \ {None}]
    /\ wiped = [t \in Tabs |-> FALSE]
    /\ signOut = "none"

-----------------------------------------------------------------------------
(* Storage helpers.  sessionStorage and localStorage are wiped together.   *)
ClearLoginState(t) == /\ local' = {}
                      /\ tab' = [tab EXCEPT ![t] = {}]

ClearSession_LoginStateOnly(t) == UNCHANGED session /\ ClearLoginState(t)
ClearSession(t) == session' = None /\ ClearLoginState(t)

Fail == /\ spent.failures < MaxFailures
        /\ spent' = [spent EXCEPT !.failures = @ + 1]

(* discover(): one promise per client object, kept whether it resolves or  *)
(* rejects.  An operation in "discover" awaits it; None means in flight.   *)
Waiting(t) == \/ login[t] = "discover" \/ logout[t].pc = "discover"
              \/ callback[t].pc = "discover" \/ refresh[t].pc = "discover"

Discovered(t) ==
    /\ ~away[t] /\ Waiting(t) /\ discovery[t] = None
    /\ discovery' = [discovery EXCEPT ![t] = "loaded"]
    /\ UNCHANGED <<storage, url, leaving, away, ops, provider, spent, history>>

DiscoveryFails(t) ==
    /\ ~away[t] /\ Waiting(t) /\ discovery[t] = None
    /\ Fail
    /\ discovery' = [discovery EXCEPT ![t] = "failed"]
    /\ UNCHANGED <<storage, url, leaving, away, ops, provider, history>>

-----------------------------------------------------------------------------
(* login() *)
LoginStart(t) ==
    /\ ~away[t] /\ login[t] = "idle"
    /\ spent.logins # States
    /\ login' = [login EXCEPT ![t] = "discover"]
    /\ UNCHANGED <<storage, document, callback, refresh, logout, provider, spent, history>>

StoreLoginState_LocalOnly(t, s) == local' = {s} /\ tab' = [tab EXCEPT ![t] = {}]
StoreLoginState(t, s) == local' = {s} /\ tab' = [tab EXCEPT ![t] = {s}]

(* clearLoginState, then the new state in both storages, then navigation.  *)
LoginLeave(t, s) ==
    /\ login[t] = "discover" /\ discovery[t] = "loaded"
    /\ s \in States \ spent.logins
    /\ StoreLoginState(t, s)
    /\ leaving' = [leaving EXCEPT ![t] = [to |-> "login", for |-> s]]
    /\ login' = [login EXCEPT ![t] = "idle"]
    /\ spent' = [spent EXCEPT !.logins = @ \cup {s}]
    /\ wiped' = [wiped EXCEPT ![t] = FALSE]
    /\ UNCHANGED <<session, url, away, discovery, callback, refresh, logout, provider,
                   lost, taken, signOut>>

LoginFails(t) ==
    /\ login[t] = "discover" /\ discovery[t] = "failed"
    /\ login' = [login EXCEPT ![t] = "idle"]
    /\ UNCHANGED <<storage, document, callback, refresh, logout, provider, spent, history>>

-----------------------------------------------------------------------------
(* handleCallback() *)
Holds_Unchecked(t, s) == TRUE
Holds(t, s) == s \in tab[t] \cup local

TakeLoginState_TabOnly(t, s) == tab' = [tab EXCEPT ![t] = @ \ {s}] /\ UNCHANGED local
TakeLoginState(t, s) == tab' = [tab EXCEPT ![t] = @ \ {s}] /\ local' = local \ {s}

(* A callback whose login state is held: it is taken from both storages    *)
(* before the first await.                                                 *)
CallbackStart(t) ==
    /\ ~away[t] /\ url[t] # None /\ callback[t].pc = "idle"
    /\ Holds(t, url[t])
    /\ TakeLoginState(t, url[t])
    /\ callback' = [callback EXCEPT ![t] = [Idle EXCEPT !.pc = "discover", !.for = url[t]]]
    /\ taken' = [taken EXCEPT ![t] = @ \cup {url[t]}]
    /\ UNCHANGED <<session, document, login, refresh, logout, provider, spent, lost, wiped, signOut>>

(* "OIDC callback state was not found. Start login again.": also what a    *)
(* second call for the same URL gets while the first is in flight.         *)
CallbackUnknown(t) ==
    /\ ~away[t] /\ url[t] # None
    /\ ~Holds(t, url[t])
    /\ ClearLoginState(t)
    /\ taken' = [taken EXCEPT ![t] = @ \cup {url[t]}]
    /\ wiped' = [wiped EXCEPT ![t] = TRUE]
    /\ UNCHANGED <<session, document, ops, provider, spent, lost, signOut>>

CallbackSend(t) ==
    /\ callback[t].pc = "discover" /\ discovery[t] = "loaded"
    /\ callback' = [callback EXCEPT ![t].pc = "sent"]
    /\ UNCHANGED <<storage, document, login, refresh, logout, provider, spent, history>>

(* setSession, clearLoginState and replaceState, with no await in between. *)
CallbackDone(t) ==
    /\ callback[t].pc = "granted"
    /\ session' = [login |-> callback[t].for, gen |-> callback[t].gen]
    /\ ClearLoginState(t)
    /\ url' = [url EXCEPT ![t] = None]
    /\ callback' = [callback EXCEPT ![t] = Idle]
    /\ wiped' = [wiped EXCEPT ![t] = TRUE]
    /\ signOut' = "none"
    /\ UNCHANGED <<leaving, away, discovery, login, refresh, logout, provider, spent, lost, taken>>

(* discover() or readTokenResponse() throws; nothing is cleaned up.        *)
CallbackThrows(t) ==
    /\ \/ callback[t].pc = "discover" /\ discovery[t] = "failed"
       \/ callback[t].pc = "refused"
    /\ callback' = [callback EXCEPT ![t] = Idle]
    /\ UNCHANGED <<storage, document, login, refresh, logout, provider, spent, history>>

-----------------------------------------------------------------------------
(* refresh(): the session is read before the awaits and used after them.   *)
RefreshStart(t) ==
    /\ ~away[t] /\ refresh[t].pc = "idle"
    /\ session # None /\ session.gen # NoToken
    /\ spent.refreshes < MaxRefreshes
    /\ spent' = [spent EXCEPT !.refreshes = @ + 1]
    /\ refresh' = [refresh EXCEPT ![t] = [Idle EXCEPT !.pc = "discover", !.for = session]]
    /\ UNCHANGED <<storage, document, login, callback, logout, provider, history>>

RefreshSend(t) ==
    /\ refresh[t].pc = "discover" /\ discovery[t] = "loaded"
    /\ refresh' = [refresh EXCEPT ![t].pc = "sent"]
    /\ UNCHANGED <<storage, document, login, callback, logout, provider, spent, history>>

(* The new refresh token, or the one sent when the provider returned none. *)
Renewed_KeepsOldToken(r) == r.for
Renewed(r) == IF r.gen = NoToken THEN r.for ELSE [r.for EXCEPT !.gen = r.gen]

RefreshDone(t) ==
    /\ refresh[t].pc = "granted"
    /\ session' = Renewed(refresh[t])
    /\ refresh' = [refresh EXCEPT ![t] = Idle]
    /\ lost' = 0
    /\ UNCHANGED <<local, tab, document, login, callback, logout, provider, spent, taken, wiped,
                   signOut>>

(* !response.ok, whatever the error is: what is stored now is cleared.     *)
RefreshRefused(t) ==
    /\ refresh[t].pc \in {"refused", "erred"}
    /\ ClearSession(t)
    /\ refresh' = [refresh EXCEPT ![t] = Idle]
    /\ wiped' = [wiped EXCEPT ![t] = TRUE]
    /\ UNCHANGED <<document, login, callback, logout, provider, spent, lost, taken, signOut>>

RefreshThrows(t) ==
    /\ refresh[t].pc = "discover" /\ discovery[t] = "failed"
    /\ refresh' = [refresh EXCEPT ![t] = Idle]
    /\ UNCHANGED <<storage, document, login, callback, logout, provider, spent, history>>

-----------------------------------------------------------------------------
(* logout() *)
LogoutStart_TearsDownFirst(t) ==
    /\ ~away[t] /\ logout[t].pc = "idle"
    /\ spent.logouts < MaxLogouts
    /\ ClearSession(t)
    /\ spent' = [spent EXCEPT !.logouts = @ + 1]
    /\ logout' = [logout EXCEPT ![t] = [pc |-> "discover", hint |-> session # None]]
    /\ UNCHANGED <<document, login, callback, refresh, provider, history>>
LogoutStart(t) ==
    /\ ~away[t] /\ logout[t].pc = "idle"
    /\ spent.logouts < MaxLogouts
    /\ spent' = [spent EXCEPT !.logouts = @ + 1]
    /\ logout' = [logout EXCEPT ![t] = [pc |-> "discover", hint |-> session # None]]
    /\ UNCHANGED <<storage, document, login, callback, refresh, provider, history>>

(* discover().catch(() => null): the wait ends either way.                 *)
DiscoveryOver_Uncaught(t) == discovery[t] = "loaded"
DiscoveryOver(t) == discovery[t] # None

Destination(t) == IF discovery[t] = "failed" THEN "here"
                  ELSE IF logout[t].hint THEN "hinted" ELSE "unhinted"

(* Clear, then navigate, nothing awaited in between.                       *)
LogoutLeave(t) ==
    /\ logout[t].pc = "discover" /\ DiscoveryOver(t)
    /\ ClearSession(t)
    /\ leaving' = [leaving EXCEPT ![t] = [to |-> Destination(t), for |-> None]]
    /\ logout' = [logout EXCEPT ![t] = NotLeaving]
    /\ signOut' = IF \A u \in Tabs : refresh[u].pc = "idle" THEN "clean" ELSE "overlapped"
    /\ UNCHANGED <<url, away, discovery, login, callback, refresh, provider, spent, lost,
                   taken, wiped>>

-----------------------------------------------------------------------------
(* The browser: navigation destroys the document and what runs in it.      *)
MissesAnswer(t) == lost' = IF refresh[t].pc = "granted" THEN lost + 1 ELSE lost

FreshDocument(t) ==
    /\ discovery' = [discovery EXCEPT ![t] = None]
    /\ login' = [login EXCEPT ![t] = "idle"]
    /\ callback' = [callback EXCEPT ![t] = Idle]
    /\ refresh' = [refresh EXCEPT ![t] = Idle]
    /\ logout' = [logout EXCEPT ![t] = NotLeaving]
    /\ MissesAnswer(t)

Unload(t) ==
    /\ ~away[t] /\ leaving[t] # Stay
    /\ away' = [away EXCEPT ![t] = TRUE]
    /\ FreshDocument(t)
    /\ UNCHANGED <<storage, url, leaving, provider, spent, taken, wiped, signOut>>

(* A page of the application is opened in t: a reload, a bookmark, a       *)
(* callback URL kept in the history or pasted, a callback never asked for. *)
Open(t, u) ==
    /\ u \in {None, Foreign} \cup issued
    /\ url' = [url EXCEPT ![t] = u]
    /\ away' = [away EXCEPT ![t] = FALSE]
    /\ leaving' = [leaving EXCEPT ![t] = Stay]
    /\ FreshDocument(t)
    /\ UNCHANGED <<storage, provider, spent, taken, wiped, signOut>>

-----------------------------------------------------------------------------
(* The provider and the network.                                           *)
Arrive(t, u) ==
    /\ away[t]
    /\ url' = [url EXCEPT ![t] = u]
    /\ away' = [away EXCEPT ![t] = FALSE]
    /\ leaving' = [leaving EXCEPT ![t] = Stay]
    /\ UNCHANGED <<storage, discovery, ops, spent, history>>

Authenticated(t) ==
    /\ leaving[t].to = "login"
    /\ Arrive(t, leaving[t].for)
    /\ Authenticate(leaving[t].for)

(* Keycloak ends the session it is hinted at; unhinted it asks the user,   *)
(* who may walk away (Open); "here" never reached it.                      *)
SignedOut(t) ==
    /\ leaving[t].to \in {"hinted", "unhinted", "here"}
    /\ Arrive(t, None)
    /\ IF leaving[t].to = "here" THEN UNCHANGED provider ELSE EndSession

SsoExpires ==
    /\ live # {}
    /\ EndSession
    /\ UNCHANGED <<storage, document, ops, spent, history>>

CodeRedeemed(t) ==
    /\ callback[t].pc = "sent"
    /\ Redeem(callback[t].for)
    /\ callback' = [callback EXCEPT ![t] = [@ EXCEPT !.pc = "granted", !.gen = FirstToken]]
    /\ UNCHANGED <<storage, document, login, refresh, logout, spent, history>>

CodeRefused(t) ==
    /\ callback[t].pc = "sent" /\ callback[t].for \notin codes
    /\ callback' = [callback EXCEPT ![t].pc = "refused"]
    /\ UNCHANGED <<storage, document, login, refresh, logout, provider, spent, history>>

TokenRotated(t) ==
    /\ refresh[t].pc = "sent"
    /\ Rotate(refresh[t].for.login, refresh[t].for.gen)
    /\ refresh' = [refresh EXCEPT ![t] = [@ EXCEPT !.pc = "granted",
                                                   !.gen = NextToken(refresh[t].for.login)]]
    /\ UNCHANGED <<storage, document, login, callback, logout, spent, history>>

TokenKept(t) ==
    /\ refresh[t].pc = "sent"
    /\ Renew(refresh[t].for.login, refresh[t].for.gen)
    /\ refresh' = [refresh EXCEPT ![t].pc = "granted"]
    /\ UNCHANGED <<storage, document, login, callback, logout, spent, history>>

TokenRefused(t) ==
    /\ refresh[t].pc = "sent"
    /\ ~Accepts(refresh[t].for.login, refresh[t].for.gen)
    /\ refresh' = [refresh EXCEPT ![t].pc = "refused"]
    /\ UNCHANGED <<storage, document, login, callback, logout, provider, spent, history>>

(* The token endpoint, or what stands in front of it, answers with an      *)
(* error that says nothing of the token: a rate limit before the provider  *)
(* acted, a 5xx before or after.                                           *)
RefreshErrs(t) ==
    /\ refresh[t].pc \in {"sent", "granted"}
    /\ Fail
    /\ MissesAnswer(t)
    /\ refresh' = [refresh EXCEPT ![t] = [Idle EXCEPT !.pc = "erred", !.for = refresh[t].for]]
    /\ UNCHANGED <<storage, document, login, callback, logout, provider, taken, wiped,
                   signOut>>

(* fetch() rejects, before or after the provider acted, or the body is no  *)
(* token response; a callback's readTokenResponse() throws on an error.    *)
LoseCallback(t) ==
    /\ callback[t].pc \in {"sent", "granted", "refused"}
    /\ Fail
    /\ callback' = [callback EXCEPT ![t] = Idle]
    /\ UNCHANGED <<storage, document, login, refresh, logout, provider, history>>

LoseRefresh(t) ==
    /\ refresh[t].pc \in {"sent", "granted", "refused", "erred"}
    /\ Fail
    /\ MissesAnswer(t)
    /\ refresh' = [refresh EXCEPT ![t] = Idle]
    /\ UNCHANGED <<storage, document, login, callback, logout, provider, taken, wiped,
                   signOut>>

-----------------------------------------------------------------------------
(* What a tab's event loop and the network do by themselves, per operation. *)
Settle(t)      == Discovered(t) \/ DiscoveryFails(t)
LoginStep(t)   == (\E s \in States : LoginLeave(t, s)) \/ LoginFails(t)
CallbackNet(t) == CodeRedeemed(t) \/ CodeRefused(t) \/ LoseCallback(t)
CallbackStep(t) == CallbackSend(t) \/ CallbackDone(t) \/ CallbackThrows(t)
RefreshNet(t)  == TokenRotated(t) \/ TokenKept(t) \/ TokenRefused(t) \/ RefreshErrs(t)
                  \/ LoseRefresh(t)
RefreshStep(t) == RefreshSend(t) \/ RefreshDone(t) \/ RefreshRefused(t) \/ RefreshThrows(t)

(* What the user, or the application, decides to do.                       *)
UserStep(t) == \/ LoginStart(t) \/ CallbackStart(t) \/ CallbackUnknown(t)
               \/ RefreshStart(t) \/ LogoutStart(t)
               \/ \E u \in States \cup {None, Foreign} : Open(t, u)
               \/ Authenticated(t)

TabStep(t) == \/ Settle(t) \/ LoginStep(t) \/ CallbackNet(t) \/ CallbackStep(t)
              \/ RefreshNet(t) \/ RefreshStep(t) \/ LogoutLeave(t)
              \/ Unload(t) \/ SignedOut(t)
              \/ UserStep(t)

Next == SsoExpires \/ \E t \in Tabs : TabStep(t)

Spec == Init /\ [][Next]_vars

(* What is left of Next where nobody refreshes and nothing is lost, as in    *)
(* the days before the first session expires.                              *)
SignInStep(t) == \/ Discovered(t) \/ (\E s \in States : LoginLeave(t, s))
                 \/ CodeRedeemed(t) \/ CodeRefused(t) \/ CallbackStep(t)
                 \/ LogoutLeave(t) \/ Unload(t) \/ SignedOut(t)
                 \/ LoginStart(t) \/ CallbackStart(t) \/ CallbackUnknown(t) \/ LogoutStart(t)
                 \/ \E u \in States \cup {None, Foreign} : Open(t, u)
                 \/ Authenticated(t)

SignInSpec == Init /\ [][SsoExpires \/ \E t \in Tabs : SignInStep(t)]_vars

-----------------------------------------------------------------------------
(* PROPERTIES *)

(* A login state is good for one callback per tab: once a tab has handled  *)
(* the callback of a state, neither its own storage nor the shared one     *)
(* holds it, so a reload or the back button cannot send the code again     *)
(* (client.ts:82-84, with logins that run in several tabs meanwhile).      *)
HandledStateIsGone == \A t \in Tabs : taken[t] \cap (local \cup tab[t]) = {}

(* No code is sent to the provider but for a login this browser started,   *)
(* and only by a tab that took the login's state out of storage for it     *)
(* (client.ts:82-91), whatever callback URLs its tabs are sent to.         *)
ExchangesAreOwnLogins ==
    \A t \in Tabs : callback[t].pc # "idle" => callback[t].for \in spent.logins \cap taken[t]

(* A tab that is at the provider can finish its login when it comes back,  *)
(* whatever the other tabs do: only code of its own document, a callback   *)
(* or a refused refresh that ended after login() wrote the state, removes  *)
(* it (client.ts:43-47 and 258-267).                                       *)
PendingLoginCanFinish ==
    \A t \in Tabs : leaving[t].to = "login" /\ ~wiped[t] => leaving[t].for \in tab[t]

(* Signing out while no tab is refreshing is final: no operation brings    *)
(* the session back, only the callback of another login (client.ts:118).   *)
CleanSignOutHolds == signOut = "clean" => session = None

(* What client.ts:149 promises, "Sign out here": after logout() the        *)
(* session stays out of storage until a new login.                         *)
SignedOutStaysSignedOut == signOut # "none" => session = None

(* Nothing is torn down before the navigation is decided: a session leaves *)
(* storage in the step in which a tab is sent away to sign out, or because *)
(* a refresh was answered with an error (client.ts:134-137 and 148-160).   *)
SessionLossHasACause ==
    [][session # None /\ session' = None =>
         \E t \in Tabs : \/ leaving'[t].to \in {"hinted", "unhinted", "here"} /\ logout[t].pc # "idle"
                         \/ refresh[t].pc \in {"refused", "erred"} /\ refresh'[t].pc = "idle"]_vars

(* What costs a tab on its own a session that is alive at the provider:    *)
(* the page signs out; the refresh was answered with an error that is not  *)
(* about the token, a 429 or a 5xx, which refresh() takes for a refusal;   *)
(* more than MaxReuse answers in a row were lost; or another login ended   *)
(* while the refresh was on its way.  Nothing else does: an answer the tab *)
(* missed, up to MaxReuse of them, signs nobody out (client.ts:117-146).   *)
NoSpuriousSignOut ==
    [][session # None /\ session' = None /\ session.login \in live =>
         \/ lost > MaxReuse
         \/ \E t \in Tabs : logout[t].pc # "idle" /\ logout'[t].pc = "idle"
         \/ \E t \in Tabs : refresh[t].pc = "erred" /\ refresh'[t].pc = "idle"
         \/ \E t \in Tabs : refresh'[t] # refresh[t] /\ refresh[t].for # session]_vars

(* "An error with a retry button" (docs/CONNECTING_PROJECTS.md:297): a     *)
(* retried login asks the provider again, it is not answered with the      *)
(* failure of an earlier attempt (client.ts:222-231).                      *)
RetryAsksAgain ==
    [][\A t \in Tabs : login[t] = "idle" /\ login'[t] = "discover" => discovery[t] # "failed"]_vars
=============================================================================
