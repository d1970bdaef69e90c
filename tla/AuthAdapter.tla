----------------------------- MODULE AuthAdapter -----------------------------
(***************************************************************************)
(* The reactive adapters over the browser client: vue.ts with its sign-in  *)
(* components, and svelte.ts.  Each tab's document runs one of the two.    *)
(* The application sees the session through the adapter's state, and the   *)
(* components offer signing in and out by that state, not by what is       *)
(* stored.  The continuation of an adapter call runs in the turn in which  *)
(* the client's promise settles, so an action here is one of the client's  *)
(* with what the adapter does about it.                                    *)
(***************************************************************************)
EXTENDS OidcClient

VARIABLES
    framework,      \* framework[t]: what t's application is written with
    view,           \* view[t]: the adapter's reactive state
    caller,         \* caller[t]: the call that awaits client.refresh()
    page            \* page[t]: the components mounted, with CallbackView's error

adapter == <<framework, view, caller, page>>
allVars == <<vars, adapter>>

View == [status : {"loading", "authenticated", "anonymous", "error"}, ready : BOOLEAN,
         session : Session \cup {None}, error : BOOLEAN]

AdapterTypeOK ==
    /\ TypeOK
    /\ framework \in [Tabs -> {"vue", "svelte"}]
    /\ view \in [Tabs -> View]
    /\ caller \in [Tabs -> {"none", "init", "refresh"}]
    /\ page \in [Tabs -> SUBSET {"gate", "callback", "error"}]
    /\ \A t \in Tabs : /\ caller[t] = "none" <=> refresh[t].pc = "idle"
                       /\ view[t].status = "authenticated" => view[t].session # None
                       /\ view[t].status \in {"anonymous", "error"} => view[t].session = None

Blank == [status |-> "loading", ready |-> FALSE, session |-> None, error |-> FALSE]

AdapterInit ==
    /\ Init
    /\ framework \in [Tabs -> {"vue", "svelte"}]
    /\ view = [t \in Tabs |-> Blank]
    /\ caller = [t \in Tabs |-> "none"]
    /\ page = [t \in Tabs |-> {}]

-----------------------------------------------------------------------------
(* What the adapters do to the reactive state.  Svelte's setSession and    *)
(* setError replace all of it; Vue's leave `error`, and `ready` to the     *)
(* caller.                                                                 *)
Svelte(t) == framework[t] = "svelte"
SetView(t, v) == view' = [view EXCEPT ![t] = v]

Showing(s, ready, error) == [status |-> IF s = None THEN "anonymous" ELSE "authenticated",
                             session |-> s, ready |-> ready, error |-> error]

SetSession(t, s, ready) ==
    SetView(t, Showing(s, ready \/ Svelte(t), ~Svelte(t) /\ view[t].error))

Broken == [status |-> "error", session |-> None, ready |-> TRUE, error |-> TRUE]
SetError(t) == SetView(t, Broken)

Loading(t, clears) == SetView(t, [view[t] EXCEPT !.status = "loading", !.error = @ /\ ~clears])

(* A call of handleCallback() throws: svelte.ts catches it, vue.ts leaves  *)
(* it to CallbackView.                                                     *)
CallbackError(t) ==
    /\ IF Svelte(t) THEN SetError(t) ELSE Loading(t, FALSE)
    /\ page' = [page EXCEPT ![t] = @ \cup {"callback", "error"}]
    /\ UNCHANGED <<framework, caller>>

-----------------------------------------------------------------------------
(* init(), as AuthGate, useAuthInit() and requireRole() call it.  With     *)
(* nothing to refresh, or not yet, the stored session is shown at once.    *)
Mount(t, component) == page' = [page EXCEPT ![t] = @ \cup {component}]

InitShows(t) ==
    /\ ~away[t]
    /\ SetView(t, Showing(session, TRUE, FALSE))
    /\ Mount(t, "gate")
    /\ UNCHANGED <<vars, framework, caller>>

InitRefreshes(t) ==
    /\ RefreshStart(t)
    /\ Loading(t, TRUE)
    /\ Mount(t, "gate")
    /\ caller' = [caller EXCEPT ![t] = "init"]
    /\ UNCHANGED framework

(* refresh() as the application calls it.                                  *)
RefreshShows(t) ==
    /\ ~away[t]
    /\ ~(session # None /\ session.gen # NoToken)
    /\ SetSession(t, session, view[t].ready)
    /\ UNCHANGED <<vars, framework, caller, page>>

RefreshCalled(t) ==
    /\ RefreshStart(t)
    /\ caller' = [caller EXCEPT ![t] = "refresh"]
    /\ UNCHANGED <<framework, view, page>>

(* client.refresh() returns, with the session it stored or with null ...   *)
Shows_IfAny(t, s) == IF s = None THEN UNCHANGED view
                     ELSE SetSession(t, s, view[t].ready \/ caller[t] = "init")
Shows(t, s) == SetSession(t, s, view[t].ready \/ caller[t] = "init")

Refreshed(t) ==
    /\ \/ RefreshDone(t) /\ Shows(t, Renewed(refresh[t]))
       \/ RefreshRefused(t) /\ Shows(t, None)
    /\ caller' = [caller EXCEPT ![t] = "none"]
    /\ UNCHANGED <<framework, page>>

(* ... or throws: init() catches it, refresh() passes it on.               *)
Thrown_Uncaught(t) == UNCHANGED view
Thrown(t) == IF caller[t] = "init" THEN SetError(t) ELSE UNCHANGED view

RefreshFails_StillAwaited(t) ==
    (RefreshThrows(t) \/ LoseRefresh(t)) /\ Thrown(t) /\ UNCHANGED <<framework, caller, page>>
RefreshFails(t) ==
    /\ RefreshThrows(t) \/ LoseRefresh(t)
    /\ Thrown(t)
    /\ caller' = [caller EXCEPT ![t] = "none"]
    /\ UNCHANGED <<framework, page>>

-----------------------------------------------------------------------------
(* handleCallback() *)
CallbackBegins(t) ==
    /\ CallbackStart(t)
    /\ Loading(t, Svelte(t))
    /\ page' = [page EXCEPT ![t] = (@ \ {"error"}) \cup {"callback"}]
    /\ UNCHANGED <<framework, caller>>

(* No code and state in the URL, or an error from the provider.            *)
CallbackDenied(t) ==
    /\ ~away[t] /\ url[t] = None
    /\ CallbackError(t)
    /\ UNCHANGED vars

CallbackNotFound(t) == CallbackUnknown(t) /\ CallbackError(t)
CallbackFails(t) == (CallbackThrows(t) \/ LoseCallback(t)) /\ CallbackError(t)

CallbackShows(t) ==
    /\ CallbackDone(t)
    /\ SetSession(t, session', TRUE)
    /\ UNCHANGED <<framework, caller, page>>

-----------------------------------------------------------------------------
(* What AuthGate, CallbackView and AccountMenu show and let the user do.   *)
Gate(t) == IF ~view[t].ready THEN "loading"
           ELSE IF view[t].session = None THEN "anonymous" ELSE "open"

(* CallbackView spins until there is an error: also after it has signed    *)
(* in, for as long as the host does not navigate.                          *)
Spinning(t) == \/ "gate" \in page[t] /\ Gate(t) = "loading"
               \/ "callback" \in page[t] /\ "error" \notin page[t]

LoginClicked(t) ==
    /\ Gate(t) = "anonymous" \/ "error" \in page[t]
    /\ LoginStart(t)
    /\ UNCHANGED adapter

(* The session is deliberately left in view (vue.ts:84-88).                *)
LogoutClicked_ClearsView(t) ==
    /\ view[t].session # None
    /\ LogoutStart(t)
    /\ SetSession(t, None, view[t].ready) /\ UNCHANGED <<framework, caller, page>>
LogoutClicked(t) ==
    /\ view[t].session # None
    /\ LogoutStart(t)
    /\ UNCHANGED adapter

(* A document that goes takes its adapter with it.                         *)
Forget(t) == /\ view' = [view EXCEPT ![t] = Blank]
             /\ caller' = [caller EXCEPT ![t] = "none"]
             /\ page' = [page EXCEPT ![t] = {}]
             /\ UNCHANGED framework

Unloads(t)  == Unload(t) /\ Forget(t)
Opens(t, u) == Open(t, u) /\ Forget(t)

-----------------------------------------------------------------------------
(* What happens by itself; the adapter learns nothing of the rest.         *)
Settles(t)    == Settle(t) /\ UNCHANGED adapter
LoginGoes(t)  == LoginStep(t) /\ UNCHANGED adapter
LogoutGoes(t) == LogoutLeave(t) /\ UNCHANGED adapter

CallbackGoes(t) == \/ (CallbackSend(t) \/ CodeRedeemed(t) \/ CodeRefused(t)) /\ UNCHANGED adapter
                   \/ CallbackShows(t) \/ CallbackFails(t)

RefreshGoes(t) ==
    \/ /\ RefreshSend(t) \/ TokenRotated(t) \/ TokenKept(t) \/ TokenRefused(t) \/ RefreshErrs(t)
       /\ UNCHANGED adapter
    \/ Refreshed(t) \/ RefreshFails(t)

Chosen(t) == \/ InitShows(t) \/ InitRefreshes(t) \/ RefreshShows(t) \/ RefreshCalled(t)
             \/ CallbackBegins(t) \/ CallbackDenied(t) \/ CallbackNotFound(t)
             \/ LoginClicked(t) \/ LogoutClicked(t)
             \/ \E u \in States \cup {None} : Opens(t, u)
             \/ Authenticated(t) /\ UNCHANGED adapter

AdapterNext ==
    \/ SsoExpires /\ UNCHANGED adapter
    \/ \E t \in Tabs : \/ Settles(t) \/ LoginGoes(t) \/ LogoutGoes(t) \/ CallbackGoes(t)
                       \/ RefreshGoes(t) \/ Unloads(t) \/ Chosen(t)
                       \/ SignedOut(t) /\ UNCHANGED adapter

AdapterSpec == AdapterInit /\ [][AdapterNext]_allVars

(* The browser's event loop: a fetch settles, the continuation of what was *)
(* awaited runs, a navigation takes place.  Nothing is asked of a login.   *)
AdapterFairSpec ==
    /\ AdapterSpec
    /\ \A t \in Tabs : /\ WF_allVars(Settles(t)) /\ WF_allVars(Unloads(t))
                       /\ WF_allVars(LogoutGoes(t)) /\ WF_allVars(CallbackGoes(t))
                       /\ WF_allVars(RefreshGoes(t))

-----------------------------------------------------------------------------
(* PROPERTIES *)

(* While a page is not leaving, the session it shows is the one that is    *)
(* stored, and it says nobody is signed in only when none is: whatever     *)
(* operations overlap in the page (vue.ts:41-46 and svelte.ts:46-55).  For *)
(* one tab: no adapter hears of what another tab stores.                   *)
ViewAgrees ==
    \A t \in Tabs : Tabs = {t} /\ leaving[t] = Stay =>
        /\ view[t].session # None => session = view[t].session
        /\ view[t].status = "anonymous" => session = None

(* "its route guard reacted by sending the browser to sign in again,       *)
(* cancelling the sign-out" (vue.ts:84-88): while a sign-out is on its way *)
(* a page on its own offers no sign-in, unless the session is gone, or a   *)
(* round trip or a callback has failed.                                    *)
SignOutIsNotCancelled ==
    [][\A t \in Tabs : /\ Tabs = {t} /\ logout[t].pc # "idle"
                       /\ login[t] = "idle" /\ login'[t] = "discover"
                       => session = None \/ spent.failures > 0 \/ "error" \in page[t]]_allVars

(* No page waits for ever.  AuthGate's spinner ends; CallbackView's ends   *)
(* in the error with its retry button, also when the exchange throws, and  *)
(* the one that stays is that of a page whose exchange is over: its state  *)
(* is ready and not loading, so that the host can move on, which is left   *)
(* to it (vue.ts:60-81, CallbackView.vue:8-31, CONNECTING_PROJECTS.md:296).*)
(* And logout() gets to its navigation, also when discovery fails          *)
(* (client.ts:165).                                                        *)
ComesToRest == \A t \in Tabs :
    []<>(/\ Spinning(t) => view[t].ready /\ view[t].status # "loading"
         /\ logout[t].pc = "idle")
=============================================================================
