-------------------------- MODULE AuthAdapterProofs --------------------------
(***************************************************************************)
(* Theorems about AuthAdapter, for any number of tabs and logins, either   *)
(* framework in each, and any bounds.                                      *)
(***************************************************************************)
EXTENDS AuthAdapter, OidcClientProofs

-----------------------------------------------------------------------------
(* An adapter only calls the client: its steps are the client's or none.   *)
LEMMA StepRefines == [AdapterNext]_allVars => [Next]_vars
<1> SUFFICES ASSUME [AdapterNext]_allVars PROVE [Next]_vars
  OBVIOUS
<1> USE DEF Next, TabStep, UserStep
<1>1. CASE UNCHANGED allVars
  BY <1>1 DEF allVars, vars
<1>2. CASE SsoExpires
  BY <1>2
<1>3. ASSUME NEW t \in Tabs, Settles(t) \/ LoginGoes(t) \/ LogoutGoes(t) \/ Unloads(t) \/ SignedOut(t)
      PROVE  Next
  BY <1>3 DEF Settles, LoginGoes, LogoutGoes, Unloads
<1>4. ASSUME NEW t \in Tabs, CallbackGoes(t) PROVE Next
  BY <1>4 DEF CallbackGoes, CallbackShows, CallbackFails, CallbackNet, CallbackStep
<1>5. ASSUME NEW t \in Tabs, RefreshGoes(t) PROVE Next
  BY <1>5 DEF RefreshGoes, Refreshed, RefreshFails, RefreshNet, RefreshStep
<1>6. ASSUME NEW t \in Tabs, Chosen(t) PROVE Next \/ UNCHANGED vars
  BY <1>6 DEF Chosen, InitShows, InitRefreshes, RefreshShows, RefreshCalled, CallbackBegins,
              CallbackDenied, CallbackNotFound, LoginClicked, LogoutClicked, Opens
<1> QED BY <1>1, <1>2, <1>3, <1>4, <1>5, <1>6 DEF AdapterNext

(* The client under an adapter is the client: all that is proved of it     *)
(* holds for the applications that use it so.                              *)
THEOREM AdapterImplementsClient == AdapterSpec => Spec
<1>1. AdapterInit => Init
  BY DEF AdapterInit
<1> QED BY <1>1, StepRefines, PTL DEF AdapterSpec, Spec

LEMMA ClientTypesHold == AdapterSpec => []TypeInv
BY AdapterImplementsClient, TypesHold, PTL

-----------------------------------------------------------------------------
AdapterTypes ==
    /\ framework \in [Tabs -> {"vue", "svelte"}]
    /\ view \in [Tabs -> View]
    /\ caller \in [Tabs -> {"none", "init", "refresh"}]
    /\ page \in [Tabs -> SUBSET {"gate", "callback", "error"}]

(* The call that awaits a refresh is there as long as the refresh is.      *)
Awaited == \A t \in Tabs : caller[t] = "none" <=> refresh[t].pc = "idle"

(* status says what session holds.                                         *)
StatusAgrees == \A t \in Tabs :
    /\ view[t].status = "authenticated" => view[t].session # None
    /\ view[t].status \in {"anonymous", "error"} => view[t].session = None

(* A document that is gone shows nothing and runs nothing.                 *)
AwayIsQuiet == \A t \in Tabs :
    away[t] => view[t] = Blank /\ refresh[t].pc = "idle" /\ callback[t].pc = "idle"

AdapterInv == AdapterTypes /\ Awaited /\ StatusAgrees /\ AwayIsQuiet /\ ViewAgrees

LEMMA InitAdapterInv == AdapterInit => AdapterInv
BY DEF AdapterInit, Init, AdapterInv, AdapterTypes, Awaited, StatusAgrees, AwayIsQuiet, ViewAgrees,
       Blank, View, Idle

(* A step the adapter hears nothing of, and that neither changes what is   *)
(* stored nor starts or ends an operation, leaves everything as it was.    *)
LEMMA Unheard ==
  ASSUME AdapterInv, UNCHANGED adapter, UNCHANGED <<session, away>>,
         \A t \in Tabs : /\ refresh'[t].pc = "idle" <=> refresh[t].pc = "idle"
                         /\ away[t] /\ callback[t].pc = "idle" => callback'[t].pc = "idle"
                         /\ leaving'[t] = Stay => leaving[t] = Stay
  PROVE  AdapterInv'
BY DEF adapter, AdapterInv, AdapterTypes, Awaited, StatusAgrees, AwayIsQuiet, ViewAgrees

(* What a tab does with its own adapter touches no other tab's ...         *)
OthersKept(t) == \A u \in Tabs \ {t} :
    /\ view'[u] = view[u] /\ caller'[u] = caller[u] /\ away'[u] = away[u]
    /\ refresh'[u] = refresh[u] /\ callback'[u] = callback[u]

(* ... and leaves its own in order.                                        *)
OwnOrder(t) ==
    /\ caller'[t] = "none" <=> refresh'[t].pc = "idle"
    /\ view'[t].status = "authenticated" => view'[t].session # None
    /\ view'[t].status \in {"anonymous", "error"} => view'[t].session = None
    /\ away'[t] => view'[t] = Blank /\ refresh'[t].pc = "idle" /\ callback'[t].pc = "idle"
    /\ Tabs = {t} /\ leaving'[t] = Stay => /\ view'[t].session # None => session' = view'[t].session
                                           /\ view'[t].status = "anonymous" => session' = None

LEMMA OneTabChanges ==
  ASSUME AdapterInv, AdapterTypes', NEW t \in Tabs, OthersKept(t), OwnOrder(t)
  PROVE  AdapterInv'
<1>1. Awaited' /\ StatusAgrees' /\ AwayIsQuiet'
  BY DEF AdapterInv, Awaited, StatusAgrees, AwayIsQuiet, OthersKept, OwnOrder
<1>2. ViewAgrees'
  <2> SUFFICES ASSUME NEW u \in Tabs, Tabs = {u}, leaving'[u] = Stay
               PROVE  /\ view'[u].session # None => session' = view'[u].session
                      /\ view'[u].status = "anonymous" => session' = None
    BY DEF ViewAgrees
  <2>1. u = t
    OBVIOUS
  <2> QED BY <2>1 DEF OwnOrder
<1> QED BY <1>1, <1>2 DEF AdapterInv

(* Whatever an adapter makes of its state is a state.                      *)
LEMMA MakesView ==
  ASSUME NEW st \in {"loading", "authenticated", "anonymous", "error"}, NEW r \in BOOLEAN,
         NEW s \in Session \cup {None}, NEW e \in BOOLEAN
  PROVE  /\ [status |-> st, ready |-> r, session |-> s, error |-> e] \in View
         /\ \A v \in View : /\ [v EXCEPT !.status = st, !.error = e] \in View
                           /\ v.ready \in BOOLEAN /\ v.error \in BOOLEAN
                           /\ v.session \in Session \cup {None}
BY DEF View

LEMMA ViewsAreViews ==
  ASSUME AdapterTypes, NEW t \in Tabs, NEW s \in Session \cup {None}, NEW b \in BOOLEAN
  PROVE  /\ SetSession(t, s, b) => view' \in [Tabs -> View]
         /\ SetError(t) => view' \in [Tabs -> View]
         /\ Loading(t, b) => view' \in [Tabs -> View]
<1> DEFINE e == ~Svelte(t) /\ view[t].error
           d == view[t].error /\ ~b
           r == b \/ Svelte(t)
<1>1. view \in [Tabs -> View] /\ view[t] \in View
  BY DEF AdapterTypes
<1>2. e \in BOOLEAN /\ d \in BOOLEAN /\ r \in BOOLEAN
  OBVIOUS
<1>3. ASSUME SetSession(t, s, b) PROVE view' \in [Tabs -> View]
  <2> DEFINE v == [status |-> IF s = None THEN "anonymous" ELSE "authenticated",
                   session |-> s, ready |-> r, error |-> e]
  <2>1. v \in View
    <3> HIDE DEF e, r
    <3> QED BY <1>2 DEF View
  <2>2. view' = [view EXCEPT ![t] = v]
    BY <1>3 DEF SetSession, Showing, SetView
  <2> HIDE DEF v
  <2> QED BY <1>1, <2>1, <2>2
<1>4. ASSUME SetError(t) PROVE view' \in [Tabs -> View]
  BY <1>1, <1>4 DEF SetError, Broken, SetView, View
<1>5. ASSUME Loading(t, b) PROVE view' \in [Tabs -> View]
  <2>1. view' = [view EXCEPT ![t] = [view[t] EXCEPT !.status = "loading", !.error = d]]
    BY <1>5 DEF Loading, SetView
  <2> HIDE DEF d
  <2>2. [view[t] EXCEPT !.status = "loading", !.error = d] \in View
    BY <1>1, <1>2, MakesView
  <2> QED BY <1>1, <2>1, <2>2
<1> QED BY <1>3, <1>4, <1>5

(* What t's application sees next, and the others' unchanged.              *)
Becomes(t, st, s) == /\ \A u \in Tabs \ {t} : view'[u] = view[u]
                     /\ view'[t].status = st /\ view'[t].session = s

LEMMA ViewsAfter ==
  ASSUME AdapterTypes, NEW t \in Tabs
  PROVE  /\ \A s, b : SetSession(t, s, b) =>
                Becomes(t, IF s = None THEN "anonymous" ELSE "authenticated", s)
         /\ SetError(t) => Becomes(t, "error", None)
         /\ \A b : Loading(t, b) => Becomes(t, "loading", view[t].session)
         /\ CallbackError(t) => \/ Becomes(t, "error", None)
                                \/ Becomes(t, "loading", view[t].session)
<1>1. view \in [Tabs -> View] /\ view[t] \in View
  BY DEF AdapterTypes
<1>2. SetError(t) => Becomes(t, "error", None)
  BY <1>1 DEF SetError, Broken, SetView, Becomes
<1>3. ASSUME NEW s, NEW b, SetSession(t, s, b)
      PROVE  Becomes(t, IF s = None THEN "anonymous" ELSE "authenticated", s)
  BY <1>1, <1>3 DEF SetSession, Showing, SetView, Becomes
<1>4. ASSUME NEW b, Loading(t, b) PROVE Becomes(t, "loading", view[t].session)
  <2> DEFINE d == view[t].error /\ ~b
  <2>1. view' = [view EXCEPT ![t] = [view[t] EXCEPT !.status = "loading", !.error = d]]
    BY <1>4 DEF Loading, SetView
  <2> HIDE DEF d
  <2>2. /\ [view[t] EXCEPT !.status = "loading", !.error = d].session = view[t].session
        /\ [view[t] EXCEPT !.status = "loading", !.error = d].status = "loading"
    BY <1>1 DEF View
  <2> QED BY <1>1, <2>1, <2>2 DEF Becomes
<1>5. CallbackError(t) => SetError(t) \/ Loading(t, FALSE)
  BY DEF CallbackError
<1>6. Loading(t, FALSE) => Becomes(t, "loading", view[t].session)
  BY <1>4
<1> QED BY <1>2, <1>3, <1>4, <1>5, <1>6

LEMMA NextAdapterInv == TypeInv /\ TypeInv' /\ AdapterInv /\ [AdapterNext]_allVars => AdapterInv'
<1> SUFFICES ASSUME TypeInv, TypeInv', AdapterInv, [AdapterNext]_allVars PROVE AdapterInv'
  OBVIOUS
<1>t. /\ session \in Session \cup {None} /\ session' \in Session \cup {None}
      /\ refresh \in [Tabs -> RefreshOp] /\ callback \in [Tabs -> CallbackOp]
      /\ leaving \in [Tabs -> Departure] /\ away \in [Tabs -> BOOLEAN]
  BY DEF TypeInv, TypeOK
<1>a. AdapterTypes /\ Awaited /\ StatusAgrees /\ AwayIsQuiet /\ ViewAgrees
  BY DEF AdapterInv
<1>0. CASE UNCHANGED allVars
  BY <1>0, Unheard DEF allVars, vars, adapter
<1>1. CASE SsoExpires /\ UNCHANGED adapter
  BY <1>1, Unheard DEF SsoExpires, storage, document, ops
<1>2. ASSUME NEW t \in Tabs, Settles(t) \/ LoginGoes(t) PROVE AdapterInv'
  <2>1. CASE Settles(t)
    BY <2>1, Unheard DEF Settles, Settle, Discovered, DiscoveryFails, storage, ops
  <2>2. CASE LoginGoes(t)
    BY <2>2, <1>t, Unheard DEF LoginGoes, LoginStep, LoginLeave, LoginFails, storage, document, Stay
  <2> QED BY <1>2, <2>1, <2>2
<1>3. ASSUME NEW t \in Tabs, LogoutGoes(t) PROVE AdapterInv'
  <2>1. AdapterTypes' /\ leaving'[t] # Stay
    BY <1>3, <1>a, <1>t DEF LogoutGoes, LogoutLeave, Destination, Stay, adapter, AdapterTypes
  <2>2. OthersKept(t)
    BY <2>1, <1>3, <1>a
       DEF OthersKept, LogoutGoes, LogoutLeave, adapter, Awaited, StatusAgrees, AwayIsQuiet
  <2>3. OwnOrder(t)
    BY <2>1, <1>3, <1>a
       DEF OwnOrder, LogoutGoes, LogoutLeave, adapter, Awaited, StatusAgrees, AwayIsQuiet
  <2> QED BY <2>1, <2>2, <2>3, OneTabChanges
<1>4. ASSUME NEW t \in Tabs, Unloads(t) PROVE AdapterInv'
  <2>1. AdapterTypes'
    BY <1>4, <1>a DEF Unloads, Forget, Blank, AdapterTypes, View
  <2>2. OthersKept(t)
    BY <2>1, <1>4, <1>a, <1>t
       DEF OthersKept, Unloads, Unload, FreshDocument, Forget, Blank, Idle, AdapterTypes
  <2>3. OwnOrder(t)
    BY <2>1, <1>4, <1>a, <1>t
       DEF OwnOrder, Unloads, Unload, FreshDocument, Forget, Blank, Idle, AdapterTypes
  <2> QED BY <2>1, <2>2, <2>3, OneTabChanges
<1>5. ASSUME NEW t \in Tabs, SignedOut(t) \/ Authenticated(t), UNCHANGED adapter PROVE AdapterInv'
  <2>1. AdapterTypes' /\ Arrive(t, url'[t]) /\ away[t] /\ UNCHANGED <<session, ops>>
    BY <1>5, <1>a DEF SignedOut, Authenticated, Arrive, adapter, AdapterTypes, storage, TypeInv, TypeOK
  <2>2. OthersKept(t)
    BY <2>1, <1>5, <1>a, <1>t
       DEF OthersKept, Arrive, adapter, ops, Awaited, StatusAgrees, AwayIsQuiet, Blank
  <2>3. OwnOrder(t)
    BY <2>1, <1>5, <1>a, <1>t
       DEF OwnOrder, Arrive, adapter, ops, Awaited, StatusAgrees, AwayIsQuiet, Blank
  <2> QED BY <2>1, <2>2, <2>3, OneTabChanges
<1>6. ASSUME NEW t \in Tabs, NEW u \in States \cup {None}, Opens(t, u) PROVE AdapterInv'
  <2>1. AdapterTypes'
    BY <1>6, <1>a DEF Opens, Forget, Blank, AdapterTypes, View
  <2>2. OthersKept(t)
    BY <2>1, <1>6, <1>a, <1>t
       DEF OthersKept, Opens, Open, FreshDocument, Forget, Blank, Idle, AdapterTypes
  <2>3. OwnOrder(t)
    BY <2>1, <1>6, <1>a, <1>t
       DEF OwnOrder, Opens, Open, FreshDocument, Forget, Blank, Idle, AdapterTypes
  <2> QED BY <2>1, <2>2, <2>3, OneTabChanges
<1>7. ASSUME NEW t \in Tabs, CallbackGoes(t) PROVE AdapterInv'
  <2>1. CASE (CallbackSend(t) \/ CodeRedeemed(t) \/ CodeRefused(t)) /\ UNCHANGED adapter
    BY <2>1, <1>t, <1>a, Unheard DEF CallbackSend, CodeRedeemed, CodeRefused, AwayIsQuiet, storage, document
  <2>2. CASE CallbackShows(t)
    <3>1. AdapterTypes'
      BY <2>2, <1>a, <1>t, ViewsAreViews DEF CallbackShows, AdapterTypes
    <3>2. Becomes(t, IF session' = None THEN "anonymous" ELSE "authenticated", session')
      BY <2>2, <1>a, ViewsAfter DEF CallbackShows
    <3>3. OthersKept(t)
      BY <3>2, <2>2, <1>a, <1>t DEF OthersKept, Becomes, AdapterTypes, CallbackShows, CallbackDone
    <3>4. OwnOrder(t)
      BY <3>2, <2>2, <1>a, <1>t
         DEF OwnOrder, Becomes, Awaited, StatusAgrees, AwayIsQuiet, ViewAgrees, AdapterTypes,
             CallbackShows, CallbackDone
    <3> QED BY <3>1, <3>3, <3>4, OneTabChanges
  <2>3. CASE CallbackFails(t)
    <3>1. AdapterTypes'
      BY <2>3, <1>a, <1>t, ViewsAreViews DEF CallbackFails, CallbackError, AdapterTypes
    <3>2. Becomes(t, "error", None) \/ Becomes(t, "loading", view[t].session)
      BY <2>3, <1>a, ViewsAfter DEF CallbackFails
    <3>3. OthersKept(t)
      BY <3>2, <2>3, <1>a, <1>t DEF OthersKept, Becomes, AdapterTypes, CallbackFails, CallbackError, CallbackThrows, LoseCallback, storage, document
    <3>4. OwnOrder(t)
      BY <3>2, <2>3, <1>a, <1>t
         DEF OwnOrder, Becomes, Awaited, StatusAgrees, AwayIsQuiet, ViewAgrees, AdapterTypes,
             CallbackFails, CallbackError, CallbackThrows, LoseCallback, storage, document, Idle
    <3> QED BY <3>1, <3>3, <3>4, OneTabChanges
  <2> QED BY <1>7, <2>1, <2>2, <2>3 DEF CallbackGoes
<1>8. ASSUME NEW t \in Tabs, RefreshGoes(t) PROVE AdapterInv'
  <2>1. CASE /\ RefreshSend(t) \/ TokenRotated(t) \/ TokenKept(t) \/ TokenRefused(t) \/ RefreshErrs(t)
             /\ UNCHANGED adapter
    <3>1. /\ UNCHANGED <<session, away, leaving, callback>>
          /\ refresh[t].pc # "idle" /\ refresh'[t].pc # "idle"
          /\ \A u \in Tabs \ {t} : refresh'[u] = refresh[u]
      <4>1. CASE RefreshSend(t)
        BY <4>1, <1>t DEF RefreshSend, storage, document, RefreshOp
      <4>2. CASE TokenRotated(t)
        BY <4>2, <1>t DEF TokenRotated, storage, document, RefreshOp
      <4>3. CASE TokenKept(t) \/ TokenRefused(t)
        BY <4>3, <1>t DEF TokenKept, TokenRefused, storage, document, RefreshOp
      <4>4. CASE RefreshErrs(t)
        BY <4>4, <1>t DEF RefreshErrs, Idle, storage, document, RefreshOp
      <4> QED BY <2>1, <4>1, <4>2, <4>3, <4>4
    <3> QED BY <2>1, <3>1, Unheard
  <2>2. CASE Refreshed(t)
    <3>1. /\ SetSession(t, session', view[t].ready \/ caller[t] = "init")
          /\ refresh[t].pc # "idle" /\ refresh' = [refresh EXCEPT ![t] = Idle]
          /\ caller' = [caller EXCEPT ![t] = "none"]
          /\ UNCHANGED <<framework, page, away, leaving, callback>>
      BY <2>2 DEF Refreshed, RefreshDone, RefreshRefused, Shows, ClearSession, document
    <3>2. AdapterTypes'
      BY <3>1, <1>a, <1>t, ViewsAreViews DEF AdapterTypes
    <3>3. Becomes(t, IF session' = None THEN "anonymous" ELSE "authenticated", session')
      BY <3>1, <1>a, ViewsAfter
    <3>4. OthersKept(t)
      BY <3>1, <3>3, <1>a, <1>t DEF OthersKept, Becomes, AdapterTypes
    <3>5. OwnOrder(t)
      BY <3>1, <3>3, <1>a, <1>t DEF OwnOrder, Becomes, AwayIsQuiet, AdapterTypes, Idle
    <3> QED BY <3>2, <3>4, <3>5, OneTabChanges
  <2>3. CASE RefreshFails(t)
    <3>1. AdapterTypes'
      BY <2>3, <1>a, <1>t, ViewsAreViews DEF RefreshFails, Thrown, AdapterTypes
    <3>2. Becomes(t, "error", None) \/ UNCHANGED view
      BY <2>3, <1>a, ViewsAfter DEF RefreshFails, Thrown
    <3>3. OthersKept(t)
      BY <3>2, <2>3, <1>a, <1>t DEF OthersKept, Becomes, AdapterTypes, RefreshFails, RefreshThrows, LoseRefresh, storage, document
    <3>4. OwnOrder(t)
      BY <3>2, <2>3, <1>a, <1>t
         DEF OwnOrder, Becomes, Awaited, StatusAgrees, AwayIsQuiet, ViewAgrees, AdapterTypes,
             RefreshFails, RefreshThrows, LoseRefresh, storage, document, Idle
    <3> QED BY <3>1, <3>3, <3>4, OneTabChanges
  <2> QED BY <1>8, <2>1, <2>2, <2>3 DEF RefreshGoes
<1>9. ASSUME NEW t \in Tabs, Chosen(t) PROVE AdapterInv'
  <2>1. CASE InitShows(t)
    <3>1. AdapterTypes'
      BY <2>1, <1>a, <1>t DEF InitShows, Mount, Showing, SetView, AdapterTypes, View
    <3>2. OthersKept(t)
      BY <3>1, <2>1, <1>a, <1>t, ViewsAfter
         DEF OthersKept, InitShows, Showing, SetView, Awaited, AwayIsQuiet, AdapterTypes, vars
    <3>3. OwnOrder(t)
      BY <3>1, <2>1, <1>a, <1>t, ViewsAfter
         DEF OwnOrder, InitShows, Showing, SetView, Awaited, AwayIsQuiet, AdapterTypes, vars
    <3> QED BY <3>1, <3>2, <3>3, OneTabChanges
  <2>2. CASE InitRefreshes(t)
    <3>1. AdapterTypes'
      BY <2>2, <1>a, <1>t, ViewsAreViews DEF InitRefreshes, Mount, AdapterTypes
    <3>2. Becomes(t, "loading", view[t].session)
      BY <2>2, <1>a, ViewsAfter DEF InitRefreshes
    <3>3. OthersKept(t)
      BY <3>2, <2>2, <1>a, <1>t DEF OthersKept, Becomes, AdapterTypes, InitRefreshes, RefreshStart, storage, document
    <3>4. OwnOrder(t)
      BY <3>2, <2>2, <1>a, <1>t
         DEF OwnOrder, Becomes, Awaited, StatusAgrees, AwayIsQuiet, ViewAgrees, AdapterTypes,
             InitRefreshes, RefreshStart, storage, document, Idle
    <3> QED BY <3>1, <3>3, <3>4, OneTabChanges
  <2>3. CASE RefreshShows(t)
    <3>1. AdapterTypes'
      <4>1. view[t].ready \in BOOLEAN
        BY <1>a, MakesView DEF AdapterTypes
      <4>2. view' \in [Tabs -> View]
        BY <4>1, <2>3, <1>a, <1>t, ViewsAreViews DEF RefreshShows
      <4> QED BY <4>2, <2>3, <1>a DEF RefreshShows, AdapterTypes
    <3>2. Becomes(t, IF session = None THEN "anonymous" ELSE "authenticated", session)
      BY <2>3, <1>a, ViewsAfter DEF RefreshShows
    <3>3. OthersKept(t)
      BY <3>2, <2>3, <1>a, <1>t DEF OthersKept, Becomes, AdapterTypes, RefreshShows, vars
    <3>4. OwnOrder(t)
      BY <3>2, <2>3, <1>a, <1>t
         DEF OwnOrder, Becomes, Awaited, StatusAgrees, AwayIsQuiet, ViewAgrees, AdapterTypes,
             RefreshShows, vars
    <3> QED BY <3>1, <3>3, <3>4, OneTabChanges
  <2>4. CASE RefreshCalled(t)
    <3>1. AdapterTypes'
      BY <2>4, <1>a DEF RefreshCalled, AdapterTypes
    <3>2. OthersKept(t)
      BY <3>1, <2>4, <1>a, <1>t, ViewsAfter
         DEF OthersKept, RefreshCalled, RefreshStart, Awaited, AwayIsQuiet, ViewAgrees, StatusAgrees, AdapterTypes, storage, document, Idle
    <3>3. OwnOrder(t)
      BY <3>1, <2>4, <1>a, <1>t, ViewsAfter
         DEF OwnOrder, RefreshCalled, RefreshStart, Awaited, AwayIsQuiet, ViewAgrees, StatusAgrees, AdapterTypes, storage, document, Idle
    <3> QED BY <3>1, <3>2, <3>3, OneTabChanges
  <2>5. CASE CallbackBegins(t)
    <3>1. AdapterTypes'
      BY <2>5, <1>a, <1>t, ViewsAreViews DEF CallbackBegins, AdapterTypes, Svelte
    <3>2. Becomes(t, "loading", view[t].session)
      BY <2>5, <1>a, ViewsAfter DEF CallbackBegins
    <3>3. OthersKept(t)
      BY <3>2, <2>5, <1>a, <1>t DEF OthersKept, Becomes, AdapterTypes, CallbackBegins, CallbackStart, document
    <3>4. OwnOrder(t)
      BY <3>2, <2>5, <1>a, <1>t
         DEF OwnOrder, Becomes, Awaited, StatusAgrees, AwayIsQuiet, ViewAgrees, AdapterTypes,
             CallbackBegins, CallbackStart, document
    <3> QED BY <3>1, <3>3, <3>4, OneTabChanges
  <2>6. CASE CallbackDenied(t) \/ CallbackNotFound(t)
    <3>1. /\ CallbackError(t) /\ ~away[t]
          /\ UNCHANGED <<session, away, leaving, refresh, callback>>
      BY <2>6 DEF CallbackDenied, CallbackNotFound, CallbackUnknown, vars, document, ops
    <3>2. AdapterTypes'
      BY <3>1, <1>a, <1>t, ViewsAreViews DEF CallbackError, AdapterTypes
    <3>3. Becomes(t, "error", None) \/ Becomes(t, "loading", view[t].session)
      BY <3>1, <1>a, ViewsAfter
    <3>4. OthersKept(t)
      BY <3>1, <3>3, <1>a, <1>t DEF OthersKept, Becomes, AdapterTypes, CallbackError
    <3>5. OwnOrder(t)
      BY <3>1, <3>3, <1>a, <1>t
         DEF OwnOrder, Becomes, Awaited, AwayIsQuiet, ViewAgrees, AdapterTypes, CallbackError
    <3> QED BY <3>2, <3>4, <3>5, OneTabChanges
  <2>7. CASE LoginClicked(t) \/ LogoutClicked(t)
    BY <2>7, Unheard DEF LoginClicked, LogoutClicked, LoginStart, LogoutStart, storage, document
  <2> QED BY <1>9, <1>5, <1>6, <2>1, <2>2, <2>3, <2>4, <2>5, <2>6, <2>7 DEF Chosen
<1> QED BY <1>0, <1>1, <1>2, <1>3, <1>4, <1>5, <1>6, <1>7, <1>8, <1>9 DEF AdapterNext

-----------------------------------------------------------------------------
LEMMA AdapterInvHolds == AdapterSpec => []AdapterInv
<1>1. AdapterInit => AdapterInv
  BY InitAdapterInv
<1>2. TypeInv /\ TypeInv' /\ AdapterInv /\ [AdapterNext]_allVars => AdapterInv'
  BY NextAdapterInv
<1> QED BY <1>1, <1>2, ClientTypesHold, PTL DEF AdapterSpec

(* Every state of a page, its adapter and the client under it is well      *)
(* typed; status, session and the call in flight fit one another.          *)
THEOREM AdapterTypeCorrect == AdapterSpec => []AdapterTypeOK
<1>1. AdapterInv /\ TypeInv => AdapterTypeOK
  BY DEF AdapterInv, AdapterTypes, Awaited, StatusAgrees, AdapterTypeOK, TypeInv
<1> QED BY <1>1, AdapterInvHolds, ClientTypesHold, PTL

(* What a page on its own shows is what is stored: for any number of       *)
(* operations that overlap in it, and of logins and failures before them.  *)
THEOREM ViewIsTrue == AdapterSpec => []ViewAgrees
<1>1. AdapterInv => ViewAgrees
  BY DEF AdapterInv
<1> QED BY <1>1, AdapterInvHolds, PTL

-----------------------------------------------------------------------------
(* What the client's theorems say, of the applications that run it: after  *)
(* a sign-out during which no tab refreshes, no application has a session  *)
(* until a new login (client.ts:148-160, vue.ts:84-88).                    *)
THEOREM AdapterSignOutIsFinal == AdapterSpec => []CleanSignOutHolds
BY AdapterImplementsClient, CleanSignOut, PTL

(* In an application, too, a session leaves storage only with a sign-out's *)
(* navigation or a refresh answered with an error (client.ts:117-160).     *)
THEOREM AdapterLossHasCause == AdapterSpec => SessionLossHasACause
BY AdapterImplementsClient, LossHasCause, PTL

(* An application in one tab keeps its session through missed answers, up  *)
(* to MaxReuse of them; an error answer of the token endpoint costs it the *)
(* session (client.ts:117-146, vue.ts:60-73 and 91-95).                    *)
THEOREM AdapterKeepsItsSession ==
  ASSUME NEW t \in Tabs, Tabs = {t} PROVE AdapterSpec => NoSpuriousSignOut
<1>1. Spec => NoSpuriousSignOut
  BY OneTabKeepsItsSession
<1> QED BY <1>1, AdapterImplementsClient, PTL

-----------------------------------------------------------------------------
(* A page offers to sign in by what it shows.  Inductively: it shows an    *)
(* error only after a round trip failed or a callback was handled, whose   *)
(* state no storage holds any more, so that no callback clears the error.  *)
PageOf(t) ==
    /\ discovery[t] = "failed" => spent.failures > 0
    /\ callback[t].pc # "idle" => url[t] = callback[t].for
    /\ "error" \in page[t] => url[t] = None \/ url[t] \in taken[t]
    /\ away[t] => page[t] = {}

PageInv == \A t \in Tabs : PageOf(t)

OffersTruly == \A t \in Tabs :
    /\ Tabs = {t} /\ spent.failures = 0 /\ "error" \notin page[t]
    /\ view[t].ready /\ view[t].session = None
    => session = None

LEMMA FailuresGrow ==
  ASSUME TypeInv, [Next]_vars PROVE spent'.failures \in Nat /\ spent'.failures >= spent.failures
<1> USE DEF storage, document, ops, history, provider
<1> DEFINE Grows == \/ UNCHANGED spent \/ Fail
                    \/ \E s \in States : spent' = [spent EXCEPT !.logins = @ \cup {s}]
                    \/ spent' = [spent EXCEPT !.refreshes = @ + 1]
                    \/ spent' = [spent EXCEPT !.logouts = @ + 1]
<1>1. CASE UNCHANGED vars \/ SsoExpires
  <2>1. Grows
    BY <1>1 DEF vars, SsoExpires
  <2> QED BY <2>1 DEF Fail, TypeInv, TypeOK, Spent
<1>2. ASSUME NEW t \in Tabs, TabStep(t) PROVE Grows
  <2>1. CASE Settle(t) \/ LoginStep(t)
    BY <2>1 DEF Settle, Discovered, DiscoveryFails, LoginStep, LoginLeave, LoginFails
  <2>2. CASE CallbackNet(t) \/ CallbackStep(t)
    BY <2>2 DEF CallbackNet, CodeRedeemed, CodeRefused, LoseCallback, CallbackStep, CallbackSend,
                CallbackDone, CallbackThrows
  <2>3. CASE RefreshNet(t) \/ RefreshStep(t)
    BY <2>3 DEF RefreshNet, TokenRotated, TokenKept, TokenRefused, RefreshErrs, LoseRefresh, RefreshStep,
                RefreshSend, RefreshDone, RefreshRefused, RefreshThrows
  <2>4. CASE LogoutLeave(t) \/ Unload(t) \/ SignedOut(t)
    BY <2>4 DEF LogoutLeave, Unload, SignedOut, Arrive
  <2>5. CASE UserStep(t)
    BY <2>5 DEF UserStep, LoginStart, CallbackStart, CallbackUnknown, RefreshStart, LogoutStart,
                Open, Authenticated, Arrive
  <2> QED BY <1>2, <2>1, <2>2, <2>3, <2>4, <2>5 DEF TabStep
<1>3. Grows => spent'.failures \in Nat /\ spent'.failures >= spent.failures
  BY DEF Fail, TypeInv, TypeOK, Spent
<1> QED BY <1>1, <1>2, <1>3 DEF Next

(* A step of one tab's page leaves the pages of the others alone.          *)
PagesKept(t) == \A u \in Tabs \ {t} :
    /\ discovery'[u] = discovery[u] /\ callback'[u] = callback[u] /\ url'[u] = url[u]
    /\ taken'[u] = taken[u] /\ page'[u] = page[u] /\ away'[u] = away[u]

LEMMA OnePageChanges ==
  ASSUME TypeInv, [Next]_vars, PageInv, NEW t \in Tabs, PagesKept(t), PageOf(t)'
  PROVE  PageInv'
<1>1. spent.failures \in Nat /\ spent'.failures \in Nat /\ spent'.failures >= spent.failures
  BY FailuresGrow DEF TypeInv, TypeOK, Spent
<1>2. ASSUME NEW u \in Tabs \ {t} PROVE PageOf(u)'
  BY <1>1, <1>2 DEF PageInv, PageOf, PagesKept
<1> QED BY <1>2 DEF PageInv

LEMMA NextPageInv ==
  ASSUME TypeInv, LoginStateInv, AdapterInv, PageInv, [AdapterNext]_allVars
  PROVE  PageInv'
<1> USE DEF storage, document, ops, history, provider, adapter
<1>t. /\ refresh \in [Tabs -> RefreshOp] /\ callback \in [Tabs -> CallbackOp]
      /\ away \in [Tabs -> BOOLEAN] /\ url \in [Tabs -> States \cup {None, Foreign}]
      /\ discovery \in [Tabs -> {None, "loaded", "failed"}]
      /\ taken \in [Tabs -> SUBSET (States \cup {Foreign})]
      /\ page \in [Tabs -> SUBSET {"gate", "callback", "error"}]
      /\ spent \in Spent /\ spent.failures \in Nat
      /\ None \notin {"loaded", "failed"}
  BY NoneAssumption DEF TypeInv, TypeOK, Spent, AdapterInv, AdapterTypes
<1>n. [Next]_vars
  BY StepRefines
<1>f. spent'.failures \in Nat /\ spent'.failures >= spent.failures
  BY <1>n, FailuresGrow
<1>p. \A t \in Tabs : PageOf(t)
  BY DEF PageInv
<1>a. \A t \in Tabs : away[t] => callback[t].pc = "idle" /\ refresh[t].pc = "idle"
  BY DEF AdapterInv, AwayIsQuiet
<1>1. CASE UNCHANGED allVars \/ (SsoExpires /\ UNCHANGED adapter)
  BY <1>1, <1>p DEF allVars, vars, SsoExpires, PageInv, PageOf
<1>2. ASSUME NEW t \in Tabs, Settles(t) \/ LoginGoes(t) \/ LogoutGoes(t) PROVE PageInv'
  <2>1. PagesKept(t) /\ UNCHANGED <<callback, url, taken, page, away>>
    BY <1>2, <1>t DEF PagesKept, Settles, Settle, Discovered, DiscoveryFails, LoginGoes, LoginStep,
       LoginLeave, LoginFails, LogoutGoes, LogoutLeave
  <2>2. discovery'[t] = "failed" => spent'.failures > 0
    <3>1. CASE DiscoveryFails(t)
      BY <3>1, <1>t DEF DiscoveryFails, Fail, Spent
    <3>2. CASE Discovered(t)
      BY <3>2, <1>t DEF Discovered
    <3>3. CASE LoginGoes(t) \/ LogoutGoes(t)
      BY <3>3, <1>p, <1>f, <1>t DEF LoginGoes, LoginStep, LoginLeave, LoginFails, LogoutGoes,
         LogoutLeave, PageOf
    <3> QED BY <1>2, <3>1, <3>2, <3>3 DEF Settles, Settle
  <2> QED BY <1>n, <1>p, <2>1, <2>2, OnePageChanges DEF PageOf
<1>3. ASSUME NEW t \in Tabs, NEW u \in States \cup {None}, Unloads(t) \/ Opens(t, u) PROVE PageInv'
  <2>1. PagesKept(t) /\ PageOf(t)'
    BY <1>3, <1>t DEF PagesKept, PageOf, Unloads, Unload, Opens, Open, FreshDocument, Forget, Idle
  <2> QED BY <1>n, <2>1, OnePageChanges
<1>4. ASSUME NEW t \in Tabs, SignedOut(t) \/ Authenticated(t), UNCHANGED adapter PROVE PageInv'
  <2>1. /\ PagesKept(t) /\ away[t] /\ ~away'[t]
        /\ UNCHANGED <<discovery, callback, taken, page, spent>>
    BY <1>4, <1>t DEF PagesKept, SignedOut, Authenticated, Arrive
  <2>2. PageOf(t)'
    BY <1>p, <1>a, <2>1 DEF PageOf
  <2> QED BY <1>n, <2>1, <2>2, OnePageChanges
<1>5. ASSUME NEW t \in Tabs, CallbackGoes(t) PROVE PageInv'
  <2>1. ~away[t] /\ callback[t].pc # "idle" /\ callback[t].for = url[t] /\ url[t] \in taken[t]
    <3>1. callback[t].pc # "idle"
      BY <1>5 DEF CallbackGoes, CallbackSend, CodeRedeemed, CodeRefused, CallbackShows, CallbackDone,
         CallbackFails, CallbackThrows, LoseCallback
    <3> QED BY <3>1, <1>p, <1>a DEF PageOf, LoginStateInv, ExchangesAreOwnLogins
  <2>2. /\ PagesKept(t) /\ UNCHANGED <<discovery, taken, away>>
        /\ \/ UNCHANGED url /\ callback'[t].for = callback[t].for
           \/ UNCHANGED url /\ callback'[t].pc = "idle"
           \/ url'[t] = None /\ callback'[t].pc = "idle"
    <3>1. CASE CallbackSend(t) /\ UNCHANGED adapter
      BY <3>1, <1>t DEF PagesKept, CallbackSend, CallbackOp
    <3>2. CASE CodeRedeemed(t) /\ UNCHANGED adapter
      BY <3>2, <1>t DEF PagesKept, CodeRedeemed, CallbackOp
    <3>3. CASE CodeRefused(t) /\ UNCHANGED adapter
      BY <3>3, <1>t DEF PagesKept, CodeRefused, CallbackOp
    <3>4. CASE CallbackShows(t)
      BY <3>4, <1>t DEF PagesKept, CallbackShows, CallbackDone, Idle
    <3>5. CASE CallbackFails(t)
      BY <3>5, <1>t DEF PagesKept, CallbackFails, CallbackThrows, LoseCallback, CallbackError, Idle
    <3> QED BY <1>5, <3>1, <3>2, <3>3, <3>4, <3>5 DEF CallbackGoes
  <2>3. PageOf(t)'
    BY <1>p, <1>f, <1>t, <2>1, <2>2 DEF PageOf
  <2> QED BY <1>n, <2>2, <2>3, OnePageChanges
<1>6. ASSUME NEW t \in Tabs, RefreshGoes(t) PROVE PageInv'
  <2>1. UNCHANGED <<discovery, callback, url, taken, page, away>>
    BY <1>6 DEF RefreshGoes, RefreshSend, TokenRotated, TokenKept, TokenRefused, RefreshErrs, Refreshed, RefreshDone,
       RefreshRefused, RefreshFails, RefreshThrows, LoseRefresh
  <2>2. PagesKept(t) /\ PageOf(t)'
    BY <1>p, <1>f, <1>t, <2>1 DEF PagesKept, PageOf
  <2> QED BY <1>n, <2>2, OnePageChanges
<1>7. ASSUME NEW t \in Tabs, InitShows(t) \/ InitRefreshes(t) \/ RefreshShows(t) \/ RefreshCalled(t)
                              \/ LoginClicked(t) \/ LogoutClicked(t)
      PROVE  PageInv'
  <2>1. /\ UNCHANGED <<discovery, callback, url, taken, away>>
        /\ UNCHANGED page \/ (~away[t] /\ page' = [page EXCEPT ![t] = @ \cup {"gate"}])
    BY <1>7 DEF InitShows, InitRefreshes, RefreshShows, RefreshCalled, RefreshStart, LoginClicked,
       LoginStart, LogoutClicked, LogoutStart, Mount, vars
  <2>2. PagesKept(t) /\ PageOf(t)'
    BY <1>p, <1>f, <1>t, <2>1 DEF PagesKept, PageOf
  <2> QED BY <1>n, <2>2, OnePageChanges
<1>8. ASSUME NEW t \in Tabs, CallbackBegins(t) PROVE PageInv'
  <2>1. /\ PagesKept(t) /\ UNCHANGED <<discovery, url, away>> /\ ~away[t]
        /\ "error" \notin page'[t] /\ callback'[t].for = url[t]
    BY <1>8, <1>t DEF PagesKept, CallbackBegins, CallbackStart, Idle
  <2>2. PageOf(t)'
    BY <1>p, <1>f, <1>t, <2>1 DEF PageOf
  <2> QED BY <1>n, <2>1, <2>2, OnePageChanges
<1>9. ASSUME NEW t \in Tabs, CallbackDenied(t) \/ CallbackNotFound(t) PROVE PageInv'
  <2>1. /\ PagesKept(t) /\ UNCHANGED <<discovery, url, away, callback>> /\ ~away[t]
        /\ url[t] = None \/ url[t] \in taken'[t]
    <3>1. CASE CallbackDenied(t)
      BY <3>1, <1>t DEF PagesKept, CallbackDenied, CallbackError, vars
    <3>2. CASE CallbackNotFound(t)
      BY <3>2, <1>t DEF PagesKept, CallbackNotFound, CallbackUnknown, CallbackError
    <3> QED BY <1>9, <3>1, <3>2
  <2>2. PageOf(t)'
    BY <1>p, <1>f, <1>t, <2>1 DEF PageOf
  <2> QED BY <1>n, <2>1, <2>2, OnePageChanges
<1> QED BY <1>1, <1>2, <1>3, <1>4, <1>5, <1>6, <1>7, <1>8, <1>9 DEF AdapterNext, Chosen

LEMMA InitPage == AdapterInit => PageInv /\ OffersTruly
BY NoneAssumption DEF AdapterInit, Init, PageInv, PageOf, OffersTruly, Blank, Idle

LEMMA LoadingKeeps ==
  ASSUME AdapterTypes, NEW t \in Tabs, NEW b, Loading(t, b)
  PROVE  view'[t].ready = view[t].ready /\ view'[t].session = view[t].session
<1> DEFINE d == view[t].error /\ ~b
           v == [view[t] EXCEPT !.status = "loading", !.error = d]
<1>1. view' = [view EXCEPT ![t] = v]
  BY DEF Loading, SetView
<1>2. v.ready = view[t].ready /\ v.session = view[t].session
  <2> HIDE DEF d
  <2> QED BY DEF AdapterTypes, View
<1> HIDE DEF v
<1> QED BY <1>1, <1>2 DEF AdapterTypes

LEMMA NextOffers ==
  ASSUME TypeInv, LoginStateInv, AdapterInv, PageInv, OffersTruly, [AdapterNext]_allVars
  PROVE  OffersTruly'
<1> SUFFICES ASSUME NEW t \in Tabs, Tabs = {t}, spent'.failures = 0, "error" \notin page'[t],
                    view'[t].ready, view'[t].session = None
             PROVE  session' = None
  BY DEF OffersTruly
<1> USE DEF storage, document, ops, history, provider, adapter
<1>t. /\ spent \in Spent /\ spent.failures = 0
      /\ view \in [Tabs -> View] /\ page \in [Tabs -> SUBSET {"gate", "callback", "error"}]
      /\ AdapterTypes
  <2>1. spent \in Spent /\ spent.failures \in Nat /\ spent'.failures >= spent.failures
    BY StepRefines, FailuresGrow DEF TypeInv, TypeOK, Spent
  <2> QED BY <2>1 DEF AdapterInv, AdapterTypes
<1>f. ~Fail /\ discovery[t] # "failed"
  BY <1>t DEF Fail, Spent, PageInv, PageOf
<1>s. ASSUME UNCHANGED session, "error" \notin page[t], view[t].ready, view[t].session = None
      PROVE  session' = None
  BY <1>s, <1>t DEF OffersTruly
<1>1. CASE UNCHANGED <<session, page, view>>
  BY <1>1, <1>s
<1>2. CASE LogoutGoes(t)
  BY <1>2 DEF LogoutGoes, LogoutLeave, ClearSession
<1>3. CASE Unloads(t) \/ \E u \in States \cup {None} : Opens(t, u)
  BY <1>3, <1>t DEF Unloads, Opens, Forget, Blank
<1>4. ASSUME NEW s, NEW b, SetSession(t, s, b) PROVE s = None
  BY <1>4, <1>t, ViewsAfter DEF Becomes
<1>5. CASE CallbackShows(t)
  BY <1>4, <1>5 DEF CallbackShows
<1>6. CASE Refreshed(t)
  BY <1>4, <1>6 DEF Refreshed, RefreshDone, RefreshRefused, ClearSession, Shows
<1>7. CASE InitShows(t)
  BY <1>7, <1>t DEF InitShows, Showing, SetView, vars
<1>8. CASE RefreshShows(t)
  BY <1>4, <1>8 DEF RefreshShows, vars
<1>9. CASE InitRefreshes(t)
  BY <1>9, <1>t, <1>s, LoadingKeeps DEF InitRefreshes, RefreshStart, Mount
<1>10. CASE CallbackBegins(t)
  <2>1. "error" \notin page[t]
    BY <1>10 DEF CallbackBegins, CallbackStart, Holds, LoginStateInv, HandledStateIsGone, PageInv, PageOf
  <2> QED BY <1>10, <1>t, <1>s, <2>1, LoadingKeeps DEF CallbackBegins, CallbackStart
<1>11. CASE CallbackFails(t) \/ CallbackDenied(t) \/ CallbackNotFound(t)
  BY <1>11, <1>t DEF CallbackFails, CallbackDenied, CallbackNotFound, CallbackError
<1>12. CASE RefreshFails(t)
  BY <1>12, <1>f DEF RefreshFails, RefreshThrows, LoseRefresh
<1>13. CASE \/ UNCHANGED allVars \/ (SsoExpires /\ UNCHANGED adapter)
            \/ Settles(t) \/ LoginGoes(t) \/ RefreshCalled(t)
  BY <1>1, <1>13 DEF allVars, vars, SsoExpires, Settles, Settle, Discovered, DiscoveryFails, LoginGoes,
     LoginStep, LoginLeave, LoginFails, RefreshCalled, RefreshStart
<1>14. CASE \/ LoginClicked(t) \/ LogoutClicked(t)
            \/ ((SignedOut(t) \/ Authenticated(t)) /\ UNCHANGED adapter)
            \/ ((CallbackSend(t) \/ CodeRedeemed(t) \/ CodeRefused(t)) /\ UNCHANGED adapter)
            \/ ((RefreshSend(t) \/ TokenRotated(t) \/ TokenKept(t) \/ TokenRefused(t)
                \/ RefreshErrs(t)) /\ UNCHANGED adapter)
  BY <1>1, <1>14 DEF LoginClicked, LoginStart, LogoutClicked, LogoutStart, SignedOut, Authenticated,
     Arrive, CallbackSend, CodeRedeemed, CodeRefused, RefreshSend, TokenRotated, TokenKept, TokenRefused,
     RefreshErrs
<1> QED
  BY <1>2, <1>3, <1>5, <1>6, <1>7, <1>8, <1>9, <1>10, <1>11, <1>12, <1>13, <1>14
     DEF AdapterNext, CallbackGoes, RefreshGoes, Chosen

LEMMA PageHolds == AdapterSpec => [](PageInv /\ OffersTruly)
<1>1. /\ TypeInv /\ LoginStateInv /\ AdapterInv /\ PageInv /\ OffersTruly
      /\ [AdapterNext]_allVars
      => (PageInv /\ OffersTruly)'
  BY NextPageInv, NextOffers
<1>2. AdapterSpec => []LoginStateInv
  BY AdapterImplementsClient, LoginStateHolds, PTL
<1> QED BY <1>1, <1>2, InitPage, ClientTypesHold, AdapterInvHolds, PTL DEF AdapterSpec

(* No step but the user's own begins a login.                              *)
LEMMA OnlyClicksLogIn ==
  ASSUME TypeInv, AdapterNext, NEW t \in Tabs, Tabs = {t},
         login[t] = "idle", login'[t] = "discover"
  PROVE  LoginClicked(t)
<1> USE DEF storage, document, ops, history, provider, adapter
<1>t. login \in [Tabs -> {"idle", "discover"}]
  BY DEF TypeInv, TypeOK
<1>1. CASE SsoExpires
  BY <1>1 DEF SsoExpires
<1>2. CASE Settles(t) \/ LoginGoes(t) \/ LogoutGoes(t)
  BY <1>2, <1>t DEF Settles, Settle, Discovered, DiscoveryFails, LoginGoes, LoginStep, LoginLeave,
     LoginFails, LogoutGoes, LogoutLeave
<1>3. CASE CallbackGoes(t)
  BY <1>3 DEF CallbackGoes, CallbackSend, CodeRedeemed, CodeRefused, CallbackShows, CallbackDone,
     CallbackFails, CallbackThrows, LoseCallback
<1>4. CASE RefreshGoes(t)
  BY <1>4 DEF RefreshGoes, RefreshSend, TokenRotated, TokenKept, TokenRefused, RefreshErrs, Refreshed, RefreshDone,
     RefreshRefused, RefreshFails, RefreshThrows, LoseRefresh
<1>5. CASE Unloads(t) \/ \E u \in States \cup {None} : Opens(t, u)
  BY <1>5, <1>t DEF Unloads, Unload, Opens, Open, FreshDocument
<1>6. CASE SignedOut(t) \/ Authenticated(t)
  BY <1>6 DEF SignedOut, Authenticated, Arrive
<1>7. CASE \/ InitShows(t) \/ InitRefreshes(t) \/ RefreshShows(t) \/ RefreshCalled(t)
           \/ CallbackBegins(t) \/ CallbackDenied(t) \/ CallbackNotFound(t) \/ LogoutClicked(t)
  BY <1>7 DEF InitShows, InitRefreshes, RefreshShows, RefreshCalled, RefreshStart, CallbackBegins,
     CallbackStart, CallbackDenied, CallbackNotFound, CallbackUnknown, LogoutClicked, LogoutStart, vars
<1> QED BY <1>1, <1>2, <1>3, <1>4, <1>5, <1>6, <1>7 DEF AdapterNext, Chosen

(* A page on its own never cancels its own sign-out by sending the browser *)
(* to sign in again: it offers signing in only when the session is gone or *)
(* something has failed, however its calls overlap (vue.ts:84-88).         *)
THEOREM SignOutNotCancelled == AdapterSpec => SignOutIsNotCancelled
<1> DEFINE Kept == \A t \in Tabs :
              /\ Tabs = {t} /\ logout[t].pc # "idle"
              /\ login[t] = "idle" /\ login'[t] = "discover"
              => session = None \/ spent.failures > 0 \/ "error" \in page[t]
<1>1. TypeInv /\ OffersTruly /\ [AdapterNext]_allVars => [Kept]_allVars
  <2> SUFFICES ASSUME TypeInv, OffersTruly, AdapterNext, NEW t \in Tabs, Tabs = {t},
                      login[t] = "idle", login'[t] = "discover"
               PROVE  session = None \/ spent.failures > 0 \/ "error" \in page[t]
    BY DEF allVars
  <2>1. LoginClicked(t)
    BY OnlyClicksLogIn
  <2> QED BY <2>1 DEF LoginClicked, Gate, OffersTruly, TypeInv, TypeOK, Spent
<1>2. AdapterSpec => [][Kept]_allVars
  <2> HIDE DEF Kept
  <2> QED BY <1>1, ClientTypesHold, PageHolds, PTL DEF AdapterSpec
<1> QED BY <1>2 DEF SignOutIsNotCancelled
=============================================================================
