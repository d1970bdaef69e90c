--------------------------- MODULE OidcClientProofs ---------------------------
(***************************************************************************)
(* Theorems about OidcClient, for any number of tabs, logins, refreshes,   *)
(* logouts and failures, and any refresh-token policy of the realm.        *)
(***************************************************************************)
EXTENDS OidcClient, TLAPS

(* What an operation in flight carries is what it was started with: a      *)
(* login this browser knows, a session that was stored.                    *)
CarriesItsSubject ==
    \A t \in Tabs : /\ callback[t].pc # "idle" => callback[t].for \in States
                    /\ refresh[t].pc # "idle" => refresh[t].for \in Session
                    /\ leaving[t].to = "login" => leaving[t].for \in States

TypeInv == TypeOK /\ CarriesItsSubject

-----------------------------------------------------------------------------
LEMMA FirstTokenIsNat == FirstToken \in Nat
BY DEF FirstToken, NoToken

(* The continuations of an operation change its pc and its token only.     *)
LEMMA OperationUpdate ==
  ASSUME NEW p \in Pcs, NEW g \in Nat
  PROVE  /\ \A c \in CallbackOp : /\ [c EXCEPT !.pc = p] \in CallbackOp
                                  /\ [c EXCEPT !.pc = p, !.gen = g] \in CallbackOp
         /\ \A r \in RefreshOp : /\ [r EXCEPT !.pc = p] \in RefreshOp
                                 /\ [r EXCEPT !.pc = p, !.gen = g] \in RefreshOp
BY DEF CallbackOp, RefreshOp

LEMMA InitTypeInv == Init => TypeInv
<1>1. ASSUME Init PROVE TypeOK
  BY <1>1, FirstTokenIsNat, StatesAssumption
     DEF Init, TypeOK, Session, ProviderTypeOK, ProviderInit, Departure, CallbackOp,
         RefreshOp, LogoutOp, Spent, TokenRecord, Stay, Idle, NotLeaving, Pcs, NoToken
<1>2. ASSUME Init PROVE CarriesItsSubject
  BY <1>2 DEF Init, CarriesItsSubject, Idle, Stay
<1> QED BY <1>1, <1>2 DEF TypeInv

(* One step preserves the types.  Each action is a case: first the records *)
(* it builds, then the conjunction of all types, then what it carries.     *)
LEMMA NextTypeInv == TypeInv /\ [Next]_vars => TypeInv'
<1> SUFFICES ASSUME TypeInv, [Next]_vars PROVE TypeInv'
  OBVIOUS
<1> USE DEF TypeInv, storage, document, ops, history, provider
<1>0. CASE UNCHANGED vars
  BY <1>0 DEF vars, TypeOK, CarriesItsSubject, ProviderTypeOK
<1>1. CASE SsoExpires
  BY <1>1 DEF SsoExpires, EndSession, TypeOK, CarriesItsSubject, ProviderTypeOK
<1>2. ASSUME NEW t \in Tabs, NEW s \in States, LoginLeave(t, s) PROVE TypeInv'
  <2>1. leaving' \in [Tabs -> Departure]
    BY <1>2 DEF LoginLeave, TypeOK, Departure
  <2>2. spent' \in Spent
    BY <1>2 DEF LoginLeave, TypeOK, Spent
  <2>3. TypeOK'
    BY <1>2, <2>1, <2>2 DEF LoginLeave, StoreLoginState, TypeOK, ProviderTypeOK
  <2>4. CarriesItsSubject'
    BY <1>2 DEF LoginLeave, TypeOK, CarriesItsSubject
  <2> QED BY <2>3, <2>4
<1>3. ASSUME NEW t \in Tabs, NEW u \in States \cup {None, Foreign}, Open(t, u) PROVE TypeInv'
  <2>1. leaving' \in [Tabs -> Departure]
    BY <1>3 DEF Open, Stay, TypeOK, Departure
  <2>2. callback' \in [Tabs -> CallbackOp] /\ refresh' \in [Tabs -> RefreshOp]
    BY <1>3 DEF Open, FreshDocument, Idle, NoToken, TypeOK, CallbackOp, RefreshOp, Pcs
  <2>3. logout' \in [Tabs -> LogoutOp]
    BY <1>3 DEF Open, FreshDocument, NotLeaving, TypeOK, LogoutOp
  <2>4. TypeOK'
    BY <1>3, <2>1, <2>2, <2>3 DEF Open, FreshDocument, MissesAnswer, TypeOK, ProviderTypeOK
  <2>5. CarriesItsSubject'
    BY <1>3 DEF Open, FreshDocument, Stay, Idle, TypeOK, CarriesItsSubject
  <2> QED BY <2>4, <2>5
<1>4. ASSUME NEW t \in Tabs, Discovered(t) PROVE TypeInv'
  <2>1. TypeOK'
    BY <1>4 DEF Discovered, TypeOK, ProviderTypeOK
  <2>2. CarriesItsSubject'
    BY <1>4 DEF Discovered, TypeOK, CarriesItsSubject
  <2> QED BY <2>1, <2>2
<1>5. ASSUME NEW t \in Tabs, DiscoveryFails(t) PROVE TypeInv'
  <2>1. spent' \in Spent
    BY <1>5 DEF DiscoveryFails, Fail, TypeOK, Spent
  <2>2. TypeOK'
    BY <1>5, <2>1 DEF DiscoveryFails, TypeOK, ProviderTypeOK
  <2>3. CarriesItsSubject'
    BY <1>5 DEF DiscoveryFails, TypeOK, CarriesItsSubject
  <2> QED BY <2>2, <2>3
<1>6. ASSUME NEW t \in Tabs, LoginStart(t) PROVE TypeInv'
  <2>1. TypeOK'
    BY <1>6 DEF LoginStart, TypeOK, ProviderTypeOK
  <2>2. CarriesItsSubject'
    BY <1>6 DEF LoginStart, TypeOK, CarriesItsSubject
  <2> QED BY <2>1, <2>2
<1>7. ASSUME NEW t \in Tabs, LoginFails(t) PROVE TypeInv'
  <2>1. TypeOK'
    BY <1>7 DEF LoginFails, TypeOK, ProviderTypeOK
  <2>2. CarriesItsSubject'
    BY <1>7 DEF LoginFails, TypeOK, CarriesItsSubject
  <2> QED BY <2>1, <2>2
<1>8. ASSUME NEW t \in Tabs, CallbackStart(t) PROVE TypeInv'
  <2>1. callback' \in [Tabs -> CallbackOp]
    BY <1>8 DEF CallbackStart, Idle, Holds, NoToken, TypeOK, CallbackOp, Pcs
  <2>2. TypeOK'
    BY <1>8, <2>1 DEF CallbackStart, TakeLoginState, Holds, TypeOK, ProviderTypeOK
  <2>3. CarriesItsSubject'
    BY <1>8 DEF CallbackStart, Idle, Holds, TypeOK, CarriesItsSubject
  <2> QED BY <2>2, <2>3
<1>9. ASSUME NEW t \in Tabs, CallbackUnknown(t) PROVE TypeInv'
  <2>1. url[t] \in States \cup {Foreign}
    BY <1>9 DEF CallbackUnknown, TypeOK
  <2>2. TypeOK'
    BY <1>9, <2>1 DEF CallbackUnknown, ClearLoginState, TypeOK, ProviderTypeOK
  <2>3. CarriesItsSubject'
    BY <1>9 DEF CallbackUnknown, TypeOK, CarriesItsSubject
  <2> QED BY <2>2, <2>3
<1>10. ASSUME NEW t \in Tabs, CallbackSend(t) PROVE TypeInv'
  <2>1. callback' \in [Tabs -> CallbackOp]
    <3>1. callback \in [Tabs -> CallbackOp] /\ "sent" \in Pcs
      BY DEF TypeOK, Pcs
    <3>2. [callback[t] EXCEPT !.pc = "sent"] \in CallbackOp
      BY <3>1, FirstTokenIsNat, OperationUpdate
    <3> QED BY <1>10, <3>1, <3>2 DEF CallbackSend
  <2>2. TypeOK'
    BY <1>10, <2>1 DEF CallbackSend, TypeOK, ProviderTypeOK
  <2>3. CarriesItsSubject'
    BY <1>10 DEF CallbackSend, TypeOK, CarriesItsSubject
  <2> QED BY <2>2, <2>3
<1>11. ASSUME NEW t \in Tabs, CallbackDone(t) PROVE TypeInv'
  <2>1. callback' \in [Tabs -> CallbackOp]
    BY <1>11 DEF CallbackDone, Idle, NoToken, TypeOK, CallbackOp, Pcs
  <2>2. session' \in Session \cup {None}
    BY <1>11 DEF CallbackDone, CallbackOp, CarriesItsSubject, TypeOK, Session
  <2>3. TypeOK'
    BY <1>11, <2>1, <2>2 DEF CallbackDone, ClearLoginState, TypeOK, ProviderTypeOK
  <2>4. CarriesItsSubject'
    BY <1>11 DEF CallbackDone, Idle, TypeOK, CarriesItsSubject
  <2> QED BY <2>3, <2>4
<1>12. ASSUME NEW t \in Tabs, CallbackThrows(t) PROVE TypeInv'
  <2>1. callback' \in [Tabs -> CallbackOp]
    BY <1>12 DEF CallbackThrows, Idle, NoToken, TypeOK, CallbackOp, Pcs
  <2>2. TypeOK'
    BY <1>12, <2>1 DEF CallbackThrows, TypeOK, ProviderTypeOK
  <2>3. CarriesItsSubject'
    BY <1>12 DEF CallbackThrows, Idle, TypeOK, CarriesItsSubject
  <2> QED BY <2>2, <2>3
<1>13. ASSUME NEW t \in Tabs, RefreshStart(t) PROVE TypeInv'
  <2>1. refresh' \in [Tabs -> RefreshOp]
    BY <1>13 DEF RefreshStart, Idle, NoToken, TypeOK, RefreshOp, Pcs
  <2>2. spent' \in Spent
    BY <1>13 DEF RefreshStart, TypeOK, Spent
  <2>3. TypeOK'
    BY <1>13, <2>1, <2>2 DEF RefreshStart, TypeOK, ProviderTypeOK
  <2>4. CarriesItsSubject'
    BY <1>13 DEF RefreshStart, Idle, TypeOK, CarriesItsSubject
  <2> QED BY <2>3, <2>4
<1>14. ASSUME NEW t \in Tabs, RefreshSend(t) PROVE TypeInv'
  <2>1. refresh' \in [Tabs -> RefreshOp]
    <3>1. refresh \in [Tabs -> RefreshOp] /\ "sent" \in Pcs
      BY DEF TypeOK, Pcs
    <3>2. [refresh[t] EXCEPT !.pc = "sent"] \in RefreshOp
      BY <3>1, FirstTokenIsNat, OperationUpdate
    <3> QED BY <1>14, <3>1, <3>2 DEF RefreshSend
  <2>2. TypeOK'
    BY <1>14, <2>1 DEF RefreshSend, TypeOK, ProviderTypeOK
  <2>3. CarriesItsSubject'
    BY <1>14 DEF RefreshSend, TypeOK, CarriesItsSubject
  <2> QED BY <2>2, <2>3
<1>15. ASSUME NEW t \in Tabs, RefreshDone(t) PROVE TypeInv'
  <2>1. refresh' \in [Tabs -> RefreshOp]
    BY <1>15 DEF RefreshDone, Idle, NoToken, TypeOK, RefreshOp, Pcs
  <2>2. session' \in Session \cup {None}
    BY <1>15 DEF RefreshDone, Renewed, RefreshOp, CarriesItsSubject, TypeOK, Session
  <2>3. TypeOK'
    BY <1>15, <2>1, <2>2 DEF RefreshDone, TypeOK, ProviderTypeOK
  <2>4. CarriesItsSubject'
    BY <1>15 DEF RefreshDone, Idle, TypeOK, CarriesItsSubject
  <2> QED BY <2>3, <2>4
<1>16. ASSUME NEW t \in Tabs, RefreshRefused(t) PROVE TypeInv'
  <2>1. refresh' \in [Tabs -> RefreshOp]
    BY <1>16 DEF RefreshRefused, Idle, NoToken, TypeOK, RefreshOp, Pcs
  <2>2. TypeOK'
    BY <1>16, <2>1 DEF RefreshRefused, ClearSession, ClearLoginState, TypeOK,
       ProviderTypeOK
  <2>3. CarriesItsSubject'
    BY <1>16 DEF RefreshRefused, Idle, TypeOK, CarriesItsSubject
  <2> QED BY <2>2, <2>3
<1>17. ASSUME NEW t \in Tabs, RefreshThrows(t) PROVE TypeInv'
  <2>1. refresh' \in [Tabs -> RefreshOp]
    BY <1>17 DEF RefreshThrows, Idle, NoToken, TypeOK, RefreshOp, Pcs
  <2>2. TypeOK'
    BY <1>17, <2>1 DEF RefreshThrows, TypeOK, ProviderTypeOK
  <2>3. CarriesItsSubject'
    BY <1>17 DEF RefreshThrows, Idle, TypeOK, CarriesItsSubject
  <2> QED BY <2>2, <2>3
<1>18. ASSUME NEW t \in Tabs, LogoutStart(t) PROVE TypeInv'
  <2>1. logout' \in [Tabs -> LogoutOp]
    BY <1>18 DEF LogoutStart, TypeOK, LogoutOp
  <2>2. spent' \in Spent
    BY <1>18 DEF LogoutStart, TypeOK, Spent
  <2>3. TypeOK'
    BY <1>18, <2>1, <2>2 DEF LogoutStart, TypeOK, ProviderTypeOK
  <2>4. CarriesItsSubject'
    BY <1>18 DEF LogoutStart, TypeOK, CarriesItsSubject
  <2> QED BY <2>3, <2>4
<1>19. ASSUME NEW t \in Tabs, LogoutLeave(t) PROVE TypeInv'
  <2>1. logout' \in [Tabs -> LogoutOp]
    BY <1>19 DEF LogoutLeave, NotLeaving, TypeOK, LogoutOp
  <2>2. leaving' \in [Tabs -> Departure]
    BY <1>19 DEF LogoutLeave, Destination, TypeOK, Departure
  <2>3. TypeOK'
    BY <1>19, <2>1, <2>2 DEF LogoutLeave, ClearSession, ClearLoginState, TypeOK,
       ProviderTypeOK
  <2>4. CarriesItsSubject'
    BY <1>19 DEF LogoutLeave, Destination, TypeOK, CarriesItsSubject
  <2> QED BY <2>3, <2>4
<1>20. ASSUME NEW t \in Tabs, Unload(t) PROVE TypeInv'
  <2>1. callback' \in [Tabs -> CallbackOp]
    BY <1>20 DEF Unload, FreshDocument, Idle, NoToken, TypeOK, CallbackOp, Pcs
  <2>2. refresh' \in [Tabs -> RefreshOp]
    BY <1>20 DEF Unload, FreshDocument, Idle, NoToken, TypeOK, RefreshOp, Pcs
  <2>3. logout' \in [Tabs -> LogoutOp]
    BY <1>20 DEF Unload, FreshDocument, NotLeaving, TypeOK, LogoutOp
  <2>4. TypeOK'
    BY <1>20, <2>1, <2>2, <2>3 DEF Unload, FreshDocument, MissesAnswer, TypeOK,
       ProviderTypeOK
  <2>5. CarriesItsSubject'
    BY <1>20 DEF Unload, FreshDocument, Idle, TypeOK, CarriesItsSubject
  <2> QED BY <2>4, <2>5
<1>21. ASSUME NEW t \in Tabs, Authenticated(t) PROVE TypeInv'
  <2>1. leaving' \in [Tabs -> Departure]
    BY <1>21 DEF Authenticated, Arrive, Stay, TypeOK, Departure
  <2>2. TypeOK'
    BY <1>21, <2>1 DEF Authenticated, Arrive, Authenticate, CarriesItsSubject, TypeOK,
       ProviderTypeOK
  <2>3. CarriesItsSubject'
    BY <1>21 DEF Authenticated, Arrive, Stay, TypeOK, CarriesItsSubject
  <2> QED BY <2>2, <2>3
<1>22. ASSUME NEW t \in Tabs, SignedOut(t) PROVE TypeInv'
  <2>1. leaving' \in [Tabs -> Departure]
    BY <1>22 DEF SignedOut, Arrive, Stay, TypeOK, Departure
  <2>2. TypeOK'
    BY <1>22, <2>1 DEF SignedOut, Arrive, EndSession, TypeOK, ProviderTypeOK
  <2>3. CarriesItsSubject'
    BY <1>22 DEF SignedOut, Arrive, Stay, TypeOK, CarriesItsSubject
  <2> QED BY <2>2, <2>3
<1>23. ASSUME NEW t \in Tabs, CodeRedeemed(t) PROVE TypeInv'
  <2>1. callback' \in [Tabs -> CallbackOp]
    <3>1. callback \in [Tabs -> CallbackOp] /\ "granted" \in Pcs
      BY DEF TypeOK, Pcs
    <3>2. [callback[t] EXCEPT !.pc = "granted", !.gen = FirstToken] \in CallbackOp
      BY <3>1, FirstTokenIsNat, OperationUpdate
    <3> QED BY <1>23, <3>1, <3>2 DEF CodeRedeemed
  <2>2. tokens' \in [States -> TokenRecord]
    BY <1>23 DEF CodeRedeemed, Redeem, FirstToken, NoToken, ProviderTypeOK, TypeOK,
       TokenRecord
  <2>3. TypeOK'
    BY <1>23, <2>1, <2>2 DEF CodeRedeemed, Redeem, TypeOK, ProviderTypeOK
  <2>4. CarriesItsSubject'
    BY <1>23 DEF CodeRedeemed, TypeOK, CarriesItsSubject
  <2> QED BY <2>3, <2>4
<1>24. ASSUME NEW t \in Tabs, CodeRefused(t) PROVE TypeInv'
  <2>1. callback' \in [Tabs -> CallbackOp]
    <3>1. callback \in [Tabs -> CallbackOp] /\ "refused" \in Pcs
      BY DEF TypeOK, Pcs
    <3>2. [callback[t] EXCEPT !.pc = "refused"] \in CallbackOp
      BY <3>1, FirstTokenIsNat, OperationUpdate
    <3> QED BY <1>24, <3>1, <3>2 DEF CodeRefused
  <2>2. TypeOK'
    BY <1>24, <2>1 DEF CodeRefused, TypeOK, ProviderTypeOK
  <2>3. CarriesItsSubject'
    BY <1>24 DEF CodeRefused, TypeOK, CarriesItsSubject
  <2> QED BY <2>2, <2>3
<1>25. ASSUME NEW t \in Tabs, TokenRotated(t) PROVE TypeInv'
  <2>1. refresh' \in [Tabs -> RefreshOp]
    <3>1. refresh[t].for.login \in States
      BY <1>25 DEF TokenRotated, CarriesItsSubject, Session
    <3>2. NextToken(refresh[t].for.login) \in Nat
      BY <3>1 DEF NextToken, TypeOK, ProviderTypeOK, TokenRecord
    <3>3. refresh \in [Tabs -> RefreshOp] /\ "granted" \in Pcs
      BY DEF TypeOK, Pcs
    <3>4. [refresh[t] EXCEPT !.pc = "granted", !.gen = NextToken(refresh[t].for.login)]
              \in RefreshOp
      BY <3>2, <3>3, OperationUpdate
    <3> QED BY <1>25, <3>3, <3>4 DEF TokenRotated
  <2>2. tokens' \in [States -> TokenRecord]
    <3>1. refresh[t].for \in Session
      BY <1>25 DEF TokenRotated, CarriesItsSubject
    <3>2. tokens \in [States -> TokenRecord]
      BY DEF TypeOK, ProviderTypeOK
    <3> QED BY <1>25, <3>1, <3>2 DEF TokenRotated, Rotate, NextToken, Session, TokenRecord
  <2>3. TypeOK'
    BY <1>25, <2>1, <2>2 DEF TokenRotated, Rotate, TypeOK, ProviderTypeOK
  <2>4. CarriesItsSubject'
    BY <1>25 DEF TokenRotated, TypeOK, CarriesItsSubject
  <2> QED BY <2>3, <2>4
<1>26. ASSUME NEW t \in Tabs, TokenKept(t) PROVE TypeInv'
  <2>1. refresh' \in [Tabs -> RefreshOp]
    <3>1. refresh \in [Tabs -> RefreshOp] /\ "granted" \in Pcs
      BY DEF TypeOK, Pcs
    <3>2. [refresh[t] EXCEPT !.pc = "granted"] \in RefreshOp
      BY <3>1, FirstTokenIsNat, OperationUpdate
    <3> QED BY <1>26, <3>1, <3>2 DEF TokenKept
  <2>2. TypeOK'
    BY <1>26, <2>1 DEF TokenKept, Renew, TypeOK, ProviderTypeOK
  <2>3. CarriesItsSubject'
    BY <1>26 DEF TokenKept, TypeOK, CarriesItsSubject
  <2> QED BY <2>2, <2>3
<1>27. ASSUME NEW t \in Tabs, TokenRefused(t) PROVE TypeInv'
  <2>1. refresh' \in [Tabs -> RefreshOp]
    <3>1. refresh \in [Tabs -> RefreshOp] /\ "refused" \in Pcs
      BY DEF TypeOK, Pcs
    <3>2. [refresh[t] EXCEPT !.pc = "refused"] \in RefreshOp
      BY <3>1, FirstTokenIsNat, OperationUpdate
    <3> QED BY <1>27, <3>1, <3>2 DEF TokenRefused
  <2>2. TypeOK'
    BY <1>27, <2>1 DEF TokenRefused, TypeOK, ProviderTypeOK
  <2>3. CarriesItsSubject'
    BY <1>27 DEF TokenRefused, TypeOK, CarriesItsSubject
  <2> QED BY <2>2, <2>3
<1>28. ASSUME NEW t \in Tabs, LoseCallback(t) PROVE TypeInv'
  <2>1. callback' \in [Tabs -> CallbackOp]
    BY <1>28 DEF LoseCallback, Idle, NoToken, TypeOK, CallbackOp, Pcs
  <2>2. spent' \in Spent
    BY <1>28 DEF LoseCallback, Fail, TypeOK, Spent
  <2>3. TypeOK'
    BY <1>28, <2>1, <2>2 DEF LoseCallback, TypeOK, ProviderTypeOK
  <2>4. CarriesItsSubject'
    BY <1>28 DEF LoseCallback, Idle, TypeOK, CarriesItsSubject
  <2> QED BY <2>3, <2>4
<1>29. ASSUME NEW t \in Tabs, LoseRefresh(t) PROVE TypeInv'
  <2>1. refresh' \in [Tabs -> RefreshOp]
    BY <1>29 DEF LoseRefresh, Idle, NoToken, TypeOK, RefreshOp, Pcs
  <2>2. spent' \in Spent
    BY <1>29 DEF LoseRefresh, Fail, TypeOK, Spent
  <2>3. TypeOK'
    BY <1>29, <2>1, <2>2 DEF LoseRefresh, MissesAnswer, TypeOK, ProviderTypeOK
  <2>4. CarriesItsSubject'
    BY <1>29 DEF LoseRefresh, Idle, TypeOK, CarriesItsSubject
  <2> QED BY <2>3, <2>4
<1>30. ASSUME NEW t \in Tabs, RefreshErrs(t) PROVE TypeInv'
  <2>1. refresh' \in [Tabs -> RefreshOp]
    BY <1>30 DEF RefreshErrs, Idle, NoToken, TypeOK, RefreshOp, Pcs
  <2>2. spent' \in Spent
    BY <1>30 DEF RefreshErrs, Fail, TypeOK, Spent
  <2>3. TypeOK'
    BY <1>30, <2>1, <2>2 DEF RefreshErrs, MissesAnswer, TypeOK, ProviderTypeOK
  <2>4. CarriesItsSubject'
    BY <1>30 DEF RefreshErrs, Idle, TypeOK, CarriesItsSubject
  <2> QED BY <2>3, <2>4
<1> QED
  BY <1>0, <1>1, <1>2, <1>3, <1>4, <1>5, <1>6, <1>7, <1>8, <1>9, <1>10, <1>11, <1>12,
     <1>13, <1>14, <1>15, <1>16, <1>17, <1>18, <1>19, <1>20, <1>21, <1>22, <1>23, <1>24,
     <1>25, <1>26, <1>27, <1>28, <1>29, <1>30 DEF Next, TabStep, Settle, LoginStep,
     CallbackNet, CallbackStep, RefreshNet, RefreshStep, UserStep

LEMMA TypesHold == Spec => []TypeInv
BY InitTypeInv, NextTypeInv, PTL DEF Spec

(* The variables always have their types: no operation in flight, in any   *)
(* tab and in any order of the answers, loses what it works on or puts a   *)
(* foreign login into storage.                                             *)
THEOREM TypeCorrect == Spec => []TypeOK
<1>1. TypeInv => TypeOK
  BY DEF TypeInv
<1> QED BY <1>1, TypesHold, PTL

-----------------------------------------------------------------------------
(* Signing out while no tab refreshes is final.  Inductively: after it     *)
(* there is no session, and no refresh in flight that could write one.     *)
CleanSignOutInv ==
    signOut = "clean" => session = None /\ \A t \in Tabs : refresh[t].pc = "idle"

THEOREM CleanSignOut == Spec => []CleanSignOutHolds
<1>1. Init => CleanSignOutInv
  BY DEF Init, CleanSignOutInv
<1>2. TypeInv /\ CleanSignOutInv /\ [Next]_vars => CleanSignOutInv'
  <2> SUFFICES ASSUME TypeInv, CleanSignOutInv, [Next]_vars PROVE CleanSignOutInv'
    OBVIOUS
  <2> USE DEF CleanSignOutInv, TypeInv, storage, document, ops, history, provider
  <2>1. CASE UNCHANGED vars
    BY <2>1 DEF vars
  <2>2. CASE UNCHANGED <<session, refresh, signOut>>
    BY <2>2
  <2>3. ASSUME NEW t \in Tabs, CallbackDone(t) PROVE CleanSignOutInv'
    BY <2>3 DEF CallbackDone
  <2>4. ASSUME NEW t \in Tabs, RefreshStart(t) PROVE CleanSignOutInv'
    BY <2>4 DEF RefreshStart
  <2>5. ASSUME NEW t \in Tabs, RefreshSend(t) \/ RefreshDone(t) PROVE CleanSignOutInv'
    BY <2>5 DEF RefreshSend, RefreshDone
  <2>6. ASSUME NEW t \in Tabs, RefreshRefused(t) PROVE CleanSignOutInv'
    BY <2>6 DEF RefreshRefused, ClearSession
  <2>7. ASSUME NEW t \in Tabs, RefreshThrows(t) PROVE CleanSignOutInv'
    BY <2>7 DEF RefreshThrows
  <2>8. ASSUME NEW t \in Tabs, LogoutLeave(t) PROVE CleanSignOutInv'
    BY <2>8 DEF LogoutLeave, ClearSession
  <2>9. ASSUME NEW t \in Tabs,
               \/ TokenRotated(t) \/ TokenKept(t) \/ TokenRefused(t)
               \/ RefreshErrs(t) \/ LoseRefresh(t)
        PROVE  CleanSignOutInv'
    BY <2>9 DEF TokenRotated, TokenKept, TokenRefused, RefreshErrs, LoseRefresh
  <2>10. ASSUME NEW t \in Tabs, Unload(t) \/ \E u \in States \cup {None, Foreign} : Open(t, u)
         PROVE  CleanSignOutInv'
    BY <2>10 DEF Unload, Open, FreshDocument, Idle, TypeOK
  <2>11. ASSUME NEW t \in Tabs, NEW s \in States, LoginLeave(t, s)
         PROVE  UNCHANGED <<session, refresh, signOut>>
    BY <2>11 DEF LoginLeave
  <2>12. ASSUME NEW t \in Tabs,
                \/ Settle(t) \/ LoginStart(t) \/ LoginFails(t) \/ CallbackStart(t)
                \/ CallbackUnknown(t) \/ CallbackSend(t) \/ CallbackThrows(t) \/ LogoutStart(t)
         PROVE  UNCHANGED <<session, refresh, signOut>>
    BY <2>12 DEF Settle, Discovered, DiscoveryFails, LoginStart, LoginFails, CallbackStart,
       CallbackUnknown, CallbackSend, CallbackThrows, LogoutStart
  <2>13. ASSUME SsoExpires \/ \E t \in Tabs : CallbackNet(t) \/ Authenticated(t) \/ SignedOut(t)
         PROVE  UNCHANGED <<session, refresh, signOut>>
    BY <2>13 DEF SsoExpires, CallbackNet, CodeRedeemed, CodeRefused, LoseCallback,
       Authenticated, SignedOut, Arrive
  <2> QED
    BY <2>1, <2>2, <2>3, <2>4, <2>5, <2>6, <2>7, <2>8, <2>9, <2>10, <2>11, <2>12, <2>13
       DEF Next, TabStep, LoginStep, CallbackStep, RefreshNet, RefreshStep, UserStep
<1>3. CleanSignOutInv => CleanSignOutHolds
  BY DEF CleanSignOutInv, CleanSignOutHolds
<1> QED BY <1>1, <1>2, <1>3, TypesHold, PTL DEF Spec

-----------------------------------------------------------------------------
(* Where login states are.  Inductively: what storage, callbacks and tabs  *)
(* name is a login that was started, and the provider has not answered the *)
(* login a tab is leaving for, which no other tab is leaving for.          *)
KnownLogins ==
    /\ local \subseteq spent.logins /\ issued \subseteq spent.logins
    /\ \A t \in Tabs : /\ tab[t] \subseteq spent.logins
                       /\ taken[t] \subseteq spent.logins \cup {Foreign}
                       /\ url[t] \in issued \cup {None, Foreign}

OwnDepartures ==
    /\ \A t \in Tabs : leaving[t].to = "login" => leaving[t].for \in spent.logins \ issued
    /\ \A t, u \in Tabs : /\ leaving[t].to = "login" /\ leaving[u].to = "login"
                          /\ leaving[t].for = leaving[u].for
                          => t = u

LoginStateInv == /\ KnownLogins /\ OwnDepartures
                 /\ HandledStateIsGone /\ ExchangesAreOwnLogins /\ PendingLoginCanFinish

(* Steps that move no login state and no tab.                              *)
LEMMA LoginStateFrame ==
  ASSUME LoginStateInv,
         UNCHANGED <<local, tab, url, leaving, issued, taken, wiped>>,
         spent'.logins = spent.logins,
         \A t \in Tabs : callback'[t].pc # "idle" =>
             callback[t].pc # "idle" /\ callback'[t].for = callback[t].for
  PROVE  LoginStateInv'
<1>1. KnownLogins' /\ OwnDepartures'
  BY DEF LoginStateInv, KnownLogins, OwnDepartures
<1>2. HandledStateIsGone' /\ PendingLoginCanFinish'
  BY DEF LoginStateInv, HandledStateIsGone, PendingLoginCanFinish
<1>3. ExchangesAreOwnLogins'
  BY DEF LoginStateInv, ExchangesAreOwnLogins
<1> QED BY <1>1, <1>2, <1>3 DEF LoginStateInv

LEMMA NextLoginState == TypeInv /\ LoginStateInv /\ [Next]_vars => LoginStateInv'
<1> SUFFICES ASSUME TypeInv, LoginStateInv, [Next]_vars PROVE LoginStateInv'
  OBVIOUS
<1> USE DEF storage, document, ops, history, provider
<1> DEFINE Framed == /\ UNCHANGED <<local, tab, url, leaving, issued, taken, wiped>>
                     /\ spent'.logins = spent.logins
                     /\ \A t \in Tabs : callback'[t].pc # "idle" =>
                           callback[t].pc # "idle" /\ callback'[t].for = callback[t].for
<1>1. ASSUME Framed PROVE LoginStateInv'
  BY <1>1, LoginStateFrame
<1>2. CASE UNCHANGED vars \/ SsoExpires
  <2>1. Framed
    BY <1>2 DEF vars, SsoExpires, EndSession
  <2> QED BY <1>1, <2>1
<1>3. ASSUME NEW t \in Tabs,
             \/ Discovered(t) \/ LoginStart(t) \/ LoginFails(t)
             \/ RefreshSend(t) \/ RefreshDone(t) \/ RefreshThrows(t)
             \/ TokenRotated(t) \/ TokenKept(t) \/ TokenRefused(t)
      PROVE  LoginStateInv'
  <2>1. Framed
    BY <1>3 DEF Discovered, LoginStart, LoginFails, RefreshSend, RefreshDone, RefreshThrows,
       TokenRotated, TokenKept, TokenRefused, Rotate, Renew
  <2> QED BY <1>1, <2>1
<1>4. ASSUME NEW t \in Tabs,
             \/ DiscoveryFails(t) \/ RefreshStart(t) \/ LogoutStart(t)
             \/ RefreshErrs(t) \/ LoseRefresh(t)
      PROVE  LoginStateInv'
  <2>1. spent \in Spent
    BY DEF TypeInv, TypeOK
  <2>2. spent'.logins = spent.logins
    BY <1>4, <2>1 DEF DiscoveryFails, RefreshStart, LogoutStart, RefreshErrs, LoseRefresh, Fail, Spent
  <2>3. Framed
    BY <1>4, <2>2 DEF DiscoveryFails, RefreshStart, LogoutStart, RefreshErrs, LoseRefresh
  <2> QED BY <1>1, <2>3
<1>5. ASSUME NEW t \in Tabs,
             CallbackSend(t) \/ CallbackThrows(t) \/ CodeRedeemed(t) \/ CodeRefused(t) \/ Unload(t)
      PROVE  LoginStateInv'
  <2>1. callback \in [Tabs -> CallbackOp]
    BY DEF TypeInv, TypeOK
  <2>2. ASSUME NEW u \in Tabs, callback'[u].pc # "idle"
        PROVE  callback[u].pc # "idle" /\ callback'[u].for = callback[u].for
    <3>1. CASE CallbackSend(t)
      BY <3>1, <2>1, <2>2 DEF CallbackSend, CallbackOp
    <3>2. CASE CodeRedeemed(t)
      BY <3>2, <2>1, <2>2 DEF CodeRedeemed, CallbackOp
    <3>3. CASE CodeRefused(t)
      BY <3>3, <2>1, <2>2 DEF CodeRefused, CallbackOp
    <3>4. CASE CallbackThrows(t) \/ Unload(t)
      BY <3>4, <2>1, <2>2 DEF CallbackThrows, Unload, FreshDocument, Idle
    <3> QED BY <1>5, <3>1, <3>2, <3>3, <3>4
  <2>3. Framed
    BY <1>5, <2>2 DEF CallbackSend, CallbackThrows, CodeRedeemed, CodeRefused, Redeem, Unload
  <2> QED BY <1>1, <2>3
<1>6. ASSUME NEW t \in Tabs, LoseCallback(t) PROVE LoginStateInv'
  <2>1. callback \in [Tabs -> CallbackOp] /\ spent \in Spent
    BY DEF TypeInv, TypeOK
  <2>2. spent'.logins = spent.logins
    BY <1>6, <2>1 DEF LoseCallback, Fail, Spent
  <2>3. Framed
    BY <1>6, <2>1, <2>2 DEF LoseCallback, Idle
  <2> QED BY <1>1, <2>3
<1>7. ASSUME NEW t \in Tabs, NEW s \in States, LoginLeave(t, s) PROVE LoginStateInv'
  <2>1. /\ spent \in Spent
        /\ leaving \in [Tabs -> Departure]
        /\ local \in SUBSET States /\ tab \in [Tabs -> SUBSET States]
        /\ wiped \in [Tabs -> BOOLEAN]
        /\ taken \in [Tabs -> SUBSET (States \cup {Foreign})]
        /\ Foreign \notin States
    BY StatesAssumption DEF TypeInv, TypeOK
  <2>2. KnownLogins'
    BY <1>7, <2>1 DEF LoginStateInv, LoginLeave, StoreLoginState, KnownLogins, OwnDepartures
  <2>3. OwnDepartures'
    BY <1>7, <2>1 DEF LoginStateInv, LoginLeave, StoreLoginState, KnownLogins, OwnDepartures
  <2>4. HandledStateIsGone'
    BY <1>7, <2>1 DEF LoginStateInv, LoginLeave, StoreLoginState, KnownLogins, HandledStateIsGone
  <2>5. ExchangesAreOwnLogins'
    BY <1>7, <2>1 DEF LoginStateInv, LoginLeave, StoreLoginState, KnownLogins, ExchangesAreOwnLogins
  <2>6. PendingLoginCanFinish'
    BY <1>7, <2>1 DEF LoginStateInv, LoginLeave, StoreLoginState, KnownLogins, PendingLoginCanFinish
  <2> QED BY <2>2, <2>3, <2>4, <2>5, <2>6 DEF LoginStateInv
<1>8. ASSUME NEW t \in Tabs, CallbackStart(t) PROVE LoginStateInv'
  <2>1. /\ local \in SUBSET States /\ tab \in [Tabs -> SUBSET States]
        /\ callback \in [Tabs -> CallbackOp]
        /\ taken \in [Tabs -> SUBSET (States \cup {Foreign})]
        /\ url \in [Tabs -> States \cup {None, Foreign}]
    BY DEF TypeInv, TypeOK
  <2>2. KnownLogins'
    BY <1>8, <2>1
       DEF LoginStateInv, CallbackStart, TakeLoginState, Holds, KnownLogins, OwnDepartures
  <2>3. OwnDepartures'
    BY <1>8, <2>1
       DEF LoginStateInv, CallbackStart, TakeLoginState, Holds, KnownLogins, OwnDepartures
  <2>4. HandledStateIsGone'
    BY <1>8, <2>1
       DEF LoginStateInv, CallbackStart, TakeLoginState, Holds, KnownLogins,
           HandledStateIsGone
  <2>5. ExchangesAreOwnLogins'
    BY <1>8, <2>1
       DEF LoginStateInv, CallbackStart, TakeLoginState, Holds, KnownLogins,
           ExchangesAreOwnLogins
  <2>6. PendingLoginCanFinish'
    <3>1. spent.logins \subseteq States
      BY DEF TypeInv, TypeOK, Spent
    <3>2. leaving[t].to = "login" => leaving[t].for # url[t]
      BY <3>1, StatesAssumption DEF LoginStateInv, KnownLogins, OwnDepartures
    <3> QED BY <1>8, <2>1, <3>2 DEF LoginStateInv, CallbackStart, TakeLoginState, PendingLoginCanFinish
  <2> QED BY <2>2, <2>3, <2>4, <2>5, <2>6 DEF LoginStateInv
<1>9. ASSUME NEW t \in Tabs, CallbackUnknown(t) PROVE LoginStateInv'
  <2>1. /\ local \in SUBSET States /\ tab \in [Tabs -> SUBSET States]
        /\ taken \in [Tabs -> SUBSET (States \cup {Foreign})]
        /\ wiped \in [Tabs -> BOOLEAN]
        /\ url \in [Tabs -> States \cup {None, Foreign}]
    BY DEF TypeInv, TypeOK
  <2>2. KnownLogins'
    BY <1>9, <2>1 DEF LoginStateInv, CallbackUnknown, ClearLoginState, KnownLogins, OwnDepartures
  <2>3. OwnDepartures'
    BY <1>9, <2>1 DEF LoginStateInv, CallbackUnknown, ClearLoginState, KnownLogins, OwnDepartures
  <2>4. HandledStateIsGone'
    BY <1>9, <2>1
       DEF LoginStateInv, CallbackUnknown, ClearLoginState, KnownLogins, HandledStateIsGone
  <2>5. ExchangesAreOwnLogins'
    BY <1>9, <2>1
       DEF LoginStateInv, CallbackUnknown, ClearLoginState, KnownLogins,
           ExchangesAreOwnLogins
  <2>6. PendingLoginCanFinish'
    BY <1>9, <2>1
       DEF LoginStateInv, CallbackUnknown, ClearLoginState, KnownLogins,
           PendingLoginCanFinish
  <2> QED BY <2>2, <2>3, <2>4, <2>5, <2>6 DEF LoginStateInv
<1>10. ASSUME NEW t \in Tabs, CallbackDone(t) PROVE LoginStateInv'
  <2>1. /\ local \in SUBSET States /\ tab \in [Tabs -> SUBSET States]
        /\ callback \in [Tabs -> CallbackOp]
        /\ wiped \in [Tabs -> BOOLEAN]
        /\ url \in [Tabs -> States \cup {None, Foreign}]
    BY DEF TypeInv, TypeOK
  <2>2. KnownLogins'
    BY <1>10, <2>1
       DEF LoginStateInv, CallbackDone, ClearLoginState, Idle, KnownLogins, OwnDepartures
  <2>3. OwnDepartures'
    BY <1>10, <2>1
       DEF LoginStateInv, CallbackDone, ClearLoginState, Idle, KnownLogins, OwnDepartures
  <2>4. HandledStateIsGone'
    BY <1>10, <2>1
       DEF LoginStateInv, CallbackDone, ClearLoginState, Idle, KnownLogins,
           HandledStateIsGone
  <2>5. ExchangesAreOwnLogins'
    BY <1>10, <2>1
       DEF LoginStateInv, CallbackDone, ClearLoginState, Idle, KnownLogins,
           ExchangesAreOwnLogins
  <2>6. PendingLoginCanFinish'
    BY <1>10, <2>1
       DEF LoginStateInv, CallbackDone, ClearLoginState, Idle, KnownLogins,
           PendingLoginCanFinish
  <2> QED BY <2>2, <2>3, <2>4, <2>5, <2>6 DEF LoginStateInv
<1>11. ASSUME NEW t \in Tabs, RefreshRefused(t) PROVE LoginStateInv'
  <2>1. /\ local \in SUBSET States /\ tab \in [Tabs -> SUBSET States]
        /\ wiped \in [Tabs -> BOOLEAN]
    BY DEF TypeInv, TypeOK
  <2>2. KnownLogins'
    BY <1>11, <2>1
       DEF LoginStateInv, RefreshRefused, ClearSession, ClearLoginState, KnownLogins,
           OwnDepartures
  <2>3. OwnDepartures'
    BY <1>11, <2>1
       DEF LoginStateInv, RefreshRefused, ClearSession, ClearLoginState, KnownLogins,
           OwnDepartures
  <2>4. HandledStateIsGone'
    BY <1>11, <2>1
       DEF LoginStateInv, RefreshRefused, ClearSession, ClearLoginState, KnownLogins,
           HandledStateIsGone
  <2>5. ExchangesAreOwnLogins'
    BY <1>11, <2>1
       DEF LoginStateInv, RefreshRefused, ClearSession, ClearLoginState, KnownLogins,
           ExchangesAreOwnLogins
  <2>6. PendingLoginCanFinish'
    BY <1>11, <2>1
       DEF LoginStateInv, RefreshRefused, ClearSession, ClearLoginState, KnownLogins,
           PendingLoginCanFinish
  <2> QED BY <2>2, <2>3, <2>4, <2>5, <2>6 DEF LoginStateInv
<1>12. ASSUME NEW t \in Tabs, LogoutLeave(t) PROVE LoginStateInv'
  <2>1. /\ local \in SUBSET States /\ tab \in [Tabs -> SUBSET States]
        /\ leaving \in [Tabs -> Departure]
    BY DEF TypeInv, TypeOK
  <2>2. KnownLogins'
    BY <1>12, <2>1
       DEF LoginStateInv, LogoutLeave, ClearSession, ClearLoginState, Destination,
           KnownLogins, OwnDepartures
  <2>3. OwnDepartures'
    BY <1>12, <2>1
       DEF LoginStateInv, LogoutLeave, ClearSession, ClearLoginState, Destination,
           KnownLogins, OwnDepartures
  <2>4. HandledStateIsGone'
    BY <1>12, <2>1
       DEF LoginStateInv, LogoutLeave, ClearSession, ClearLoginState, Destination,
           KnownLogins, HandledStateIsGone
  <2>5. ExchangesAreOwnLogins'
    BY <1>12, <2>1
       DEF LoginStateInv, LogoutLeave, ClearSession, ClearLoginState, Destination,
           KnownLogins, ExchangesAreOwnLogins
  <2>6. PendingLoginCanFinish'
    BY <1>12, <2>1
       DEF LoginStateInv, LogoutLeave, ClearSession, ClearLoginState, Destination,
           KnownLogins, PendingLoginCanFinish
  <2> QED BY <2>2, <2>3, <2>4, <2>5, <2>6 DEF LoginStateInv
<1>13. ASSUME NEW t \in Tabs, NEW u \in States \cup {None, Foreign}, Open(t, u) PROVE LoginStateInv'
  <2>1. /\ url \in [Tabs -> States \cup {None, Foreign}]
        /\ leaving \in [Tabs -> Departure]
        /\ callback \in [Tabs -> CallbackOp]
    BY DEF TypeInv, TypeOK
  <2>2. KnownLogins'
    BY <1>13, <2>1 DEF LoginStateInv, Open, FreshDocument, Stay, Idle, KnownLogins, OwnDepartures
  <2>3. OwnDepartures'
    BY <1>13, <2>1 DEF LoginStateInv, Open, FreshDocument, Stay, Idle, KnownLogins, OwnDepartures
  <2>4. HandledStateIsGone'
    BY <1>13, <2>1
       DEF LoginStateInv, Open, FreshDocument, Stay, Idle, KnownLogins, HandledStateIsGone
  <2>5. ExchangesAreOwnLogins'
    BY <1>13, <2>1
       DEF LoginStateInv, Open, FreshDocument, Stay, Idle, KnownLogins,
           ExchangesAreOwnLogins
  <2>6. PendingLoginCanFinish'
    BY <1>13, <2>1
       DEF LoginStateInv, Open, FreshDocument, Stay, Idle, KnownLogins,
           PendingLoginCanFinish
  <2> QED BY <2>2, <2>3, <2>4, <2>5, <2>6 DEF LoginStateInv
<1>14. ASSUME NEW t \in Tabs, Authenticated(t) PROVE LoginStateInv'
  <2>1. /\ url \in [Tabs -> States \cup {None, Foreign}]
        /\ leaving \in [Tabs -> Departure]
    BY DEF TypeInv, TypeOK
  <2>2. KnownLogins'
    BY <1>14, <2>1
       DEF LoginStateInv, Authenticated, Arrive, Authenticate, Stay, KnownLogins,
           OwnDepartures
  <2>3. OwnDepartures'
    BY <1>14, <2>1
       DEF LoginStateInv, Authenticated, Arrive, Authenticate, Stay, KnownLogins,
           OwnDepartures
  <2>4. HandledStateIsGone'
    BY <1>14, <2>1
       DEF LoginStateInv, Authenticated, Arrive, Authenticate, Stay, KnownLogins,
           HandledStateIsGone
  <2>5. ExchangesAreOwnLogins'
    BY <1>14, <2>1
       DEF LoginStateInv, Authenticated, Arrive, Authenticate, Stay, KnownLogins,
           ExchangesAreOwnLogins
  <2>6. PendingLoginCanFinish'
    BY <1>14, <2>1
       DEF LoginStateInv, Authenticated, Arrive, Authenticate, Stay, KnownLogins,
           PendingLoginCanFinish
  <2> QED BY <2>2, <2>3, <2>4, <2>5, <2>6 DEF LoginStateInv
<1>15. ASSUME NEW t \in Tabs, SignedOut(t) PROVE LoginStateInv'
  <2>1. /\ url \in [Tabs -> States \cup {None, Foreign}]
        /\ leaving \in [Tabs -> Departure]
    BY DEF TypeInv, TypeOK
  <2>2. KnownLogins'
    BY <1>15, <2>1
       DEF LoginStateInv, SignedOut, Arrive, EndSession, Stay, KnownLogins, OwnDepartures
  <2>3. OwnDepartures'
    BY <1>15, <2>1
       DEF LoginStateInv, SignedOut, Arrive, EndSession, Stay, KnownLogins, OwnDepartures
  <2>4. HandledStateIsGone'
    BY <1>15, <2>1
       DEF LoginStateInv, SignedOut, Arrive, EndSession, Stay, KnownLogins,
           HandledStateIsGone
  <2>5. ExchangesAreOwnLogins'
    BY <1>15, <2>1
       DEF LoginStateInv, SignedOut, Arrive, EndSession, Stay, KnownLogins,
           ExchangesAreOwnLogins
  <2>6. PendingLoginCanFinish'
    BY <1>15, <2>1
       DEF LoginStateInv, SignedOut, Arrive, EndSession, Stay, KnownLogins,
           PendingLoginCanFinish
  <2> QED BY <2>2, <2>3, <2>4, <2>5, <2>6 DEF LoginStateInv
<1> QED
  BY <1>2, <1>3, <1>4, <1>5, <1>6, <1>7, <1>8, <1>9, <1>10, <1>11, <1>12, <1>13, <1>14, <1>15
     DEF Next, TabStep, Settle, LoginStep, CallbackNet, CallbackStep, RefreshNet, RefreshStep, UserStep

LEMMA InitLoginState == Init => LoginStateInv
BY StatesAssumption
   DEF Init, ProviderInit, LoginStateInv, KnownLogins, OwnDepartures, HandledStateIsGone,
       ExchangesAreOwnLogins, PendingLoginCanFinish, Stay, Idle

LEMMA LoginStateHolds == Spec => []LoginStateInv
BY InitLoginState, NextLoginState, TypesHold, PTL DEF Spec

(* A tab's handled login state is gone from every storage the tab can read *)
(* (client.ts:82-84), however many tabs log in at the same time.           *)
THEOREM HandledState == Spec => []HandledStateIsGone
<1>1. LoginStateInv => HandledStateIsGone
  BY DEF LoginStateInv
<1> QED BY <1>1, LoginStateHolds, PTL

(* A code is exchanged only for a login this browser started, whatever     *)
(* callback URL is opened (client.ts:82-91).                               *)
THEOREM ExchangesAreOwn == Spec => []ExchangesAreOwnLogins
<1>1. LoginStateInv => ExchangesAreOwnLogins
  BY DEF LoginStateInv
<1> QED BY <1>1, LoginStateHolds, PTL

(* The state of a login at the provider stays in the storage of its tab,   *)
(* whatever the other tabs do (client.ts:43-47).                           *)
THEOREM PendingLogin == Spec => []PendingLoginCanFinish
<1>1. LoginStateInv => PendingLoginCanFinish
  BY DEF LoginStateInv
<1> QED BY <1>1, LoginStateHolds, PTL

-----------------------------------------------------------------------------
(* The only steps that empty the stored session.                           *)
LEMMA SessionEnds ==
  ASSUME TypeInv, Next, session # None, session' = None
  PROVE  \E t \in Tabs : RefreshRefused(t) \/ LogoutLeave(t)
<1> USE DEF storage, document, ops, history, provider
<1>1. ASSUME NEW t \in Tabs, CallbackDone(t) PROVE FALSE
  <2>1. session' \in Session
    BY <1>1 DEF CallbackDone, TypeInv, TypeOK, CarriesItsSubject, CallbackOp, Session
  <2> QED BY <2>1, NoneAssumption
<1>2. ASSUME NEW t \in Tabs, RefreshDone(t) PROVE FALSE
  <2>1. refresh[t].for \in Session /\ refresh[t].gen \in Nat
    BY <1>2 DEF RefreshDone, TypeInv, TypeOK, CarriesItsSubject, RefreshOp
  <2>2. session' \in Session
    BY <1>2, <2>1 DEF RefreshDone, Renewed, Session
  <2> QED BY <2>2, NoneAssumption
<1>3. ASSUME NEW t \in Tabs, \/ LoginStep(t) \/ CallbackNet(t) \/ Settle(t)
                              \/ RefreshNet(t) \/ Unload(t) \/ SignedOut(t)
      PROVE  session' = session
  BY <1>3 DEF LoginStep, LoginLeave, LoginFails, CallbackNet, CodeRedeemed,
     CodeRefused, LoseCallback, Settle, Discovered, DiscoveryFails, RefreshNet, TokenRotated,
     TokenKept, TokenRefused, RefreshErrs, LoseRefresh, Unload, SignedOut, Arrive
<1>4. ASSUME NEW t \in Tabs, \/ UserStep(t) \/ CallbackSend(t) \/ CallbackThrows(t)
                              \/ RefreshSend(t) \/ RefreshThrows(t)
      PROVE  session' = session
  BY <1>4 DEF UserStep, LoginStart, CallbackStart, CallbackUnknown, ClearLoginState, RefreshStart,
     LogoutStart, Open, Authenticated, Arrive, CallbackSend, CallbackThrows, RefreshSend,
     RefreshThrows
<1>5. SsoExpires => session' = session
  BY DEF SsoExpires
<1> QED BY <1>1, <1>2, <1>3, <1>4, <1>5 DEF Next, TabStep, CallbackStep, RefreshStep

(* Nothing is torn down before a navigation is decided: only logout()'s    *)
(* last step and a refresh answered with an error empty the stored session *)
(* (client.ts:134-137 and 148-160).                                        *)
THEOREM LossHasCause == Spec => SessionLossHasACause
<1> DEFINE Caused == session # None /\ session' = None =>
              \E t \in Tabs :
                 \/ leaving'[t].to \in {"hinted", "unhinted", "here"} /\ logout[t].pc # "idle"
                 \/ refresh[t].pc \in {"refused", "erred"} /\ refresh'[t].pc = "idle"
<1>1. TypeInv /\ [Next]_vars => [Caused]_vars
  <2> SUFFICES ASSUME TypeInv, Next, session # None, session' = None PROVE Caused
    BY DEF vars
  <2>1. ASSUME NEW t \in Tabs, RefreshRefused(t) PROVE Caused
    BY <2>1 DEF RefreshRefused, Idle, TypeInv, TypeOK
  <2>2. ASSUME NEW t \in Tabs, LogoutLeave(t) PROVE Caused
    BY <2>2 DEF LogoutLeave, Destination, TypeInv, TypeOK
  <2> QED BY <2>1, <2>2, SessionEnds
<1> QED BY <1>1, TypesHold, PTL DEF Spec, SessionLossHasACause

-----------------------------------------------------------------------------
(* Why a tab on its own loses no live session, whatever answers it missed. *)
(* Inductively: a login that was not exchanged yet has nothing used and    *)
(* nothing stored or in flight; what is stored or in flight is a token the *)
(* provider takes, but for the answers nobody received; and the answer to  *)
(* a refresh is newer than all that was presented.                         *)
Untouched(s) == tokens[s].used = 0 /\ tokens[s].uses = 0

Held(t, s) == \/ session # None /\ session.login = s
              \/ refresh[t].pc # "idle" /\ refresh[t].for.login = s

Unseen(t, s) == \/ s \in codes \/ s \notin issued
                \/ callback[t].pc = "granted" /\ callback[t].for = s

FreshLogins(t) ==
    /\ codes \subseteq issued
    /\ callback[t].pc = "granted" =>
          /\ callback[t].for \in issued \ codes
          /\ callback[t].gen = FirstToken /\ tokens[callback[t].for].issued = FirstToken
    /\ \A s \in States : Unseen(t, s) => Untouched(s) /\ ~Held(t, s)

(* The provider takes x, if it takes a token n times more than once.       *)
Backed(x, n) ==
    /\ x.gen <= tokens[x.login].issued
    /\ \/ x.gen > tokens[x.login].used
       \/ x.gen = tokens[x.login].used /\ tokens[x.login].uses <= n

(* The answers nobody has received, with the one on its way to t.          *)
Unread(t, s) == IF refresh[t].pc = "granted" /\ refresh[t].for.login = s THEN lost + 1 ELSE lost

SessionsBacked(t) ==
    /\ session # None => Backed(session, Unread(t, session.login))
    /\ refresh[t].pc # "idle" =>
          /\ Backed(refresh[t].for, Unread(t, refresh[t].for.login))
          /\ session # None /\ session.login = refresh[t].for.login => session = refresh[t].for

AnswersFit(t) ==
    /\ RefreshPolicy # "rotated" => \A s \in States : Untouched(s)
    /\ away[t] => refresh[t].pc = "idle" /\ callback[t].pc = "idle"
    /\ refresh[t].pc \in {"discover", "sent"} => refresh[t].gen = NoToken
    /\ refresh[t].pc = "granted" =>
          /\ RefreshPolicy = "rotated" => refresh[t].gen # NoToken
          /\ refresh[t].gen # NoToken => /\ refresh[t].gen > tokens[refresh[t].for.login].used
                                         /\ refresh[t].gen <= tokens[refresh[t].for.login].issued
    /\ refresh[t].pc = "refused" /\ refresh[t].for.login \in live => lost > MaxReuse

TokenInv(t) == FreshLogins(t) /\ SessionsBacked(t) /\ AnswersFit(t)

LEMMA InitTokens == ASSUME NEW t \in Tabs, Init PROVE TokenInv(t)
<1>1. FreshLogins(t)
  BY FirstTokenIsNat, StatesAssumption
     DEF Init, ProviderInit, FreshLogins, Unseen, Untouched, Held, Idle
<1>2. SessionsBacked(t)
  BY FirstTokenIsNat, StatesAssumption
     DEF Init, ProviderInit, SessionsBacked, Backed, Unread, Idle
<1>3. AnswersFit(t)
  BY DEF Init, ProviderInit, AnswersFit, Untouched, Idle
<1> QED BY <1>1, <1>2, <1>3 DEF TokenInv

(* A step that leaves the tokens, the session and the refresh of t alone,  *)
(* and lets no login come back to the provider or be answered.             *)
LEMMA TokenFrame ==
  ASSUME NEW t \in Tabs, TokenInv(t), UNCHANGED <<session, issued, tokens, lost>>,
         refresh'[t] = refresh[t], codes' \subseteq codes, live' \subseteq live,
         away'[t] => away[t] /\ (callback[t].pc = "idle" => callback'[t].pc = "idle"),
         callback'[t].pc = "granted" => callback'[t] = callback[t]
  PROVE  TokenInv(t)'
<1>1. FreshLogins(t)'
  BY DEF TokenInv, FreshLogins, Unseen, Untouched, Held
<1>2. SessionsBacked(t)'
  BY DEF TokenInv, SessionsBacked, Backed, Unread
<1>3. AnswersFit(t)'
  BY DEF TokenInv, AnswersFit, Untouched
<1> QED BY <1>1, <1>2, <1>3 DEF TokenInv

(* A refresh of t is over and stored nothing: its session is as it was, or *)
(* gone.                                                                   *)
LEMMA RefreshGone ==
  ASSUME NEW t \in Tabs, TypeInv, TokenInv(t), refresh'[t].pc = "idle",
         UNCHANGED <<codes, issued, live, tokens>>,
         \/ session' = None /\ UNCHANGED lost
         \/ session' = session /\ MissesAnswer(t),
         away'[t] => callback'[t].pc = "idle",
         callback'[t].pc = "granted" => callback'[t] = callback[t]
  PROVE  TokenInv(t)'
<1>1. FreshLogins(t)'
  BY DEF TokenInv, FreshLogins, Unseen, Untouched, Held
<1>2. SessionsBacked(t)'
  <2>1. CASE session' = None
    BY <2>1 DEF SessionsBacked
  <2>2. CASE session' = session /\ MissesAnswer(t) /\ session # None
    <3>1. session \in Session /\ lost \in Nat /\ tokens \in [States -> TokenRecord]
      BY <2>2 DEF TypeInv, TypeOK, ProviderTypeOK
    <3>2. tokens[session.login] \in TokenRecord
      BY <3>1 DEF Session
    <3>3. Unread(t, session.login) <= lost' /\ Unread(t, session.login) \in Nat /\ lost' \in Nat
      BY <3>1, <2>2 DEF MissesAnswer, Unread
    <3>4. Backed(session, Unread(t, session.login))
      BY <2>2 DEF TokenInv, SessionsBacked
    <3>5. Backed(session, lost')
      BY <3>2, <3>3, <3>4 DEF Backed, TokenRecord
    <3> QED BY <2>2, <3>5 DEF SessionsBacked, Backed, Unread
  <2> QED BY <2>1, <2>2 DEF SessionsBacked
<1>3. AnswersFit(t)'
  BY DEF TokenInv, AnswersFit, Untouched
<1> QED BY <1>1, <1>2, <1>3 DEF TokenInv

LEMMA NextTokens ==
  ASSUME NEW t \in Tabs, Tabs = {t}, TypeInv, LoginStateInv, TokenInv(t), [Next]_vars
  PROVE  TokenInv(t)'
<1> USE DEF storage, document, ops, history, provider
<1>t. /\ session \in Session \cup {None} /\ lost \in Nat /\ MaxReuse \in Nat
      /\ refresh \in [Tabs -> RefreshOp] /\ callback \in [Tabs -> CallbackOp]
      /\ away \in [Tabs -> BOOLEAN] /\ leaving \in [Tabs -> Departure]
      /\ tokens \in [States -> TokenRecord]
      /\ codes \subseteq States /\ issued \subseteq States /\ live \subseteq States
  BY ProviderAssumption DEF TypeInv, TypeOK, ProviderTypeOK
<1>1. CASE UNCHANGED vars \/ SsoExpires
  BY <1>1, TokenFrame DEF vars, SsoExpires, EndSession
<1>2. CASE Settle(t) \/ LoginStep(t) \/ LoginStart(t) \/ LogoutStart(t)
  BY <1>2, TokenFrame
     DEF Settle, Discovered, DiscoveryFails, LoginStep, LoginLeave, LoginFails, LoginStart, LogoutStart
<1>3. CASE CallbackStart(t) \/ CallbackUnknown(t) \/ CallbackThrows(t) \/ LoseCallback(t)
  <2>1. UNCHANGED <<session, refresh, away, lost, provider>>
    BY <1>3 DEF CallbackStart, CallbackUnknown, CallbackThrows, LoseCallback
  <2>2. \/ callback' = callback
        \/ callback'[t].pc = "discover" /\ ~away[t]
        \/ callback'[t].pc = "idle"
    <3>1. CASE CallbackStart(t)
      BY <3>1, <1>t DEF CallbackStart, Idle
    <3>2. CASE CallbackUnknown(t)
      BY <3>2 DEF CallbackUnknown
    <3>3. CASE CallbackThrows(t) \/ LoseCallback(t)
      BY <3>3, <1>t DEF CallbackThrows, LoseCallback, Idle
    <3> QED BY <1>3, <3>1, <3>2, <3>3
  <2>3. /\ away'[t] => away[t] /\ (callback[t].pc = "idle" => callback'[t].pc = "idle")
        /\ callback'[t].pc = "granted" => callback'[t] = callback[t]
    BY <2>1, <2>2
  <2> QED BY <2>1, <2>3, TokenFrame
<1>4. CASE CallbackSend(t) \/ CodeRefused(t)
  <2>1. callback[t].pc # "idle" /\ callback'[t].pc \in {"sent", "refused"}
    BY <1>4, <1>t DEF CallbackSend, CodeRefused, CallbackOp
  <2>2. ~away[t]
    BY <2>1 DEF TokenInv, AnswersFit
  <2> QED BY <1>4, <2>1, <2>2, TokenFrame DEF CallbackSend, CodeRefused
<1>5. CASE SignedOut(t)
  <2>1. codes' \subseteq codes /\ live' \subseteq live /\ UNCHANGED <<issued, tokens>>
    BY <1>5 DEF SignedOut, EndSession
  <2>2. ~away'[t]
    BY <1>5, <1>t DEF SignedOut, Arrive
  <2> QED BY <1>5, <2>1, <2>2, TokenFrame DEF SignedOut, Arrive
<1>6. CASE Unload(t) \/ \E u \in States \cup {None, Foreign} : Open(t, u)
  BY <1>6, <1>t, RefreshGone DEF Unload, Open, FreshDocument, Idle
<1>7. CASE LoseRefresh(t) \/ RefreshThrows(t)
  <2>1. /\ MissesAnswer(t) /\ refresh[t].pc # "idle" /\ refresh'[t].pc = "idle"
        /\ UNCHANGED <<session, away, callback, provider>>
    BY <1>7, <1>t DEF LoseRefresh, RefreshThrows, MissesAnswer, Idle
  <2>2. ~away[t]
    BY <2>1 DEF TokenInv, AnswersFit
  <2> QED BY <2>1, <2>2, RefreshGone
<1>8. CASE RefreshRefused(t)
  <2>1. ~away[t]
    BY <1>8 DEF RefreshRefused, TokenInv, AnswersFit
  <2>2. /\ refresh'[t].pc = "idle" /\ session' = None /\ ~away'[t]
        /\ UNCHANGED <<callback, lost, provider>>
    BY <1>8, <1>t, <2>1 DEF RefreshRefused, ClearSession, Idle
  <2> QED BY <2>2, RefreshGone
<1>9. CASE LogoutLeave(t)
  BY <1>9 DEF LogoutLeave, ClearSession, TokenInv, FreshLogins, Unseen, Untouched, Held,
              SessionsBacked, Backed, Unread, AnswersFit
<1>10. CASE Authenticated(t)
  <2> DEFINE s == leaving[t].for
  <2>1. /\ s \in States \ issued /\ codes' = codes \cup {s} /\ issued' = issued \cup {s}
        /\ live' = live \cup {s} /\ UNCHANGED <<session, refresh, callback, tokens, lost>>
        /\ ~away'[t] /\ refresh[t].pc = "idle" /\ callback[t].pc = "idle"
    BY <1>10, <1>t DEF Authenticated, Arrive, Authenticate, LoginStateInv, OwnDepartures,
       TypeInv, CarriesItsSubject, TokenInv, AnswersFit
  <2> HIDE DEF s
  <2>2. FreshLogins(t)'
    BY <2>1 DEF TokenInv, FreshLogins, Unseen, Untouched, Held
  <2>3. SessionsBacked(t)'
    BY <2>1 DEF TokenInv, SessionsBacked, Backed, Unread
  <2>4. AnswersFit(t)'
    BY <2>1 DEF TokenInv, AnswersFit, Untouched
  <2> QED BY <2>2, <2>3, <2>4 DEF TokenInv
<1>11. CASE CodeRedeemed(t)
  <2> DEFINE s == callback[t].for
  <2>1. /\ s \in codes /\ codes' = codes \ {s}
        /\ callback'[t].pc = "granted" /\ callback'[t].for = s /\ callback'[t].gen = FirstToken
        /\ UNCHANGED <<session, refresh, issued, live, lost, away>>
        /\ tokens' = [tokens EXCEPT ![s].issued = FirstToken]
    BY <1>11, <1>t DEF CodeRedeemed, Redeem, CallbackOp
  <2>2. ~away[t]
    BY <1>11 DEF CodeRedeemed, TokenInv, AnswersFit
  <2> HIDE DEF s
  <2>3. s \in States /\ s \in issued /\ ~Held(t, s)
    BY <2>1, <1>t DEF TokenInv, FreshLogins, Unseen
  <2>4. /\ tokens'[s].issued = FirstToken
        /\ \A x \in States : /\ tokens'[x].used = tokens[x].used /\ tokens'[x].uses = tokens[x].uses
                             /\ x # s => tokens'[x] = tokens[x]
    BY <2>1, <2>3, <1>t DEF TokenRecord
  <2>5. FreshLogins(t)'
    BY <2>1, <2>3, <2>4 DEF TokenInv, FreshLogins, Unseen, Untouched, Held
  <2>6. SessionsBacked(t)'
    BY <2>1, <2>3, <2>4, <1>t
       DEF TokenInv, SessionsBacked, Backed, Unread, Held, Session, TypeInv, CarriesItsSubject
  <2>7. AnswersFit(t)'
    BY <2>1, <2>2, <2>3, <2>4, <1>t
       DEF TokenInv, AnswersFit, Untouched, Held, Session, TypeInv, CarriesItsSubject
  <2> QED BY <2>5, <2>6, <2>7 DEF TokenInv
<1>12. CASE CallbackDone(t)
  <2> DEFINE s == callback[t].for
  <2>1. /\ s \in issued \ codes /\ Untouched(s) /\ ~Held(t, s)
        /\ callback[t].gen = FirstToken /\ tokens[s].issued = FirstToken
    BY <1>12, <1>t DEF CallbackDone, TokenInv, FreshLogins, Unseen
  <2>2. /\ session' = [login |-> s, gen |-> FirstToken] /\ callback'[t].pc = "idle"
        /\ UNCHANGED <<refresh, provider, lost, away>>
    BY <1>12, <2>1, <1>t DEF CallbackDone, Idle
  <2> HIDE DEF s
  <2>3. FreshLogins(t)'
    BY <2>1, <2>2, <1>t DEF TokenInv, FreshLogins, Unseen, Untouched, Held
  <2>4. SessionsBacked(t)'
    BY <2>1, <2>2, <1>t, FirstTokenIsNat DEF TokenInv, SessionsBacked, Backed, Unread, Untouched, Held, TokenRecord
  <2>5. AnswersFit(t)'
    BY <2>2 DEF TokenInv, AnswersFit, Untouched
  <2> QED BY <2>3, <2>4, <2>5 DEF TokenInv
<1>13. CASE RefreshStart(t)
  <2>1. /\ refresh'[t] = [pc |-> "discover", for |-> session, gen |-> NoToken]
        /\ refresh[t].pc = "idle" /\ ~away[t] /\ session # None
        /\ UNCHANGED <<session, callback, away, provider, lost>>
    BY <1>13, <1>t DEF RefreshStart, Idle
  <2>2. FreshLogins(t)'
    BY <2>1 DEF TokenInv, FreshLogins, Unseen, Untouched, Held
  <2>3. SessionsBacked(t)'
    BY <2>1 DEF TokenInv, SessionsBacked, Backed, Unread
  <2>4. AnswersFit(t)'
    BY <2>1 DEF TokenInv, AnswersFit, Untouched
  <2> QED BY <2>2, <2>3, <2>4 DEF TokenInv
<1>14. CASE RefreshSend(t) \/ TokenRefused(t)
  <2>1. /\ refresh'[t].for = refresh[t].for /\ refresh'[t].gen = refresh[t].gen
        /\ refresh[t].pc \in {"discover", "sent"}
        /\ \/ refresh'[t].pc = "sent"
           \/ /\ refresh'[t].pc = "refused"
              /\ ~Accepts(refresh[t].for.login, refresh[t].for.gen)
        /\ UNCHANGED <<session, callback, away, provider, lost>>
    BY <1>14, <1>t DEF RefreshSend, TokenRefused, RefreshOp
  <2>2. FreshLogins(t)'
    BY <2>1 DEF TokenInv, FreshLogins, Unseen, Untouched, Held
  <2>3. SessionsBacked(t)'
    BY <2>1 DEF TokenInv, SessionsBacked, Backed, Unread
  <2>4. AnswersFit(t)'
    <3>1. refresh[t].for \in Session /\ tokens[refresh[t].for.login] \in TokenRecord
      BY <2>1, <1>t DEF TypeInv, CarriesItsSubject, Session
    <3>2. Backed(refresh[t].for, lost)
      BY <2>1 DEF TokenInv, SessionsBacked, Unread
    <3>3. /\ refresh'[t].pc = "refused" /\ refresh[t].for.login \in live => lost > MaxReuse
      BY <2>1, <3>1, <3>2, <1>t DEF Backed, Accepts, TokenRecord, Session
    <3> QED BY <2>1, <3>3 DEF TokenInv, AnswersFit, Untouched
  <2> QED BY <2>2, <2>3, <2>4 DEF TokenInv
<1>15. CASE RefreshDone(t)
  <2> DEFINE x == refresh[t].for
             y == Renewed(refresh[t])
  <2>1. /\ session' = y /\ lost' = 0 /\ refresh[t].pc = "granted" /\ refresh'[t].pc = "idle"
        /\ UNCHANGED <<callback, away, provider>>
    BY <1>15, <1>t DEF RefreshDone, Idle
  <2>2. /\ x \in Session /\ y \in Session /\ y.login = x.login
        /\ tokens[x.login] \in TokenRecord /\ refresh[t].gen \in Nat
        /\ IF refresh[t].gen = NoToken THEN y = x ELSE y.gen = refresh[t].gen
    BY <2>1, <1>t DEF TypeInv, CarriesItsSubject, Renewed, Session, RefreshOp
  <2>3. Backed(y, 0)
    <3>1. CASE refresh[t].gen # NoToken
      BY <2>1, <2>2, <3>1 DEF TokenInv, AnswersFit, Backed
    <3>2. CASE refresh[t].gen = NoToken
      <4>1. Untouched(x.login)
        BY <2>1, <2>2, <3>2, ProviderAssumption DEF TokenInv, AnswersFit, Session
      <4>2. x.gen <= tokens[x.login].issued
        BY <2>1 DEF TokenInv, SessionsBacked, Backed
      <4> QED BY <2>2, <3>2, <4>1, <4>2 DEF Backed, Untouched, Session
    <3> QED BY <3>1, <3>2
  <2> HIDE DEF x, y
  <2>4. FreshLogins(t)'
    BY <2>1, <2>2 DEF TokenInv, FreshLogins, Unseen, Untouched, Held, x
  <2>5. SessionsBacked(t)'
    BY <2>1, <2>2, <2>3 DEF SessionsBacked, Backed, Unread
  <2>6. AnswersFit(t)'
    BY <2>1 DEF TokenInv, AnswersFit, Untouched
  <2> QED BY <2>4, <2>5, <2>6 DEF TokenInv
<1>16. CASE TokenKept(t)
  <2>1. /\ refresh'[t].pc = "granted" /\ refresh'[t].for = refresh[t].for
        /\ refresh'[t].gen = NoToken /\ refresh[t].pc = "sent" /\ RefreshPolicy = "kept"
        /\ UNCHANGED <<session, callback, away, lost, provider>>
    BY <1>16, <1>t DEF TokenKept, Renew, RefreshOp, TokenInv, AnswersFit
  <2>2. FreshLogins(t)'
    BY <2>1 DEF TokenInv, FreshLogins, Unseen, Untouched, Held
  <2>3. SessionsBacked(t)'
    <3>1. refresh[t].for \in Session
      BY <2>1 DEF TypeInv, CarriesItsSubject
    <3>2. \A s \in States : tokens[s].uses = 0
      BY <2>1 DEF TokenInv, AnswersFit, Untouched
    <3> QED BY <2>1, <3>1, <3>2, <1>t DEF TokenInv, SessionsBacked, Backed, Unread, Session
  <2>4. AnswersFit(t)'
    BY <2>1 DEF TokenInv, AnswersFit, Untouched
  <2> QED BY <2>2, <2>3, <2>4 DEF TokenInv
<1>17. CASE TokenRotated(t)
  <2> DEFINE x == refresh[t].for
             s == refresh[t].for.login
  <2>1. /\ refresh'[t].pc = "granted" /\ refresh'[t].for = x /\ refresh[t].pc = "sent"
        /\ refresh'[t].gen = NextToken(s) /\ RefreshPolicy = "rotated"
        /\ tokens' = [tokens EXCEPT ![s] =
               [issued |-> NextToken(s), used |-> x.gen,
                uses |-> IF x.gen = tokens[s].used THEN tokens[s].uses + 1 ELSE 1]]
        /\ UNCHANGED <<session, callback, away, lost, codes, issued, live>>
    BY <1>17, <1>t DEF TokenRotated, Rotate, RefreshOp
  <2>2. /\ x \in Session /\ s \in States /\ tokens[s] \in TokenRecord /\ Held(t, s)
        /\ Backed(x, lost)
    BY <2>1, <1>t DEF TypeInv, CarriesItsSubject, Session, Held, TokenInv, SessionsBacked, Unread
  <2>3. /\ \A u \in States \ {s} : tokens'[u] = tokens[u]
        /\ tokens'[s].issued = tokens[s].issued + 1 /\ tokens'[s].used = x.gen
        /\ tokens'[s].uses = IF x.gen = tokens[s].used THEN tokens[s].uses + 1 ELSE 1
    BY <2>1, <2>2, <1>t DEF NextToken
  <2>4. Backed(x, lost + 1)'
    <3>1. x' = x /\ (lost + 1)' = lost + 1 /\ x.login = s
      BY <2>1
    <3> QED BY <2>1, <2>2, <2>3, <3>1, <1>t DEF Backed, Session, TokenRecord
  <2>5. FreshLogins(t)'
    <3>1. ~Unseen(t, s)
      BY <2>2 DEF TokenInv, FreshLogins
    <3>2. \A u \in States : /\ Unseen(t, u)' => Unseen(t, u)
                            /\ Held(t, u)' => Held(t, u)
      BY <2>1 DEF Unseen, Held
    <3>3. \A u \in States : Unseen(t, u) => tokens'[u] = tokens[u]
      BY <2>3, <3>1
    <3>4. callback[t].pc = "granted" => tokens'[callback[t].for] = tokens[callback[t].for]
      BY <3>3, <1>t DEF TokenInv, FreshLogins, Unseen
    <3> QED BY <2>1, <3>2, <3>3, <3>4 DEF TokenInv, FreshLogins, Untouched
  <2>6. SessionsBacked(t)'
    BY <2>1, <2>2, <2>3, <2>4, <1>t DEF TokenInv, SessionsBacked, Backed, Unread, Session
  <2>7. AnswersFit(t)'
    <3>1. /\ refresh'[t].gen = tokens[s].issued + 1 /\ refresh'[t].for.login = s
          /\ x.gen <= tokens[s].issued
      BY <2>1, <2>2 DEF NextToken, Backed
    <3>2. /\ refresh'[t].gen # NoToken /\ refresh'[t].gen > tokens'[s].used
          /\ refresh'[t].gen <= tokens'[s].issued
      <4> HIDE DEF x, s
      <4> QED BY <2>2, <2>3, <3>1 DEF NoToken, Session, TokenRecord
    <3>3. ~away[t]
      BY <2>1 DEF TokenInv, AnswersFit
    <3> QED BY <2>1, <3>1, <3>2, <3>3 DEF AnswersFit
  <2> QED BY <2>5, <2>6, <2>7 DEF TokenInv
<1>18. CASE RefreshErrs(t)
  <2>1. /\ MissesAnswer(t) /\ refresh[t].pc \in {"sent", "granted"}
        /\ refresh'[t] = [pc |-> "erred", for |-> refresh[t].for, gen |-> NoToken]
        /\ UNCHANGED <<session, away, callback, provider>>
    BY <1>18, <1>t DEF RefreshErrs, Idle
  <2>2. ~away[t]
    BY <2>1 DEF TokenInv, AnswersFit
  <2>3. FreshLogins(t)'
    BY <2>1 DEF TokenInv, FreshLogins, Unseen, Untouched, Held
  <2>4. ASSUME NEW x \in Session, Backed(x, Unread(t, x.login)) PROVE Backed(x, Unread(t, x.login))'
    <3>1. tokens[x.login] \in TokenRecord
      BY <1>t DEF Session
    <3>2. /\ Unread(t, x.login) \in Nat /\ Unread(t, x.login)' \in Nat
          /\ Unread(t, x.login) <= Unread(t, x.login)'
      BY <2>1, <1>t DEF MissesAnswer, Unread
    <3> QED BY <2>1, <2>4, <3>1, <3>2 DEF Backed, TokenRecord
  <2>5. SessionsBacked(t)'
    <3>1. refresh[t].for \in Session
      BY <2>1 DEF TypeInv, CarriesItsSubject
    <3> QED BY <2>1, <2>4, <3>1, <1>t DEF TokenInv, SessionsBacked
  <2>6. AnswersFit(t)'
    BY <2>1, <2>2 DEF TokenInv, AnswersFit, Untouched
  <2> QED BY <2>3, <2>5, <2>6 DEF TokenInv
<1> QED
  BY <1>1, <1>2, <1>3, <1>4, <1>5, <1>6, <1>7, <1>8, <1>9, <1>10, <1>11, <1>12, <1>13, <1>14,
     <1>15, <1>16, <1>17, <1>18
     DEF Next, TabStep, CallbackNet, CallbackStep, RefreshNet, RefreshStep, UserStep

LEMMA TokensHold == ASSUME NEW u \in Tabs, Tabs = {u} PROVE Spec => []TokenInv(u)
<1>1. Init => TokenInv(u)
  BY InitTokens
<1>2. TypeInv /\ LoginStateInv /\ TokenInv(u) /\ [Next]_vars => TokenInv(u)'
  BY NextTokens
<1> QED BY <1>1, <1>2, TypesHold, LoginStateHolds, PTL DEF Spec

(* A tab on its own is not signed out for an answer it missed, up to       *)
(* MaxReuse of them: it loses a live session only to its own sign-out, to  *)
(* an error answer that is not about its token, or to the refresh of an    *)
(* earlier login.  For any refresh-token policy and MaxReuse of the realm, *)
(* any number of logins, refreshes, sign-outs and failures                 *)
(* (client.ts:117-146).                                                    *)
THEOREM OneTabKeepsItsSession ==
  ASSUME NEW u \in Tabs, Tabs = {u} PROVE Spec => NoSpuriousSignOut
<1> DEFINE Excused == session # None /\ session' = None /\ session.login \in live =>
              \/ lost > MaxReuse
              \/ \E t \in Tabs : logout[t].pc # "idle" /\ logout'[t].pc = "idle"
              \/ \E t \in Tabs : refresh[t].pc = "erred" /\ refresh'[t].pc = "idle"
              \/ \E t \in Tabs : refresh'[t] # refresh[t] /\ refresh[t].for # session
<1>1. TypeInv /\ TokenInv(u) /\ [Next]_vars => [Excused]_vars
  <2> SUFFICES ASSUME TypeInv, TokenInv(u), Next, session # None, session' = None,
                      session.login \in live
               PROVE  Excused
    BY DEF vars
  <2>1. CASE RefreshRefused(u)
    <3>1. refresh[u].pc \in {"refused", "erred"} /\ refresh'[u].pc = "idle"
      BY <2>1 DEF RefreshRefused, Idle, TypeInv, TypeOK
    <3>2. refresh[u].pc = "refused" /\ refresh[u].for = session => lost > MaxReuse
      BY <3>1 DEF TokenInv, AnswersFit
    <3> QED BY <3>1, <3>2
  <2>2. CASE LogoutLeave(u)
    BY <2>2 DEF LogoutLeave, NotLeaving, TypeInv, TypeOK
  <2> QED BY <2>1, <2>2, SessionEnds
<1>2. Spec => []TokenInv(u)
  BY TokensHold
<1> QED BY <1>1, <1>2, TypesHold, PTL DEF Spec, NoSpuriousSignOut

-----------------------------------------------------------------------------
(* Where nobody refreshes and nothing is lost the tabs do what they always *)
(* do, so what is proved of the client holds of sign-ins alone.            *)
THEOREM SignInsAreClients == SignInSpec => Spec
<1> DEFINE Some == SsoExpires \/ \E t \in Tabs : SignInStep(t)
<1>1. Some => Next
  <2>1. ASSUME NEW t \in Tabs, SignInStep(t) PROVE TabStep(t)
    BY <2>1 DEF SignInStep, TabStep, Settle, LoginStep, CallbackNet, UserStep
  <2> QED BY <2>1 DEF Next
<1> QED BY <1>1, PTL DEF SignInSpec, Spec
=============================================================================
