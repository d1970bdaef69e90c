# caselaw-auth, specified

TLA+ specifications of [caselaw-auth](../src): the shared sign-in of the Case Law
applications. They are kept beside the code they describe; every definition that
stands for code names its lines in `PROJECT.json` under `map`.

## The system and its parts

| part | code | state it keeps | operations | who it talks to |
|---|---|---|---|---|
| browser client | `packages/caselaw-auth/src/client.ts` | `localStorage`: one session, login states; `sessionStorage`: login states of the tab; per page: the discovery promise | `login`, `handleCallback`, `refresh`, `logout`, `discover` | the provider over `fetch` and by navigation; other tabs through `localStorage` |
| Vue and Svelte adapters | `src/vue.ts`, `src/svelte.ts`, `src/components` | a reactive `status`, `ready`, `session`, `error` | `init`, `handleCallback`, `logout`, `refresh`, `requireRole` | the browser client; the application's route guard |
| server package (TypeScript, Python) | `src/server.ts`, `packages/python` | cached discovery document and signing keys; sealed session cookies in browsers | `verifyToken`, `exchangeCode`, `refreshToken`, `sealSession`, `unsealSession` | the provider; both follow `packages/contract` |
| realm installers | `admin/apply-passwordless-flow.mjs`, `scripts/passwordless-configurator/main.go` | nothing of their own but what a run remembers for its rollback; they change the realm: flow, client, user profile, binding | one run: validate or create, upgrade, bind, roll back | Keycloak's Admin API; administrators in the console |
| container entrypoint | `scripts/keycloak-entrypoint.sh` | two child processes | starts Keycloak and the configurator, terminates the configurator with it | the configurator |
| email identity provider | `providers/email-identity` | Keycloak users | find or create the account of an address | Keycloak's user store |
| cleanup tool | `admin/cleanup-unverified-users.mjs` | - | list, select, delete abandoned accounts | Keycloak's Admin API |
| identity provider | Keycloak, external | codes, SSO sessions, refresh tokens, the realm | - | everything above |

What is hard, part by part, and what makes each correct:

* **Browser client.** JavaScript interleaves at every `await`, tabs share
  `localStorage`, a navigation destroys whatever was running, answers get lost. A
  refresh reads the session before two awaits and writes it after them; a sign-out
  must not be undone, nor torn down before its navigation; a login state must be
  good for one callback only and survive the other tabs; refresh tokens rotate.
* **Adapters.** Their state follows the client's answers after further awaits, so it
  can contradict storage, and errors must not leave a page loading for ever.
* **Server package.** Concurrent requests share a key cache with one forced retry
  while the realm rotates its keys; two languages have to draw the same boundaries.
* **Installers.** A run is some thirty calls to a shared realm, any of which may fail,
  lose its answer or be the last one before the process is killed; runs repeat and
  may overlap; administrators edit the same objects. Sign-in must be switched last,
  a rollback must take away what the run made and nothing else, and a rerun must be
  safe.
* **Accounts.** Concurrent sign-ins create accounts while a tool that selected its
  victims earlier deletes them.

## Modules

| module | what it is |
|---|---|
| `IdentityProvider` | Keycloak as the client meets it (external): `codes`, SSO sessions (`live`), refresh tokens with the realm's rotation and `refreshTokenMaxReuse`, as operators that actions of the client's module use |
| `OidcClient` | the browser client in every tab, the browser's navigation, and the network between client and provider; extends `IdentityProvider` |
| `OidcClientProofs` | its theorems |
| `AuthAdapter` | the Vue and Svelte adapters, with the components that show and offer signing in and out, composed with the client: extends `OidcClient` |
| `AuthAdapterProofs` | its theorems: that it implements `OidcClient`, and what a page shows |
| `PasswordlessInstaller` | both installers, run any number of times, one after the other or overlapping, against one realm; and the checker's assertions, as what *installed* means |
| `PasswordlessInstallerProofs` | the theorems about runs that may overlap |
| `InstallerSequenceProofs` | the theorems about runs in turn |
| `VerifierContract` | abstract: what the contract of the server packages promises of verifying tokens, and the realm's key rotation |
| `TokenVerifier` | `verifyToken` of the TypeScript package, by interleaved requests that share the key cache; instantiates `VerifierContract` and implements it |
| `TokenVerifierProofs` | its theorems, the refinement among them |
| `PythonVerifier` | `verify_token` of the Python package, by threads that share the discovery document and the key client; instantiates `VerifierContract` and implements it with less patience |
| `PythonVerifierProofs` | its theorems, the refinement among them |
| `ServerSession` | sealed session cookies and the times in a token, as operators, the TypeScript ones (`Ts`) beside the Python ones (`Py`) |
| `ServerSessionProofs` | where the two agree, and where they do not |
| `UserDirectory` | the realm's users: sign-ins that find or create an account, the cleanup tool, an administrator |
| `UserDirectoryProofs` | its theorems |
| `MCOidcClient`, `MCAuthAdapter`, `MCPasswordlessInstaller`, `MCPythonVerifier`, `MCUserDirectory` | what TLC runs: the symmetry sets |
| `MCTokenVerifier` | the same, and assumptions that make TLC evaluate `ServerSession` on small inputs |

### OidcClient

An action is the code between two awaits. For an operation `x`, `xStart` is the code
up to its first await (always `discover()`), `xSend` the code from there to its
`fetch`, and `xDone`, `xThrows`, `xRefused` the continuations. The variables `login`,
`callback`, `refresh` and `logout` hold what the closure of the operation in flight
remembers: the session read at the start of `refresh()` is `refresh[t].for`, whether
`logout()` had an ID token is `logout[t].hint`. `discovery[t]` is what the memoised
promise of the page settled to. The provider takes a request (`CodeRedeemed`,
`TokenRotated`, ...) in a step of its own, so that an answer can be delivered late, be
lost (`LoseRefresh`) or go to a page that is gone (`Unload`, `Open`). A refresh that is not
answered with tokens is one of two things the client does not tell apart (`client.ts:134`): the provider
refuses the token (`TokenRefused`), or the answer is an error that says nothing of it, a 429 or a 5xx
(`RefreshErrs`, one of the failures). `RefreshRefused` clears the session for both.

A login is named by its `state`, and a session by its login and the number of its
refresh token. Abstractions, all on data: PKCE and the nonce always match, tokens are
otherwise opaque, `expiresAt` is not modelled (a refresh may start at any time, so
`shouldRefresh` is covered whatever the clock says), a stored session is always JSON.
A callback URL with an `error`, or without `code` or `state`, throws before it touches
any state: it is a step of the adapter (`CallbackDenied`), not of the client. A tab runs at most one operation of each kind at a time;
the operations of different kinds, and of all tabs, interleave freely, and a second
`handleCallback()` while one is in flight is `CallbackUnknown`, which is what it finds.

`lost`, `taken`, `wiped` and `signOut` are history: no action's guard reads them.

### AuthAdapter

The continuation of an adapter's call runs in the turn in which the client's promise settles, so
each action is one of the client's together with what the adapter does about it: `Refreshed` is
`RefreshDone` or `RefreshRefused` with the reactive state that follows. `view[t]` is that state
(`status`, `ready`, `session`, `error`), `caller[t]` whether `init()` or `refresh()` awaits the
client's refresh, and `page[t]` which components are mounted, with the error `CallbackView` shows.
`framework[t]` is what the application of a tab is written with. The two adapters differ where the
definitions say so: Svelte's `setSession` and `setError` replace the whole state, Vue's leave
`error`; `svelte.ts` catches what `handleCallback()` throws, `vue.ts` leaves it to `CallbackView`.
`Gate` and `Spinning` are what `AuthGate` and `CallbackView` render; the latter spins until it has an error, so also after
it has signed in, for as long as the host does not navigate. A user can only click what is
shown: `LoginClicked` needs a gate that offers it or a callback that failed, `LogoutClicked` a
session in view. A document that is unloaded takes its adapter with it (`Forget`).

Taken from the source and worth knowing: nothing listens to the `storage` event, so a page shows
what another tab changed only after an operation of its own, which is why `ViewAgrees` is about the
page of a single tab. An application of Svelte is given the components of the Vue package. The package's README (line
184) says that `useAuthInit` "restores the session, or completes a callback"; `init()` restores
only, and completing is `CallbackView`'s, as modelled.

### PasswordlessInstaller

`pc[r]` is the Admin API call that run `r` makes next, `mem[r]` what it remembers for its
rollback (`createdFlowId`, `createdClientId`, `originalUserProfile`, `legacyMethods`,
`methodsChanged`). Every call may be `Rejected` (no effect), `Lost` (its effect happens,
its answer does not come), and the run may `Die` before it. `GoRuns` are runs of
`main.go`, which differs from the CLI in one check (`VerifyProfile`).

The flow with the installers' alias is a record: the run that created it, how many of
the calls that build it were made, and the requirements of its two methods. The user
profile is the state of its name attributes, of the provenance marker, and the number
of edits administrators saved, which make of it anything it can be: the names the stock profile requires again,
the marker gone, or a requirement of their own. The realm's binding, code lifespan and registration flag
are written by one PUT and are one Boolean, `bound`. The `GET`s of one validation are one
step. A provider that is missing, an estate client that is unsafe and an admin token that
expires are rejected calls.

`Installed` is what the read-only checker, `check-passwordless.mjs`, asserts of a realm (`CheckBinding`,
`CheckProfile`, `CheckFlow`, `CheckClients`): a realm after a successful run is one its own checker passes,
unless an administrator has edited the profile since.

A run whose binding call takes effect and whose answer is lost rolls back everything but the binding,
so a run that reports failure has switched the realm, although `keycloak-entrypoint.sh:31` speaks of
the "previous browser flow". Keycloak refuses to delete a flow that is bound, which the
model does not know; so no property is stated of what is left, and the case is under `hazards`.

### VerifierContract and TokenVerifier

`VerifierContract` says what a caller may rely on (`contract.json:54-70`): a token is
accepted only if nothing is wrong with it and its key was published by the realm; it is
refused as invalid only if something is wrong with it, or its key is not a *constant* one,
published since before the verifier started; and for a good key "unavailable" takes two
failed round trips. `verdict[r]` is what the call returned or threw. The realm publishes
new keys and retires others at any time; a retired key does not come back.

`TokenVerifier` has the requests at their awaits. `Begin` is `verifyToken` up to the first
one, and to its end when the cache is fresh; `Discovered`, `Certs`, `Arrives` and `FetchFails`
are the two round trips, with the provider's reading of its keys (`Certs`) apart from the
arrival of the answer (`Arrives`), so that an old key set can arrive after, and replace, a newer
one. `Judge` is `verifyOnce` from there on, `Failed` the `catch` around it with its one retry.
`discovery`, `jwks` and `fresh` are what the requests share.

Abstractions: a token is the key it names, the algorithm it asks for, and what is wrong with
it, if anything; `claims` stands for every claim `verifyOnce` looks at. A forged token's
signature may be one that cannot be decoded at all, which is a plain error and not a
`TokenInvalid`. The order of a key set matters only for `keys[0]`, so a set has a `first`. A realm
without any key is left out. The cache may expire at any time (`CacheExpires`). `Requests` are the
calls open at once; each may be used again. `constant`, `ever` and `blips` (up to 2) are history.

How many failed round trips a good token must survive is a constant of the contract, `Patience`: 2 for
`TokenVerifier`.

### PythonVerifier

Requests are threads of one process, which FastAPI and WSGI servers make of plain functions, and may be
interrupted between any two reads of what they share: `_jwks_client()` reads `self._jwks` three times
(`Begin`, `Age`, `Take`), and another thread may have set it to `None` in between (`Reset`), which ends a
call with a `TypeError` (`escaped`). A request that finds no usable client makes one (`Create`) and puts it into the `cell`;
the key sets are the clients' own (`cached[c]`). `Lookup`, `Certs`, `Arrives`, `FetchFails` are
`get_signing_key_from_jwt()` of `PyJWKClient`, which is external and modelled after PyJWT from 2.8 on:
a key id that is not in the set has the set fetched once more before it is an error. `Failed` is the `except`
clause with its one retry; a failed discovery is an `AuthBackendUnavailable`, which the clause does not catch, so it is
not retried. Nor does it catch everything a key fetch ends with: PyJWT wraps a `URLError` and a timeout, but not a connection
that breaks while the answer is read (`RemoteDisconnected`, `ConnectionResetError`, `IncompleteRead`), and its `PyJWKSetError`, for a
set it has no use for, is no `PyJWKClientError` (`NoSigningKey`). Such a call ends at once, with no reset and no retry
(`Escape`); `escaped` says with which kind of error, `TypeError` or `FetchError`. `Contract` is `VerifierContract` with `Patience` 0, which leaves open when a call may
end without a verdict; `GivesUpForAReason` says precisely when it does. `disturbed` is history: another attempt has failed, and reset the cell, since this thread last read it.

The two packages, side by side, as the models have them: only TypeScript takes ES384; only Python asks for
a `sub`; an unknown key id ends as "invalid" in TypeScript (after trying the first key) and as
"unavailable" in Python (after fetching again); and TypeScript retries a failed discovery, Python does not, although
`server.py:66` says "after one retry".

### ServerSession

`Now` counts microseconds, as `time.time()` can tell them; `Date.now()` floors it to milliseconds, `Floored` and `IntTime` to
seconds. A cookie's value is the sequence of the parts between its dots; a part is a session's JSON, the
MAC of a secret over a part, empty, or text that nobody sealed, told apart by what Python can do with it: `hmac.compare_digest()` raises
for a signature that is not ASCII, and `encode()` for a payload with a lone surrogate (`Foreign`), so that `UnsealPy` raises
where `UnsealTs` reads nothing. That both languages write the same bytes for a session is the contract's
(`contract.json:13-18`). `Size` is the length in bytes that sealing refuses above 4096. `TimelyTs` and `TimelyPy` are
what each makes of `exp`, `nbf` and `iat`, each a set of one number or none.

### UserDirectory

`users[id]` is Keycloak's store, where a username is taken once and an id is never used
again. A sign-in is at the email form, between the lookup and the insertion of
`EmailIdentityAuthenticator.action` (`Insert`, with its duplicate handler `Duplicate` and `LookAgain`),
at the code by email (`EnterCode`, the external authenticator that follows it), or refused.
The run of the tool is at its next Admin API call: `List` (a page by offset), `Detail`
(the exact record and its marker), `Credentials`, `Delete`; any of them may fail. `isPendingUserShape` is
applied to what the page showed, when it was read. What an administrator
may make of an account is one of `Is`; the names, links and required actions that
`isPendingUserShape` tests one by one have one effect and one value. `old` is the age against the
retention threshold, `cutoff` the accounts beyond it when the run began.
`run.abandoned`, `quiet` and `late` are history; `late` are the accounts that were changed after the tool had read
what changed of them: a candidate is not read again, and one that is listed only for its marker and credentials.

## What is checked

Bounds are constants: every run is exhaustive within them. Tabs, logins, threads, key clients, sign-ins and
runs of the same installer are interchangeable and are reduced by symmetry, but not in `adapter_page` and
`verifier_contract`, which check liveness.

| run | bounds | properties |
|---|---|---|
| `client_signin` | 2 tabs, 2 logins, signed out, 1 logout, no refresh token | `TypeOK`, `HandledStateIsGone`, `ExchangesAreOwnLogins`, `PendingLoginCanFinish` |
| `adapter_page` | 1 tab of either framework, 2 logins (one signed in), 2 refreshes with rotation and reuse 0, 1 logout, 1 failure | `AdapterTypeOK`, `ViewAgrees`, `CleanSignOutHolds`, `SignOutIsNotCancelled`, `NoSpuriousSignOut`, `SessionLossHasACause`, and `ComesToRest` under fairness |
| `installer_sequence` | 2 runs in turn (1 CLI, 1 container, in either order), estate mode, 1 rejected call, 1 lost answer, 1 death, 1 edit at any time | `TypeOK`, `DoneMeansInstalled`, `BindIsLast`, `RollbackRestoresProfile`, `CustomProfileIsKept` |
| `installer_overlap` | 3 runs at once, estate mode, 1 rejected call | `BuildsOwnFlow`, `RollbackTakesOwn` |
| `verifier_contract` | 2 requests at once, any number of calls, 2 RSA keys, tokens of both algorithms | `TypeOK`, `KeepsContract`, and `EveryRequestEnds` under fairness; the assumptions about `ServerSession` |
| `python_verifier` | 2 threads, any number of calls, 3 key clients, 1 signing and 1 encryption key | `TypeOK`, `KeepsContract`, `GivesUpForAReason` |
| `directory_cleanup` | 2 addresses, 2 sign-ins at once, 3 accounts in their time, pages of 1 user, 1 administrator's edit, any number of runs | `TypeOK`, `OnlyAbandonedAreDeleted`, `CompleteWhenQuiet`, `RaceIsResolved` |

Why the bounds are enough to matter: two tabs are what every race of the client needs
(one operation of each kind per tab already gives a reader and a writer on each side);
two logins let a tab meet a state that another one overwrote, and a page a new session while a refresh
of the old one is in flight. A reuse of 0 is the hardest for `NoSpuriousSignOut`: one refresh is all a token
allows, and two refreshes are one too many for a page that forgot the first answer. `client_signin` has no
refresh tokens, so its specification `SignInSpec` leaves the steps out that need one. For the installers, two runs in turn are a successful one and one that
fails on what it left, or the reverse (what a rerun does with a realm an earlier flow was left in, `Init` has too); three at once are two that race and one that meets what both left;
two build calls are the shortest build that can be
interrupted in the middle. For the verifier, two requests are one that overtakes another, and two
keys a rotation; for the threads of Python, three key clients are one in the cell and one for each thread,
and the encryption key is the set that has keys but none to sign with. For the users, three accounts are two that fill pages and one that takes
over the address of a deleted one, and a page of one user makes full last pages the rule. The proofs below have no bounds.

`NoSpuriousSignOut` is about a tab on its own, and allows one thing a user may find
surprising: a refresh that is refused after a login or a sign-out of the same page has ended clears
whatever session is stored by then, not the one it was about (`client.ts:135`). The property
says so by the session the refresh carries; whether that session has expired does not
settle it, since a second sign-out can end the login of the first session while its refresh is on the way. And it names the non-ok
answer that is not about the token as a cause of its own: one 429 or 5xx costs a live session (`client.ts:134-137`). With several tabs no
bound on lost answers helps: with reuse 1, one tab may refresh twice while the other's first
refresh is on its way, and the session both share is lost without any failure.

`DoneMeansInstalled` assumes runs that do not overlap:
with overlapping runs a rollback can delete a flow or client that another run had merely
validated, and no document promises otherwise. `RollbackRestoresProfile` is checked and proved for runs in turn,
and excepts edits that administrators save after the run has read the profile, for the profile is written back whole, and a rollback whose own PUT
fails. `CustomProfileIsKept` is about requirements of the administrators' own and excepts the same edits: one saved between a run's read and
its PUT is lost, although `docs/OTP_SETUP.md:480-483` says that it is refused. Putting the stock profile's required names back, or removing the marker, is
no such requirement: the next run changes it again, by design (`apply-passwordless-flow.mjs:250-282`).

`ComesToRest` does not say that every spinner ends: `CallbackView` spins until it has an error, so a host that does not navigate
after signing in keeps it. What is checked is that whatever still spins has finished its work.

`KeepsContract` does not ask that a bad token be *told apart* from a transport failure in every
case, which `contract.json:67` does: a token whose key does not fit its algorithm, or whose signature
cannot be decoded, ends as a plain error in the code. The abstract specification allows it.

`ViewAgrees` is about a page that is not leaving: during a sign-out the session is left in view on purpose
(`vue.ts:84-88`), until the document is gone. `SignOutIsNotCancelled` excepts a page on which something
failed, where `CallbackView` offers "Try again" whatever else is going on.

`docs/OTP_OPERATIONS.md:106-108` says that the cleanup "never deletes a user with a credential or name". The code keeps that for what it has
read, and `OnlyAbandonedAreDeleted` says so: what is deleted was abandoned when the run began and still is, but for the accounts changed
after the tool had read them (`late`). For those the sentence is not true of the code: a user who signs in, or is given a name or a
credential, between the reads and the DELETE (`cleanup-unverified-users.mjs:10-24`) is deleted, and the model has these behaviours; without the
exception TLC finds them. No run of its own expects this violation; the property, its comment and the hazard state it. `CompleteWhenQuiet` needs that nobody
else changes the users during the run, because a page by offset can skip one.

Installer runs end, so their configurations say `CHECK_DEADLOCK FALSE`; the client never
stops (a page can always be opened), so its configurations check for deadlock, and so do those of the verifier and of the users.

### Fairness

Two runs need it. In `adapter_page`, `AdapterFairSpec` assumes, for each tab, that a fetch settles (with
an answer or with an error), that the continuation of a settled promise runs, and that a
navigation that was assigned takes place; these are the browser's event loop. Nothing is assumed of a
login that was started, nor of users: they may never come back from the provider, never sign out, and open
another page at any time, which also ends a sign-out in progress. In `verifier_contract`, it assumes of each
request that a step of its own that stays possible is taken: a fetch is answered or fails in
the end. (`server.ts` sets no timeout of its own; that a fetch settles is the runtime's.) Nothing is assumed of the
cache's age, of the realm, or of the success of any fetch. The Python verifier is checked for safety only: a thread that the
operating system never runs again is outside the code.

### Where code and documentation disagree

Five runs expect a violation; each checks one sentence of the repository.

| run | property | what happens |
|---|---|---|
| `client_revived` | `SignedOutStaysSignedOut` | a refresh answered after the sign-out stores the session again (`client.ts:144`) |
| `client_retry` | `RetryAsksAgain` | a rejected discovery promise is kept, so "Try again" cannot succeed before a reload (`client.ts:223`) |
| `installer_rerun` | `RefusesOnlyDrift` | a run killed while building leaves a flow that no rerun accepts |
| `verifier_rotation` | `GenuineIsNotRefused` | a token whose key id is not in the cached set is tried against the first cached key, refused as invalid and not retried (`server.ts:338`), until the cache expires |
| `python_race` | `NoTypeErrors` | a thread whose key fetch failed sets `_jwks` to `None` between another thread's test of it and its use: the other call, for a good token, ends with a `TypeError` (`server.py:268`) |

## What is proved

For every set of tabs, logins, runs, requests, threads, keys and accounts, and every bound, by TLAPS:

`OidcClientProofs`
: `TypeCorrect`, by the invariant `TypeInv`: `TypeOK` together with *an operation that is
  in flight carries its subject* (`CarriesItsSubject`), without which neither the session that
  `RefreshDone` stores nor the code that is redeemed need have a type.
: `CleanSignOut`, by `CleanSignOutInv`: after a clean sign-out there is no session, and
  no refresh is in flight that could bring one back; `RefreshStart` needs a session to start.
: `HandledState`, `ExchangesAreOwn` and `PendingLogin`, by one invariant `LoginStateInv`:
  every login state anywhere in the browser, and every departure of a tab, is of a login
  that was started, and a tab's departure is not one of the states it has handled.
: `LossHasCause`, an action property: by cases on the step, only `LogoutLeave` and
  `RefreshRefused`, after an answer that was not ok, remove a session.
: `OneTabKeepsItsSession`, for a lone tab and any rotation policy and `MaxReuse`, by `TokenInv`: the provider would still take
  the stored session and the one a refresh carries (`SessionsBacked`: its refresh token is newer than the last one
  used, or is that one and was used at most as often as answers were lost since, counting an answer that is
  on its way); the answer on its way is newer than what was used (`AnswersFit`); and a login nobody
  has seen the code of has no tokens yet (`FreshLogins`). Reading `lost` as a credit is what makes it inductive: a
  refused refresh of a live session has then used up `MaxReuse`. An answer that is not ok and not about the token costs the
  session too; the property excepts it by name.
: `SignInsAreClients`: the smaller specification that `client_signin` runs is one of `OidcClient`'s behaviours,
  so these theorems are about it too.

`AuthAdapterProofs`
: `AdapterImplementsClient`: every step of an application with the adapters is one of `OidcClient` or leaves
  its variables alone, so all that is proved of the client holds for the applications. The refinement
  mapping is the identity.
: `AdapterTypeCorrect` and `ViewIsTrue`, by `AdapterInv`: a call awaits a refresh exactly while one is in
  flight (`Awaited`), `status` says what `session` holds (`StatusAgrees`), and a document that is gone
  shows and runs nothing (`AwayIsQuiet`); without the last, an answer could arrive at a page that does not
  know of the session it replaces. `ViewAgrees` is itself a part of the invariant.
: `AdapterSignOutIsFinal`, `AdapterLossHasCause` and `AdapterKeepsItsSession` are the client's `CleanSignOut`, `LossHasCause`
  and `OneTabKeepsItsSession`, carried over by the refinement to the applications that `adapter_page` runs.
: `SignOutNotCancelled`, by `AdapterInv`, the client's invariants and `PageInv`: on a page nothing failed on, an error is shown
  only for a callback URL that was handled before. Since a handled state is in no storage (`HandledStateIsGone`), no callback
  succeeds and clears that error; a page on its own that shows nobody
  signed in, and no error, has no session stored (`OffersTruly`): it offers to sign in only where there is no session a sign-out
  could be ending.

`PasswordlessInstallerProofs`
: `TypeCorrect`, `BuildsOwn` and `RollbackIsOwn`, by one invariant `InstallerInv`: the flow a
  run builds or remembers is its own (`OwnFlow`), the client it remembers is its own
  (`OwnClient`), and a run that upgrades knows the old methods (`OldFlowMigrates`). What makes
  it inductive is that Keycloak refuses a second flow or client with the same name, and
  that a rollback deletes by id.
: `CustomKept`, for runs that may overlap: by `RestoreInv` (what a run puts, or puts back, is or comes from the profile it read, and it found that not
  to be custom), and since no other call writes the profile.

`InstallerSequenceProofs`
: `DoneIsInstalled`, `BoundLast` and `RollbackRestores`, for runs in turn (`~Concurrent`), by one invariant
  `SeqInv` beside `InstallerInv`: at most one run is under way (`OneAtATime`) and one that has not begun
  remembers nothing (`IdleIsBlank`); what a run has got to by its program counter is in the realm; and
  once a run has succeeded (`AfterDone`) the realm is installed and every later run is `Quiet`: it has
  created and changed nothing, so its rollback has nothing to take away. This last part is why a failed rerun is safe. For the profile,
  `Restorable`: while a run at work has none to restore, the profile is the one it read, or an administrator has saved it since.
: `RerunsAreSafe`, which bounds the finding of `installer_rerun`: `RefusesOnlyDrift` holds of every behaviour in which no call fails
  and no run dies between the POST of a flow and the check of what was built (`FillsUndisturbed`), whatever fails
  elsewhere. By `NoneHalfMade`: a flow made by a run is whole, or that run is still filling it, and then
  no other one is under way to refuse it. So the thirty calls have one stretch that is not safe to interrupt.

`TokenVerifierProofs`
: `TypeCorrect` and `Refinement`, by one invariant `IInv`: besides `TypeOK`, the constant keys are
  published and were always (`RealmInv`); every key set, cached or on its way, holds all constant keys and
  only keys that were published (`SetsInv`), which is why it does not matter whose answer is stored
  last; and a request at its second attempt whose token is good has seen a failed round trip
  (`RequestInv`). The refinement mapping is the identity on the variables of the contract. From `IInv`,
  each step of the verifier is a step of `VerifierContract` or leaves its variables unchanged: key
  sets that hold the constant keys judge their tokens right, and a second failure is counted.
: `RefusalsNeedANewKey`, which bounds the finding of `verifier_rotation`: while the realm adds no key, and whichever it
  retires, `GenuineIsNotRefused` holds. Every published key is then constant (`NoneNewer`), so that the contract itself forbids the
  refusal, and the refinement says the rest.

`PythonVerifierProofs`
: `ThreadsTypeCorrect`, `ThreadsKeepContract` (the refinement of `VerifierContract`, by the identity) and
  `ThreadsGiveUpForAReason`, by one invariant `IInv`: as for `TokenVerifier`, any key set in a client's cache or on its way
  holds the constant keys and only published ones (`Sound`), so it does not matter which client a thread finds; and a
  thread that has seen the cell full and finds it empty has been disturbed by another's failed attempt (`RequestInv`).
: `OneAtATimeIsEnough`, which bounds the finding of `python_race`: where calls do not overlap, as under a lock, no good token's call
  ends with a `TypeError`. `IInv` says that such an end means *disturbed*, and nobody is while calls are alone. The fetch errors that line 312 does not
  catch can end a lone call too; `ThreadsGiveUpForAReason` names them.

`UserDirectoryProofs`
: `DirectoryTypeCorrect`, `DeletesOnlyAbandoned` and `RacesAreResolved`, by `UsersInv`: usernames are unique
  and ids used in order (`DirectoryOK`); a sign-in beyond the insertion has met an account (`SignInsOK`); and whatever the run has
  listed or selected was, if it still has the shape, among the abandoned when the run began (`RunSound`). The shape can only be
  left and not be entered by an account that is old enough, which is why looking at pages that shift deletes nothing else. `DeletesOnlyAbandoned`
  also needs `ReadInv`: whatever is listed or a candidate, and still there, is as the tool read it or is `late` (`Unmade`: not verified, and
  nothing made of it), and what was abandoned at the start keeps its marker and its age.
: `QuietRunsAreComplete`: a run that nobody disturbs misses no abandoned account, for any number of accounts and any page size. By
  `NoneIsMissed`: each is still ahead of the run in the order of the list, or listed, or a candidate, and in the end a candidate or gone.
  That none is passed over at the border of two pages, or lies behind the last, is a counting argument in place of an induction over
  pages: the ranks below that of an account are all taken (`RanksBelow`: an injection between finite sets of one size), so
  a page with fewer accounts than `PageSize` is the last (`LastPageIsLast`).

`ServerSessionProofs`
: `UnsealAlike`: both packages read the same session from every value with at most one dot that is not `Foreign`, at every moment; for one that
  is, Python raises and TypeScript reads nothing; of more dots Python reads nothing, and TypeScript what is before the second. `SessionHolds`: a session either made and sealed is read by both
  until the second of its expiry, so for more than `sessionTtlSeconds - 1` and at most `sessionTtlSeconds`. `TimesDiffer`: a token timely for Python is
  so for TypeScript, and the reverse fails only for tokens from the future (`nbf` within TypeScript's leeway of 60 s, or `iat`).
  These are theorems about operators; `MCTokenVerifier` has TLC evaluate instances of them.

The assumptions are the named `ASSUME`s of the modules: absent values differ from present
ones (and, in `OidcClient`, from the two states of a settled discovery), bounds are natural numbers, and a build makes at least one call; `VerifierContract` and
`TokenVerifier` assume nothing. `PythonVerifier` assumes that a key signs or encrypts and does not do both, and that there is
always another key client for a thread that has none (`ClientsAssumption`; three for two threads).

Only model-checked: `ComesToRest` and `EveryRequestEnds`, since liveness under fairness is outside the prover; that the five
violations happen, of course; and `RetryAsksAgain` and `SignedOutStaysSignedOut`, for which no theorem says when they do hold beyond
`CleanSignOut` (a sign-out is final if no refresh was on its way). Every other property of a passing run is a theorem.

## Plan

The project was built in this order: the browser client, the installers, the TypeScript verifier and its
contract, the users; then the adapters over the client, the Python verifier against the same contract, the session
cookie, the checker's assertions as the meaning of *installed*, and the proofs that go with each.

Left for whoever continues:

1. An abstract specification of an installer, *activation*: a realm switches from its previous to the new
   sign-in at most once, and only complete. Its content is `BindIsLast` and `DoneMeansInstalled`, which are proved;
   as a specification it would also say what a run that fails may leave, for which Keycloak's treatment of
   bound flows must be modelled first.
2. A second refresh in one document (`requireRole()`, `vue.ts:103`), for which `refresh[t]` must become a set.

## Not modelled

* `exchangeCode`, `refreshToken`, `authorizationUrl`, `endSessionUrl` of the server packages: each is one request or one string,
  with no state of its own. Roles, cookie attributes, PKCE values and the bytes of base64url and JSON: data no property is about.
* The clock of `shouldRefresh`, the `error` parameters of a callback URL beyond that it fails, a stored session that is not JSON.
* A second refresh of the same document while one is in flight (see the plan); two tabs that refresh at once are modelled.
* Process and signal handling of the container's entrypoint: its effect, a run that dies between any two calls, is `Die`.
* The checker's assertions on providers, which no modelled step removes, and on SMTP, which no installer sets.
* Themes, legal links, the realm export, the argument parsing of the CLI,
  container build and CI have no state that changes, or are presentation.
