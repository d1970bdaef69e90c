------------------------ MODULE PasswordlessInstaller ------------------------
(***************************************************************************)
(* The installer of the email-OTP browser flow.  It exists twice with the  *)
(* same control: packages/caselaw-auth/admin/apply-passwordless-flow.mjs,  *)
(* run by hand, and scripts/passwordless-configurator/main.go, started by  *)
(* the container's entrypoint.  A run is one invocation of either.  Each   *)
(* call of Keycloak's Admin API is a step; a call may be rejected, or take *)
(* effect and lose its answer; a run may die at any point.  The realm is a *)
(* server's state, shared by every run and by administrators.              *)
(*                                                                         *)
(* Abstracted: the flow is its alias, the run that created it, how many of *)
(* the calls that build it were made, and the requirements of its two      *)
(* methods (OTP, magic link).  The GETs of one validation are one step.  A *)
(* missing provider and an unsafe estate client are rejected calls.        *)
(***************************************************************************)
EXTENDS Naturals

CONSTANTS
    Runs,           \* invocations of an installer, of both kinds
    GoRuns,         \* those that are main.go
    None,
    EstateMode,     \* also create and validate the estate's clients
    Concurrent,     \* runs may overlap
    BuildCalls,     \* POST and PUT calls that fill a new flow
    MaxRejected,    \* bound: calls that fail without an effect
    MaxLost,        \* bound: calls whose effect happens and whose answer is lost
    MaxDeaths,      \* bound: runs that die (SIGTERM, container stop)
    MaxEdits        \* bound: edits by an administrator

ASSUME RunsAssumption == None \notin Runs /\ "before" \notin Runs /\ GoRuns \subseteq Runs
ASSUME BoundsAssumption == /\ EstateMode \in BOOLEAN /\ Concurrent \in BOOLEAN
                           /\ BuildCalls \in Nat \ {0}
                           /\ MaxRejected \in Nat /\ MaxLost \in Nat
                           /\ MaxDeaths \in Nat /\ MaxEdits \in Nat

VARIABLES
    flow,           \* the flow with our alias, or None
    client,         \* the citations-api client, or None
    profile,        \* the realm's user-profile configuration
    bound,          \* the realm's binding, code lifespan and registration are ours
    pc,             \* pc[r]: the call that run r makes next
    mem,            \* mem[r]: what run r remembers for its rollback
    faults          \* how much of each bound is used

realm == <<flow, client, profile, bound>>
vars  == <<flow, client, profile, bound, pc, mem, faults>>

Requirements == {"REQUIRED", "ALTERNATIVE", "DISABLED"}
Current == <<"REQUIRED", "DISABLED">>           \* email OTP only
Legacy  == <<"ALTERNATIVE", "ALTERNATIVE">>     \* the formerly shipped two methods

Flow    == [by : Runs \cup {"before"}, built : 0..BuildCalls,
            methods : Requirements \X Requirements]
Client  == [by : Runs \cup {"before"}, safe : BOOLEAN]
Profile == [names : {"required", "optional", "custom"},
            marker : {"absent", "admin", "custom"}, edits : 0..MaxEdits]

Forward  == {"look", "validate", "postFlow", "findFlow", "build", "check", "client",
             "postClient", "findClient", "readProfile", "putProfile", "verifyProfile",
             "methods1", "methods2", "checkMethods", "bind", "verifyBind"}
Backward == {"undo1", "undo2", "undoFlow", "undoClient", "undoProfile"}
Over     == {"done", "failed", "dead"}

Blank == [flow |-> None, client |-> FALSE, read |-> None, original |-> None,
          legacy |-> None, changed |-> FALSE]

Memory  == [flow : Runs \cup {"before", None}, client : BOOLEAN,
            read : Profile \cup {None}, original : Profile \cup {None},
            legacy : (Requirements \X Requirements) \cup {None}, changed : BOOLEAN]
Faults  == [rejected : Nat, lost : Nat, deaths : Nat]

ASSUME NoneAssumption == None \notin Flow \cup Client \cup Profile \cup (Requirements \X Requirements)

TypeOK ==
    /\ flow \in Flow \cup {None} /\ client \in Client \cup {None}
    /\ profile \in Profile /\ bound \in BOOLEAN
    /\ pc \in [Runs -> {"idle"} \cup Forward \cup Backward \cup Over]
    /\ mem \in [Runs -> Memory]
    /\ faults \in Faults

(* A realm before any installer: with or without an earlier flow, intact   *)
(* or drifted, and the profile Keycloak ships or one an admin changed.     *)
Init ==
    /\ flow \in {None} \cup
          [by : {"before"}, built : {BuildCalls}, methods : {Current, Legacy, <<"REQUIRED", "REQUIRED">>}]
    /\ client \in {None} \cup [by : {"before"}, safe : BOOLEAN]
    /\ profile \in [names : {"required", "optional", "custom"},
                    marker : {"absent", "admin", "custom"}, edits : {0}]
    /\ bound \in {FALSE, flow # None}
    /\ pc = [r \in Runs |-> "idle"]
    /\ mem = [r \in Runs |-> Blank]
    /\ faults = [rejected |-> 0, lost |-> 0, deaths |-> 0]

-----------------------------------------------------------------------------
Go(r, next) == pc' = [pc EXCEPT ![r] = next]
Throw(r)    == Go(r, "undo1")
Test(r, ok, next) == Go(r, IF ok THEN next ELSE "undo1")

Intact(methods) == flow # None /\ flow.built = BuildCalls /\ flow.methods = methods
AfterFlow(r)    == IF EstateMode THEN "client" ELSE "readProfile"
AfterProfile_Unmigrated(r) == "bind"
AfterProfile(r) == IF mem[r].legacy = None THEN "bind" ELSE "methods1"

Start(r) ==
    /\ pc[r] = "idle"
    /\ Concurrent \/ \A o \in Runs : pc[o] \in {"idle"} \cup Over
    /\ Go(r, "look")
    /\ UNCHANGED <<realm, mem, faults>>

(* GET flows: validate what is there, or create it.                        *)
Look(r) ==
    /\ pc[r] = "look"
    /\ Go(r, IF flow = None THEN "postFlow" ELSE "validate")
    /\ UNCHANGED <<realm, mem, faults>>

Validate(r) ==
    /\ pc[r] = "validate"
    /\ Test(r, Intact(Current) \/ Intact(Legacy), AfterFlow(r))
    /\ mem' = [mem EXCEPT ![r].legacy = IF Intact(Legacy) THEN flow.methods ELSE None]
    /\ UNCHANGED <<realm, faults>>

(* Keycloak refuses a second flow with the same alias.                     *)
PostFlowEffect(r) == /\ flow = None
                     /\ flow' = [by |-> r, built |-> 0, methods |-> Current]
                     /\ UNCHANGED <<client, profile, bound>>
PostFlow(r) ==
    /\ pc[r] = "postFlow"
    /\ \/ PostFlowEffect(r) /\ Go(r, "findFlow")
       \/ flow # None /\ Throw(r) /\ UNCHANGED realm
    /\ UNCHANGED <<mem, faults>>

(* Only now does the run know the id that its rollback needs.              *)
FindFlow(r) ==
    /\ pc[r] = "findFlow"
    /\ Test(r, flow # None, "build")
    /\ mem' = [mem EXCEPT ![r].flow = IF flow = None THEN None ELSE flow.by]
    /\ UNCHANGED <<realm, faults>>

(* addExecution, addSubflow, addExecutionConfig: all address the alias.    *)
BuildEffect == /\ flow' = [flow EXCEPT !.built = @ + 1]
               /\ UNCHANGED <<client, profile, bound>>
Build(r) ==
    /\ pc[r] = "build"
    /\ BuildEffect
    /\ Go(r, IF flow.built + 1 = BuildCalls THEN "check" ELSE "build")
    /\ UNCHANGED <<mem, faults>>

Check(r) ==
    /\ pc[r] = "check"
    /\ Test(r, Intact(Current), AfterFlow(r))
    /\ UNCHANGED <<realm, mem, faults>>

-----------------------------------------------------------------------------
(* ensureCitationsApiClient *)
FindExistingClient(r) ==
    /\ pc[r] = "client"
    /\ Go(r, IF client = None THEN "postClient" ELSE IF client.safe THEN "readProfile" ELSE "undo1")
    /\ UNCHANGED <<realm, mem, faults>>

PostClientEffect(r) == /\ client = None
                       /\ client' = [by |-> r, safe |-> TRUE]
                       /\ UNCHANGED <<flow, profile, bound>>
PostClient(r) ==
    /\ pc[r] = "postClient"
    /\ \/ PostClientEffect(r) /\ Go(r, "findClient")
       \/ client # None /\ Throw(r) /\ UNCHANGED realm
    /\ UNCHANGED <<mem, faults>>

(* findClient, then validateEstateClients, which wants the client there.   *)
FindClient(r) ==
    /\ pc[r] = "findClient"
    /\ mem' = [mem EXCEPT ![r].client = client # None]
    /\ Test(r, client # None, "readProfile")
    /\ UNCHANGED <<realm, faults>>

-----------------------------------------------------------------------------
(* ensureNamesOptional: read, modify, write, read again.                   *)
Drifted_NamesOnly(p) == p.names = "custom"
Drifted(p) == p.names = "custom" \/ p.marker = "custom"
Ready(p)   == p.names = "optional" /\ p.marker # "absent"

ReadProfile(r) ==
    /\ pc[r] = "readProfile"
    /\ mem' = [mem EXCEPT ![r].read = profile]
    /\ Go(r, IF Drifted(profile) THEN "undo1"
             ELSE IF Ready(profile) THEN AfterProfile(r) ELSE "putProfile")
    /\ UNCHANGED <<realm, faults>>

Updated(p) == [p EXCEPT !.names = "optional", !.marker = IF @ = "absent" THEN "admin" ELSE @]

PutProfileEffect(r) == /\ profile' = Updated(mem[r].read)
                       /\ UNCHANGED <<flow, client, bound>>
RememberProfile(r) == mem' = [mem EXCEPT ![r].original = mem[r].read]
PutProfile(r) ==
    /\ pc[r] = "putProfile"
    /\ PutProfileEffect(r)
    /\ RememberProfile(r)
    /\ Go(r, "verifyProfile")
    /\ UNCHANGED faults

(* main.go does not look at the marker's permissions here.                 *)
VerifyProfile(r) ==
    /\ pc[r] = "verifyProfile"
    /\ Test(r, /\ profile.names = "optional"
               /\ profile.marker \in (IF r \in GoRuns THEN {"admin", "custom"} ELSE {"admin"}),
            AfterProfile(r))
    /\ UNCHANGED <<realm, mem, faults>>

-----------------------------------------------------------------------------
(* The upgrade of the legacy methods, one PUT each.                        *)
SetMethod(k, requirement) == /\ flow' = [flow EXCEPT !.methods[k] = requirement]
                             /\ UNCHANGED <<client, profile, bound>>
MarkChanged(r) == mem' = [mem EXCEPT ![r].changed = TRUE]
Upgrade1(r) ==
    /\ pc[r] = "methods1"
    /\ MarkChanged(r)
    /\ SetMethod(1, "REQUIRED") /\ Go(r, "methods2")
    /\ UNCHANGED faults

Upgrade2(r) ==
    /\ pc[r] = "methods2"
    /\ SetMethod(2, "DISABLED") /\ Go(r, "checkMethods")
    /\ UNCHANGED <<mem, faults>>

CheckMethods(r) ==
    /\ pc[r] = "checkMethods"
    /\ Test(r, Intact(Current), "bind")
    /\ UNCHANGED <<realm, mem, faults>>

-----------------------------------------------------------------------------
(* PUT realm, then GET realm.  Keycloak cannot bind a flow it has not.     *)
BindEffect(r) == flow # None /\ bound' = TRUE /\ UNCHANGED <<flow, client, profile>>
Bind(r) ==
    /\ pc[r] = "bind"
    /\ \/ BindEffect(r) /\ Go(r, "verifyBind")
       \/ flow = None /\ Throw(r) /\ UNCHANGED realm
    /\ UNCHANGED <<mem, faults>>

VerifyBind(r) ==
    /\ pc[r] = "verifyBind"
    /\ Test(r, bound, "done")
    /\ UNCHANGED <<realm, mem, faults>>

-----------------------------------------------------------------------------
(* The rollback: every call's failure is ignored.                          *)
UndoMethod(r, k, from, next) ==
    /\ pc[r] = from /\ Go(r, next)
    /\ IF mem[r].changed
       THEN SetMethod(k, mem[r].legacy[k]) ELSE UNCHANGED realm
    /\ UNCHANGED <<mem, faults>>

(* DELETE by id; Keycloak keeps a flow that is bound.                      *)
Owns(r) == mem[r].flow # None /\ flow # None /\ flow.by = mem[r].flow
UndoFlow_ByAlias(r) ==
    /\ pc[r] = "undoFlow" /\ Go(r, "undoClient")
    /\ flow' = IF ~bound THEN None ELSE flow
    /\ UNCHANGED <<client, profile, bound, mem, faults>>
UndoFlow(r) ==
    /\ pc[r] = "undoFlow" /\ Go(r, "undoClient")
    /\ flow' = IF Owns(r) /\ ~bound THEN None ELSE flow
    /\ UNCHANGED <<client, profile, bound, mem, faults>>

UndoClient_Unrecorded(r) ==
    /\ pc[r] = "undoClient" /\ Go(r, "undoProfile")
    /\ client' = IF EstateMode THEN None ELSE client
    /\ UNCHANGED <<flow, profile, bound, mem, faults>>
UndoClient(r) ==
    /\ pc[r] = "undoClient" /\ Go(r, "undoProfile")
    /\ client' = IF mem[r].client THEN None ELSE client
    /\ UNCHANGED <<flow, profile, bound, mem, faults>>

UndoProfile_Always(r) ==
    /\ pc[r] = "undoProfile" /\ Go(r, "failed")
    /\ profile' = mem[r].original
    /\ UNCHANGED <<flow, client, bound, mem, faults>>
UndoProfile(r) ==
    /\ pc[r] = "undoProfile" /\ Go(r, "failed")
    /\ profile' = IF mem[r].original # None THEN mem[r].original ELSE profile
    /\ UNCHANGED <<flow, client, bound, mem, faults>>

Rollback(r) == \/ UndoMethod(r, 1, "undo1", "undo2")
               \/ UndoMethod(r, 2, "undo2", "undoFlow")
               \/ UndoFlow(r) \/ UndoClient(r) \/ UndoProfile(r)

-----------------------------------------------------------------------------
(* Faults.  What a run notes before it sends a call stays noted.           *)
Noted_OnceAnswered(r) == IF pc[r] = "methods1" THEN MarkChanged(r) ELSE UNCHANGED mem
Noted(r) == IF pc[r] = "putProfile" THEN RememberProfile(r)
            ELSE IF pc[r] = "methods1" THEN MarkChanged(r) ELSE UNCHANGED mem

AfterFailure(at) == CASE at \in Forward -> "undo1"
                      [] at = "undo1" -> "undo2"
                      [] at = "undo2" -> "undoFlow"
                      [] at = "undoFlow" -> "undoClient"
                      [] at = "undoClient" -> "undoProfile"
                      [] at = "undoProfile" -> "failed"

Rejected(r) ==
    /\ pc[r] \in Forward \cup Backward
    /\ faults.rejected < MaxRejected
    /\ faults' = [faults EXCEPT !.rejected = @ + 1]
    /\ Noted(r)
    /\ Go(r, AfterFailure(pc[r]))
    /\ UNCHANGED realm

Lost(r) ==
    /\ faults.lost < MaxLost
    /\ faults' = [faults EXCEPT !.lost = @ + 1]
    /\ \/ pc[r] = "postFlow" /\ PostFlowEffect(r)
       \/ pc[r] = "build" /\ BuildEffect
       \/ pc[r] = "postClient" /\ PostClientEffect(r)
       \/ pc[r] = "putProfile" /\ PutProfileEffect(r)
       \/ pc[r] = "methods1" /\ SetMethod(1, "REQUIRED")
       \/ pc[r] = "methods2" /\ SetMethod(2, "DISABLED")
       \/ pc[r] = "bind" /\ BindEffect(r)
    /\ Noted(r)
    /\ Throw(r)

(* The entrypoint TERMs the configurator when Keycloak stops: no rollback. *)
Die(r) ==
    /\ pc[r] \in Forward \cup Backward
    /\ faults.deaths < MaxDeaths
    /\ faults' = [faults EXCEPT !.deaths = @ + 1]
    /\ Go(r, "dead")
    /\ UNCHANGED <<realm, mem>>

(* An administrator edits the user profile in the console: the names, the  *)
(* marker, back to what they were before, or something else in it.         *)
AdminEdits ==
    /\ profile.edits < MaxEdits
    /\ profile' \in [names : {"required", "optional", "custom"},
                     marker : {"absent", "admin", "custom"}, edits : {profile.edits + 1}]
    /\ UNCHANGED <<flow, client, bound, pc, mem, faults>>

-----------------------------------------------------------------------------
Forwards(r) == \/ Look(r) \/ Validate(r) \/ PostFlow(r) \/ FindFlow(r) \/ Build(r) \/ Check(r)
               \/ FindExistingClient(r) \/ PostClient(r) \/ FindClient(r)
               \/ ReadProfile(r) \/ PutProfile(r) \/ VerifyProfile(r)
               \/ Upgrade1(r) \/ Upgrade2(r) \/ CheckMethods(r)
               \/ Bind(r) \/ VerifyBind(r)

RunStep(r) == Forwards(r) \/ Rollback(r)

Next == \/ AdminEdits
        \/ \E r \in Runs : Start(r) \/ RunStep(r) \/ Rejected(r) \/ Lost(r) \/ Die(r)

Spec == Init /\ [][Next]_vars

-----------------------------------------------------------------------------
(* PROPERTIES *)

(* check-passwordless.mjs, which an operator runs after an installation,   *)
(* asks the realm for the same four things.                                *)
CheckBinding == bound
CheckProfile == profile.names = "optional" /\ profile.marker = "admin"
CheckFlow    == Intact(Current)
CheckClients == EstateMode => client # None /\ client.safe

(* What a run that reports success promises: that the checker passes, but  *)
(* for edits of the profile by administrators                              *)
(* (apply-passwordless-flow.mjs:152-186).                                  *)
Installed == /\ CheckBinding /\ CheckFlow /\ CheckClients
             /\ profile.edits = 0 => CheckProfile

(* A run that reported success really installed everything, and no run     *)
(* that comes after it, however it fails or dies, takes a part of it away  *)
(* (apply-passwordless-flow.mjs:187-206 and main.go:706-721).              *)
DoneMeansInstalled == (\E r \in Runs : pc[r] = "done") => Installed

(* A run that fails leaves the user profile as it was when it read it, but *)
(* for what administrators have saved since: also when the PUT took effect *)
(* and its answer was lost, or a later call failed (:276-277 and 202-205). *)
(* Unless the rollback's own PUT fails.                                    *)
RollbackRestoresProfile ==
    [][\A r \in Runs :
          /\ pc[r] = "undoProfile" /\ pc'[r] = "failed" /\ faults' = faults
          /\ mem[r].read # None
          => profile' = mem[r].read \/ profile'.edits > mem[r].read.edits]_vars

(* "If your realm deliberately requires names [...] the CLI will not       *)
(* silently weaken it" (docs/OTP_SETUP.md:481-483): a name requirement or  *)
(* marker of the administrators' own outlives every run and rollback, but  *)
(* one that had read the profile before they saved it, for the profile is  *)
(* written back whole (apply-passwordless-flow.mjs:230-277).               *)
Custom(p) == "custom" \in {p.names, p.marker}
CustomProfileIsKept ==
    [][Custom(profile) /\ profile' # profile =>
         \/ UNCHANGED pc
         \/ \E r \in Runs : /\ pc[r] \in {"putProfile", "undoProfile"} /\ pc'[r] # pc[r]
                            /\ mem[r].read # None /\ ~Custom(mem[r].read)]_vars

(* The realm's sign-in is switched last: when the binding changes, the     *)
(* flow is complete, its methods are migrated, names are optional and the  *)
(* estate's client is there (apply-passwordless-flow.mjs:159-171).         *)
BindIsLast == [][bound' # bound => Installed']_vars

(* Runs that overlap never build into each other's flow: the one that a    *)
(* run found by its alias after its POST, and fills by its alias, is its   *)
(* own, whatever the rollback of other runs deletes                        *)
(* (apply-passwordless-flow.mjs:118-147).                                  *)
BuildsOwnFlow == \A r \in Runs : pc[r] \in {"findFlow", "build", "check"} =>
                     flow # None /\ flow.by = r

(* A rollback deletes only what the same run created                       *)
(* (apply-passwordless-flow.mjs:193-200).                                  *)
RollbackTakesOwn ==
    [][\A r \in Runs :
          /\ flow # None /\ flow' = None /\ pc[r] = "undoFlow" /\ pc'[r] # pc[r]
               => flow.by = r
          /\ client # None /\ client' = None /\ pc[r] = "undoClient" /\ pc'[r] # pc[r]
               => client.by = r]_vars

(* "refusing unknown custom drift; rerunning is safe" (the package's       *)
(* README.md:19): a flow that installers made, and no one else changed, is *)
(* not refused (apply-passwordless-flow.mjs:109-116).                      *)
RefusesOnlyDrift ==
    [][\A r \in Runs : pc[r] = "validate" /\ pc'[r] = "undo1" /\ faults' = faults
          => flow.by = "before"]_vars
=============================================================================
