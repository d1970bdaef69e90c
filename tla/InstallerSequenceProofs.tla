------------------------ MODULE InstallerSequenceProofs ------------------------
(***************************************************************************)
(* Theorems about PasswordlessInstaller when its runs follow one another   *)
(* (~Concurrent), as they do where one operator or one container starts    *)
(* them: any number of runs, of failures, deaths and of edits by           *)
(* administrators between any two calls.                                   *)
(***************************************************************************)
EXTENDS PasswordlessInstallerProofs

OneAtATime  == \A r, o \in Runs : pc[r] \in Working /\ pc[o] \in Working => r = o
IdleIsBlank == \A r \in Runs : pc[r] = "idle" => mem[r] = Blank

(* What a run has already seen to when it makes its next call.             *)
WithFlow    == {"client", "postClient", "findClient", "readProfile", "putProfile", "verifyProfile"}
WithProfile == {"methods1", "methods2", "checkMethods", "bind", "verifyBind"}
WithClients == {"readProfile", "putProfile", "verifyProfile"} \cup WithProfile

Progressed(r) ==
    /\ pc[r] = "validate" => flow # None
    /\ pc[r] = "client" => EstateMode
    /\ pc[r] \in WithFlow /\ mem[r].legacy = None => CheckFlow
    /\ pc[r] \in {"bind", "verifyBind"} => CheckFlow
    /\ pc[r] = "findClient" => client # None /\ client.safe
    /\ pc[r] \in WithClients => CheckClients
    /\ pc[r] = "putProfile" => mem[r].read \in Profile /\ ~Drifted(mem[r].read)
    /\ pc[r] \in WithProfile \cup {"verifyProfile"} => (profile.edits = 0 => CheckProfile)
    /\ pc[r] = "verifyBind" => bound

(* A run that, over a realm that is installed, writes no more than a       *)
(* profile that an administrator has edited.                               *)
Harmless == {"idle", "look", "validate", "client", "readProfile", "putProfile", "verifyProfile",
             "bind", "verifyBind"} \cup Backward
Quiet(r) == /\ pc[r] \in Harmless
            /\ mem[r].flow = None /\ ~mem[r].client
            /\ mem[r].legacy = None /\ ~mem[r].changed
            /\ mem[r].original # None => mem[r].original.edits # 0
            /\ pc[r] = "putProfile" => mem[r].read.edits # 0

SomeDone  == \E r \in Runs : pc[r] = "done"
AfterDone == SomeDone => /\ Installed
                         /\ \A r \in Runs : pc[r] \notin Over => Quiet(r)

SeqInv == /\ OneAtATime /\ IdleIsBlank
          /\ \A r \in Runs : Progressed(r)
          /\ AfterDone

-----------------------------------------------------------------------------
LEMMA InitSeqInv == Init => SeqInv
<1> SUFFICES ASSUME Init PROVE SeqInv
  OBVIOUS
<1>1. \A r \in Runs : pc[r] = "idle" /\ mem[r] = Blank
  BY DEF Init
<1>2. OneAtATime /\ IdleIsBlank /\ AfterDone
  BY <1>1 DEF OneAtATime, IdleIsBlank, AfterDone, SomeDone, Working, Forward, Backward
<1>3. \A r \in Runs : Progressed(r)
  BY <1>1 DEF Progressed, WithFlow, WithClients, WithProfile
<1> QED BY <1>2, <1>3 DEF SeqInv

(* What a run has seen to stays seen to while it alone is at work.         *)
LEMMA ForwardProgress ==
  ASSUME NEW r \in Runs, InstallerInv, Progressed(r), Forwards(r)
  PROVE  Progressed(r)'
<1> USE RunsAssumption, BoundsAssumption, NoneAssumption
    DEF Progressed, WithFlow, WithProfile, WithClients, realm
<1>0. pc \in [Runs -> {"idle"} \cup Forward \cup Backward \cup Over] /\ mem \in [Runs -> Memory]
  BY DEF InstallerInv, TypeOK
<1>1. CASE Look(r) \/ PostFlow(r) \/ FindFlow(r) \/ Build(r)
  BY <1>0, <1>1 DEF Look, PostFlow, FindFlow, Build, Go, Throw, Test
<1>2. CASE Validate(r)
  <2>1. CASE Intact(Legacy)
    <3>1. mem'[r].legacy = Legacy /\ Legacy # None
      <4>1. flow \in Flow /\ flow.methods = Legacy
        BY <2>1 DEF Intact, InstallerInv, TypeOK
      <4>2. mem' = [mem EXCEPT ![r].legacy = Legacy]
        BY <1>2, <2>1, <4>1 DEF Validate
      <4>3. mem'[r].legacy = Legacy
        BY <1>0, <4>2 DEF Memory
      <4>4. Legacy # None
        BY DEF Legacy, Requirements
      <4> QED BY <4>3, <4>4
    <3> QED BY <1>0, <1>2, <3>1 DEF Validate, Test, Go, AfterFlow, CheckClients
  <2>2. CASE ~Intact(Legacy)
    BY <1>0, <1>2, <2>2 DEF Validate, Test, Go, AfterFlow, CheckFlow, CheckClients, Intact
  <2> QED BY <2>1, <2>2
<1>3. CASE Check(r)
  BY <1>0, <1>3 DEF Check, Test, Go, AfterFlow, CheckFlow, CheckClients, Intact
<1>4. CASE FindExistingClient(r)
  BY <1>0, <1>4 DEF FindExistingClient, Go, CheckFlow, CheckClients, Intact
<1>5. CASE PostClient(r)
  <2>1. [by |-> r, safe |-> TRUE] # None
    <3>1. [by |-> r, safe |-> TRUE] \in Client
      BY DEF Client
    <3> QED BY <3>1
  <2> QED BY <1>0, <1>5, <2>1 DEF PostClient, PostClientEffect, Go, Throw, CheckFlow, Intact
<1>6. CASE FindClient(r)
  <2>1. mem'[r].legacy = mem[r].legacy
    BY <1>0, <1>6 DEF FindClient, Memory
  <2> QED BY <1>0, <1>6, <2>1 DEF FindClient, Test, Go, CheckFlow, CheckClients, Intact
<1>7. CASE ReadProfile(r)
  <2>1. mem'[r].legacy = mem[r].legacy /\ mem'[r].read = profile
    BY <1>0, <1>7 DEF ReadProfile, Memory
  <2>2. profile \in Profile
    BY DEF InstallerInv, TypeOK
  <2> QED BY <1>0, <1>7, <2>1, <2>2 DEF ReadProfile, Go, AfterProfile, CheckFlow, CheckClients,
          Intact, Ready, Drifted, CheckProfile, Profile
<1>8. CASE PutProfile(r)
  <2>1. mem'[r].legacy = mem[r].legacy
    BY <1>0, <1>8 DEF PutProfile, RememberProfile, Memory
  <2>2. mem[r].read \in Profile /\ ~Drifted(mem[r].read)
    BY <1>8 DEF PutProfile
  <2>3. CheckProfile'
    BY <1>8, <2>2 DEF PutProfile, PutProfileEffect, Updated, CheckProfile, Drifted, Profile
  <2> QED BY <1>0, <1>8, <2>1, <2>3 DEF PutProfile, PutProfileEffect, Go, CheckFlow, CheckClients, Intact
<1>9. CASE VerifyProfile(r)
  BY <1>0, <1>9 DEF VerifyProfile, Test, Go, AfterProfile, CheckFlow, CheckClients, Intact,
     CheckProfile
<1>10. CASE Upgrade1(r) \/ Upgrade2(r)
  BY <1>0, <1>10 DEF Upgrade1, Upgrade2, SetMethod, Go, CheckClients, CheckProfile
<1>11. CASE CheckMethods(r)
  BY <1>0, <1>11 DEF CheckMethods, Test, Go, CheckFlow, CheckClients, Intact, CheckProfile
<1>12. CASE Bind(r) \/ VerifyBind(r)
  BY <1>0, <1>12 DEF Bind, BindEffect, VerifyBind, Test, Throw, Go, CheckFlow, CheckClients,
     Intact, CheckProfile
<1> QED BY <1>1, <1>2, <1>3, <1>4, <1>5, <1>6, <1>7, <1>8, <1>9, <1>10, <1>11, <1>12
        DEF Forwards

(* A quiet run over an installed realm changes nothing but an edited       *)
(* profile in it.                                                          *)
LEMMA QuietStep ==
  ASSUME NEW r \in Runs, InstallerInv, StepOf(r), Quiet(r), Installed,
         pc[r] = "client" => EstateMode
  PROVE  /\ UNCHANGED <<flow, client, bound>> /\ (profile' = profile \/ profile'.edits # 0)
         /\ pc'[r] \notin Over => Quiet(r)'
<1> USE RunsAssumption, BoundsAssumption, NoneAssumption
    DEF Quiet, Harmless, realm, Forward, Backward, Over
<1>0. /\ pc \in [Runs -> {"idle"} \cup Forward \cup Backward \cup Over]
      /\ mem \in [Runs -> Memory] /\ profile \in Profile
  BY DEF InstallerInv, TypeOK
<1>1. flow # None /\ flow.methods # Legacy /\ bound /\ Intact(Current)
  BY DEF Installed, CheckBinding, CheckFlow, Intact, Current, Legacy
<1>2. CASE Look(r)
  BY <1>0, <1>1, <1>2 DEF Look, Go
<1>3. CASE Validate(r)
  <2>1. mem'[r] = [mem[r] EXCEPT !.legacy = None]
    BY <1>0, <1>1, <1>3 DEF Validate, Intact
  <2> QED BY <1>0, <1>1, <1>3, <2>1 DEF Validate, Test, Go, AfterFlow, Intact, Memory
<1>4. CASE FindExistingClient(r)
  <2>1. pc'[r] = "readProfile" \/ pc'[r] = "undo1"
    BY <1>0, <1>4 DEF FindExistingClient, Go, Installed, CheckClients
  <2> QED BY <1>0, <1>4, <2>1 DEF FindExistingClient
<1>5. CASE ReadProfile(r)
  <2>1. pc'[r] \in {"bind", "undo1"} \/ (pc'[r] = "putProfile" /\ profile.edits # 0)
    BY <1>0, <1>5 DEF ReadProfile, Go, AfterProfile, Ready, Installed, CheckProfile
  <2>2. mem'[r] = [mem[r] EXCEPT !.read = profile] /\ UNCHANGED realm
    BY <1>0, <1>5 DEF ReadProfile
  <2> QED BY <1>0, <2>1, <2>2 DEF Memory
<1>6. CASE Bind(r) \/ VerifyBind(r)
  BY <1>0, <1>1, <1>6 DEF Bind, BindEffect, VerifyBind, Test, Throw, Go
<1>7. CASE Rollback(r)
  BY <1>0, <1>7 DEF Rollback, UndoMethod, UndoFlow, Owns, UndoClient, UndoProfile, Go
<1>8. ASSUME pc[r] = "putProfile"
      PROVE  /\ Updated(mem[r].read).edits # 0
             /\ RememberProfile(r) =>
                   /\ mem'[r].original.edits # 0 /\ mem'[r].flow = mem[r].flow
                   /\ mem'[r].client = mem[r].client
                   /\ mem'[r].legacy = mem[r].legacy /\ mem'[r].changed = mem[r].changed
  <2>1. mem[r].read \in Profile /\ mem[r].read.edits # 0
    BY <1>8 DEF InstallerInv, OldFlowMigrates
  <2> QED BY <1>0, <2>1 DEF Updated, Profile, RememberProfile, Memory
<1>9. CASE PutProfile(r)
  BY <1>0, <1>8, <1>9 DEF PutProfile, PutProfileEffect, Go
<1>10. CASE VerifyProfile(r)
  BY <1>0, <1>10 DEF VerifyProfile, Test, Go, AfterProfile
<1>11. CASE Rejected(r) \/ Die(r)
  BY <1>0, <1>8, <1>11 DEF Rejected, Die, Noted, AfterFailure, Go
<1>12. CASE Lost(r)
  <2>1. CASE pc[r] = "bind"
    BY <1>0, <1>1, <1>12, <2>1 DEF Lost, Noted, BindEffect, Throw, Go
  <2>2. CASE pc[r] = "putProfile"
    BY <1>0, <1>8, <1>12, <2>2 DEF Lost, Noted, PutProfileEffect, Throw, Go
  <2> QED BY <1>12, <2>1, <2>2 DEF Lost
<1>13. CASE \/ PostFlow(r) \/ FindFlow(r) \/ Build(r) \/ Check(r)
            \/ PostClient(r) \/ FindClient(r)
            \/ Upgrade1(r) \/ Upgrade2(r) \/ CheckMethods(r)
  BY <1>13 DEF PostFlow, FindFlow, Build, Check, PostClient, FindClient, Upgrade1, Upgrade2,
     CheckMethods
<1> QED BY <1>2, <1>3, <1>4, <1>5, <1>6, <1>7, <1>9, <1>10, <1>11, <1>12, <1>13
        DEF StepOf, RunStep, Forwards

LEMMA NextSeqInv ==
  ASSUME ~Concurrent, InstallerInv, SeqInv, [Next]_vars
  PROVE  SeqInv'
<1> USE DEF SeqInv
<1>1. CASE UNCHANGED vars
  BY <1>1 DEF vars, OneAtATime, IdleIsBlank, Progressed, CheckFlow, CheckClients, CheckProfile,
     CheckBinding, Intact, AfterDone, SomeDone, Installed, Quiet
<1>2. CASE AdminEdits
  <2>1. UNCHANGED <<flow, client, bound, pc, mem>> /\ profile'.edits # 0
    <3>1. profile'.edits = profile.edits + 1
      BY <1>2 DEF AdminEdits
    <3>2. profile.edits \in Nat
      BY BoundsAssumption DEF InstallerInv, TypeOK, Profile
    <3> QED BY <1>2, <3>1, <3>2 DEF AdminEdits
  <2>2. OneAtATime' /\ IdleIsBlank' /\ AfterDone'
    BY <2>1 DEF OneAtATime, IdleIsBlank, AfterDone, SomeDone, Installed, CheckBinding, CheckFlow,
       Intact, CheckClients, Quiet
  <2>3. \A r \in Runs : Progressed(r)'
    BY <2>1 DEF Progressed, CheckFlow, Intact, CheckClients, WithProfile
  <2> QED BY <2>2, <2>3
<1>3. ASSUME NEW r \in Runs, Start(r) PROVE SeqInv'
  <2>1. /\ UNCHANGED <<realm, mem>> /\ pc[r] = "idle" /\ pc' = [pc EXCEPT ![r] = "look"]
        /\ \A o \in Runs : pc[o] \in {"idle"} \cup Over
    BY <1>3 DEF Start, Go
  <2>2. pc'[r] = "look" /\ \A o \in Runs \ {r} : pc'[o] = pc[o] /\ pc'[o] \notin Working
    BY <2>1 DEF InstallerInv, TypeOK, Working, Forward, Backward, Over
  <2>3. OneAtATime' /\ IdleIsBlank'
    BY <2>1, <2>2 DEF OneAtATime, IdleIsBlank, Working
  <2>4. \A o \in Runs : Progressed(o)'
    BY <2>1, <2>2 DEF Progressed, WithFlow, WithClients, WithProfile, Working, Forward
  <2>5. AfterDone'
    <3>1. SomeDone' => SomeDone
      BY <2>1, <2>2 DEF SomeDone
    <3>2. Installed' = Installed
      BY <2>1 DEF Installed, CheckBinding, CheckFlow, CheckClients, CheckProfile,
         Intact, realm
    <3> QED BY <2>1, <2>2, <3>1, <3>2 DEF AfterDone, Quiet, Harmless, Over
  <2> QED BY <2>3, <2>4, <2>5
<1>4. ASSUME NEW r \in Runs, StepOf(r) PROVE SeqInv'
  <2>1. /\ pc[r] \in Working
        /\ pc' = [pc EXCEPT ![r] = pc'[r]] /\ pc'[r] \in Working \cup Over
        /\ \A o \in Runs \ {r} : pc'[o] = pc[o] /\ mem'[o] = mem[o]
    BY <1>4, OneMoves
  <2>2. \A o \in Runs \ {r} : pc[o] \notin Working /\ pc'[o] \notin Working
    BY <2>1 DEF OneAtATime
  <2>3. OneAtATime' /\ IdleIsBlank'
    BY <2>1, <2>2 DEF OneAtATime, IdleIsBlank, Working, Forward, Backward, Over
  <2>4. \A o \in Runs : Progressed(o)'
    <3>1. \A o \in Runs \ {r} : Progressed(o)'
      BY <2>2 DEF Progressed, WithFlow, WithClients, WithProfile, Working, Forward
    <3>2. CASE Forwards(r)
      BY <3>1, <3>2, ForwardProgress
    <3>3. CASE ~Forwards(r)
      <4>1. pc'[r] \in Backward \cup Over
        <5>1. pc[r] \in Forward \cup Backward
          BY <2>1 DEF Working
        <5>2. CASE Rollback(r) \/ Die(r)
          BY <5>2 DEF InstallerInv, TypeOK, Rollback, UndoMethod, UndoFlow, UndoClient,
             UndoProfile, Die, Go, Backward, Over
        <5>3. CASE Rejected(r) \/ Lost(r)
          BY <5>1, <5>3 DEF InstallerInv, TypeOK, Rejected, Lost, Throw, Go, AfterFailure,
             Backward, Over
        <5> QED BY <1>4, <3>3, <5>2, <5>3 DEF StepOf, RunStep
      <4>2. Progressed(r)'
        BY <4>1 DEF Progressed, WithFlow, WithClients, WithProfile, Backward, Over
      <4> QED BY <3>1, <4>2
    <3> QED BY <3>2, <3>3
  <2>5. AfterDone'
    <3>1. CASE SomeDone
      <4>1. Installed /\ Quiet(r)
        BY <2>1, <3>1 DEF AfterDone, Working, Forward, Backward, Over
      <4>2. /\ UNCHANGED <<flow, client, bound>> /\ (profile' = profile \/ profile'.edits # 0)
            /\ pc'[r] \notin Over => Quiet(r)'
        BY <1>4, <4>1, QuietStep DEF Progressed
      <4>3. Installed'
        BY <4>1, <4>2 DEF Installed, CheckBinding, CheckFlow, CheckClients, CheckProfile, Intact
      <4>4. \A o \in Runs \ {r} : pc'[o] \notin Over => Quiet(o)'
        BY <2>1, <3>1 DEF AfterDone, Quiet
      <4> QED BY <4>2, <4>3, <4>4 DEF AfterDone
    <3>2. CASE ~SomeDone /\ SomeDone'
      <4>1. pc'[r] = "done"
        BY <2>1, <3>2 DEF SomeDone
      <4>2. VerifyBind(r)
        <5>1. CASE Forwards(r) /\ ~VerifyBind(r)
          BY <4>1, <5>1 DEF InstallerInv, TypeOK, Forwards, Look, Validate, PostFlow, FindFlow,
             Build, Check, FindExistingClient, PostClient, FindClient, ReadProfile, PutProfile,
             VerifyProfile, Upgrade1, Upgrade2, CheckMethods, Bind, Go, Throw, Test, AfterFlow,
             AfterProfile
        <5>2. CASE Rollback(r) \/ Rejected(r) \/ Lost(r) \/ Die(r)
          BY <4>1, <5>2, <2>1 DEF InstallerInv, TypeOK, Rollback, UndoMethod, UndoFlow,
             UndoClient, UndoProfile, Rejected, Lost, Die, Throw, Go, AfterFailure, Working,
             Backward
        <5> QED BY <1>4, <5>1, <5>2 DEF StepOf, RunStep
      <4>3. pc[r] = "verifyBind" /\ UNCHANGED realm /\ UNCHANGED mem
        BY <4>2 DEF VerifyBind
      <4>4. Installed'
        <5>1. Progressed(r)
          OBVIOUS
        <5>2. Installed
          BY <4>3, <5>1 DEF Progressed, WithClients, WithProfile, Installed, CheckBinding
        <5> QED BY <4>3, <5>2 DEF Installed, CheckBinding, CheckFlow, CheckClients,
                CheckProfile, Intact, realm
      <4>5. \A o \in Runs : pc'[o] \notin Over => pc'[o] = "idle" /\ mem'[o] = Blank
        BY <2>1, <2>2, <4>1 DEF InstallerInv, TypeOK, IdleIsBlank, Working, Over
      <4>6. \A o \in Runs : pc'[o] \notin Over => Quiet(o)'
        BY <4>5 DEF Quiet, Harmless, Blank
      <4> QED BY <4>4, <4>6 DEF AfterDone
    <3> QED BY <3>1, <3>2 DEF AfterDone
  <2> QED BY <2>3, <2>4, <2>5
<1> QED BY <1>1, <1>2, <1>3, <1>4 DEF Next, StepOf

LEMMA SeqInvHolds ==
  ASSUME ~Concurrent
  PROVE  Spec => [](InstallerInv /\ SeqInv)
<1>1. InstallerInv /\ SeqInv /\ [Next]_vars => SeqInv'
  BY NextSeqInv
<1> QED BY <1>1, InitSeqInv, InitInstallerInv, NextInstallerInv, PTL DEF Spec

-----------------------------------------------------------------------------
(* Once a run has reported success the realm passes the checker but for    *)
(* what administrators edit, whatever runs follow and however they fail,   *)
(* lose answers or die (apply-passwordless-flow.mjs:152-206).              *)
THEOREM DoneIsInstalled ==
  ASSUME ~Concurrent
  PROVE  Spec => []DoneMeansInstalled
<1>1. SeqInv => DoneMeansInstalled
  BY DEF SeqInv, AfterDone, SomeDone, DoneMeansInstalled
<1> QED BY <1>1, SeqInvHolds, PTL

(* The realm's sign-in is switched last, to a flow that is complete        *)
(* (apply-passwordless-flow.mjs:159-171).                                  *)
THEOREM BoundLast ==
  ASSUME ~Concurrent
  PROVE  Spec => BindIsLast
<1>1. InstallerInv /\ SeqInv /\ [Next]_vars => [bound' # bound => Installed']_vars
  <2> SUFFICES ASSUME InstallerInv, SeqInv, Next, bound' # bound PROVE Installed'
    BY DEF vars
  <2>1. PICK r \in Runs : pc[r] = "bind" /\ BindEffect(r)
    BY DEF InstallerInv, TypeOK, Next, AdminEdits, Start, RunStep, Forwards, Look, Validate,
       PostFlow, PostFlowEffect, FindFlow, Build, BuildEffect, Check, FindExistingClient,
       PostClient, PostClientEffect, FindClient, ReadProfile, PutProfile, PutProfileEffect,
       VerifyProfile, Upgrade1, Upgrade2, SetMethod, CheckMethods, Bind, VerifyBind, Rollback,
       UndoMethod, UndoFlow, UndoClient, UndoProfile, Rejected, Lost, Die, realm
  <2>2. Progressed(r)
    BY DEF SeqInv
  <2>3. CheckFlow /\ CheckClients /\ (profile.edits = 0 => CheckProfile)
    BY <2>1, <2>2 DEF Progressed, WithClients, WithProfile
  <2> QED BY <2>1, <2>3 DEF BindEffect, Installed, CheckBinding, CheckFlow, CheckClients,
          CheckProfile, Intact
<1> QED BY <1>1, SeqInvHolds, PTL DEF Spec, BindIsLast

(* While a run is at work the profile is the one it read, or one that an   *)
(* administrator has saved since, unless the run has its own to restore.   *)
Restorable(r) == pc[r] \in Working /\ mem[r].read # None /\ mem[r].original = None =>
                     profile = mem[r].read \/ profile.edits > mem[r].read.edits

LEMMA StepRestorable ==
  ASSUME NEW r \in Runs, InstallerInv, RestoreInv, Restorable(r), StepOf(r)
  PROVE  Restorable(r)'
<1> USE DEF Restorable, RestoreInv
<1>0. pc \in [Runs -> {"idle"} \cup Forward \cup Backward \cup Over] /\ mem \in [Runs -> Memory]
  BY DEF InstallerInv, TypeOK
<1>1. CASE ReadProfile(r)
  <2>1. mem'[r].read = profile /\ profile' = profile
    BY <1>0, <1>1 DEF ReadProfile, Memory, realm
  <2> QED BY <2>1
<1>2. CASE UndoProfile(r)
  BY <1>0, <1>2 DEF UndoProfile, Go, Working, Forward, Backward
<1>3. CASE (PutProfile(r) \/ Rejected(r) \/ Lost(r)) /\ pc[r] = "putProfile"
  <2>1. mem'[r].original = mem[r].read /\ mem[r].read # None
    BY <1>0, <1>3 DEF PutProfile, Rejected, Lost, Noted, RememberProfile, Memory
  <2> QED BY <2>1
<1>4. CASE /\ ~(ReadProfile(r) \/ UndoProfile(r))
           /\ ~((PutProfile(r) \/ Rejected(r) \/ Lost(r)) /\ pc[r] = "putProfile")
  <2>1. profile' = profile
    BY <1>4 DEF StepOf, RunStep, Forwards, Rollback, Look, Validate, PostFlow, PostFlowEffect,
       FindFlow, Build, BuildEffect, Check, FindExistingClient, PostClient, PostClientEffect,
       FindClient, PutProfile, VerifyProfile, Upgrade1, Upgrade2, SetMethod, CheckMethods, Bind,
       BindEffect, VerifyBind, UndoMethod, UndoFlow, UndoClient, Rejected, Lost, Die, realm
  <2>2. mem'[r].read = mem[r].read /\ mem'[r].original = mem[r].original
    BY <1>0, <1>4 DEF StepOf, RunStep, Forwards, Rollback, Look, Validate, PostFlow, FindFlow,
       Build, Check, FindExistingClient, PostClient, FindClient, PutProfile, VerifyProfile,
       Upgrade1, Upgrade2, CheckMethods, Bind, VerifyBind, UndoMethod, UndoFlow, UndoClient,
       Rejected, Lost, Die, Noted, MarkChanged, Memory
  <2> QED BY <2>1, <2>2, OneMoves
<1> QED BY <1>1, <1>2, <1>3, <1>4

(* A run that fails leaves the user profile as it read it, but for what    *)
(* administrators saved since, whichever of its calls failed or lost its   *)
(* answer, and whatever was installed before                               *)
(* (apply-passwordless-flow.mjs:202-205 and 276-277).                      *)
THEOREM RollbackRestores ==
  ASSUME ~Concurrent
  PROVE  Spec => RollbackRestoresProfile
<1> DEFINE Restored == \A r \in Runs :
               /\ pc[r] = "undoProfile" /\ pc'[r] = "failed" /\ faults' = faults
               /\ mem[r].read # None
               => profile' = mem[r].read \/ profile'.edits > mem[r].read.edits
           Kept == \A r \in Runs : Restorable(r)
<1>1. Init => Kept
  BY DEF Init, Restorable, Working, Forward, Backward
<1>2. InstallerInv /\ SeqInv /\ RestoreInv /\ Kept /\ [Next]_vars => Kept'
  <2> SUFFICES ASSUME InstallerInv, SeqInv, RestoreInv, Kept, [Next]_vars, NEW r \in Runs
               PROVE  Restorable(r)'
    OBVIOUS
  <2>1. CASE UNCHANGED vars
    BY <2>1 DEF vars, Restorable
  <2>2. CASE AdminEdits
    <3>1. profile'.edits = profile.edits + 1 /\ UNCHANGED <<pc, mem>>
      BY <2>2 DEF AdminEdits
    <3>2. profile.edits \in Nat /\ (mem[r].read # None => mem[r].read.edits \in Nat)
      BY BoundsAssumption DEF InstallerInv, TypeOK, Profile, Memory
    <3> QED BY <3>1, <3>2 DEF Restorable
  <2>3. ASSUME NEW o \in Runs, Start(o) PROVE Restorable(r)'
    <3>1. UNCHANGED <<profile, mem>> /\ pc[o] = "idle" /\ pc' = [pc EXCEPT ![o] = "look"]
      BY <2>3 DEF Start, Go, realm
    <3>2. mem[o].read = None
      BY <3>1 DEF SeqInv, IdleIsBlank, Blank
    <3> QED BY <3>1, <3>2 DEF Restorable, InstallerInv, TypeOK
  <2>4. CASE StepOf(r)
    BY <2>4, StepRestorable
  <2>5. ASSUME NEW o \in Runs, o # r, StepOf(o) PROVE Restorable(r)'
    <3>1. pc[o] \in Working /\ pc'[r] = pc[r]
      BY <2>5, OneMoves
    <3>2. pc'[r] \notin Working
      BY <2>5, <3>1 DEF SeqInv, OneAtATime
    <3> QED BY <3>2 DEF Restorable
  <2> QED BY <2>1, <2>2, <2>3, <2>4, <2>5 DEF Next, StepOf
<1>3. InstallerInv /\ RestoreInv /\ Kept /\ [Next]_vars => [Restored]_vars
  <2> SUFFICES ASSUME InstallerInv, RestoreInv, Kept, Next, NEW r \in Runs,
                      pc[r] = "undoProfile", pc'[r] = "failed", faults' = faults,
                      mem[r].read # None
               PROVE  profile' = mem[r].read \/ profile'.edits > mem[r].read.edits
    OBVIOUS
  <2>1. UndoProfile(r)
    BY OnlyUndoProfileFails
  <2>2. CASE mem[r].original = None
    BY <2>1, <2>2 DEF UndoProfile, Restorable, Working, Backward
  <2>3. CASE mem[r].original # None
    BY <2>1, <2>3 DEF UndoProfile, RestoreInv
  <2> QED BY <2>2, <2>3
<1> QED BY <1>1, <1>2, <1>3, SeqInvHolds, RestoreInvHolds, PTL DEF Spec, RollbackRestoresProfile

-----------------------------------------------------------------------------
(* When is a rerun safe?  No call fails and no run dies from the POST of a *)
(* flow to the check of what was built; anything may fail elsewhere.       *)
Filling == {"postFlow", "findFlow", "build", "check"}
FillsUndisturbed == \A r \in Runs : pc[r] \in Filling /\ pc'[r] # pc[r] => faults' = faults

(* A flow that a run made is whole, but while that run fills it.           *)
NoneHalfMade ==
    flow # None /\ flow.by \in Runs => Intact(Current) \/ pc[flow.by] \in {"findFlow", "build"}

(* A fault elsewhere moves one run and no flow but one older than the runs. *)
LEMMA FaultsElsewhere ==
  ASSUME NEW r \in Runs, InstallerInv, FillsUndisturbed, Rejected(r) \/ Lost(r) \/ Die(r)
  PROVE  /\ pc[r] \notin Filling
         /\ pc' = [pc EXCEPT ![r] = pc'[r]] /\ pc'[r] \notin Filling
         /\ \/ flow' = flow
            \/ flow # None /\ flow.by = "before" /\ flow' # None /\ flow'.by = "before"
<1>0. /\ pc \in [Runs -> {"idle"} \cup Forward \cup Backward \cup Over]
      /\ faults \in Faults
  BY DEF InstallerInv, TypeOK
<1>1. faults' # faults
  BY <1>0 DEF Rejected, Lost, Die, Faults
<1>2. /\ pc' = [pc EXCEPT ![r] = pc'[r]] /\ pc'[r] \notin Filling /\ pc'[r] # pc[r]
  <2>1. CASE Rejected(r)
    BY <1>0, <2>1 DEF Rejected, Go, AfterFailure, Filling, Forward, Backward
  <2>2. CASE Lost(r)
    BY <1>0, <2>2 DEF Lost, Throw, Go, Filling
  <2>3. CASE Die(r)
    BY <1>0, <2>3 DEF Die, Go, Filling, Forward, Backward
  <2> QED BY <2>1, <2>2, <2>3
<1>3. pc[r] \notin Filling
  BY <1>1, <1>2 DEF FillsUndisturbed
<1>4. CASE flow' = flow
  BY <1>2, <1>3, <1>4
<1>5. CASE flow' # flow
  <2>1. PICK k \in {1, 2}, q \in Requirements :
           pc[r] \in {"methods1", "methods2"} /\ SetMethod(k, q)
    <3>1. Lost(r)
      BY <1>5 DEF Rejected, Die, realm
    <3>2. \/ pc[r] = "methods1" /\ SetMethod(1, "REQUIRED")
          \/ pc[r] = "methods2" /\ SetMethod(2, "DISABLED")
      BY <1>3, <1>5, <3>1 DEF Lost, Filling, PostClientEffect, PutProfileEffect, BindEffect
    <3> QED BY <3>2 DEF Requirements
  <2>2. flow # None /\ flow.by = "before" /\ flow \in Flow
    BY <2>1 DEF InstallerInv, OldFlowMigrates, TypeOK
  <2>3. flow' = [flow EXCEPT !.methods[k] = q] /\ flow' \in Flow
    BY <2>1, <2>2 DEF SetMethod, Flow
  <2>4. flow'.by = "before" /\ flow' # None
    BY <2>2, <2>3, NoneAssumption DEF Flow
  <2> QED BY <1>2, <1>3, <2>2, <2>4
<1> QED BY <1>4, <1>5

LEMMA StepLeavesNoneHalfMade ==
  ASSUME NEW r \in Runs, InstallerInv, NoneHalfMade, FillsUndisturbed, StepOf(r)
  PROVE  NoneHalfMade'
<1> USE RunsAssumption, BoundsAssumption, NoneAssumption DEF NoneHalfMade, Intact, realm
<1>0. /\ pc \in [Runs -> {"idle"} \cup Forward \cup Backward \cup Over]
      /\ flow \in Flow \cup {None} /\ BuildCalls \in Nat
      /\ flow # None /\ flow.by \in Runs => flow.methods = Current
  BY DEF InstallerInv, TypeOK, OldFlowMigrates
<1>1. CASE PostFlow(r)
  <2>1. [by |-> r, built |-> 0, methods |-> Current] # None
    BY DEF Flow, Current, Requirements
  <2> QED BY <1>0, <1>1, <2>1 DEF PostFlow, PostFlowEffect, Go, Throw
<1>2. CASE FindFlow(r)
  BY <1>0, <1>2 DEF FindFlow, Test, Go, InstallerInv, OwnFlow
<1>3. CASE Build(r)
  <2>1. flow # None /\ flow.by = r /\ flow \in Flow /\ flow' = [flow EXCEPT !.built = @ + 1]
    BY <1>0, <1>3 DEF Build, BuildEffect, InstallerInv, OwnFlow
  <2>2. flow'.by = r /\ flow'.built = flow.built + 1 /\ flow'.methods = Current
    BY <1>0, <2>1 DEF Flow
  <2>3. flow' # None
    BY <1>0, <1>3, <2>1, <2>2 DEF Build, InstallerInv, OwnFlow, Flow
  <2> QED BY <1>0, <1>3, <2>2, <2>3 DEF Build, Go
<1>4. CASE Upgrade1(r) \/ Upgrade2(r) \/ Rollback(r)
  <2>1. pc[r] \notin Filling /\ pc' = [pc EXCEPT ![r] = pc'[r]]
    BY <1>0, <1>4 DEF Upgrade1, Upgrade2, Rollback, UndoMethod, UndoFlow, UndoClient,
       UndoProfile, Go, Filling
  <2>2. flow' = flow \/ flow' = None \/ flow'.by = "before"
    BY <1>0, <1>4 DEF Upgrade1, Upgrade2, Rollback, UndoMethod, SetMethod, UndoFlow,
       UndoClient, UndoProfile, InstallerInv, OldFlowMigrates, Flow
  <2> QED BY <1>0, <2>1, <2>2 DEF Filling
<1>5. CASE Rejected(r) \/ Lost(r) \/ Die(r)
  BY <1>0, <1>5, FaultsElsewhere DEF Filling
<1>6. CASE Forwards(r) /\ ~(PostFlow(r) \/ FindFlow(r) \/ Build(r) \/ Upgrade1(r) \/ Upgrade2(r))
  <2>1. flow' = flow /\ pc[r] \notin {"findFlow", "build"}
    BY <1>6 DEF Forwards, Look, Validate, Check, FindExistingClient, PostClient,
       PostClientEffect, FindClient, ReadProfile, PutProfile, PutProfileEffect, VerifyProfile,
       CheckMethods, Bind, BindEffect, VerifyBind
  <2>2. \A o \in Runs \ {r} : pc'[o] = pc[o]
    BY OneMoves
  <2> QED BY <1>0, <2>1, <2>2
<1> QED BY <1>1, <1>2, <1>3, <1>4, <1>5, <1>6 DEF StepOf, RunStep

(* "refusing unknown custom drift; rerunning is safe" (the package's       *)
(* README.md:19) does hold where the calls from a flow's POST to its check *)
(* neither fail nor are cut short: a later run then takes every flow that  *)
(* a run made, however calls fail and runs die elsewhere                   *)
(* (apply-passwordless-flow.mjs:109-147).                                  *)
THEOREM RerunsAreSafe ==
  ASSUME ~Concurrent
  PROVE  Spec /\ [][FillsUndisturbed]_vars => RefusesOnlyDrift
<1> DEFINE Refusals == \A r \in Runs :
               pc[r] = "validate" /\ pc'[r] = "undo1" /\ faults' = faults => flow.by = "before"
<1>1. Init => NoneHalfMade
  BY RunsAssumption DEF Init, NoneHalfMade, Intact
<1>2. InstallerInv /\ NoneHalfMade /\ [Next]_vars /\ [FillsUndisturbed]_vars => NoneHalfMade'
  <2> SUFFICES ASSUME InstallerInv, NoneHalfMade, [Next]_vars, [FillsUndisturbed]_vars
               PROVE  NoneHalfMade'
    OBVIOUS
  <2>1. CASE UNCHANGED vars
    BY <2>1 DEF vars, NoneHalfMade, Intact
  <2>2. CASE AdminEdits
    BY <2>2 DEF AdminEdits, NoneHalfMade, Intact
  <2>3. ASSUME NEW r \in Runs, Start(r) PROVE NoneHalfMade'
    BY <2>3 DEF Start, Go, realm, NoneHalfMade, Intact, InstallerInv, TypeOK
  <2>4. ASSUME NEW r \in Runs, StepOf(r), FillsUndisturbed PROVE NoneHalfMade'
    BY <2>4, StepLeavesNoneHalfMade
  <2> QED BY <2>1, <2>2, <2>3, <2>4 DEF Next, StepOf
<1>3. InstallerInv /\ SeqInv /\ NoneHalfMade /\ [Next]_vars => [Refusals]_vars
  <2> SUFFICES ASSUME InstallerInv, SeqInv, NoneHalfMade, Next, NEW r \in Runs,
                      pc[r] = "validate", pc'[r] = "undo1", faults' = faults
               PROVE  flow.by = "before"
    OBVIOUS
  <2>0. /\ pc \in [Runs -> {"idle"} \cup Forward \cup Backward \cup Over]
        /\ faults \in Faults /\ flow \in Flow \cup {None}
    BY DEF InstallerInv, TypeOK
  <2>1. Validate(r)
    <3>1. StepOf(r)
      <4>1. PICK o \in Runs : Start(o) \/ StepOf(o)
        BY DEF Next, AdminEdits, StepOf
      <4>2. o = r
        BY <2>0, <4>1, OneMoves DEF Start, Go
      <4>3. ~Start(r)
        BY DEF Start
      <4> QED BY <4>1, <4>2, <4>3
    <3>2. ~(Rejected(r) \/ Lost(r) \/ Die(r))
      BY <2>0 DEF Rejected, Lost, Die, Faults
    <3> QED BY <3>1, <3>2 DEF StepOf, RunStep, Forwards, Look, Validate, PostFlow, FindFlow,
            Build, Check, FindExistingClient, PostClient, FindClient, ReadProfile, PutProfile,
            VerifyProfile, Upgrade1, Upgrade2, CheckMethods, Bind, VerifyBind, Rollback,
            UndoMethod, UndoFlow, UndoClient, UndoProfile
  <2>2. ~Intact(Current)
    BY <2>0, <2>1 DEF Validate, Test, Go, AfterFlow
  <2>3. CASE flow # None /\ flow.by \in Runs
    <3>1. pc[flow.by] \in {"findFlow", "build"}
      BY <2>2, <2>3 DEF NoneHalfMade
    <3>2. flow.by = r
      BY <2>3, <3>1 DEF SeqInv, OneAtATime, Working, Forward
    <3> QED BY <3>1, <3>2
  <2>4. CASE flow # None /\ flow.by \notin Runs
    BY <2>0, <2>4 DEF Flow
  <2>5. flow # None
    BY DEF SeqInv, Progressed
  <2> QED BY <2>3, <2>4, <2>5
<1> QED BY <1>1, <1>2, <1>3, SeqInvHolds, PTL DEF Spec, RefusesOnlyDrift
=============================================================================
