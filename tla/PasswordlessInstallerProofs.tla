---------------------- MODULE PasswordlessInstallerProofs ----------------------
(***************************************************************************)
(* Theorems about PasswordlessInstaller, for any number of runs that       *)
(* overlap or not, any number of failures, and a flow of any size.         *)
(***************************************************************************)
EXTENDS PasswordlessInstaller, TLAPS

(* A flow that a run is filling is the one it posted, and has room.        *)
OwnFlow ==
    \A r \in Runs : /\ pc[r] \in {"findFlow", "build", "check"} => flow # None /\ flow.by = r
                    /\ pc[r] \in {"findFlow", "build"} => flow.built < BuildCalls
                    /\ mem[r].flow \in {None, r}

(* A client that a run would delete is the one it posted.                  *)
BeforeDelete == {"idle"} \cup Forward \cup {"undo1", "undo2", "undoFlow", "undoClient"}
OwnClient ==
    \A r \in Runs : pc[r] = "findClient" \/ (mem[r].client /\ pc[r] \in BeforeDelete) =>
                        client # None /\ client.by = r

(* Only a flow older than the runs is migrated, and nothing deletes it.    *)
OldFlowMigrates ==
    /\ flow # None /\ flow.by \in Runs => flow.methods = Current
    /\ \A r \in Runs :
          /\ mem[r].legacy # None => flow # None /\ flow.by = "before"
          /\ pc[r] \in {"methods1", "methods2", "checkMethods"} => mem[r].legacy # None
          /\ mem[r].changed => mem[r].legacy # None
          /\ pc[r] \in {"idle", "look", "validate"} => ~mem[r].changed
          /\ pc[r] = "putProfile" => mem[r].read \in Profile

InstallerInv == TypeOK /\ OwnFlow /\ OwnClient /\ OldFlowMigrates

-----------------------------------------------------------------------------
LEMMA InitInstallerInv == Init => InstallerInv
<1> SUFFICES ASSUME Init PROVE InstallerInv
  OBVIOUS
<1>1. TypeOK
  <2>1. flow \in Flow \cup {None}
    BY BoundsAssumption DEF Init, Flow, Requirements, Current, Legacy
  <2>2. client \in Client \cup {None} /\ bound \in BOOLEAN
    BY DEF Init, Client
  <2>3. profile \in Profile
    BY BoundsAssumption DEF Init, Profile
  <2>4. mem \in [Runs -> Memory] /\ faults \in Faults
    BY DEF Init, Blank, Memory, Faults
  <2> QED BY <2>1, <2>2, <2>3, <2>4 DEF Init, TypeOK
<1>2. OwnFlow /\ OwnClient
  BY DEF Init, OwnFlow, OwnClient, Blank
<1>3. OldFlowMigrates
  BY RunsAssumption DEF Init, OldFlowMigrates, Blank
<1> QED BY <1>1, <1>2, <1>3 DEF InstallerInv

LEMMA MemoryUpdate ==
  ASSUME NEW m \in Memory, NEW b \in BOOLEAN
  PROVE  [m EXCEPT !.client = b] \in Memory /\ [m EXCEPT !.changed = b] \in Memory
BY DEF Memory

(* The flow a run has found is a part of its memory.                       *)
LEMMA MemoryOfFlow ==
  ASSUME NEW m \in Memory, NEW by \in Runs \cup {"before", None}
  PROVE  [m EXCEPT !.flow = by] \in Memory
BY DEF Memory

(* What a run notes before a call leaves the rest of its memory alone.     *)
LEMMA NotedKeeps ==
  ASSUME InstallerInv, NEW r \in Runs, Noted(r)
  PROVE  /\ mem' \in [Runs -> Memory]
         /\ \A o \in Runs : /\ mem'[o].flow = mem[o].flow /\ mem'[o].client = mem[o].client
                            /\ mem'[o].legacy = mem[o].legacy /\ mem'[o].read = mem[o].read
                            /\ mem'[o].changed => mem[o].changed \/ pc[o] = "methods1"
<1>1. mem \in [Runs -> Memory]
  BY DEF InstallerInv, TypeOK
<1>2. CASE pc[r] = "putProfile"
  <2>1. mem' = [mem EXCEPT ![r].original = mem[r].read]
    BY <1>2 DEF Noted, RememberProfile
  <2> QED BY <1>1, <2>1 DEF Memory
<1>3. CASE pc[r] = "methods1"
  <2>1. mem' = [mem EXCEPT ![r].changed = TRUE]
    BY <1>3 DEF Noted, MarkChanged
  <2>2. [mem[r] EXCEPT !.changed = TRUE] \in Memory
    BY <1>1, MemoryUpdate
  <2>3. mem' \in [Runs -> Memory]
    BY <1>1, <2>1, <2>2
  <2> QED BY <1>1, <1>3, <2>1, <2>3 DEF Memory
<1>4. CASE pc[r] \notin {"putProfile", "methods1"}
  BY <1>1, <1>4 DEF Noted
<1> QED BY <1>2, <1>3, <1>4

LEMMA NextInstallerInv == InstallerInv /\ [Next]_vars => InstallerInv'
<1> SUFFICES ASSUME InstallerInv, [Next]_vars PROVE InstallerInv'
  OBVIOUS
<1> USE RunsAssumption, BoundsAssumption, NoneAssumption DEF InstallerInv, realm
<1>1. CASE UNCHANGED vars
  BY <1>1 DEF vars, TypeOK, OwnFlow, OwnClient, OldFlowMigrates
<1>2. CASE AdminEdits
  <2>1. profile' \in Profile
    <3>1. profile \in Profile /\ profile.edits + 1 \in 0..MaxEdits
      BY <1>2 DEF AdminEdits, TypeOK, Profile
    <3> QED BY <1>2, <3>1 DEF AdminEdits, Profile
  <2> QED BY <1>2, <2>1 DEF AdminEdits, TypeOK, OwnFlow, OwnClient, OldFlowMigrates
<1>3. ASSUME NEW r \in Runs, Start(r) PROVE InstallerInv'
  <2>1. TypeOK'
    BY <1>3 DEF Start, Go, TypeOK, Forward, Backward, Over
  <2>2. OwnFlow'
    BY <1>3 DEF Start, Go, OwnFlow, TypeOK, Memory, Forward, Backward, Over
  <2>3. OwnClient'
    BY <1>3 DEF Start, Go, OwnClient, TypeOK, Memory, BeforeDelete, Forward, Backward, Over
  <2>4. OldFlowMigrates'
    BY <1>3 DEF Start, Go, OldFlowMigrates, TypeOK, Memory, Forward, Backward, Over
  <2> QED BY <2>1, <2>2, <2>3, <2>4
<1>4. ASSUME NEW r \in Runs, Look(r) PROVE InstallerInv'
  <2>1. TypeOK'
    BY <1>4 DEF Look, Go, TypeOK, Forward, Backward, Over
  <2>2. OwnFlow'
    BY <1>4 DEF Look, Go, OwnFlow, TypeOK, Memory, Forward, Backward, Over
  <2>3. OwnClient'
    BY <1>4 DEF Look, Go, OwnClient, TypeOK, Memory, BeforeDelete, Forward, Backward, Over
  <2>4. OldFlowMigrates'
    BY <1>4 DEF Look, Go, OldFlowMigrates, TypeOK, Memory, Forward, Backward, Over
  <2> QED BY <2>1, <2>2, <2>3, <2>4
<1>5. ASSUME NEW r \in Runs, Validate(r) PROVE InstallerInv'
  <2>1. mem' \in [Runs -> Memory]
    BY <1>5 DEF Validate, Memory, Flow, Intact, Legacy, Requirements, TypeOK
  <2>2. TypeOK'
    BY <1>5, <2>1 DEF Validate, Test, Go, Intact, AfterFlow, TypeOK, Forward, Backward, Over
  <2>3. OwnFlow'
    BY <1>5, <2>1 DEF Validate, Test, Go, Intact, AfterFlow, OwnFlow, TypeOK, Memory,
       Forward, Backward, Over
  <2>4. OwnClient'
    BY <1>5, <2>1 DEF Validate, Test, Go, Intact, AfterFlow, OwnClient, TypeOK, Memory,
       BeforeDelete, Forward, Backward, Over
  <2>5. OldFlowMigrates'
    <3>1. Intact(Legacy) => flow # None /\ flow.by = "before"
      BY DEF Intact, Legacy, Current, OldFlowMigrates, TypeOK, Flow
    <3>2. mem' = [mem EXCEPT ![r].legacy = IF Intact(Legacy) THEN flow.methods ELSE None]
      BY <1>5 DEF Validate
    <3>3. /\ mem'[r].changed = mem[r].changed /\ mem'[r].read = mem[r].read
          /\ mem'[r].legacy # None => Intact(Legacy)
      BY <3>2 DEF TypeOK, Memory
    <3> QED BY <1>5, <3>1, <3>2, <3>3 DEF Validate, Test, Go, AfterFlow, OldFlowMigrates, TypeOK
  <2> QED BY <2>2, <2>3, <2>4, <2>5
<1>6. ASSUME NEW r \in Runs, PostFlow(r) PROVE InstallerInv'
  <2>1. flow' \in Flow \cup {None}
    BY <1>6 DEF PostFlow, PostFlowEffect, Flow, Current, Requirements, TypeOK
  <2>2. TypeOK'
    BY <1>6, <2>1 DEF PostFlow, PostFlowEffect, Go, Throw, TypeOK, Forward, Backward, Over
  <2>3. OwnFlow'
    <3>1. CASE flow = None /\ pc' = [pc EXCEPT ![r] = "findFlow"]
      <4>1. flow' = [by |-> r, built |-> 0, methods |-> Current] /\ UNCHANGED mem
        BY <1>6, <3>1 DEF PostFlow, PostFlowEffect
      <4>2. flow' # None
        BY <2>1, <4>1 DEF Flow, Current, Requirements
      <4> QED BY <3>1, <4>1, <4>2 DEF OwnFlow, TypeOK
    <3>2. CASE UNCHANGED flow /\ pc' = [pc EXCEPT ![r] = "undo1"]
      BY <1>6, <3>2 DEF PostFlow, OwnFlow, TypeOK
    <3> QED BY <1>6, <3>1, <3>2 DEF PostFlow, PostFlowEffect, Go, Throw
  <2>4. OwnClient'
    BY <1>6, <2>1 DEF PostFlow, PostFlowEffect, Go, Throw, OwnClient, TypeOK, Memory,
       BeforeDelete, Forward, Backward, Over
  <2>5. OldFlowMigrates'
    BY <1>6, <2>1 DEF PostFlow, PostFlowEffect, Go, Throw, OldFlowMigrates, TypeOK, Memory,
       Forward, Backward, Over
  <2> QED BY <2>2, <2>3, <2>4, <2>5
<1>7. ASSUME NEW r \in Runs, FindFlow(r) PROVE InstallerInv'
  <2>1. mem' \in [Runs -> Memory]
    <3>1. flow # None /\ flow.by = r
      BY <1>7 DEF FindFlow, OwnFlow
    <3>2. mem' = [mem EXCEPT ![r] = [mem[r] EXCEPT !.flow = r]]
      BY <1>7, <3>1 DEF FindFlow
    <3>3. mem \in [Runs -> Memory]
      BY DEF TypeOK
    <3>4. [mem[r] EXCEPT !.flow = r] \in Memory
      BY <3>3, MemoryOfFlow
    <3> QED BY <3>2, <3>3, <3>4
  <2>2. TypeOK'
    BY <1>7, <2>1 DEF FindFlow, Test, Go, TypeOK, Forward, Backward, Over
  <2>3. OwnFlow'
    BY <1>7, <2>1 DEF FindFlow, Test, Go, OwnFlow, TypeOK, Memory, Forward, Backward, Over
  <2>4. OwnClient'
    BY <1>7, <2>1 DEF FindFlow, Test, Go, OwnClient, TypeOK, Memory, BeforeDelete, Forward,
       Backward, Over
  <2>5. OldFlowMigrates'
    BY <1>7, <2>1 DEF FindFlow, Test, Go, OldFlowMigrates, TypeOK, Memory, Forward,
       Backward, Over
  <2> QED BY <2>2, <2>3, <2>4, <2>5
<1>8. ASSUME NEW r \in Runs, Build(r) PROVE InstallerInv'
  <2>1. flow' \in Flow
    BY <1>8 DEF Build, BuildEffect, Flow, OwnFlow, TypeOK
  <2>2. flow # None /\ flow'.by = flow.by /\ flow'.built = flow.built + 1 /\ flow'.methods = flow.methods
    BY <1>8 DEF Build, BuildEffect, OwnFlow, TypeOK, Flow
  <2>3. TypeOK'
    BY <1>8, <2>1 DEF Build, BuildEffect, Go, TypeOK, Forward, Backward, Over
  <2>4. OwnFlow'
    BY <1>8, <2>1, <2>2 DEF Build, Go, OwnFlow, TypeOK, Flow
  <2>5. OwnClient'
    BY <1>8, <2>1 DEF Build, BuildEffect, Go, OwnClient, TypeOK, Memory, BeforeDelete,
       Forward, Backward, Over
  <2>6. OldFlowMigrates'
    BY <1>8, <2>1, <2>2 DEF Build, Go, OldFlowMigrates, TypeOK
  <2> QED BY <2>3, <2>4, <2>5, <2>6
<1>9. ASSUME NEW r \in Runs, Check(r) PROVE InstallerInv'
  <2>1. TypeOK'
    BY <1>9 DEF Check, Test, Go, AfterFlow, TypeOK, Forward, Backward, Over
  <2>2. OwnFlow'
    BY <1>9 DEF Check, Test, Go, AfterFlow, OwnFlow, TypeOK, Memory, Forward, Backward, Over
  <2>3. OwnClient'
    BY <1>9 DEF Check, Test, Go, AfterFlow, OwnClient, TypeOK, Memory, BeforeDelete,
       Forward, Backward, Over
  <2>4. OldFlowMigrates'
    BY <1>9 DEF Check, Test, Go, AfterFlow, OldFlowMigrates, TypeOK, Memory, Forward,
       Backward, Over
  <2> QED BY <2>1, <2>2, <2>3, <2>4
<1>10. ASSUME NEW r \in Runs, FindExistingClient(r) PROVE InstallerInv'
  <2>1. TypeOK'
    BY <1>10 DEF FindExistingClient, Go, TypeOK, Forward, Backward, Over
  <2>2. OwnFlow'
    BY <1>10 DEF FindExistingClient, Go, OwnFlow, TypeOK, Memory, Forward, Backward, Over
  <2>3. OwnClient'
    BY <1>10 DEF FindExistingClient, Go, OwnClient, TypeOK, Memory, BeforeDelete, Forward,
       Backward, Over
  <2>4. OldFlowMigrates'
    BY <1>10 DEF FindExistingClient, Go, OldFlowMigrates, TypeOK, Memory, Forward, Backward,
       Over
  <2> QED BY <2>1, <2>2, <2>3, <2>4
<1>11. ASSUME NEW r \in Runs, PostClient(r) PROVE InstallerInv'
  <2>1. client' \in Client \cup {None}
    <3>1. [by |-> r, safe |-> TRUE] \in Client
      BY DEF Client
    <3> QED BY <1>11, <3>1 DEF PostClient, PostClientEffect, TypeOK
  <2>2. TypeOK'
    BY <1>11, <2>1 DEF PostClient, PostClientEffect, Go, Throw, TypeOK, Forward, Backward,
       Over
  <2>3. OwnFlow'
    BY <1>11, <2>1 DEF PostClient, PostClientEffect, Go, Throw, OwnFlow, TypeOK, Memory,
       Forward, Backward, Over
  <2>4. OwnClient'
    <3>1. CASE client = None /\ pc' = [pc EXCEPT ![r] = "findClient"]
      <4>1. client' = [by |-> r, safe |-> TRUE] /\ UNCHANGED mem
        BY <1>11, <3>1 DEF PostClient, PostClientEffect
      <4>2. client' # None
        <5>1. client' \in Client
          BY <4>1 DEF Client
        <5> QED BY <5>1
      <4>3. \A o \in Runs : pc[o] # "findClient" /\ ~(mem[o].client /\ pc[o] \in BeforeDelete)
        BY <3>1 DEF OwnClient
      <4>4. ~mem[r].client
        BY <1>11, <4>3 DEF PostClient, BeforeDelete, Forward
      <4> QED BY <3>1, <4>1, <4>2, <4>3, <4>4 DEF OwnClient, TypeOK
    <3>2. CASE UNCHANGED client /\ pc' = [pc EXCEPT ![r] = "undo1"]
      BY <1>11, <3>2 DEF PostClient, OwnClient, TypeOK, BeforeDelete, Forward
    <3> QED BY <1>11, <3>1, <3>2 DEF PostClient, PostClientEffect, Go, Throw
  <2>5. OldFlowMigrates'
    BY <1>11, <2>1 DEF PostClient, PostClientEffect, Go, Throw, OldFlowMigrates, TypeOK,
       Memory, Forward, Backward, Over
  <2> QED BY <2>2, <2>3, <2>4, <2>5
<1>12. ASSUME NEW r \in Runs, FindClient(r) PROVE InstallerInv'
  <2>1. mem' \in [Runs -> Memory]
    <3>1. (client # None) \in BOOLEAN /\ mem[r] \in Memory
      BY DEF TypeOK
    <3>2. [mem[r] EXCEPT !.client = client # None] \in Memory
      BY <3>1, MemoryUpdate
    <3> QED BY <1>12, <3>2 DEF FindClient, TypeOK
  <2>2. TypeOK'
    BY <1>12, <2>1 DEF FindClient, Test, Go, TypeOK, Forward, Backward, Over
  <2>3. OwnFlow'
    BY <1>12, <2>1 DEF FindClient, Test, Go, OwnFlow, TypeOK, Memory, Forward, Backward,
       Over
  <2>4. OwnClient'
    BY <1>12, <2>1 DEF FindClient, Test, Go, OwnClient, TypeOK, Memory, BeforeDelete,
       Forward, Backward, Over
  <2>5. OldFlowMigrates'
    BY <1>12, <2>1 DEF FindClient, Test, Go, OldFlowMigrates, TypeOK, Memory, Forward,
       Backward, Over
  <2> QED BY <2>2, <2>3, <2>4, <2>5
<1>13. ASSUME NEW r \in Runs, ReadProfile(r) PROVE InstallerInv'
  <2>1. mem' \in [Runs -> Memory]
    BY <1>13 DEF ReadProfile, Memory, TypeOK
  <2>2. TypeOK'
    BY <1>13, <2>1 DEF ReadProfile, Go, AfterProfile, TypeOK, Forward, Backward, Over
  <2>3. OwnFlow'
    BY <1>13, <2>1 DEF ReadProfile, Go, AfterProfile, OwnFlow, TypeOK, Memory, Forward,
       Backward, Over
  <2>4. OwnClient'
    BY <1>13, <2>1 DEF ReadProfile, Go, AfterProfile, OwnClient, TypeOK, Memory,
       BeforeDelete, Forward, Backward, Over
  <2>5. OldFlowMigrates'
    BY <1>13, <2>1 DEF ReadProfile, Go, AfterProfile, OldFlowMigrates, TypeOK, Memory,
       Forward, Backward, Over
  <2> QED BY <2>2, <2>3, <2>4, <2>5
<1>14. ASSUME NEW r \in Runs, PutProfile(r) PROVE InstallerInv'
  <2>1. profile' \in Profile
    BY <1>14 DEF PutProfile, PutProfileEffect, Updated, Profile, OldFlowMigrates, TypeOK
  <2>2. mem' \in [Runs -> Memory]
    BY <1>14 DEF PutProfile, Memory, RememberProfile, TypeOK
  <2>3. TypeOK'
    BY <1>14, <2>1, <2>2 DEF PutProfile, PutProfileEffect, RememberProfile, Go, Updated,
       TypeOK, Forward, Backward, Over
  <2>4. OwnFlow'
    BY <1>14, <2>1, <2>2 DEF PutProfile, PutProfileEffect, RememberProfile, Go, Updated,
       OwnFlow, TypeOK, Memory, Forward, Backward, Over
  <2>5. OwnClient'
    BY <1>14, <2>1, <2>2 DEF PutProfile, PutProfileEffect, RememberProfile, Go, Updated,
       OwnClient, TypeOK, Memory, BeforeDelete, Forward, Backward, Over
  <2>6. OldFlowMigrates'
    BY <1>14, <2>1, <2>2 DEF PutProfile, PutProfileEffect, RememberProfile, Go, Updated,
       OldFlowMigrates, TypeOK, Memory, Forward, Backward, Over
  <2> QED BY <2>3, <2>4, <2>5, <2>6
<1>15. ASSUME NEW r \in Runs, VerifyProfile(r) PROVE InstallerInv'
  <2>1. TypeOK'
    BY <1>15 DEF VerifyProfile, Test, Go, AfterProfile, TypeOK, Forward, Backward, Over
  <2>2. OwnFlow'
    BY <1>15 DEF VerifyProfile, Test, Go, AfterProfile, OwnFlow, TypeOK, Memory, Forward,
       Backward, Over
  <2>3. OwnClient'
    BY <1>15 DEF VerifyProfile, Test, Go, AfterProfile, OwnClient, TypeOK, Memory,
       BeforeDelete, Forward, Backward, Over
  <2>4. OldFlowMigrates'
    BY <1>15 DEF VerifyProfile, Test, Go, AfterProfile, OldFlowMigrates, TypeOK, Memory,
       Forward, Backward, Over
  <2> QED BY <2>1, <2>2, <2>3, <2>4
<1>16. ASSUME NEW r \in Runs, Upgrade1(r) PROVE InstallerInv'
  <2>1. flow' \in Flow
    BY <1>16 DEF Upgrade1, SetMethod, Flow, OldFlowMigrates, Requirements, TypeOK
  <2>2. mem' \in [Runs -> Memory]
    <3>1. mem \in [Runs -> Memory]
      BY DEF TypeOK
    <3>2. [mem[r] EXCEPT !.changed = TRUE] \in Memory
      BY <3>1, MemoryUpdate
    <3> QED BY <1>16, <3>1, <3>2 DEF Upgrade1, MarkChanged
  <2>3. TypeOK'
    BY <1>16, <2>1, <2>2 DEF Upgrade1, MarkChanged, SetMethod, Go, TypeOK, Forward,
       Backward, Over
  <2>4. OwnFlow'
    <3>1. /\ flow # None => flow' # None /\ flow'.by = flow.by /\ flow'.built = flow.built
          /\ \A o \in Runs : mem'[o].flow = mem[o].flow
          /\ pc' = [pc EXCEPT ![r] = "methods2"]
      BY <1>16, <2>1 DEF Upgrade1, MarkChanged, SetMethod, Go, TypeOK, Flow, Memory
    <3> QED BY <3>1 DEF OwnFlow, TypeOK
  <2>5. OwnClient'
    BY <1>16, <2>1, <2>2 DEF Upgrade1, MarkChanged, SetMethod, Go, OwnClient, TypeOK,
       Memory, BeforeDelete, Forward, Backward, Over
  <2>6. OldFlowMigrates'
    BY <1>16, <2>1, <2>2 DEF Upgrade1, MarkChanged, SetMethod, Go, OldFlowMigrates, TypeOK,
       Memory, Forward, Backward, Over
  <2> QED BY <2>3, <2>4, <2>5, <2>6
<1>17. ASSUME NEW r \in Runs, Upgrade2(r) PROVE InstallerInv'
  <2>1. flow' \in Flow
    BY <1>17 DEF Upgrade2, SetMethod, Flow, OldFlowMigrates, Requirements, TypeOK
  <2>2. TypeOK'
    BY <1>17, <2>1 DEF Upgrade2, SetMethod, Go, TypeOK, Forward, Backward, Over
  <2>3. OwnFlow'
    BY <1>17, <2>1 DEF Upgrade2, SetMethod, Go, OwnFlow, TypeOK, Memory, Forward, Backward,
       Over
  <2>4. OwnClient'
    BY <1>17, <2>1 DEF Upgrade2, SetMethod, Go, OwnClient, TypeOK, Memory, BeforeDelete,
       Forward, Backward, Over
  <2>5. OldFlowMigrates'
    BY <1>17, <2>1 DEF Upgrade2, SetMethod, Go, OldFlowMigrates, TypeOK, Memory, Forward,
       Backward, Over
  <2> QED BY <2>2, <2>3, <2>4, <2>5
<1>18. ASSUME NEW r \in Runs, CheckMethods(r) PROVE InstallerInv'
  <2>1. TypeOK'
    BY <1>18 DEF CheckMethods, Test, Go, TypeOK, Forward, Backward, Over
  <2>2. OwnFlow'
    BY <1>18 DEF CheckMethods, Test, Go, OwnFlow, TypeOK, Memory, Forward, Backward, Over
  <2>3. OwnClient'
    BY <1>18 DEF CheckMethods, Test, Go, OwnClient, TypeOK, Memory, BeforeDelete, Forward,
       Backward, Over
  <2>4. OldFlowMigrates'
    BY <1>18 DEF CheckMethods, Test, Go, OldFlowMigrates, TypeOK, Memory, Forward, Backward,
       Over
  <2> QED BY <2>1, <2>2, <2>3, <2>4
<1>19. ASSUME NEW r \in Runs, Bind(r) PROVE InstallerInv'
  <2>1. TypeOK'
    BY <1>19 DEF Bind, BindEffect, Go, Throw, TypeOK, Forward, Backward, Over
  <2>2. OwnFlow'
    BY <1>19 DEF Bind, BindEffect, Go, Throw, OwnFlow, TypeOK, Memory, Forward, Backward,
       Over
  <2>3. OwnClient'
    BY <1>19 DEF Bind, BindEffect, Go, Throw, OwnClient, TypeOK, Memory, BeforeDelete,
       Forward, Backward, Over
  <2>4. OldFlowMigrates'
    BY <1>19 DEF Bind, BindEffect, Go, Throw, OldFlowMigrates, TypeOK, Memory, Forward,
       Backward, Over
  <2> QED BY <2>1, <2>2, <2>3, <2>4
<1>20. ASSUME NEW r \in Runs, VerifyBind(r) PROVE InstallerInv'
  <2>1. TypeOK'
    BY <1>20 DEF VerifyBind, Test, Go, TypeOK, Forward, Backward, Over
  <2>2. OwnFlow'
    BY <1>20 DEF VerifyBind, Test, Go, OwnFlow, TypeOK, Memory, Forward, Backward, Over
  <2>3. OwnClient'
    BY <1>20 DEF VerifyBind, Test, Go, OwnClient, TypeOK, Memory, BeforeDelete, Forward,
       Backward, Over
  <2>4. OldFlowMigrates'
    BY <1>20 DEF VerifyBind, Test, Go, OldFlowMigrates, TypeOK, Memory, Forward, Backward,
       Over
  <2> QED BY <2>1, <2>2, <2>3, <2>4
<1>21. ASSUME NEW r \in Runs, UndoFlow(r) PROVE InstallerInv'
  <2>1. TypeOK'
    BY <1>21 DEF UndoFlow, Owns, Go, TypeOK, Forward, Backward, Over
  <2>2. OwnFlow'
    BY <1>21 DEF UndoFlow, Owns, Go, OwnFlow, TypeOK, Memory, Forward, Backward, Over
  <2>3. OwnClient'
    BY <1>21 DEF UndoFlow, Owns, Go, OwnClient, TypeOK, Memory, BeforeDelete, Forward,
       Backward, Over
  <2>4. OldFlowMigrates'
    <3>1. Owns(r) => flow.by = r
      BY DEF Owns, OwnFlow
    <3> QED BY <1>21, <3>1 DEF UndoFlow, Go, OldFlowMigrates, TypeOK
  <2> QED BY <2>1, <2>2, <2>3, <2>4
<1>22. ASSUME NEW r \in Runs, UndoClient(r) PROVE InstallerInv'
  <2>1. TypeOK'
    BY <1>22 DEF UndoClient, Go, TypeOK, Forward, Backward, Over
  <2>2. OwnFlow'
    BY <1>22 DEF UndoClient, Go, OwnFlow, TypeOK, Memory, Forward, Backward, Over
  <2>3. OwnClient'
    BY <1>22 DEF UndoClient, Go, OwnClient, TypeOK, Memory, BeforeDelete, Forward, Backward,
       Over
  <2>4. OldFlowMigrates'
    BY <1>22 DEF UndoClient, Go, OldFlowMigrates, TypeOK, Memory, Forward, Backward, Over
  <2> QED BY <2>1, <2>2, <2>3, <2>4
<1>23. ASSUME NEW r \in Runs, UndoProfile(r) PROVE InstallerInv'
  <2>1. profile' \in Profile
    BY <1>23 DEF UndoProfile, Memory, TypeOK
  <2>2. TypeOK'
    BY <1>23, <2>1 DEF UndoProfile, Go, TypeOK, Forward, Backward, Over
  <2>3. OwnFlow'
    BY <1>23, <2>1 DEF UndoProfile, Go, OwnFlow, TypeOK, Memory, Forward, Backward, Over
  <2>4. OwnClient'
    BY <1>23, <2>1 DEF UndoProfile, Go, OwnClient, TypeOK, Memory, BeforeDelete, Forward,
       Backward, Over
  <2>5. OldFlowMigrates'
    BY <1>23, <2>1 DEF UndoProfile, Go, OldFlowMigrates, TypeOK, Memory, Forward, Backward,
       Over
  <2> QED BY <2>2, <2>3, <2>4, <2>5
<1>24. ASSUME NEW r \in Runs, Rejected(r) PROVE InstallerInv'
  <2>1. mem' \in [Runs -> Memory]
    BY <1>24, NotedKeeps DEF Rejected
  <2>2. faults' \in Faults
    BY <1>24 DEF Rejected, Faults, TypeOK
  <2>3. TypeOK'
    BY <1>24, <2>1, <2>2 DEF Rejected, Noted, RememberProfile, MarkChanged, AfterFailure,
       Go, TypeOK, Forward, Backward, Over
  <2>4. OwnFlow'
    BY <1>24, NotedKeeps
       DEF Rejected, AfterFailure, Go, OwnFlow, TypeOK, Forward, Backward, Over
  <2>5. OwnClient'
    BY <1>24, NotedKeeps
       DEF Rejected, AfterFailure, Go, OwnClient, BeforeDelete, TypeOK, Forward, Backward, Over
  <2>6. OldFlowMigrates'
    BY <1>24, NotedKeeps
       DEF Rejected, AfterFailure, Go, OldFlowMigrates, TypeOK, Forward, Backward, Over
  <2> QED BY <2>3, <2>4, <2>5, <2>6
<1>25. ASSUME NEW r \in Runs, Die(r) PROVE InstallerInv'
  <2>1. faults' \in Faults
    BY <1>25 DEF Die, Faults, TypeOK
  <2>2. TypeOK'
    BY <1>25, <2>1 DEF Die, Go, TypeOK, Forward, Backward, Over
  <2>3. OwnFlow'
    BY <1>25, <2>1 DEF Die, Go, OwnFlow, TypeOK, Memory, Forward, Backward, Over
  <2>4. OwnClient'
    BY <1>25, <2>1 DEF Die, Go, OwnClient, TypeOK, Memory, BeforeDelete, Forward, Backward,
       Over
  <2>5. OldFlowMigrates'
    BY <1>25, <2>1 DEF Die, Go, OldFlowMigrates, TypeOK, Memory, Forward, Backward, Over
  <2> QED BY <2>2, <2>3, <2>4, <2>5
<1>26. ASSUME NEW r \in Runs, NEW k \in {1, 2}, NEW from, NEW next,
              UndoMethod(r, k, from, next),
              from \in {"undo1", "undo2"}, next \in {"undo2", "undoFlow"}
       PROVE  InstallerInv'
  <2>1. CASE ~mem[r].changed
    BY <1>26, <2>1 DEF UndoMethod, Go, TypeOK, OwnFlow, OwnClient, BeforeDelete, OldFlowMigrates,
       Forward, Backward, Over
  <2>2. CASE mem[r].changed
    <3>1. /\ flow \in Flow /\ flow.by = "before"
          /\ mem[r].legacy \in Requirements \X Requirements
      BY <2>2 DEF OldFlowMigrates, TypeOK, Memory
    <3>2. flow' = [flow EXCEPT !.methods[k] = mem[r].legacy[k]] /\ UNCHANGED <<client, profile, bound, mem, faults>>
      BY <1>26, <2>2 DEF UndoMethod, SetMethod
    <3>3. flow' \in Flow /\ flow'.by = flow.by /\ flow'.built = flow.built
      BY <3>1, <3>2 DEF Flow
    <3> QED BY <1>26, <3>1, <3>2, <3>3 DEF UndoMethod, Go, TypeOK, OwnFlow, OwnClient, BeforeDelete,
       OldFlowMigrates, Forward, Backward, Over
  <2> QED BY <2>1, <2>2
<1>27. ASSUME NEW r \in Runs, Lost(r) PROVE InstallerInv'
  <2>1. pc' = [pc EXCEPT ![r] = "undo1"] /\ Noted(r) /\ faults' \in Faults
    BY <1>27 DEF Lost, Throw, Go, TypeOK, Faults
  <2>2. pc' \in [Runs -> {"idle"} \cup Forward \cup Backward \cup Over]
    BY <2>1 DEF TypeOK, Backward
  <2>3. CASE pc[r] = "postFlow" /\ PostFlowEffect(r)
    <3>1. flow = None /\ flow' \in Flow /\ flow'.by = r /\ flow'.methods = Current
      BY <2>3, BoundsAssumption DEF PostFlowEffect, Flow, Current, Requirements
    <3>2. TypeOK' /\ OwnClient'
      BY <2>1, <2>2, <2>3, <3>1, NotedKeeps DEF PostFlowEffect, TypeOK, OwnClient, BeforeDelete,
         Forward
    <3>3. OwnFlow'
      BY <2>1, <3>1, NotedKeeps DEF TypeOK, OwnFlow
    <3>4. OldFlowMigrates'
      BY <2>1, <2>3, <3>1, NotedKeeps DEF TypeOK, OldFlowMigrates
    <3> QED BY <3>2, <3>3, <3>4
  <2>4. CASE pc[r] = "build" /\ BuildEffect
    <3>1. /\ flow \in Flow /\ flow.by = r /\ flow.built < BuildCalls
          /\ flow' = [flow EXCEPT !.built = @ + 1] /\ UNCHANGED <<client, profile, bound>>
      BY <2>4 DEF BuildEffect, OwnFlow, TypeOK
    <3>2. flow' \in Flow /\ flow'.by = r /\ flow'.methods = flow.methods
      BY <3>1 DEF Flow
    <3>3. TypeOK' /\ OwnClient'
      BY <2>1, <2>2, <2>4, <3>1, <3>2, NotedKeeps DEF TypeOK, OwnClient, BeforeDelete, Forward
    <3>4. OwnFlow'
      BY <2>1, <3>1, <3>2, NotedKeeps DEF TypeOK, OwnFlow
    <3>5. OldFlowMigrates'
      BY <2>1, <2>4, <3>1, <3>2, NotedKeeps DEF TypeOK, OldFlowMigrates
    <3> QED BY <3>3, <3>4, <3>5
  <2>5. CASE pc[r] = "postClient" /\ PostClientEffect(r)
    <3>1. client = None /\ client' \in Client /\ client'.by = r /\ UNCHANGED <<flow, profile, bound>>
      BY <2>5 DEF PostClientEffect, Client
    <3>2. TypeOK' /\ OwnFlow' /\ OldFlowMigrates'
      BY <2>1, <2>2, <2>5, <3>1, NotedKeeps DEF TypeOK, OwnFlow, OldFlowMigrates
    <3>3. \A o \in Runs : pc[o] # "findClient" /\ ~(mem[o].client /\ pc[o] \in BeforeDelete)
      BY <3>1 DEF OwnClient
    <3>4. ~mem[r].client
      BY <2>5, <3>3 DEF BeforeDelete, Forward
    <3>5. OwnClient'
      BY <2>1, <3>1, <3>3, <3>4, NotedKeeps DEF OwnClient, TypeOK
    <3> QED BY <3>2, <3>5
  <2>6. CASE \/ pc[r] = "putProfile" /\ PutProfileEffect(r)
             \/ pc[r] = "bind" /\ BindEffect(r)
    <3>1. profile' \in Profile /\ bound' \in BOOLEAN /\ UNCHANGED <<flow, client>>
      <4>1. CASE pc[r] = "putProfile" /\ PutProfileEffect(r)
        BY <4>1 DEF PutProfileEffect, Updated, Profile, OldFlowMigrates, TypeOK
      <4>2. CASE pc[r] = "bind" /\ BindEffect(r)
        BY <4>2 DEF BindEffect, TypeOK
      <4> QED BY <2>6, <4>1, <4>2
    <3>2. TypeOK' /\ OwnFlow' /\ OldFlowMigrates'
      BY <2>1, <2>2, <2>6, <3>1, NotedKeeps DEF TypeOK, OwnFlow, OldFlowMigrates
    <3>3. OwnClient'
      BY <2>1, <2>6, <3>1, NotedKeeps DEF TypeOK, OwnClient, BeforeDelete, Forward
    <3> QED BY <3>2, <3>3
  <2>7. CASE \/ pc[r] = "methods1" /\ SetMethod(1, "REQUIRED")
             \/ pc[r] = "methods2" /\ SetMethod(2, "DISABLED")
    <3>1. flow \in Flow /\ flow.by = "before" /\ mem[r].legacy # None
      BY <2>7 DEF OldFlowMigrates, TypeOK
    <3>2. flow' \in Flow /\ flow'.by = flow.by /\ flow'.built = flow.built /\ UNCHANGED <<client, profile, bound>>
      BY <2>7, <3>1 DEF SetMethod, Flow, Requirements
    <3>3. TypeOK' /\ OwnFlow' /\ OwnClient'
      BY <2>1, <2>2, <2>7, <3>1, <3>2, NotedKeeps DEF TypeOK, OwnFlow, OwnClient, BeforeDelete,
         Forward
    <3>4. OldFlowMigrates'
      BY <2>1, <2>7, <3>1, <3>2, NotedKeeps DEF TypeOK, OldFlowMigrates
    <3> QED BY <3>3, <3>4
  <2> QED BY <1>27, <2>3, <2>4, <2>5, <2>6, <2>7 DEF Lost
<1> QED
  BY <1>1, <1>2, <1>3, <1>4, <1>5, <1>6, <1>7, <1>8, <1>9, <1>10, <1>11, <1>12, <1>13, <1>14,
     <1>15, <1>16, <1>17, <1>18, <1>19, <1>20, <1>21, <1>22, <1>23, <1>24, <1>25, <1>26, <1>27
     DEF Next, RunStep, Forwards, Rollback

LEMMA InstallerInvHolds == Spec => []InstallerInv
BY InitInstallerInv, NextInstallerInv, PTL DEF Spec

-----------------------------------------------------------------------------
(* The realm and what every run remembers always have their types, however *)
(* runs overlap, fail, lose answers or die: no rollback writes a profile   *)
(* that was never read.                                                    *)
THEOREM TypeCorrect == Spec => []TypeOK
<1>1. InstallerInv => TypeOK
  BY DEF InstallerInv
<1> QED BY <1>1, InstallerInvHolds, PTL

(* However many runs overlap, each fills only the flow it posted, though   *)
(* it finds it, and addresses it, by an alias that all of them share       *)
(* (apply-passwordless-flow.mjs:118-147, main.go:281-338).                 *)
THEOREM BuildsOwn == Spec => []BuildsOwnFlow
<1>1. InstallerInv => BuildsOwnFlow
  BY DEF InstallerInv, OwnFlow, BuildsOwnFlow
<1> QED BY <1>1, InstallerInvHolds, PTL

(* A rollback deletes no flow and no client but those its own run created  *)
(* (apply-passwordless-flow.mjs:193-200, main.go:712-717).                 *)
THEOREM RollbackIsOwn == Spec => RollbackTakesOwn
<1> DEFINE Own == \A r \in Runs :
       /\ flow # None /\ flow' = None /\ pc[r] = "undoFlow" /\ pc'[r] # pc[r] => flow.by = r
       /\ client # None /\ client' = None /\ pc[r] = "undoClient" /\ pc'[r] # pc[r]
            => client.by = r
<1>1. InstallerInv /\ [Next]_vars => [Own]_vars
  <2> SUFFICES ASSUME InstallerInv, Next, NEW r \in Runs, pc'[r] # pc[r],
                      pc[r] \in {"undoFlow", "undoClient"}
               PROVE  /\ flow # None /\ flow' = None /\ pc[r] = "undoFlow" => flow.by = r
                      /\ client # None /\ client' = None /\ pc[r] = "undoClient" => client.by = r
    BY DEF vars
  <2>1. CASE UndoFlow(r)
    BY <2>1 DEF UndoFlow, Owns, InstallerInv, OwnFlow
  <2>2. CASE UndoClient(r)
    BY <2>2 DEF UndoClient, InstallerInv, OwnClient, BeforeDelete
  <2>3. CASE Rejected(r) \/ Die(r)
    BY <2>3 DEF Rejected, Die, realm
  <2>4. ASSUME AdminEdits PROVE pc'[r] = pc[r]
    BY <2>4 DEF AdminEdits
  <2>5. ASSUME NEW o \in Runs, Start(o) \/ Forwards(o) PROVE pc'[r] = pc[r]
    BY <2>5 DEF InstallerInv, TypeOK, Forwards, Start, Look, Validate, PostFlow, FindFlow, Build, Check,
       FindExistingClient, PostClient, FindClient, ReadProfile, PutProfile, VerifyProfile,
       Upgrade1, Upgrade2, CheckMethods, Bind, VerifyBind, Go, Throw, Test
  <2>6. ASSUME NEW o \in Runs, Lost(o) PROVE pc'[r] = pc[r]
    BY <2>6 DEF InstallerInv, TypeOK, Lost, Throw, Go
  <2>7. ASSUME NEW o \in Runs, o # r, Rollback(o) \/ Rejected(o) \/ Die(o) PROVE pc'[r] = pc[r]
    BY <2>7 DEF InstallerInv, TypeOK, Rollback, UndoMethod, UndoFlow, UndoClient, UndoProfile,
       Rejected, Die, Go
  <2>8. ASSUME Rollback(r) PROVE UndoFlow(r) \/ UndoClient(r)
    BY <2>8 DEF Rollback, UndoMethod, UndoProfile
  <2> QED BY <2>1, <2>2, <2>3, <2>4, <2>5, <2>6, <2>7, <2>8 DEF Next, RunStep
<1> QED BY <1>1, InstallerInvHolds, PTL DEF Spec, RollbackTakesOwn

-----------------------------------------------------------------------------
Working == Forward \cup Backward

(* A step of a run that has started.                                       *)
StepOf(r) == RunStep(r) \/ Rejected(r) \/ Lost(r) \/ Die(r)

(* A step moves one run, which is at work, and touches no other's memory.  *)
LEMMA OneMoves ==
  ASSUME NEW r \in Runs, InstallerInv, StepOf(r)
  PROVE  /\ pc[r] \in Working
         /\ pc' = [pc EXCEPT ![r] = pc'[r]] /\ pc'[r] \in Working \cup Over
         /\ \A o \in Runs \ {r} : pc'[o] = pc[o] /\ mem'[o] = mem[o]
<1> USE DEF InstallerInv, TypeOK, Working, Forward, Backward, Over
<1>1. CASE \/ Look(r) \/ Validate(r) \/ PostFlow(r) \/ FindFlow(r) \/ Build(r) \/ Check(r)
  BY <1>1 DEF Look, Validate, PostFlow, FindFlow, Build, Check, Go, Throw, Test, AfterFlow
<1>2. CASE \/ FindExistingClient(r) \/ PostClient(r) \/ FindClient(r)
           \/ ReadProfile(r) \/ PutProfile(r) \/ VerifyProfile(r)
  BY <1>2 DEF FindExistingClient, PostClient, FindClient, ReadProfile, PutProfile,
     VerifyProfile, Go, Throw, Test, AfterProfile, RememberProfile
<1>3. CASE \/ Upgrade1(r) \/ Upgrade2(r) \/ CheckMethods(r) \/ Bind(r) \/ VerifyBind(r)
  BY <1>3 DEF Upgrade1, Upgrade2, CheckMethods, Bind, VerifyBind, Go, Throw, Test, MarkChanged
<1>4. CASE Rollback(r)
  BY <1>4 DEF Rollback, UndoMethod, UndoFlow, UndoClient, UndoProfile, Go
<1>5. CASE Rejected(r)
  BY <1>5 DEF Rejected, Noted, RememberProfile, MarkChanged, Go, AfterFailure
<1>6. CASE Lost(r)
  BY <1>6 DEF Lost, Noted, RememberProfile, MarkChanged, Throw, Go
<1>7. CASE Die(r)
  BY <1>7 DEF Die, Go
<1> QED BY <1>1, <1>2, <1>3, <1>4, <1>5, <1>6, <1>7 DEF StepOf, RunStep, Forwards

(* What a run has read of the profile it may write, and it restores only   *)
(* what it read.                                                           *)
BeforePut == {"idle", "look", "validate", "postFlow", "findFlow", "build", "check", "client",
              "postClient", "findClient", "readProfile", "putProfile"}
RestoreInv ==
    \A r \in Runs :
       /\ pc[r] \in BeforePut => mem[r].original = None
       /\ pc[r] = "putProfile" => mem[r].read # None /\ ~Drifted(mem[r].read)
       /\ mem[r].original # None => mem[r].original = mem[r].read /\ ~Drifted(mem[r].read)

LEMMA NextRestoreInv == InstallerInv /\ RestoreInv /\ [Next]_vars => RestoreInv'
<1> SUFFICES ASSUME InstallerInv, RestoreInv, [Next]_vars PROVE RestoreInv'
  OBVIOUS
<1>0. /\ pc \in [Runs -> {"idle"} \cup Forward \cup Backward \cup Over]
      /\ mem \in [Runs -> Memory] /\ profile \in Profile
  BY DEF InstallerInv, TypeOK
<1>1. CASE UNCHANGED vars \/ AdminEdits
  BY <1>1 DEF vars, AdminEdits, RestoreInv
<1>2. ASSUME NEW r \in Runs, Start(r) PROVE RestoreInv'
  BY <1>0, <1>2 DEF Start, Go, RestoreInv, BeforePut
<1>3. ASSUME NEW r \in Runs, StepOf(r) PROVE RestoreInv'
  <2>1. /\ pc[r] \in Working /\ pc'[r] \in Working \cup Over
        /\ \A o \in Runs \ {r} : pc'[o] = pc[o] /\ mem'[o] = mem[o]
    BY <1>3, OneMoves
  <2>2. CASE ReadProfile(r)
    <3>1. mem'[r].read = profile /\ mem'[r].original = None
      BY <1>0, <2>2 DEF ReadProfile, RestoreInv, BeforePut, Memory
    <3>2. pc'[r] = "putProfile" => ~Drifted(profile)
      BY <1>0, <2>2 DEF ReadProfile, Go
    <3> QED BY <1>0, <2>1, <3>1, <3>2, NoneAssumption DEF RestoreInv
  <2>3. CASE (PutProfile(r) \/ Rejected(r) \/ Lost(r)) /\ pc[r] = "putProfile"
    <3>1. /\ mem'[r].original = mem[r].read /\ mem'[r].read = mem[r].read
          /\ pc'[r] \in {"verifyProfile", "undo1"}
      BY <1>0, <2>3 DEF PutProfile, Rejected, Lost, Noted, RememberProfile, Memory, Go, Throw,
         AfterFailure, Forward
    <3> QED BY <2>1, <2>3, <3>1 DEF RestoreInv, BeforePut
  <2>4. CASE /\ ~ReadProfile(r)
             /\ ~((PutProfile(r) \/ Rejected(r) \/ Lost(r)) /\ pc[r] = "putProfile")
    <3>1. mem'[r].read = mem[r].read /\ mem'[r].original = mem[r].original
      BY <1>0, <1>3, <2>4 DEF StepOf, RunStep, Forwards, Rollback, Look, Validate, PostFlow,
         FindFlow, Build, Check, FindExistingClient, PostClient, FindClient, PutProfile,
         VerifyProfile, Upgrade1, Upgrade2, CheckMethods, Bind, VerifyBind, UndoMethod,
         UndoFlow, UndoClient, UndoProfile, Rejected, Lost, Die, Noted, MarkChanged, Memory
    <3>2. pc'[r] # "putProfile" /\ (pc'[r] \in BeforePut => pc[r] \in BeforePut)
      <4>1. CASE Forwards(r)
        BY <1>0, <2>4, <4>1 DEF Forwards, Look, Validate, PostFlow, FindFlow, Build, Check,
           FindExistingClient, PostClient, FindClient, PutProfile, VerifyProfile, Upgrade1,
           Upgrade2, CheckMethods, Bind, VerifyBind, Go, Throw, Test, AfterFlow, AfterProfile,
           BeforePut
      <4>2. CASE Rollback(r)
        BY <1>0, <4>2 DEF Rollback, UndoMethod, UndoFlow, UndoClient, UndoProfile, Go, BeforePut
      <4>3. CASE Rejected(r) \/ Lost(r) \/ Die(r)
        BY <1>0, <4>3 DEF Rejected, Lost, Die, Throw, Go, AfterFailure, BeforePut, Forward,
           Backward
      <4> QED BY <1>3, <4>1, <4>2, <4>3 DEF StepOf, RunStep
    <3> QED BY <2>1, <3>1, <3>2 DEF RestoreInv
  <2> QED BY <2>2, <2>3, <2>4
<1> QED BY <1>1, <1>2, <1>3 DEF Next, StepOf

LEMMA RestoreInvHolds == Spec => []RestoreInv
<1>1. Init => RestoreInv
  <2> SUFFICES ASSUME Init PROVE RestoreInv
    OBVIOUS
  <2>1. \A r \in Runs : pc[r] = "idle" /\ mem[r].original = None
    BY DEF Init, Blank
  <2> QED BY <2>1 DEF RestoreInv
<1> QED BY <1>1, NextRestoreInv, InstallerInvHolds, PTL DEF Spec

(* The rollback's last call, when nothing fails, is UndoProfile.           *)
LEMMA OnlyUndoProfileFails ==
  ASSUME InstallerInv, Next, NEW r \in Runs, pc[r] = "undoProfile", pc'[r] = "failed",
         faults' = faults
  PROVE  UndoProfile(r)
<1>0. pc \in [Runs -> {"idle"} \cup Forward \cup Backward \cup Over] /\ faults \in Faults
  BY DEF InstallerInv, TypeOK
<1>1. StepOf(r)
  <2>1. PICK o \in Runs : Start(o) \/ StepOf(o)
    BY DEF Next, AdminEdits, StepOf
  <2>2. o = r
    BY <1>0, <2>1, OneMoves DEF Start, Go
  <2> QED BY <2>1, <2>2 DEF Start
<1>2. ~(Rejected(r) \/ Lost(r) \/ Die(r))
  BY <1>0 DEF Rejected, Lost, Die, Faults
<1> QED BY <1>1, <1>2 DEF StepOf, RunStep, Rollback, UndoMethod, UndoFlow, UndoClient, Forwards,
        Look, Validate, PostFlow, FindFlow, Build, Check, FindExistingClient, PostClient,
        FindClient, ReadProfile, PutProfile, VerifyProfile, Upgrade1, Upgrade2, CheckMethods,
        Bind, VerifyBind

(* "If your realm deliberately requires names [...] the CLI will not       *)
(* silently weaken it" (docs/OTP_SETUP.md:481-483): for any number of runs *)
(* that overlap, fail or die, only a run that read the profile before the  *)
(* requirement was saved writes over it                                    *)
(* (apply-passwordless-flow.mjs:230-277).                                  *)
THEOREM CustomKept == Spec => CustomProfileIsKept
<1> DEFINE Kept == Custom(profile) /\ profile' # profile =>
               \/ UNCHANGED pc
               \/ \E r \in Runs : /\ pc[r] \in {"putProfile", "undoProfile"} /\ pc'[r] # pc[r]
                                  /\ mem[r].read # None /\ ~Custom(mem[r].read)
<1>1. InstallerInv /\ RestoreInv /\ [Next]_vars => [Kept]_vars
  <2> SUFFICES ASSUME InstallerInv, RestoreInv, Next, profile' # profile, pc' # pc
               PROVE  \E r \in Runs : /\ pc[r] \in {"putProfile", "undoProfile"}
                                      /\ pc'[r] # pc[r] /\ mem[r].read # None
                                      /\ ~Custom(mem[r].read)
    OBVIOUS
  <2>1. PICK r \in Runs : Start(r) \/ StepOf(r)
    BY DEF Next, AdminEdits, StepOf
  <2>2. \/ PutProfile(r) \/ UndoProfile(r)
        \/ Lost(r) /\ pc[r] = "putProfile"
    BY <2>1 DEF Start, StepOf, RunStep, Forwards, Rollback, Look, Validate, PostFlow,
       PostFlowEffect, FindFlow, Build, BuildEffect, Check, FindExistingClient, PostClient,
       PostClientEffect, FindClient, ReadProfile, VerifyProfile, Upgrade1, Upgrade2, SetMethod,
       CheckMethods, Bind, BindEffect, VerifyBind, UndoMethod, UndoFlow, UndoClient, Rejected,
       Lost, Die, realm
  <2>3. pc[r] \in {"putProfile", "undoProfile"} /\ pc'[r] # pc[r]
    BY <2>2 DEF PutProfile, UndoProfile, Lost, Throw, Go, InstallerInv, TypeOK
  <2>4. mem[r].read # None /\ ~Drifted(mem[r].read)
    <3>1. CASE pc[r] = "putProfile"
      BY <3>1 DEF RestoreInv
    <3>2. CASE UndoProfile(r)
      <4>1. mem[r].original # None
        BY <3>2 DEF UndoProfile
      <4> QED BY <4>1 DEF RestoreInv
    <3> QED BY <2>2, <3>1, <3>2 DEF PutProfile
  <2>5. ~Custom(mem[r].read)
    BY <2>4 DEF Drifted, Custom
  <2> QED BY <2>3, <2>4, <2>5
<1> QED BY <1>1, InstallerInvHolds, RestoreInvHolds, PTL DEF Spec, CustomProfileIsKept
=============================================================================
