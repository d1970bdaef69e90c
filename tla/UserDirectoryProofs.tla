------------------------- MODULE UserDirectoryProofs --------------------------
(***************************************************************************)
(* Theorems about UserDirectory, for any number of addresses, sign-ins,    *)
(* accounts and changes by an administrator, and pages of any size.        *)
(***************************************************************************)
EXTENDS UserDirectory, FiniteSetTheorems, SequenceTheorems, TLAPS

(* TypeOK by the part of the state that it is about.                       *)
DirectoryOK ==
    /\ users \in [Ids -> Account \cup {NoAccount}]
    /\ created \in 0..MaxAccounts /\ edits \in 0..MaxEdits
    /\ \A id \in Ids : id > created => ~Exists(id)
    /\ \A i, j \in Ids : Exists(i) /\ users[i].address = users[j].address => i = j
    /\ quiet \in BOOLEAN /\ late \subseteq Ids
SignInsOK ==
    /\ signIn \in [SignIns -> SignInState]
    /\ \A s \in SignIns : /\ signIn[s].pc = "code" <=> signIn[s].id \in 1..created
                          /\ signIn[s].id <= created
                          /\ signIn[s].pc \in {"insert", "again"} => signIn[s].address \in Addresses

(* What the tool may hold: in its list, only accounts that were abandoned  *)
(* at the start if they are marked and have no credential; among its       *)
(* candidates, only accounts that were abandoned at the start.             *)
Pending(u)  == u # NoAccount /\ u.marked /\ ~u.verified /\ u.is \in {Plain, "disabled"}
Listable    == {e \in Entry : e.id <= created /\
                   (Exists(e.id) /\ users[e.id].marked /\ users[e.id].is # "credential"
                      => e.id \in run.abandoned)}
Deletable   == {e \in Entry : e.id \in run.abandoned}
RunSound ==
    /\ run \in RunState
    /\ run.cutoff \subseteq 1..created
    /\ \A id \in run.cutoff : Pending(users[id]) => id \in run.abandoned
    /\ run.listed \in Seq(Listable) /\ run.candidates \in Seq(Deletable)
    /\ run.pc = "credentials" =>
          /\ run.listed # <<>>
          /\ Exists(Head(run.listed).id) => users[Head(run.listed).id].marked

UsersInv == DirectoryOK /\ SignInsOK /\ RunSound

(* What a step may make of the accounts there are.                         *)
Evolves ==
    /\ created' \in created..MaxAccounts
    /\ \A id \in Ids : id <= created /\ Exists(id)' =>
          /\ Exists(id)
          /\ users'[id].marked = users[id].marked
          /\ users[id].verified => users'[id].verified
          /\ users[id].old => users'[id].old
          /\ users'[id].is # users[id].is => users[id].is = Plain

-----------------------------------------------------------------------------
LEMMA InitUsersInv == Init => UsersInv
<1> SUFFICES ASSUME Init PROVE UsersInv
  OBVIOUS
<1> USE BoundsAssumption, PageAssumption DEF Init
<1>1. DirectoryOK
  BY DEF DirectoryOK, Ids, Exists
<1>2. SignInsOK
  BY DEF SignInsOK, SignInState, SignInPcs, AtForm
<1>3. RunSound
  BY EmptySeq DEF RunSound, RunState, RunPcs, NotRunning
<1> QED BY <1>1, <1>2, <1>3 DEF UsersInv

(* An account of its own address, and none is lost.                        *)
LEMMA CreateOK ==
  ASSUME DirectoryOK, NEW a \in Addresses, NEW marked \in BOOLEAN, Create(a, marked),
         edits' \in 0..MaxEdits
  PROVE  DirectoryOK' /\ Evolves /\ created' = created + 1
<1> DEFINE new == [address |-> a, marked |-> marked, verified |-> FALSE, old |-> FALSE, is |-> Plain]
<1> USE AddressesAssumption, BoundsAssumption DEF Ids
<1>1. /\ created < MaxAccounts /\ Found(a) = {} /\ created' = created + 1
      /\ users' = [users EXCEPT ![created + 1] = new] /\ quiet' \in BOOLEAN
  BY DEF Create, Disturb
<1>1a. late' \subseteq Ids
  <2>1. late' = late \cup {id \in Ids : Unread(id)}
    BY DEF Create, Disturb
  <2> QED BY <2>1 DEF DirectoryOK
<1>2. new \in Account /\ new # NoAccount /\ new.address = a
  BY DEF Account, Is, NoAccount
<1>3. /\ users' \in [Ids -> Account \cup {NoAccount}]
      /\ created + 1 \in Ids /\ users'[created + 1] = new
      /\ \A id \in Ids \ {created + 1} : users'[id] = users[id]
  BY <1>1, <1>2 DEF DirectoryOK
<1>4. \A id \in Ids : id > created' => ~Exists(id)'
  BY <1>1, <1>3 DEF DirectoryOK, Exists
<1>5. \A i, j \in Ids : Exists(i)' /\ users'[i].address = users'[j].address => i = j
  BY <1>1, <1>2, <1>3 DEF DirectoryOK, Exists, Found
<1>6. Evolves
  BY <1>1, <1>3 DEF Evolves, DirectoryOK, Exists
<1> HIDE DEF new
<1> QED BY <1>1, <1>1a, <1>3, <1>4, <1>5, <1>6 DEF DirectoryOK

(* A change of accounts that adds none and changes no address.             *)
LEMMA ChangeOK ==
  ASSUME DirectoryOK, created' = created, quiet' \in BOOLEAN, late' \subseteq Ids,
         edits' \in 0..MaxEdits,
         users' \in [Ids -> Account \cup {NoAccount}],
         \A id \in Ids : users'[id] # users[id] =>
            /\ Exists(id)
            /\ Exists(id)' =>
                  /\ users'[id].address = users[id].address
                  /\ users'[id].marked = users[id].marked
                  /\ users[id].verified => users'[id].verified
                  /\ users[id].old => users'[id].old
                  /\ users'[id].is # users[id].is => users[id].is = Plain
  PROVE  DirectoryOK' /\ Evolves
<1> USE AddressesAssumption
<1>1. \A id \in Ids : id > created' => ~Exists(id)'
  BY DEF DirectoryOK, Exists
<1>2. \A i, j \in Ids : Exists(i)' /\ users'[i].address = users'[j].address => i = j
  <2> SUFFICES ASSUME NEW i \in Ids, NEW j \in Ids, Exists(i)', users'[i].address = users'[j].address
               PROVE  i = j
    OBVIOUS
  <2>1. users'[i] \in Account /\ users'[j] \in Account
    BY DEF Exists, NoAccount, Account
  <2>2. Exists(j)'
    BY <2>1 DEF Exists, NoAccount, Account
  <2>3. Exists(i) /\ users[i].address = users'[i].address /\ users[j].address = users'[j].address
    BY <2>2 DEF Exists
  <2> QED BY <2>3 DEF DirectoryOK
<1>3. Evolves
  BY DEF Evolves, DirectoryOK, Exists
<1> QED BY <1>1, <1>2, <1>3 DEF DirectoryOK

(* Setting one field of an account that exists.                            *)
LEMMA FieldOK ==
  ASSUME DirectoryOK, NEW id \in Ids, Exists(id), NEW is \in Is
  PROVE  /\ users[id] \in Account
         /\ [users[id] EXCEPT !.verified = TRUE] \in Account
         /\ [users[id] EXCEPT !.old = TRUE] \in Account
         /\ [users[id] EXCEPT !.is = is] \in Account
<1>1. users[id] \in Account
  BY DEF DirectoryOK, Exists
<1> QED BY <1>1 DEF Account

LEMMA AdministerOK == UsersInv /\ Administer => DirectoryOK' /\ Evolves
<1> SUFFICES ASSUME UsersInv, Administer PROVE DirectoryOK' /\ Evolves
  OBVIOUS
<1>0. DirectoryOK /\ edits' \in 0..MaxEdits /\ quiet' \in BOOLEAN /\ late' \subseteq Ids
  BY BoundsAssumption DEF UsersInv, DirectoryOK, Administer, Disturb
<1>1. ASSUME NEW a \in Addresses, Create(a, FALSE) PROVE DirectoryOK' /\ Evolves
  BY <1>0, <1>1, CreateOK
<1>2. ASSUME NEW id \in Ids, Exists(id), users[id].is = Plain, UNCHANGED created,
             NEW is \in Is \ {Plain}, users' = [users EXCEPT ![id].is = is]
      PROVE  DirectoryOK' /\ Evolves
  <2>1. /\ users' \in [Ids -> Account \cup {NoAccount}]
        /\ \A o \in Ids : users'[o] = IF o = id THEN [users[id] EXCEPT !.is = is] ELSE users[o]
    BY <1>0, <1>2, FieldOK DEF DirectoryOK
  <2>2. users[id] \in Account
    BY <1>0, <1>2, FieldOK
  <2> QED BY <1>0, <1>2, <2>1, <2>2, ChangeOK DEF Account
<1>3. ASSUME NEW id \in Ids, Exists(id), users' = [users EXCEPT ![id] = NoAccount], UNCHANGED created
      PROVE  DirectoryOK' /\ Evolves
  <2>1. /\ users' \in [Ids -> Account \cup {NoAccount}]
        /\ \A o \in Ids : users'[o] = IF o = id THEN NoAccount ELSE users[o]
    BY <1>0, <1>3 DEF DirectoryOK
  <2> QED BY <1>0, <1>3, <2>1, ChangeOK DEF Exists
<1> QED BY <1>1, <1>2, <1>3 DEF Administer

LEMMA AgesOK == UsersInv /\ Ages => DirectoryOK' /\ Evolves
<1> SUFFICES ASSUME UsersInv, Ages PROVE DirectoryOK' /\ Evolves
  OBVIOUS
<1>0. DirectoryOK
  BY DEF UsersInv
<1>1. PICK id \in Ids : Exists(id) /\ users' = [users EXCEPT ![id].old = TRUE]
  BY DEF Ages
<1>2. users[id] \in Account /\ [users[id] EXCEPT !.old = TRUE] \in Account
  BY <1>0, <1>1, FieldOK DEF Is
<1>3. /\ users' \in [Ids -> Account \cup {NoAccount}]
      /\ \A o \in Ids : users'[o] = IF o = id THEN [users[id] EXCEPT !.old = TRUE] ELSE users[o]
  BY <1>0, <1>1, <1>2 DEF DirectoryOK
<1> QED BY <1>0, <1>1, <1>2, <1>3, ChangeOK DEF Ages, Account, DirectoryOK

-----------------------------------------------------------------------------
LEMMA GotoPc ==
  ASSUME NEW s \in SignIns, signIn \in [SignIns -> SignInState], NEW pc, NEW a, NEW id,
         Goto(s, pc, a, id)
  PROVE  signIn'[s].pc = pc
BY DEF Goto

(* A lookup ends in a user that exists, or in a refusal.                   *)
LEMMA IdentifiedOK ==
  ASSUME UsersInv, NEW s \in SignIns, NEW a \in Addresses, NEW id \in Found(a),
         Identified(s, a, id), UNCHANGED <<users, created>>
  PROVE  SignInsOK'
<1> USE AddressesAssumption, BoundsAssumption DEF UsersInv, Ids
<1>1. id \in Ids /\ users[id].address = a
  BY DEF Found
<1>2. id \in 1..created
  <2>1. Exists(id)
    BY <1>1 DEF Exists, NoAccount
  <2> QED BY <1>1, <2>1 DEF DirectoryOK
<1>3. [pc |-> "refused", address |-> a, id |-> 0] \in SignInState
      /\ [pc |-> "code", address |-> a, id |-> id] \in SignInState
  BY <1>1 DEF SignInState, SignInPcs
<1> QED BY <1>2, <1>3 DEF Identified, Goto, SignInsOK, DirectoryOK

LEMMA SignInStepOK ==
  ASSUME UsersInv, NEW s \in SignIns, SignInStep(s)
  PROVE  DirectoryOK' /\ SignInsOK' /\ Evolves /\ UNCHANGED run
<1> USE AddressesAssumption, BoundsAssumption DEF UsersInv
<1>0. /\ signIn[s] \in SignInState /\ 0 \notin 1..created /\ created \in Nat
      /\ edits \in 0..MaxEdits
  BY DEF SignInsOK, DirectoryOK
<1>1. ASSUME UNCHANGED <<users, created, edits, quiet, late>> PROVE DirectoryOK' /\ Evolves
  BY <1>1, ChangeOK DEF DirectoryOK
<1>2. ASSUME NEW a \in Addresses, Submit(s, a)
      PROVE  DirectoryOK' /\ SignInsOK' /\ Evolves /\ UNCHANGED run
  <2>1. UNCHANGED <<users, created, edits, run, quiet, late>>
    BY <1>2 DEF Submit
  <2>2. DirectoryOK' /\ Evolves
    BY <2>1, ChangeOK DEF DirectoryOK
  <2>3. CASE Goto(s, "insert", a, 0)
    <3>1. [pc |-> "insert", address |-> a, id |-> 0] \in SignInState
      BY DEF SignInState, SignInPcs
    <3> QED BY <1>0, <2>1, <2>2, <2>3, <3>1 DEF Goto, SignInsOK
  <2>4. CASE \E id \in Found(a) : Identified(s, a, id)
    BY <2>1, <2>2, <2>4, IdentifiedOK
  <2> QED BY <1>2, <2>3, <2>4, <2>2, <2>1 DEF Submit
<1>3. CASE Insert(s)
  <2>0. signIn[s].address \in Addresses
    BY <1>3 DEF Insert, SignInsOK
  <2>1. CASE /\ Create(signIn[s].address, TRUE)
             /\ Goto(s, "code", signIn[s].address, created + 1)
    <3>1. DirectoryOK' /\ Evolves /\ created' = created + 1
      BY <1>0, <1>3, <2>0, <2>1, CreateOK DEF Insert
    <3>2. [pc |-> "code", address |-> signIn[s].address, id |-> created + 1] \in SignInState
      BY <1>0, <2>0, <3>1 DEF SignInState, SignInPcs, Ids, DirectoryOK
    <3>3. \A o \in SignIns : /\ signIn[o].id \in 1..created' <=> signIn[o].id \in 1..created
                             /\ signIn[o].id <= created'
      BY <1>0, <3>1 DEF SignInsOK, SignInState, Ids
    <3>4. SignInsOK'
      <4>1. signIn' \in [SignIns -> SignInState]
        BY <2>1, <3>2 DEF Goto, SignInsOK
      <4>2. \A o \in SignIns \ {s} : signIn'[o] = signIn[o]
        BY <2>1 DEF Goto, SignInsOK
      <4>3. signIn'[s] = [pc |-> "code", address |-> signIn[s].address, id |-> created + 1]
        BY <2>1 DEF Goto, SignInsOK
      <4> QED BY <1>0, <3>1, <3>3, <4>1, <4>2, <4>3 DEF SignInsOK
    <3> QED BY <1>3, <3>1, <3>4 DEF Insert
  <2>2. CASE Duplicate(s) /\ UNCHANGED <<users, created, quiet, late>>
    <3>1. [pc |-> "again", address |-> signIn[s].address, id |-> 0] \in SignInState
      BY <1>0 DEF SignInState, SignInPcs
    <3>2. SignInsOK'
      BY <1>0, <2>0, <2>2, <3>1 DEF Duplicate, Goto, SignInsOK
    <3> QED BY <1>3, <2>2, <3>2, <1>1 DEF Insert
  <2> QED BY <1>3, <2>1, <2>2 DEF Insert
<1>4. CASE LookAgain(s)
  <2>0. signIn[s].address \in Addresses /\ UNCHANGED <<users, created, edits, run, quiet, late>>
    BY <1>4 DEF LookAgain, SignInsOK
  <2>1. DirectoryOK' /\ Evolves
    BY <2>0, ChangeOK DEF DirectoryOK
  <2>2. CASE \E id \in Found(signIn[s].address) : Identified(s, signIn[s].address, id)
    BY <2>0, <2>1, <2>2, IdentifiedOK
  <2>3. CASE Goto(s, "refused", signIn[s].address, 0)
    <3>1. [pc |-> "refused", address |-> signIn[s].address, id |-> 0] \in SignInState
      BY <2>0 DEF SignInState, SignInPcs
    <3> QED BY <1>0, <2>0, <2>1, <2>3, <3>1 DEF Goto, SignInsOK
  <2> QED BY <1>4, <2>2, <2>3 DEF LookAgain
<1>5. CASE EnterCode(s)
  <2>1. DirectoryOK' /\ Evolves /\ created' = created
    <3>1. CASE UNCHANGED <<users, quiet, late>>
      BY <1>5, <3>1, ChangeOK DEF EnterCode, DirectoryOK
    <3>2. CASE /\ Exists(signIn[s].id) /\ Disturb
               /\ users' = [users EXCEPT ![signIn[s].id].verified = TRUE]
      <4> DEFINE id == signIn[s].id
      <4>1. id \in Ids /\ Exists(id)
        BY <1>5, <3>2, <1>0 DEF EnterCode, SignInsOK, DirectoryOK, Ids
      <4>2. users[id] \in Account /\ [users[id] EXCEPT !.verified = TRUE] \in Account
        BY <4>1, FieldOK DEF Is
      <4>3. /\ users' \in [Ids -> Account \cup {NoAccount}]
            /\ \A o \in Ids : users'[o] = IF o = id THEN [users[id] EXCEPT !.verified = TRUE]
                                                    ELSE users[o]
        BY <3>2, <4>1, <4>2 DEF DirectoryOK
      <4>4. created' = created /\ quiet' \in BOOLEAN /\ edits' = edits /\ late' \subseteq Ids
        BY <1>5, <3>2 DEF EnterCode, Disturb, DirectoryOK
      <4> HIDE DEF id
      <4> QED BY <1>0, <4>1, <4>2, <4>3, <4>4, ChangeOK DEF Account
    <3> QED BY <1>5, <3>1, <3>2 DEF EnterCode
  <2>2. AtForm \in SignInState /\ AtForm.id = 0 /\ AtForm.pc = "form"
    BY DEF AtForm, SignInState, SignInPcs
  <2> QED BY <1>0, <1>5, <2>1, <2>2 DEF EnterCode, SignInsOK
<1> QED BY <1>2, <1>3, <1>4, <1>5 DEF SignInStep

-----------------------------------------------------------------------------
(* Accounts that evolve leave what the tool holds as it should be.         *)
LEMMA RunUnmoved ==
  ASSUME UsersInv, DirectoryOK', Evolves, UNCHANGED run
  PROVE  RunSound'
<1> USE DEF UsersInv
<1>0. created \in Nat /\ created' \in Nat /\ created <= created'
  BY BoundsAssumption DEF DirectoryOK, Evolves
<1>1. run' \in RunState /\ run'.cutoff \subseteq 1..created'
  BY <1>0 DEF RunSound
<1>2. \A id \in run'.cutoff : Pending(users'[id]) => id \in run'.abandoned
  <2> SUFFICES ASSUME NEW id \in run.cutoff, Pending(users'[id]) PROVE id \in run.abandoned
    OBVIOUS
  <2>1. id \in Ids /\ id <= created /\ Exists(id)'
    BY BoundsAssumption DEF RunSound, Pending, Exists, Ids, DirectoryOK
  <2>2. users[id] \in Account /\ users'[id] \in Account
    BY <2>1 DEF Evolves, DirectoryOK, Exists
  <2>3. Pending(users[id])
    BY <2>1, <2>2 DEF Evolves, Pending, Exists, Account, Plain
  <2> QED BY <2>3 DEF RunSound
<1>3. Listable \subseteq Listable'
  <2> SUFFICES ASSUME NEW e \in Entry, e.id <= created,
                      Exists(e.id) /\ users[e.id].marked /\ users[e.id].is # "credential"
                         => e.id \in run.abandoned,
                      Exists(e.id)', users'[e.id].marked, users'[e.id].is # "credential"
               PROVE  e.id \in run.abandoned
    BY <1>0 DEF Listable, Entry, Ids
  <2>1. e.id \in Ids
    BY DEF Entry
  <2> QED BY <2>1 DEF Evolves, Plain
<1>4. run'.listed \in Seq(Listable') /\ run'.candidates \in Seq(Deletable')
  BY <1>3, SeqMonotonic DEF RunSound, Deletable
<1>5. ASSUME run'.pc = "credentials"
      PROVE  /\ run'.listed # <<>>
             /\ Exists(Head(run.listed).id)' => users'[Head(run.listed).id].marked
  <2>1. run.listed # <<>> /\ Head(run.listed) \in Listable
    BY <1>5, HeadTailProperties DEF RunSound
  <2>2. Head(run.listed).id \in Ids /\ Head(run.listed).id <= created
    BY <2>1 DEF Listable, Entry
  <2> QED BY <1>5, <2>1, <2>2 DEF RunSound, Evolves
<1> QED BY <1>1, <1>2, <1>4, <1>5 DEF RunSound, Exists

(* A page starts at most as far on as there can be accounts.               *)
LEMMA FullPage ==
  ASSUME UsersInv, ~LastPage(Page(run.first)), run.first \in Nat
  PROVE  run.first + PageSize \in 0..MaxAccounts + PageSize
<1> USE BoundsAssumption, PageAssumption
<1>1. IsFiniteSet(Ids) /\ Cardinality(Ids) = MaxAccounts
  BY FS_Interval DEF Ids
<1>2. Page(run.first) \in SUBSET Ids
  BY DEF Page
<1>3. Page(run.first) # {}
  BY FS_EmptySet, <1>1, <1>2, FS_Subset DEF LastPage
<1>4. PICK id \in Ids : Rank(id) \in run.first..run.first + PageSize - 1
  BY <1>3 DEF Page
<1>5. Rank(id) <= MaxAccounts
  <2>1. {j \in Ids : Exists(j) /\ users[j].address < users[id].address} \in SUBSET Ids
    OBVIOUS
  <2> QED BY <1>1, <2>1, FS_Subset DEF Rank
<1> QED BY <1>4, <1>5

(* A list entry of a page is one that the tool may hold.                   *)
LEMMA EntriesListable ==
  ASSUME UsersInv, NEW found \in BoundedSeq(Ids, PageSize),
         Sorted(found, {id \in Page(run.first) : PendingUserShape(id)})
  PROVE  Entries(found) \in Seq(Listable)
<1> USE PageAssumption DEF UsersInv
<1>1. PICK m \in 0..PageSize : found \in [1..m -> Ids]
  BY DEF BoundedSeq, SeqOf
<1>2. m \in Nat /\ found \in Seq(Ids) /\ Len(found) = m
  BY <1>1
<1>3. ASSUME NEW i \in 1..m
      PROVE  [id |-> found[i], address |-> users[found[i]].address] \in Listable
  <2> DEFINE id == found[i]
  <2>1. id \in ToSet(found)
    BY <1>1 DEF ToSet
  <2>2. id \in Ids /\ Exists(id) /\ PendingUserShape(id)
    BY <2>1 DEF Sorted, Page
  <2>3. users[id] \in Account
    BY <2>2 DEF DirectoryOK, Exists
  <2>4. id <= created
    BY <2>2, BoundsAssumption DEF DirectoryOK, Ids
  <2>5. users[id].marked /\ users[id].is # "credential" => id \in run.abandoned
    <3>1. users[id].is \in Is /\ users[id].is \notin {"named", "mailless"} /\ ~users[id].verified
          /\ id \in run.cutoff
      BY <2>2, <2>3 DEF PendingUserShape, Account
    <3>2. users[id].marked /\ users[id].is # "credential" => Pending(users[id])
      BY <2>2, <3>1 DEF Pending, Exists, Is, Plain
    <3> QED BY <3>1, <3>2 DEF RunSound
  <2> HIDE DEF id
  <2>6. [id |-> id, address |-> users[id].address] \in Listable
    BY <2>2, <2>3, <2>4, <2>5 DEF Listable, Entry, Account
  <2> QED BY <2>6 DEF id
<1>4. Entries(found) \in [1..m -> Listable]
  BY <1>2, <1>3 DEF Entries
<1> QED BY <1>2, <1>4

LEMMA RunStepOK ==
  ASSUME UsersInv, RunStep
  PROVE  UsersInv'
<1> USE BoundsAssumption, PageAssumption DEF UsersInv
<1>0. /\ run \in RunState /\ run.listed \in Seq(Listable) /\ run.candidates \in Seq(Deletable)
      /\ created \in Nat /\ edits \in 0..MaxEdits /\ late' \subseteq Ids
  BY DEF RunSound, DirectoryOK, RunStep
<1>1. \A pc \in RunPcs : NotRunning(pc) \in RunState
  BY DEF NotRunning, RunState
<1>2. ASSUME UNCHANGED <<users, created, edits, signIn>>, quiet' \in BOOLEAN
      PROVE  DirectoryOK' /\ SignInsOK' /\ Evolves
  <2>1. DirectoryOK' /\ Evolves
    BY <1>0, <1>2, ChangeOK DEF DirectoryOK
  <2> QED BY <1>2, <2>1 DEF SignInsOK
<1>3. ASSUME NEW pc \in RunPcs \ {"credentials"}, run' = NotRunning(pc) PROVE RunSound'
  BY <1>1, <1>3, EmptySeq DEF RunSound, NotRunning
<1>4. ASSUME NEW e \in BOOLEAN, Start(e) PROVE UsersInv'
  <2>1. DirectoryOK' /\ SignInsOK'
    BY <1>2, <1>4 DEF Start
  <2>2. run' = [NotRunning("list") EXCEPT
                  !.execute = e,
                  !.cutoff = {id \in Ids : Exists(id) /\ users[id].old},
                  !.abandoned = {id \in Ids : Abandoned(users[id])}] /\ UNCHANGED <<users, created>>
    BY <1>4 DEF Start
  <2>3. run' \in RunState
    BY <2>2, <1>1 DEF RunState, RunPcs, NotRunning
  <2>4. /\ run'.pc = "list" /\ run'.listed = <<>> /\ run'.candidates = <<>>
        /\ run'.cutoff = {id \in Ids : Exists(id) /\ users[id].old}
        /\ run'.abandoned = {id \in Ids : Abandoned(users[id])}
    BY <2>2 DEF NotRunning
  <2>5. run'.cutoff \subseteq 1..created'
    BY <2>2, <2>4, <1>0 DEF DirectoryOK, Ids
  <2>6. \A id \in run'.cutoff : Pending(users'[id]) => id \in run'.abandoned
    BY <2>2, <2>4 DEF Pending, Abandoned
  <2> QED BY <2>1, <2>3, <2>4, <2>5, <2>6, EmptySeq DEF RunSound
<1>5. ASSUME UNCHANGED <<users, created, edits, signIn, quiet>>,
             run' \in RunState, run'.cutoff = run.cutoff, run'.abandoned = run.abandoned,
             run'.listed \in Seq(Listable), run'.candidates \in Seq(Deletable),
             run'.pc = "credentials" => /\ run'.listed # <<>>
                                        /\ Exists(Head(run'.listed).id) => users[Head(run'.listed).id].marked
      PROVE  UsersInv'
  <2>1. DirectoryOK' /\ SignInsOK'
    BY <1>2, <1>5 DEF DirectoryOK
  <2>2. Listable' = Listable /\ Deletable' = Deletable
    BY <1>5 DEF Listable, Deletable, Exists
  <2> QED BY <1>5, <2>1, <2>2 DEF RunSound, Exists
<1>6. CASE List
  <2>1. PICK found \in BoundedSeq(Ids, PageSize) :
          /\ Sorted(found, {id \in Page(run.first) : PendingUserShape(id)})
          /\ run' = IF LastPage(Page(run.first))
                      THEN [run EXCEPT !.pc = "detail", !.listed = run.listed \o Entries(found), !.first = 0]
                      ELSE [run EXCEPT !.listed = run.listed \o Entries(found), !.first = @ + PageSize]
    BY <1>6 DEF List
  <2>2. run.listed \o Entries(found) \in Seq(Listable)
    BY <1>0, <2>1, EntriesListable, ConcatProperties
  <2>3. run.listed \o Entries(found) \in Seq(Entry)
    BY <2>2, SeqMonotonic DEF Listable
  <2>4. ~LastPage(Page(run.first)) => run.first + PageSize \in 0..MaxAccounts + PageSize
    BY <1>0, FullPage DEF RunState
  <2>5. /\ run' \in RunState /\ run'.cutoff = run.cutoff /\ run'.abandoned = run.abandoned
        /\ run'.listed = run.listed \o Entries(found) /\ run'.candidates = run.candidates
        /\ run'.pc # "credentials"
    <3>1. CASE LastPage(Page(run.first))
      <4>1. run' = [run EXCEPT !.pc = "detail", !.listed = run.listed \o Entries(found), !.first = 0]
        BY <2>1, <3>1
      <4>2. 0 \in 0..MaxAccounts + PageSize
        OBVIOUS
      <4> QED BY <1>0, <2>3, <3>1, <4>1, <4>2 DEF RunState, RunPcs
    <3>2. CASE ~LastPage(Page(run.first))
      <4>1. run' = [run EXCEPT !.listed = run.listed \o Entries(found), !.first = run.first + PageSize]
        BY <2>1, <3>2
      <4>2. run.pc = "list"
        BY <1>6 DEF List
      <4> QED BY <1>0, <2>3, <2>4, <3>2, <4>1, <4>2 DEF RunState, RunPcs
    <3> QED BY <3>1, <3>2
  <2> QED BY <1>0, <1>5, <1>6, <2>2, <2>5 DEF List
<1>7. CASE run' = Fail /\ UNCHANGED <<users, created, edits, signIn, quiet>>
  <2>1. run' = NotRunning("failed")
    BY <1>7 DEF Fail
  <2> QED BY <1>2, <1>3, <1>7, <2>1 DEF RunPcs, DirectoryOK
<1>8. CASE Detail
  <2>0. UNCHANGED <<users, created, edits, signIn, quiet>>
    BY <1>8 DEF Detail
  <2>1. CASE run.listed = <<>> /\ run' = [run EXCEPT !.pc = "delete"]
    BY <1>0, <1>5, <2>0, <2>1 DEF RunState, RunPcs
  <2>2. CASE /\ run.listed # <<>> /\ users[Head(run.listed).id].marked
             /\ run' = [run EXCEPT !.pc = "credentials"]
    BY <1>0, <1>5, <2>0, <2>2 DEF RunState, RunPcs
  <2>3. CASE run.listed # <<>> /\ run' = [run EXCEPT !.listed = Tail(@)]
    <3>1. Tail(run.listed) \in Seq(Listable)
      BY <1>0, <2>3, HeadTailProperties
    <3>2. Tail(run.listed) \in Seq(Entry)
      BY <3>1, SeqMonotonic DEF Listable
    <3>3. run.pc = "detail"
      BY <1>8 DEF Detail
    <3> QED BY <1>0, <1>5, <2>0, <2>3, <3>1, <3>2, <3>3 DEF RunState, RunPcs
  <2> QED BY <1>7, <1>8, <2>0, <2>1, <2>2, <2>3 DEF Detail
<1>9. CASE Credentials
  <2> DEFINE entry == Head(run.listed)
  <2>0. UNCHANGED <<users, created, edits, signIn, quiet>> /\ run.listed # <<>>
    BY <1>9 DEF Credentials, RunSound
  <2>1. CASE run' = Fail
    BY <1>7, <2>0, <2>1
  <2>2. CASE /\ Exists(entry.id)
             /\ run' = [run EXCEPT !.pc = "detail", !.listed = Tail(@),
                          !.candidates = IF users[entry.id].is = "credential" THEN @
                                         ELSE Append(@, entry)]
    <3>1. entry \in Listable /\ Tail(run.listed) \in Seq(Listable)
      BY <1>0, <2>0, HeadTailProperties
    <3>2. Tail(run.listed) \in Seq(Entry) /\ entry \in Entry
      BY <3>1, SeqMonotonic DEF Listable
    <3>3. users[entry.id].is # "credential" => entry \in Deletable
      BY <1>9, <2>2, <3>1 DEF Credentials, RunSound, Listable, Deletable
    <3> DEFINE cs == IF users[entry.id].is = "credential" THEN run.candidates
                     ELSE Append(run.candidates, entry)
    <3>4. cs \in Seq(Deletable)
      BY <1>0, <3>3, AppendProperties
    <3>5. cs \in Seq(Entry)
      BY <3>4, SeqMonotonic DEF Deletable
    <3>6. run' = [run EXCEPT !.pc = "detail", !.listed = Tail(run.listed), !.candidates = cs]
      BY <2>2
    <3> HIDE DEF cs, entry
    <3>7. /\ run' \in RunState /\ run'.cutoff = run.cutoff /\ run'.abandoned = run.abandoned
          /\ run'.listed = Tail(run.listed) /\ run'.candidates = cs /\ run'.pc = "detail"
      BY <1>0, <3>2, <3>5, <3>6 DEF RunState, RunPcs
    <3> QED BY <1>5, <2>0, <3>1, <3>4, <3>7
  <2> QED BY <1>9, <2>1, <2>2 DEF Credentials
<1>10. CASE Delete
  <2>0. UNCHANGED <<created, edits, signIn, quiet>>
    BY <1>10 DEF Delete
  <2>1. CASE run' = NotRunning("over") /\ UNCHANGED users
    BY <1>2, <1>3, <2>0, <2>1 DEF RunPcs, DirectoryOK
  <2>2. CASE run.candidates # <<>>
    <3> DEFINE ids == Deleted(Head(run.candidates))
    <3>1. CASE /\ run' = IF ids = {} THEN Fail ELSE [run EXCEPT !.candidates = Tail(@)]
               /\ users' = [id \in Ids |-> IF id \in ids THEN NoAccount ELSE users[id]]
      <4>1. /\ users' \in [Ids -> Account \cup {NoAccount}]
            /\ \A id \in Ids : users'[id] # users[id] => Exists(id) /\ ~Exists(id)'
        BY <3>1 DEF DirectoryOK, Exists
      <4>2. DirectoryOK' /\ Evolves
        BY <1>0, <2>0, <4>1, ChangeOK DEF DirectoryOK
      <4>3. SignInsOK'
        BY <2>0 DEF SignInsOK
      <4>4. CASE run' = Fail
        BY <1>3, <4>2, <4>3, <4>4 DEF Fail, RunPcs
      <4>5. CASE run' = [run EXCEPT !.candidates = Tail(@)]
        <5>1. Tail(run.candidates) \in Seq(Deletable)
          BY <1>0, <2>2, HeadTailProperties
        <5>2. Tail(run.candidates) \in Seq(Entry)
          BY <5>1, SeqMonotonic DEF Deletable
        <5>3. run' \in RunState /\ run'.candidates = Tail(run.candidates) /\ run'.pc = run.pc
              /\ run'.listed = run.listed /\ run'.cutoff = run.cutoff
              /\ run'.abandoned = run.abandoned
          BY <1>0, <4>5, <5>2 DEF RunState
        <5>4. Listable \subseteq Listable' /\ Deletable' = Deletable
          BY <2>0, <4>1, <5>3 DEF Listable, Deletable, Entry, Exists
        <5>5. run'.listed \in Seq(Listable')
          BY <1>0, <5>3, <5>4, SeqMonotonic
        <5>6. \A id \in run'.cutoff : Pending(users'[id]) => id \in run'.abandoned
          BY <4>1, <5>3 DEF RunSound, Pending, Exists, RunState
        <5>7. run.pc # "credentials"
          BY <1>10 DEF Delete
        <5> QED BY <2>0, <4>2, <4>3, <5>1, <5>3, <5>4, <5>5, <5>6, <5>7 DEF RunSound
      <4> QED BY <3>1, <4>4, <4>5
    <3> QED BY <1>10, <2>1, <3>1 DEF Delete
  <2> QED BY <1>10, <2>1, <2>2 DEF Delete
<1>11. CASE \E e \in BOOLEAN : Start(e)
  BY <1>4, <1>11
<1>12. CASE Aborts
  BY <1>7, <1>12 DEF Aborts
<1> HIDE DEF UsersInv
<1> QED BY <1>6, <1>8, <1>9, <1>10, <1>11, <1>12 DEF RunStep

LEMMA NextUsersInv == UsersInv /\ [Next]_vars => UsersInv'
<1> SUFFICES ASSUME UsersInv, [Next]_vars PROVE UsersInv'
  OBVIOUS
<1>1. CASE UNCHANGED vars
  <2>1. DirectoryOK' /\ Evolves /\ SignInsOK'
    BY <1>1, ChangeOK DEF vars, UsersInv, DirectoryOK, SignInsOK
  <2> QED BY <1>1, <2>1, RunUnmoved DEF vars, UsersInv
<1>2. ASSUME NEW s \in SignIns, SignInStep(s) PROVE UsersInv'
  BY <1>2, SignInStepOK, RunUnmoved DEF UsersInv
<1>3. CASE RunStep
  BY <1>3, RunStepOK
<1>4. CASE Administer \/ Ages
  <2>1. DirectoryOK' /\ Evolves /\ UNCHANGED <<signIn, run>>
    BY <1>4, AdministerOK, AgesOK DEF Administer, Ages
  <2>2. SignInsOK'
    <3>1. \A s \in SignIns : /\ signIn[s].id \in 1..created' <=> signIn[s].id \in 1..created
                             /\ signIn[s].id <= created'
      BY <2>1, BoundsAssumption DEF UsersInv, SignInsOK, SignInState, Ids, DirectoryOK, Evolves
    <3> QED BY <2>1, <3>1 DEF SignInsOK, UsersInv
  <2> QED BY <2>1, <2>2, RunUnmoved DEF UsersInv
<1> QED BY <1>1, <1>2, <1>3, <1>4 DEF Next

LEMMA UsersInvHolds == Spec => []UsersInv
BY InitUsersInv, NextUsersInv, PTL DEF Spec

-----------------------------------------------------------------------------
(* Usernames stay unique, no id is used twice, and every sign-in that went *)
(* on to the code has an account, in whatever order sign-ins, the tool and *)
(* an administrator create and delete them.                                *)
THEOREM DirectoryTypeCorrect == Spec => []TypeOK
<1>1. UsersInv => TypeOK
  BY DEF UsersInv, DirectoryOK, SignInsOK, RunSound, TypeOK
<1> QED BY <1>1, UsersInvHolds, PTL

(* The ids in what the tool holds.                                         *)
LEMMA ConcatIds ==
  ASSUME NEW s \in Seq(Entry), NEW t \in Seq(Entry)
  PROVE  IdsOf(s \o t) = IdsOf(s) \cup IdsOf(t)
<1>1. ASSUME NEW e \in ToSet(s) PROVE e \in ToSet(s \o t)
  <2>1. PICK i \in DOMAIN s : s[i] = e
    BY DEF ToSet
  <2>2. i \in DOMAIN (s \o t) /\ (s \o t)[i] = e
    BY <2>1
  <2> QED BY <2>2 DEF ToSet
<1>2. ASSUME NEW e \in ToSet(t) PROVE e \in ToSet(s \o t)
  <2>1. PICK i \in DOMAIN t : t[i] = e
    BY DEF ToSet
  <2>2. Len(s) + i \in DOMAIN (s \o t) /\ (s \o t)[Len(s) + i] = e
    BY <2>1
  <2> QED BY <2>2 DEF ToSet
<1>3. ASSUME NEW e \in ToSet(s \o t) PROVE e \in ToSet(s) \cup ToSet(t)
  <2>1. PICK i \in DOMAIN (s \o t) : (s \o t)[i] = e
    BY DEF ToSet
  <2>2. CASE i <= Len(s)
    <3>1. i \in DOMAIN s /\ s[i] = e
      BY <2>1, <2>2
    <3> QED BY <3>1 DEF ToSet
  <2>3. CASE ~(i <= Len(s))
    <3>1. i - Len(s) \in DOMAIN t /\ t[i - Len(s)] = e
      BY <2>1, <2>3
    <3> QED BY <3>1 DEF ToSet
  <2> QED BY <2>2, <2>3
<1> QED BY <1>1, <1>2, <1>3 DEF IdsOf

LEMMA AppendIds ==
  ASSUME NEW s \in Seq(Entry), NEW e \in Entry
  PROVE  IdsOf(Append(s, e)) = IdsOf(s) \cup {e.id}
<1>1. ASSUME NEW x \in ToSet(s) PROVE x \in ToSet(Append(s, e))
  <2>1. PICK i \in DOMAIN s : s[i] = x
    BY DEF ToSet
  <2>2. i \in DOMAIN Append(s, e) /\ Append(s, e)[i] = x
    BY <2>1
  <2> QED BY <2>2 DEF ToSet
<1>2. e \in ToSet(Append(s, e))
  <2>1. Len(s) + 1 \in DOMAIN Append(s, e) /\ Append(s, e)[Len(s) + 1] = e
    OBVIOUS
  <2> QED BY <2>1 DEF ToSet
<1>3. ASSUME NEW x \in ToSet(Append(s, e)), x # e PROVE x \in ToSet(s)
  <2>1. PICK i \in DOMAIN Append(s, e) : Append(s, e)[i] = x
    BY DEF ToSet
  <2>2. i \in DOMAIN s /\ s[i] = x
    BY <1>3, <2>1
  <2> QED BY <2>2 DEF ToSet
<1> QED BY <1>1, <1>2, <1>3 DEF IdsOf

LEMMA TailIds ==
  ASSUME NEW s \in Seq(Entry), s # <<>>
  PROVE  IdsOf(s) = {Head(s).id} \cup IdsOf(Tail(s))
<1>1. ASSUME NEW e \in ToSet(s), e # Head(s) PROVE e \in ToSet(Tail(s))
  <2>1. PICK i \in DOMAIN s : s[i] = e
    BY DEF ToSet
  <2>2. i \in 2..Len(s) /\ Head(s) = s[1]
    BY <1>1, <2>1
  <2>3. i - 1 \in DOMAIN Tail(s) /\ Tail(s)[i - 1] = e
    BY <2>1, <2>2
  <2> QED BY <2>3 DEF ToSet
<1>2. Head(s) \in ToSet(s)
  <2>1. 1 \in DOMAIN s /\ s[1] = Head(s)
    OBVIOUS
  <2> QED BY <2>1 DEF ToSet
<1>3. ASSUME NEW e \in ToSet(Tail(s)) PROVE e \in ToSet(s)
  <2>1. PICK i \in DOMAIN Tail(s) : Tail(s)[i] = e
    BY DEF ToSet
  <2>2. i + 1 \in DOMAIN s /\ s[i + 1] = e
    BY <2>1
  <2> QED BY <2>2 DEF ToSet
<1> QED BY <1>1, <1>2, <1>3 DEF IdsOf

LEMMA EntriesIds ==
  ASSUME NEW found \in BoundedSeq(Ids, PageSize)
  PROVE  IdsOf(Entries(found)) = ToSet(found)
<1>1. PICK m \in 0..PageSize : found \in [1..m -> Ids]
  BY PageAssumption DEF BoundedSeq, SeqOf
<1>2. m \in Nat /\ Len(found) = m /\ DOMAIN found = 1..m
  BY <1>1, PageAssumption
<1>3. /\ DOMAIN Entries(found) = 1..m
      /\ \A i \in 1..m : Entries(found)[i].id = found[i]
  BY <1>2 DEF Entries
<1> QED BY <1>2, <1>3 DEF IdsOf, ToSet

LEMMA IdsOfNone == IdsOf(<<>>) = {}
BY DEF IdsOf, ToSet

(* What the tool has read of an account is so until somebody changes it,   *)
(* and then the account is late.                                           *)
Unmade(u) == ~u.verified /\ u.is \in {Plain, "disabled"}
ReadInv ==
    /\ IdsOf(run.listed) \cup IdsOf(run.candidates) \cup run.abandoned \subseteq 1..created
    /\ \A id \in IdsOf(run.listed) :
          Exists(id) => id \in late \/ users[id].is = "credential" \/ Unmade(users[id])
    /\ \A id \in IdsOf(run.candidates) : Exists(id) => id \in late \/ Unmade(users[id])
    /\ \A id \in run.abandoned : Exists(id) => users[id].marked /\ users[id].old

LEMMA ReadKept ==
  ASSUME UsersInv, ReadInv, Evolves, UNCHANGED run,
         \/ late' = late \cup {id \in Ids : Unread(id)}
         \/ /\ UNCHANGED late
            /\ \A id \in Ids : Exists(id)' => /\ users'[id].verified = users[id].verified
                                               /\ users'[id].is = users[id].is
  PROVE  ReadInv'
<1> USE BoundsAssumption
<1>1. 1..created \subseteq Ids /\ 1..created \subseteq 1..created'
  BY DEF UsersInv, DirectoryOK, Evolves, Ids
<1>2. IdsOf(run.listed)' = IdsOf(run.listed) /\ IdsOf(run.candidates)' = IdsOf(run.candidates)
  BY DEF IdsOf
<1>3. ASSUME NEW id \in IdsOf(run.listed) \cup IdsOf(run.candidates) \cup run.abandoned,
             Exists(id)'
      PROVE  id \in Ids /\ Exists(id) /\ id <= created
  BY <1>1, <1>3 DEF ReadInv, Evolves, UsersInv, DirectoryOK
<1>4. ASSUME NEW id \in IdsOf(run.listed), Exists(id)'
      PROVE  id \in late' \/ users'[id].is = "credential" \/ Unmade(users'[id])
  BY <1>3, <1>4 DEF ReadInv, Unmade, Unread, Exists
<1>5. ASSUME NEW id \in IdsOf(run.candidates), Exists(id)'
      PROVE  id \in late' \/ Unmade(users'[id])
  BY <1>3, <1>5 DEF ReadInv, Unmade, Unread, Exists
<1>6. ASSUME NEW id \in run.abandoned, Exists(id)'
      PROVE  users'[id].marked /\ users'[id].old
  BY <1>3, <1>6 DEF ReadInv, Evolves
<1> QED BY <1>1, <1>2, <1>4, <1>5, <1>6 DEF ReadInv, Exists

(* The tool lists what has the shape, and takes no credential over.        *)
LEMMA RunStepReads == UsersInv /\ ReadInv /\ RunStep => ReadInv'
<1> SUFFICES ASSUME UsersInv, ReadInv, RunStep PROVE ReadInv'
  OBVIOUS
<1> USE BoundsAssumption
<1>0. /\ run \in RunState /\ run.listed \in Seq(Entry) /\ run.candidates \in Seq(Entry)
      /\ DirectoryOK /\ created \in Nat
      /\ late' = IF run'.pc \in {"over", "failed"} THEN {} ELSE late
  BY DEF UsersInv, RunSound, RunState, DirectoryOK, RunStep
<1>1. ASSUME NEW pc, run' = NotRunning(pc) PROVE ReadInv'
  BY <1>1, IdsOfNone DEF NotRunning, ReadInv
<1>2. ASSUME UNCHANGED created, late' = late,
             \A id \in Ids : users'[id] \in {users[id], NoAccount},
             run'.abandoned = run.abandoned,
             IdsOf(run'.listed) \subseteq IdsOf(run.listed),
             IdsOf(run'.candidates) \subseteq IdsOf(run.candidates)
      PROVE  ReadInv'
  <2>1. \A id \in 1..created : Exists(id)' => Exists(id) /\ users'[id] = users[id]
    BY <1>0, <1>2 DEF Exists, DirectoryOK, Ids
  <2> QED BY <1>2, <2>1 DEF ReadInv, IdsOf
<1>3. ASSUME NEW e \in BOOLEAN, Start(e) PROVE ReadInv'
  <2>1. /\ run' = [NotRunning("list") EXCEPT
                     !.execute = e,
                     !.cutoff = {id \in Ids : Exists(id) /\ users[id].old},
                     !.abandoned = {id \in Ids : Abandoned(users[id])}]
        /\ UNCHANGED <<users, created>>
    BY <1>3 DEF Start
  <2>2. /\ run'.listed = <<>> /\ run'.candidates = <<>>
        /\ run'.abandoned = {id \in Ids : Abandoned(users[id])}
    BY <2>1 DEF NotRunning
  <2>3. \A id \in run'.abandoned : id \in 1..created /\ users[id].marked /\ users[id].old
    BY <1>0, <2>2 DEF Abandoned, DirectoryOK, Exists, Ids
  <2> QED BY <2>1, <2>2, <2>3, IdsOfNone DEF ReadInv, IdsOf
<1>4. CASE List
  <2>1. PICK found \in BoundedSeq(Ids, PageSize) :
          /\ Sorted(found, {i \in Page(run.first) : PendingUserShape(i)})
          /\ run' = IF LastPage(Page(run.first))
                      THEN [run EXCEPT !.pc = "detail", !.listed = run.listed \o Entries(found), !.first = 0]
                      ELSE [run EXCEPT !.listed = run.listed \o Entries(found), !.first = @ + PageSize]
    BY <1>4 DEF List
  <2> DEFINE listed == run.listed \o Entries(found)
             last   == LastPage(Page(run.first))
  <2>2. run' = IF last THEN [run EXCEPT !.pc = "detail", !.listed = listed, !.first = 0]
                       ELSE [run EXCEPT !.listed = listed, !.first = @ + PageSize]
    BY <2>1
  <2>3. IdsOf(listed) = IdsOf(run.listed) \cup ToSet(found)
    <3>1. Entries(found) \in Seq(Listable)
      BY <2>1, EntriesListable
    <3>2. Entries(found) \in Seq(Entry)
      BY <3>1, SeqMonotonic DEF Listable
    <3> QED BY <1>0, <3>2, ConcatIds, EntriesIds
  <2>4. ASSUME NEW id \in ToSet(found)
        PROVE  id \in 1..created /\ (users[id].is = "credential" \/ Unmade(users[id]))
    <3>1. id \in Ids /\ Exists(id) /\ PendingUserShape(id)
      BY <2>1, <2>4 DEF Sorted, Page
    <3>2. users[id] \in Account /\ id <= created
      BY <1>0, <3>1 DEF DirectoryOK, Exists, Ids
    <3> QED BY <3>1, <3>2 DEF PendingUserShape, Unmade, Account, Is, Plain, Ids
  <2> HIDE DEF listed, last
  <2>5. /\ run'.listed = listed /\ run'.candidates = run.candidates
        /\ run'.abandoned = run.abandoned /\ run'.pc \notin {"over", "failed"}
    <3>1. CASE last
      BY <1>0, <2>2, <3>1 DEF RunState
    <3>2. CASE ~last
      BY <1>0, <1>4, <2>2, <3>2 DEF RunState, List
    <3> QED BY <3>1, <3>2
  <2>6. UNCHANGED <<users, created, late>>
    BY <1>0, <1>4, <2>5 DEF List
  <2> QED BY <2>3, <2>4, <2>5, <2>6 DEF ReadInv, Exists, IdsOf
<1>5. CASE Detail
  <2>0. UNCHANGED <<users, created>> /\ run.pc = "detail"
    BY <1>5 DEF Detail
  <2>1. CASE run' = [run EXCEPT !.pc = "delete"] \/ run' = [run EXCEPT !.pc = "credentials"]
    <3>1. /\ run'.pc \notin {"over", "failed"} /\ run'.listed = run.listed
          /\ run'.candidates = run.candidates /\ run'.abandoned = run.abandoned
      BY <1>0, <2>1 DEF RunState
    <3> QED BY <1>0, <1>2, <2>0, <3>1
  <2>2. CASE run.listed # <<>> /\ run' = [run EXCEPT !.listed = Tail(@)]
    <3>1. /\ run'.pc \notin {"over", "failed"} /\ run'.listed = Tail(run.listed)
          /\ run'.candidates = run.candidates /\ run'.abandoned = run.abandoned
      BY <1>0, <2>0, <2>2 DEF RunState
    <3> QED BY <1>0, <1>2, <2>0, <2>2, <3>1, TailIds
  <2> QED BY <1>1, <1>5, <2>1, <2>2 DEF Detail, Fail
<1>6. CASE Credentials
  <2> DEFINE entry == Head(run.listed)
             cs    == IF users[entry.id].is = "credential" THEN run.candidates
                      ELSE Append(run.candidates, entry)
  <2>0. UNCHANGED <<users, created>> /\ run.listed # <<>>
    BY <1>6 DEF Credentials, UsersInv, RunSound
  <2>1. CASE run' = [run EXCEPT !.pc = "detail", !.listed = Tail(run.listed), !.candidates = cs]
    <3>1. /\ IdsOf(run.listed) = {entry.id} \cup IdsOf(Tail(run.listed))
          /\ entry \in Entry
      BY <1>0, <2>0, TailIds, HeadTailProperties
    <3>2. \/ IdsOf(cs) = IdsOf(run.candidates)
          \/ /\ users[entry.id].is # "credential"
             /\ IdsOf(cs) = IdsOf(run.candidates) \cup {entry.id}
      BY <1>0, <3>1, AppendIds
    <3> HIDE DEF cs, entry
    <3>3. /\ run'.pc \notin {"over", "failed"} /\ run'.abandoned = run.abandoned
          /\ run'.listed = Tail(run.listed) /\ run'.candidates = cs
      BY <1>0, <2>1 DEF RunState
    <3>4. UNCHANGED late
      BY <1>0, <3>3
    <3> QED BY <2>0, <3>1, <3>2, <3>3, <3>4 DEF ReadInv, Exists, IdsOf
  <2> QED BY <1>1, <1>6, <2>1 DEF Credentials, Fail
<1>7. CASE Delete
  <2>0. run.pc = "delete" /\ UNCHANGED created
    BY <1>7 DEF Delete
  <2>1. CASE /\ run.candidates # <<>>
             /\ run' = [run EXCEPT !.candidates = Tail(@)]
             /\ users' = [id \in Ids |-> IF id \in Deleted(Head(run.candidates)) THEN NoAccount
                                         ELSE users[id]]
    <3>1. /\ run'.pc \notin {"over", "failed"} /\ run'.listed = run.listed
          /\ run'.candidates = Tail(run.candidates) /\ run'.abandoned = run.abandoned
      BY <1>0, <2>0, <2>1 DEF RunState
    <3>2. \A id \in Ids : users'[id] \in {users[id], NoAccount}
      BY <2>1
    <3> QED BY <1>0, <1>2, <2>0, <2>1, <3>1, <3>2, TailIds
  <2> QED BY <1>1, <1>7, <2>1 DEF Delete, Fail
<1>8. CASE Aborts
  BY <1>1, <1>8 DEF Aborts, Fail
<1> QED BY <1>3, <1>4, <1>5, <1>6, <1>7, <1>8 DEF RunStep

LEMMA NextReads == UsersInv /\ ReadInv /\ [Next]_vars => ReadInv'
<1> SUFFICES ASSUME UsersInv, ReadInv, [Next]_vars PROVE ReadInv'
  OBVIOUS
<1>1. CASE UNCHANGED vars
  BY <1>1 DEF vars, ReadInv, IdsOf, Exists
<1>2. ASSUME NEW s \in SignIns, SignInStep(s) PROVE ReadInv'
  <2>1. Evolves /\ UNCHANGED run
    BY <1>2, SignInStepOK
  <2>2. Disturb \/ UNCHANGED <<users, late>>
    BY <1>2 DEF SignInStep, Submit, Insert, Create, LookAgain, EnterCode
  <2> QED BY <2>1, <2>2, ReadKept DEF Disturb
<1>3. CASE RunStep
  BY <1>3, RunStepReads
<1>4. CASE Administer
  BY <1>4, AdministerOK, ReadKept DEF Administer, Disturb
<1>5. CASE Ages
  <2>1. PICK id \in Ids : Exists(id) /\ users' = [users EXCEPT ![id].old = TRUE]
    BY <1>5 DEF Ages
  <2>2. users[id] \in Account
    BY <2>1, FieldOK DEF Is, UsersInv
  <2>3. \A o \in Ids : users'[o] = IF o = id THEN [users[id] EXCEPT !.old = TRUE] ELSE users[o]
    BY <2>1 DEF UsersInv, DirectoryOK
  <2>4. \A o \in Ids : /\ users'[o].verified = users[o].verified
                       /\ users'[o].is = users[o].is
    BY <2>2, <2>3 DEF Account
  <2> QED BY <1>5, <2>4, AgesOK, ReadKept DEF Ages
<1> QED BY <1>1, <1>2, <1>3, <1>4, <1>5 DEF Next

-----------------------------------------------------------------------------
(* What the tool deletes was abandoned when its run began, and still is,   *)
(* but for what others changed after the tool had read it: pages shift     *)
(* under it, and what it looks at one by one can since have been proven,   *)
(* named, given a credential, deleted, or replaced by another account of   *)
(* the address (cleanup-unverified-users.mjs:10-24).                       *)
THEOREM DeletesOnlyAbandoned == Spec => OnlyAbandonedAreDeleted
<1>1. UsersInv /\ ReadInv /\ [Next]_vars =>
        [\A id \in Ids :
            Delete /\ Exists(id) /\ users'[id] = NoAccount
              => id \in run.abandoned /\ (Abandoned(users[id]) \/ id \in late)]_vars
  <2> SUFFICES ASSUME UsersInv, ReadInv, Delete,
                      NEW id \in Ids, Exists(id), users'[id] = NoAccount
               PROVE  id \in run.abandoned /\ (Abandoned(users[id]) \/ id \in late)
    OBVIOUS
  <2>1. run.candidates # <<>> /\ run.execute
    BY DEF Delete, Exists
  <2>2. users' = [i \in Ids |-> IF i \in Deleted(Head(run.candidates)) THEN NoAccount ELSE users[i]]
    BY <2>1 DEF Delete
  <2>3. id = Head(run.candidates).id
    BY <2>2 DEF Deleted, Exists
  <2>4. Head(run.candidates) \in Deletable
    BY <2>1, HeadTailProperties DEF UsersInv, RunSound
  <2>5. id \in IdsOf(run.candidates)
    <3>1. run.candidates \in Seq(Entry)
      BY DEF UsersInv, RunSound, RunState
    <3> QED BY <2>1, <2>3, <3>1, TailIds
  <2> QED BY <2>3, <2>4, <2>5 DEF Deletable, ReadInv, Unmade, Abandoned, Exists
<1>2. Spec => []ReadInv
  <2>1. Init => ReadInv
    BY IdsOfNone DEF Init, NotRunning, ReadInv
  <2> QED BY <2>1, NextReads, UsersInvHolds, PTL DEF Spec
<1> QED BY <1>1, <1>2, UsersInvHolds, PTL DEF Spec, OnlyAbandonedAreDeleted

-----------------------------------------------------------------------------
(* Of the sign-ins that race to create one account, none is refused for    *)
(* losing (EmailIdentityAuthenticator.java:66-75).                         *)
THEOREM RacesAreResolved == Spec => RaceIsResolved
<1> DEFINE Resolved == \A s \in SignIns :
       signIn[s].pc # "refused" /\ signIn'[s].pc = "refused"
         => \A id \in Found(signIn'[s].address) : users[id].is \in {"mailless", "disabled"}
<1>1. UsersInv /\ [Next]_vars => [Resolved]_vars
  <2> SUFFICES ASSUME UsersInv, Next, NEW s \in SignIns,
                      signIn[s].pc # "refused", signIn'[s].pc = "refused",
                      NEW id \in Found(signIn'[s].address)
               PROVE  users[id].is \in {"mailless", "disabled"}
    OBVIOUS
  <2>1. signIn \in [SignIns -> SignInState]
    BY DEF UsersInv, SignInsOK
  <2>2. CASE RunStep \/ Administer \/ Ages
    BY <2>2 DEF RunStep, Start, List, Detail, Credentials, Delete, Aborts, Administer, Ages
  <2>3. ASSUME NEW o \in SignIns, SignInStep(o) PROVE users[id].is \in {"mailless", "disabled"}
    <3>1. signIn' = [signIn EXCEPT ![o] = signIn'[o]]
      BY <2>1, <2>3 DEF SignInStep, Submit, Insert, LookAgain, EnterCode, Identified, Duplicate, Goto
    <3>2. o = s
      BY <2>1, <3>1
    <3>3. PICK a \in Addresses : \E found \in Found(a) : Identified(s, a, found)
      <4>1. CASE \E a \in Addresses : Submit(s, a)
        BY <2>1, <4>1 DEF Submit, Goto
      <4>2. CASE Insert(s) \/ EnterCode(s)
        <5>1. signIn'[s].pc \in {"code", "again", "form"}
          <6>1. CASE Insert(s)
            <7>1. \/ Goto(s, "code", signIn[s].address, created + 1)
                  \/ Goto(s, "again", signIn[s].address, 0)
              BY <6>1 DEF Insert, Duplicate
            <7> QED BY <2>1, <7>1, GotoPc
          <6>2. CASE EnterCode(s)
            BY <2>1, <6>2 DEF EnterCode, AtForm
          <6> QED BY <4>2, <6>1, <6>2
        <5> QED BY <5>1
      <4>3. CASE LookAgain(s)
        <5>1. signIn[s].address \in Addresses
          BY <4>3 DEF LookAgain, UsersInv, SignInsOK
        <5>2. ASSUME Goto(s, "refused", signIn[s].address, 0), Found(signIn[s].address) = {} PROVE FALSE
          BY <2>1, <5>2 DEF Goto
        <5> QED BY <4>3, <5>1, <5>2 DEF LookAgain
      <4> QED BY <2>3, <3>2, <4>1, <4>2, <4>3 DEF SignInStep
    <3>4. PICK found \in Found(a) : Identified(s, a, found)
      BY <3>3
    <3>5. users[found].is \in {"mailless", "disabled"} /\ signIn'[s].address = a
      BY <2>1, <3>4 DEF Identified, Goto
    <3>6. id = found
      <4>1. /\ id \in Ids /\ users[id].address = a
            /\ found \in Ids /\ users[found].address = a
        BY <3>5 DEF Found
      <4>2. Exists(id)
        BY <4>1, AddressesAssumption DEF Exists, NoAccount
      <4> QED BY <4>1, <4>2 DEF UsersInv, DirectoryOK
    <3> QED BY <3>5, <3>6
  <2> QED BY <2>2, <2>3 DEF Next
<1> QED BY <1>1, UsersInvHolds, PTL DEF Spec, RaceIsResolved

-----------------------------------------------------------------------------
(* The list of users is paged by rank: an account's place in the order of  *)
(* addresses.                                                              *)
Before(id) == {j \in Ids : Exists(j) /\ users[j].address < users[id].address}

LEMMA BeforeFinite ==
  ASSUME NEW id \in Ids
  PROVE  IsFiniteSet(Before(id)) /\ Rank(id) = Cardinality(Before(id)) /\ Rank(id) \in Nat
<1>1. IsFiniteSet(Ids)
  BY BoundsAssumption, FS_Interval DEF Ids
<1>2. IsFiniteSet(Before(id))
  BY <1>1, FS_Subset DEF Before
<1> QED BY <1>2, FS_CardinalityType DEF Before, Rank

LEMMA AddressIsNumber ==
  ASSUME DirectoryOK, NEW id \in Ids, Exists(id)
  PROVE  users[id].address \in Nat
<1>1. users[id] \in Account
  BY DEF DirectoryOK, Exists
<1> QED BY <1>1, AddressesAssumption DEF Account

LEMMA AddressesDiffer ==
  ASSUME DirectoryOK, NEW i \in Ids, Exists(i), NEW j \in Ids, Exists(j), i # j
  PROVE  users[i].address < users[j].address \/ users[j].address < users[i].address
<1>1. users[i].address \in Nat /\ users[j].address \in Nat
  BY AddressIsNumber
<1>2. users[i].address # users[j].address
  BY DEF DirectoryOK
<1> QED BY <1>1, <1>2

LEMMA RankGrows ==
  ASSUME DirectoryOK, NEW i \in Ids, Exists(i), NEW j \in Before(i)
  PROVE  Rank(j) < Rank(i)
<1>1. j \in Ids /\ Exists(j) /\ users[j].address < users[i].address
  BY DEF Before
<1>2. users[i].address \in Nat /\ users[j].address \in Nat
  BY <1>1, AddressIsNumber
<1>3. Before(j) \in SUBSET Before(i)
  <2> SUFFICES ASSUME NEW k \in Before(j) PROVE k \in Before(i)
    OBVIOUS
  <2>1. k \in Ids /\ Exists(k) /\ users[k].address < users[j].address
    BY DEF Before
  <2>2. users[k].address \in Nat
    BY <2>1, AddressIsNumber
  <2> QED BY <1>1, <1>2, <2>1, <2>2 DEF Before
<1>4. j \notin Before(j)
  BY <1>2 DEF Before
<1>5. Cardinality(Before(j)) <= Cardinality(Before(i)) /\ Cardinality(Before(j)) # Cardinality(Before(i))
  BY <1>1, <1>3, <1>4, BeforeFinite, FS_Subset
<1> QED BY <1>1, <1>5, BeforeFinite

(* Below the rank of an account every rank is taken: the ranks of those    *)
(* before it are different, and as many as there are numbers for them.     *)
LEMMA RanksBelow ==
  ASSUME DirectoryOK, NEW i \in Ids, Exists(i), NEW m \in Nat, m < Rank(i)
  PROVE  \E j \in Ids : Exists(j) /\ Rank(j) = m
<1> DEFINE f == [j \in Before(i) |-> Rank(j)]
           T == 0..Rank(i) - 1
<1>1. \A j \in Before(i) : j \in Ids /\ Exists(j)
  BY DEF Before
<1>2. Rank(i) \in Nat /\ IsFiniteSet(Before(i)) /\ Rank(i) = Cardinality(Before(i))
  BY BeforeFinite
<1>3. f \in [Before(i) -> T]
  <2> SUFFICES ASSUME NEW j \in Before(i) PROVE Rank(j) \in 0..Rank(i) - 1
    OBVIOUS
  <2>1. Rank(j) \in Nat /\ Rank(j) < Rank(i)
    BY <1>1, BeforeFinite, RankGrows
  <2> QED BY <1>2, <2>1
<1>4. \A j, k \in Before(i) : f[j] = f[k] => j = k
  <2> SUFFICES ASSUME NEW j \in Before(i), NEW k \in Before(i), j # k PROVE Rank(j) # Rank(k)
    OBVIOUS
  <2>1. j \in Before(k) \/ k \in Before(j)
    BY <1>1, AddressesDiffer DEF Before
  <2>2. Rank(j) < Rank(k) \/ Rank(k) < Rank(j)
    BY <1>1, <2>1, RankGrows
  <2> QED BY <1>1, <2>2, BeforeFinite
<1>5. f \in Injection(Before(i), T)
  BY <1>3, <1>4 DEF Injection, IsInjective
<1>6. IsFiniteSet(T) /\ Cardinality(T) = Rank(i)
  <2>1. Rank(i) - 1 \in Int /\ 0 \in Int /\ (0 > Rank(i) - 1 => Rank(i) = 0)
    BY <1>2
  <2>2. IsFiniteSet(T) /\ Cardinality(T) = IF 0 > Rank(i) - 1 THEN 0 ELSE Rank(i) - 1 - 0 + 1
    BY <2>1, FS_Interval
  <2> QED BY <1>2, <2>1, <2>2
<1>7. f \in Surjection(Before(i), T)
  <2> HIDE DEF f, T
  <2> QED BY <1>2, <1>5, <1>6, FS_Injection
<1>8. m \in T
  BY <1>2
<1>9. PICK j \in Before(i) : f[j] = m
  BY <1>7, <1>8 DEF Surjection
<1> QED BY <1>1, <1>9

(* After a page that is not full there is no other account.                *)
LEMMA LastPageIsLast ==
  ASSUME DirectoryOK, NEW first \in Nat, LastPage(Page(first)), NEW i \in Ids, Exists(i)
  PROVE  Rank(i) < first + PageSize
<1> USE PageAssumption
<1> SUFFICES ASSUME ~(Rank(i) < first + PageSize) PROVE FALSE
  OBVIOUS
<1> DEFINE T == first..first + PageSize - 1
           f == [j \in Page(first) |-> Rank(j)]
<1>1. \A m \in T : \E j \in Page(first) : Rank(j) = m
  <2> SUFFICES ASSUME NEW m \in T PROVE \E j \in Page(first) : Rank(j) = m
    OBVIOUS
  <2>1. m \in Nat /\ m < Rank(i)
    BY BeforeFinite
  <2>2. PICK j \in Ids : Exists(j) /\ Rank(j) = m
    BY <2>1, RanksBelow
  <2> QED BY <2>2 DEF Page
<1>2. f \in Surjection(Page(first), T)
  BY <1>1 DEF Surjection, Page
<1>3. IsFiniteSet(Page(first)) /\ Cardinality(Page(first)) \in Nat
  <2>1. IsFiniteSet(Ids)
    BY BoundsAssumption, FS_Interval DEF Ids
  <2>2. Page(first) \in SUBSET Ids
    BY DEF Page
  <2> QED BY <2>1, <2>2, FS_Subset, FS_CardinalityType
<1>4. Cardinality(T) = PageSize
  <2>1. first \in Int /\ first + PageSize - 1 \in Int /\ ~(first > first + PageSize - 1)
    OBVIOUS
  <2>2. Cardinality(T) = IF first > first + PageSize - 1 THEN 0 ELSE first + PageSize - 1 - first + 1
    BY <2>1, FS_Interval
  <2> QED BY <2>1, <2>2
<1>5. Cardinality(T) <= Cardinality(Page(first))
  <2> HIDE DEF T, f
  <2> QED BY <1>2, <1>3, FS_Surjection
<1> QED BY <1>3, <1>4, <1>5 DEF LastPage

-----------------------------------------------------------------------------
(* While nobody disturbs a run, every account that was abandoned at its    *)
(* start stays as it was, and is still to be listed, or to be looked at,   *)
(* or a candidate; at the end it is a candidate, or deleted.               *)
Ahead(id)      == run.pc = "list" /\ run.first <= Rank(id)
Gone(id)       == run.execute /\ ~Exists(id)
NoneIsMissed ==
    /\ quiet /\ run.pc \in {"list", "detail", "credentials"} =>
          \A id \in run.abandoned :
             /\ id \in run.cutoff /\ Pending(users[id])
             /\ Ahead(id) \/ id \in IdsOf(run.listed) \cup IdsOf(run.candidates)
    /\ quiet /\ run.pc = "delete" =>
          \A id \in run.abandoned : id \in IdsOf(run.candidates) \/ Gone(id)

(* A step that leaves the order of the accounts, and what is pending.      *)
LEMMA StillNotMissed ==
  ASSUME RunSound, NoneIsMissed, UNCHANGED <<run, quiet>>,
         \A id \in Ids : /\ Exists(id)' <=> Exists(id)
                         /\ users'[id].address = users[id].address
                         /\ Pending(users[id]) => Pending(users'[id])
  PROVE  NoneIsMissed'
<1>1. run.abandoned \subseteq Ids
  BY DEF RunSound, RunState
<1>2. ASSUME NEW id \in Ids PROVE Rank(id)' = Rank(id)
  BY DEF Rank
<1>3. \A id \in Ids : Ahead(id) => Ahead(id)'
  BY <1>2 DEF Ahead
<1>4. IdsOf(run.listed)' = IdsOf(run.listed) /\ IdsOf(run.candidates)' = IdsOf(run.candidates)
  BY DEF IdsOf
<1> QED BY <1>1, <1>3, <1>4 DEF NoneIsMissed, Gone

(* Nobody is overlooked at the border of two pages, or after the last.     *)
LEMMA ListMissesNone == UsersInv /\ NoneIsMissed /\ List => NoneIsMissed'
<1> SUFFICES ASSUME UsersInv, NoneIsMissed, List PROVE NoneIsMissed'
  OBVIOUS
<1> USE PageAssumption
<1>0. /\ run \in RunState /\ run.pc = "list" /\ UNCHANGED <<users, quiet>> /\ run.first \in Nat
      /\ DirectoryOK
  BY BoundsAssumption DEF UsersInv, RunSound, RunState, List
<1>1. PICK found \in BoundedSeq(Ids, PageSize) :
        /\ Sorted(found, {i \in Page(run.first) : PendingUserShape(i)})
        /\ run' = IF LastPage(Page(run.first))
                    THEN [run EXCEPT !.pc = "detail", !.listed = run.listed \o Entries(found), !.first = 0]
                    ELSE [run EXCEPT !.listed = run.listed \o Entries(found), !.first = @ + PageSize]
  BY DEF List
<1>2. /\ run'.listed = run.listed \o Entries(found) /\ run'.candidates = run.candidates
      /\ run'.cutoff = run.cutoff /\ run'.abandoned = run.abandoned
      /\ LastPage(Page(run.first)) => run'.pc = "detail"
      /\ ~LastPage(Page(run.first)) => run'.pc = "list" /\ run'.first = run.first + PageSize
  <2> DEFINE listed == run.listed \o Entries(found)
             last   == LastPage(Page(run.first))
  <2>1. run' = IF last THEN [run EXCEPT !.pc = "detail", !.listed = listed, !.first = 0]
                       ELSE [run EXCEPT !.listed = listed, !.first = @ + PageSize]
    BY <1>1
  <2> HIDE DEF listed, last
  <2>2. /\ run'.listed = listed /\ run'.candidates = run.candidates
        /\ run'.cutoff = run.cutoff /\ run'.abandoned = run.abandoned
        /\ last => run'.pc = "detail"
        /\ ~last => run'.pc = "list" /\ run'.first = run.first + PageSize
    <3>1. CASE last
      BY <1>0, <2>1, <3>1 DEF RunState
    <3>2. CASE ~last
      BY <1>0, <2>1, <3>2 DEF RunState
    <3> QED BY <3>1, <3>2
  <2> QED BY <2>2 DEF listed, last
<1>3. IdsOf(run.listed) \cup ToSet(found) \subseteq IdsOf(run'.listed)
  <2>1. Entries(found) \in Seq(Entry)
    <3>1. Entries(found) \in Seq(Listable)
      BY <1>1, EntriesListable
    <3> QED BY <3>1, SeqMonotonic DEF Listable
  <2>2. run.listed \in Seq(Entry)
    BY <1>0 DEF RunState
  <2> QED BY <1>2, <2>1, <2>2, ConcatIds, EntriesIds
<1> SUFFICES ASSUME quiet, NEW id \in run.abandoned
             PROVE  /\ id \in run.cutoff /\ Pending(users[id])
                    /\ Ahead(id)' \/ id \in IdsOf(run'.listed) \cup IdsOf(run'.candidates)
  BY <1>0, <1>2 DEF NoneIsMissed
<1>4. /\ id \in Ids /\ id \in run.cutoff /\ Pending(users[id]) /\ Exists(id)
      /\ Ahead(id) \/ id \in IdsOf(run.listed) \cup IdsOf(run.candidates)
  BY <1>0 DEF RunState, NoneIsMissed, Pending, Exists
<1>5. Rank(id)' = Rank(id) /\ Rank(id) \in Nat
  BY <1>0, <1>4, BeforeFinite DEF Rank, Exists
<1>6. Ahead(id)' \/ id \in IdsOf(run'.listed) \cup IdsOf(run'.candidates)
  <2>1. CASE id \in IdsOf(run.listed) \cup IdsOf(run.candidates)
    BY <1>2, <1>3, <2>1
  <2>2. CASE run.first <= Rank(id) /\ Rank(id) < run.first + PageSize
    <3>1. id \in Page(run.first)
      BY <1>0, <1>4, <1>5, <2>2 DEF Page
    <3>2. PendingUserShape(id)
      BY <1>4 DEF PendingUserShape, Pending, Plain
    <3> QED BY <1>1, <1>3, <3>1, <3>2 DEF Sorted
  <2>3. CASE run.first <= Rank(id) /\ ~(Rank(id) < run.first + PageSize)
    <3>1. ~LastPage(Page(run.first))
      BY <1>0, <1>4, <2>3, LastPageIsLast
    <3> QED BY <1>0, <1>2, <1>5, <2>3, <3>1 DEF Ahead
  <2> QED BY <1>0, <1>4, <1>5, <2>1, <2>2, <2>3 DEF Ahead
<1> QED BY <1>4, <1>6

(* What is taken from the list becomes a candidate, unless it was not      *)
(* abandoned; what is taken from the candidates is deleted.                *)
LEMMA RunStepMissesNone == UsersInv /\ NoneIsMissed /\ RunStep => NoneIsMissed'
<1> SUFFICES ASSUME UsersInv, NoneIsMissed, RunStep PROVE NoneIsMissed'
  OBVIOUS
<1>0. /\ run \in RunState /\ run.listed \in Seq(Entry) /\ run.candidates \in Seq(Entry)
      /\ run.abandoned \subseteq Ids /\ run.execute \in BOOLEAN
  BY DEF UsersInv, RunSound, RunState
<1>1. ASSUME run' = NotRunning("failed") \/ run' = NotRunning("over") PROVE NoneIsMissed'
  BY <1>1 DEF NotRunning, NoneIsMissed
<1>2. ASSUME NEW e \in BOOLEAN, Start(e) PROVE NoneIsMissed'
  <2>1. /\ run' = [NotRunning("list") EXCEPT
                     !.execute = e,
                     !.cutoff = {id \in Ids : Exists(id) /\ users[id].old},
                     !.abandoned = {id \in Ids : Abandoned(users[id])}]
        /\ UNCHANGED users
    BY <1>2 DEF Start
  <2>2. /\ run'.pc = "list" /\ run'.first = 0
        /\ run'.cutoff = {id \in Ids : Exists(id) /\ users[id].old}
        /\ run'.abandoned = {id \in Ids : Abandoned(users[id])}
    BY <2>1 DEF NotRunning
  <2>3. ASSUME NEW id \in run'.abandoned
        PROVE  id \in run'.cutoff /\ Pending(users'[id]) /\ Ahead(id)'
    <3>1. id \in Ids /\ Abandoned(users[id])
      BY <2>2, <2>3
    <3>2. Rank(id)' \in Nat
      <4>1. Rank(id) \in Nat
        BY <3>1, BeforeFinite
      <4>2. Rank(id)' = Rank(id)
        BY <2>1 DEF Rank, Exists
      <4> QED BY <4>1, <4>2
    <3>3. id \in run'.cutoff /\ Pending(users'[id])
      BY <2>1, <2>2, <3>1 DEF Abandoned, Pending, Exists
    <3> QED BY <2>2, <3>2, <3>3 DEF Ahead
  <2> QED BY <2>2, <2>3 DEF NoneIsMissed
<1>3. CASE List
  BY <1>3, ListMissesNone
<1>4. CASE Detail
  <2>0. UNCHANGED <<users, quiet>> /\ run.pc = "detail"
    BY <1>4 DEF Detail
  <2>1. CASE run.listed = <<>> /\ run' = [run EXCEPT !.pc = "delete"]
    <3>1. run'.pc = "delete" /\ run'.abandoned = run.abandoned /\ run'.candidates = run.candidates
      BY <1>0, <2>1 DEF RunState
    <3>2. \A id \in run.abandoned : quiet => id \in IdsOf(run.candidates)
      BY <2>0, <2>1, IdsOfNone DEF NoneIsMissed, Ahead
    <3> QED BY <2>0, <3>1, <3>2 DEF NoneIsMissed
  <2>2. CASE run' = [run EXCEPT !.pc = "credentials"]
    <3>1. /\ run'.pc = "credentials" /\ run'.abandoned = run.abandoned
          /\ run'.cutoff = run.cutoff /\ run'.listed = run.listed /\ run'.candidates = run.candidates
      BY <1>0, <2>2 DEF RunState
    <3> QED BY <2>0, <3>1 DEF NoneIsMissed, Ahead
  <2>3. CASE /\ run.listed # <<>> /\ ~users[Head(run.listed).id].marked
             /\ run' = [run EXCEPT !.listed = Tail(@)]
    <3>1. /\ run'.pc = "detail" /\ run'.abandoned = run.abandoned
          /\ run'.cutoff = run.cutoff /\ run'.listed = Tail(run.listed)
          /\ run'.candidates = run.candidates
      BY <1>0, <2>0, <2>3 DEF RunState
    <3>2. IdsOf(run.listed) \subseteq {Head(run.listed).id} \cup IdsOf(Tail(run.listed))
      BY <1>0, <2>3, TailIds
    <3>3. ASSUME quiet, NEW id \in run.abandoned
          PROVE  /\ id \in run.cutoff /\ Pending(users[id])
                 /\ id \in IdsOf(Tail(run.listed)) \cup IdsOf(run.candidates)
      <4>1. /\ id \in run.cutoff /\ Pending(users[id])
            /\ id \in IdsOf(run.listed) \cup IdsOf(run.candidates)
        BY <2>0, <3>3 DEF NoneIsMissed, Ahead
      <4>2. id # Head(run.listed).id
        BY <2>3, <4>1 DEF Pending
      <4> QED BY <3>2, <4>1, <4>2
    <3> QED BY <2>0, <3>1, <3>3 DEF NoneIsMissed
  <2> QED BY <1>1, <1>4, <2>1, <2>2, <2>3 DEF Detail, Fail
<1>5. CASE Credentials
  <2> DEFINE entry == Head(run.listed)
             cs    == IF users[entry.id].is = "credential" THEN run.candidates
                      ELSE Append(run.candidates, entry)
  <2>0. UNCHANGED <<users, quiet>> /\ run.pc = "credentials" /\ run.listed # <<>>
    BY <1>5 DEF Credentials, UsersInv, RunSound
  <2>1. CASE run' = [run EXCEPT !.pc = "detail", !.listed = Tail(run.listed), !.candidates = cs]
    <3>1. /\ run'.pc = "detail" /\ run'.abandoned = run.abandoned
          /\ run'.cutoff = run.cutoff /\ run'.listed = Tail(run.listed)
          /\ run'.candidates = cs
      <4> HIDE DEF cs
      <4> QED BY <1>0, <2>1 DEF RunState
    <3>2. /\ IdsOf(run.listed) \subseteq {entry.id} \cup IdsOf(Tail(run.listed))
          /\ entry \in Entry
      BY <1>0, <2>0, TailIds, HeadTailProperties
    <3>3. /\ IdsOf(run.candidates) \subseteq IdsOf(cs)
          /\ users[entry.id].is # "credential" => entry.id \in IdsOf(cs)
      BY <1>0, <3>2, AppendIds
    <3>4. ASSUME quiet, NEW id \in run.abandoned
          PROVE  /\ id \in run.cutoff /\ Pending(users[id])
                 /\ id \in IdsOf(Tail(run.listed)) \cup IdsOf(cs)
      <4>1. /\ id \in run.cutoff /\ Pending(users[id])
            /\ id \in IdsOf(run.listed) \cup IdsOf(run.candidates)
        BY <2>0, <3>4 DEF NoneIsMissed, Ahead
      <4>2. users[id].is # "credential"
        BY <4>1 DEF Pending, Plain
      <4> HIDE DEF cs, entry
      <4> QED BY <3>2, <3>3, <4>1, <4>2
    <3> HIDE DEF cs
    <3> QED BY <2>0, <3>1, <3>4 DEF NoneIsMissed
  <2> QED BY <1>1, <1>5, <2>1 DEF Credentials, Fail
<1>6. CASE Delete
  <2>0. quiet' = quiet /\ run.pc = "delete"
    BY <1>6 DEF Delete
  <2>1. CASE /\ run.candidates # <<>> /\ run.execute
             /\ run' = [run EXCEPT !.candidates = Tail(@)]
             /\ users' = [id \in Ids |-> IF id \in Deleted(Head(run.candidates)) THEN NoAccount
                                         ELSE users[id]]
    <3>1. /\ run'.pc = "delete" /\ run'.abandoned = run.abandoned /\ run'.execute = run.execute
          /\ run'.candidates = Tail(run.candidates)
      BY <1>0, <2>0, <2>1 DEF RunState
    <3>2. IdsOf(run.candidates) \subseteq {Head(run.candidates).id} \cup IdsOf(Tail(run.candidates))
      BY <1>0, <2>1, TailIds
    <3>3. ASSUME NEW id \in Ids
          PROVE  ~Exists(id) \/ id = Head(run.candidates).id => ~Exists(id)'
      BY <2>1 DEF Deleted, Exists
    <3>4. ASSUME quiet, NEW id \in run.abandoned
          PROVE  id \in IdsOf(Tail(run.candidates)) \/ ~Exists(id)'
      <4>1. id \in Ids /\ (id \in IdsOf(run.candidates) \/ ~Exists(id))
        BY <1>0, <2>0, <3>4 DEF NoneIsMissed, Gone
      <4> QED BY <3>2, <3>3, <4>1
    <3> QED BY <2>0, <2>1, <3>1, <3>4 DEF NoneIsMissed, Gone
  <2> QED BY <1>1, <1>6, <2>1 DEF Delete, Fail
<1>7. CASE Aborts
  BY <1>1, <1>7 DEF Aborts, Fail
<1> QED BY <1>2, <1>3, <1>4, <1>5, <1>6, <1>7 DEF RunStep

(* Whoever else changes an account of the list disturbs the run.           *)
LEMMA NextMissesNone == UsersInv /\ NoneIsMissed /\ [Next]_vars => NoneIsMissed'
<1> SUFFICES ASSUME UsersInv, NoneIsMissed, [Next]_vars PROVE NoneIsMissed'
  OBVIOUS
<1>1. CASE UNCHANGED <<users, run, quiet>>
  BY <1>1, StillNotMissed DEF UsersInv, Exists
<1>2. CASE Disturb /\ UNCHANGED run
  BY <1>2 DEF Disturb, NoneIsMissed
<1>3. ASSUME NEW s \in SignIns, SignInStep(s) PROVE NoneIsMissed'
  BY <1>1, <1>2, <1>3 DEF SignInStep, Submit, Insert, Create, LookAgain, EnterCode
<1>4. CASE RunStep
  BY <1>4, RunStepMissesNone
<1>5. CASE Administer
  BY <1>2, <1>5 DEF Administer
<1>6. CASE Ages
  <2>1. PICK id \in Ids : Exists(id) /\ users' = [users EXCEPT ![id].old = TRUE]
    BY <1>6 DEF Ages
  <2>2. users[id] \in Account /\ [users[id] EXCEPT !.old = TRUE] \in Account
    BY <2>1, FieldOK DEF Is, UsersInv
  <2>3. \A o \in Ids : users'[o] = IF o = id THEN [users[id] EXCEPT !.old = TRUE] ELSE users[o]
    BY <2>1 DEF UsersInv, DirectoryOK
  <2>4. \A o \in Ids : /\ Exists(o)' <=> Exists(o)
                       /\ users'[o].address = users[o].address
                       /\ Pending(users[o]) => Pending(users'[o])
    BY <2>1, <2>2, <2>3 DEF Exists, Pending, Account, NoAccount
  <2> QED BY <1>6, <2>4, StillNotMissed DEF Ages, UsersInv
<1> QED BY <1>1, <1>3, <1>4, <1>5, <1>6 DEF Next, vars

-----------------------------------------------------------------------------
(* A run that nobody disturbs leaves no abandoned account, or in a dry run *)
(* names every one (cleanup-unverified-users.mjs:7-24 and 52-60), however  *)
(* many there are, on pages of any size.                                   *)
THEOREM QuietRunsAreComplete == Spec => CompleteWhenQuiet
<1> DEFINE Complete ==
      run.pc = "delete" /\ run'.pc = "over" /\ quiet
        => IF run.execute
             THEN \A id \in run.abandoned : users'[id] = NoAccount
             ELSE run.abandoned \subseteq {entry.id : entry \in ToSet(run.candidates)}
<1>1. UsersInv /\ NoneIsMissed /\ [Next]_vars => [Complete]_vars
  <2> SUFFICES ASSUME UsersInv, NoneIsMissed, Next, run.pc = "delete", run'.pc = "over", quiet
               PROVE  IF run.execute
                        THEN \A id \in run.abandoned : users'[id] = NoAccount
                        ELSE run.abandoned \subseteq IdsOf(run.candidates)
    BY DEF IdsOf
  <2>1. (run.candidates = <<>> \/ ~run.execute) /\ UNCHANGED users
    <3>1. run \in RunState
      BY DEF UsersInv, RunSound
    <3>2. run' # run
      OBVIOUS
    <3>3. CASE RunStep
      <4>1. Fail.pc = "failed"
        BY DEF Fail, NotRunning
      <4>2. Delete
        BY <3>3, <4>1 DEF RunStep, Start, NotRunning, List, Detail, Credentials, Aborts
      <4> QED BY <3>1, <4>1, <4>2 DEF Delete, RunState
    <3> QED BY <3>2, <3>3 DEF Next, SignInStep, Submit, Insert, LookAgain, EnterCode, Administer, Ages
  <2>2. \A id \in run.abandoned : id \in IdsOf(run.candidates) \/ Gone(id)
    BY DEF NoneIsMissed
  <2> QED BY <2>1, <2>2, IdsOfNone DEF Exists, Gone
<1>2. Spec => []NoneIsMissed
  <2>1. Init => NoneIsMissed
    BY DEF Init, NoneIsMissed, NotRunning
  <2> QED BY <2>1, NextMissesNone, UsersInvHolds, PTL DEF Spec
<1> QED BY <1>1, <1>2, UsersInvHolds, PTL DEF Spec, CompleteWhenQuiet
=============================================================================
