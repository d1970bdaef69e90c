---------------------------- MODULE UserDirectory -----------------------------
(***************************************************************************)
(* The users of the realm between the three that create and delete them:   *)
(* sign-ins by email address (EmailIdentityAuthenticator.java), the tool   *)
(* that removes abandoned addresses (cleanup-unverified-users.mjs), and an *)
(* administrator.  Keycloak's store keeps usernames unique.                *)
(***************************************************************************)
EXTENDS Naturals, SequencesExt

CONSTANTS
    Addresses,      \* email addresses, as numbers: the store sorts by them
    SignIns,        \* browsers at the email form
    PageSize,       \* of the user list; 100 in the code
    MaxAccounts,    \* bound: accounts ever created
    MaxEdits        \* bound: what the administrator does

ASSUME AddressesAssumption == Addresses \subseteq Nat \ {0}
ASSUME PageAssumption == PageSize \in Nat \ {0}
ASSUME BoundsAssumption == MaxAccounts \in Nat /\ MaxEdits \in Nat

VARIABLES
    users,          \* users[id]; an id is never used twice
    created,        \* accounts created so far
    edits,          \* what the administrator did so far
    signIn,         \* signIn[s]: where the flow of s is
    run,            \* the cleanup tool
    quiet,          \* history: nobody else touched the users during the run
    late            \* history: the accounts that were changed after the tool had
                    \* read what changed of them

vars == <<users, created, edits, signIn, run, quiet, late>>

(* An account has its address as username.  It is marked if a sign-in made *)
(* it.  What an administrator makes of it: a name, a link or a required    *)
(* action, a credential, no email, or an account that is disabled.         *)
Plain == "plain"
Is == {Plain, "named", "credential", "mailless", "disabled"}
Account == [address : Addresses, marked : BOOLEAN, verified : BOOLEAN,
            old : BOOLEAN, is : Is]
NoAccount == [address |-> 0]
Ids == 1..MaxAccounts
Exists(id) == users[id] # NoAccount
Found(a) == {id \in Ids : users[id].address = a}        \* at most one

SignInPcs == {"form", "insert", "again", "code", "refused"}
SignInState == [pc : SignInPcs, address : Addresses \cup {0}, id : Ids \cup {0}]
AtForm == [pc |-> "form", address |-> 0, id |-> 0]

RunPcs == {"over", "list", "detail", "credentials", "delete", "failed"}
Entry == [id : Ids, address : Addresses]
RunState == [pc : RunPcs, execute : BOOLEAN, first : 0..MaxAccounts + PageSize,
             listed : Seq(Entry), candidates : Seq(Entry),
             cutoff : SUBSET Ids,       \* the accounts older than it
             abandoned : SUBSET Ids]    \* history: at the start

TypeOK ==
    /\ users \in [Ids -> Account \cup {NoAccount}]
    /\ created \in 0..MaxAccounts /\ edits \in 0..MaxEdits
    /\ signIn \in [SignIns -> SignInState]
    /\ \A s \in SignIns : signIn[s].pc = "code" <=> signIn[s].id \in 1..created
    /\ \A id \in Ids : id > created => ~Exists(id)
    /\ \A i, j \in Ids : Exists(i) /\ users[i].address = users[j].address => i = j
    /\ run \in RunState
    /\ quiet \in BOOLEAN /\ late \subseteq Ids

NotRunning(pc) == [pc |-> pc, execute |-> FALSE, first |-> 0, listed |-> <<>>,
                   candidates |-> <<>>, cutoff |-> {}, abandoned |-> {}]

Init ==
    /\ users = [id \in Ids |-> NoAccount]
    /\ created = 0 /\ edits = 0
    /\ signIn = [s \in SignIns |-> AtForm]
    /\ run = NotRunning("over")
    /\ quiet = TRUE /\ late = {}

IdsOf(entries) == {entry.id : entry \in ToSet(entries)}

(* A candidate is not read again, and what is listed only for its marker,  *)
(* which nobody changes, and for credentials.                              *)
Unread(id) == /\ users'[id] \notin {users[id], NoAccount}
              /\ \/ id \in IdsOf(run.candidates)
                 \/ id \in IdsOf(run.listed) /\ users'[id].is # "credential"

(* The tool looks at the whole directory, so any other change of it tells. *)
Disturb == /\ quiet' = (run.pc \in {"over", "failed"})
           /\ late' = late \cup {id \in Ids : Unread(id)}

Create(a, marked) ==
    /\ created < MaxAccounts /\ Found(a) = {}
    /\ created' = created + 1
    /\ users' = [users EXCEPT ![created + 1] =
                   [address |-> a, marked |-> marked, verified |-> FALSE,
                    old |-> FALSE, is |-> Plain]]
    /\ Disturb

-----------------------------------------------------------------------------
(* EmailIdentityAuthenticator.action                                       *)
Goto(s, pc, a, id) ==
    signIn' = [signIn EXCEPT ![s] = [pc |-> pc, address |-> a, id |-> id]]

(* A bug: the flow goes on without a user.                                 *)
Identified_NotSet(s, a, id) == Goto(s, "code", a, 0)

(* The checks on a user that was found: an email, and enabled.             *)
Identified(s, a, id) ==
    IF users[id].is \in {"mailless", "disabled"}
      THEN Goto(s, "refused", a, 0)
      ELSE Goto(s, "code", a, id)

(* A valid address is submitted; an unknown one is to be inserted.         *)
Submit(s, a) ==
    /\ signIn[s].pc \in {"form", "refused"}
    /\ \/ Found(a) = {} /\ Goto(s, "insert", a, 0)
       \/ \E id \in Found(a) : Identified(s, a, id)
    /\ UNCHANGED <<users, created, edits, run, quiet, late>>

(* A bug: the duplicate is reported instead of resolved.                   *)
Duplicate_Refused(s) == Goto(s, "refused", signIn[s].address, 0)

(* catch (ModelDuplicateException): look it up once more.                  *)
Duplicate(s) == Goto(s, "again", signIn[s].address, 0)

(* addUser and the marker, in one transaction, unless another sign-in or   *)
(* the administrator has taken the username since the lookup.              *)
Insert(s) ==
    /\ signIn[s].pc = "insert"
    /\ \/ /\ Create(signIn[s].address, TRUE)
          /\ Goto(s, "code", signIn[s].address, created + 1)
       \/ /\ Found(signIn[s].address) # {}
          /\ Duplicate(s)
          /\ UNCHANGED <<users, created, quiet, late>>
    /\ UNCHANGED <<edits, run>>

LookAgain(s) ==
    /\ signIn[s].pc = "again"
    /\ \/ \E id \in Found(signIn[s].address) : Identified(s, signIn[s].address, id)
       \/ Found(signIn[s].address) = {} /\ Goto(s, "refused", signIn[s].address, 0)
    /\ UNCHANGED <<users, created, edits, run, quiet, late>>

(* The email-OTP authenticator that follows in the flow: the code arrives, *)
(* which verifies the address, or it never does.                           *)
EnterCode(s) ==
    /\ signIn[s].pc = "code"
    /\ signIn' = [signIn EXCEPT ![s] = AtForm]
    /\ \/ /\ Exists(signIn[s].id) /\ users[signIn[s].id].is # "disabled"
          /\ users' = [users EXCEPT ![signIn[s].id].verified = TRUE]
          /\ Disturb
       \/ UNCHANGED <<users, quiet, late>>
    /\ UNCHANGED <<created, edits, run>>

-----------------------------------------------------------------------------
(* cleanup-unverified-users.mjs                                            *)

(* isPendingUserShape, on what the list shows; credentials are not in it.  *)
PendingUserShape(id) ==
    id \in run.cutoff /\ ~users[id].verified /\ users[id].is \notin {"named", "mailless"}

(* What no one has proven, nor anybody made something of.                  *)
Abandoned(u) ==
    u # NoAccount /\ u.marked /\ u.old /\ ~u.verified /\ u.is \in {Plain, "disabled"}

Start(execute) ==
    /\ run.pc \in {"over", "failed"}
    /\ run' = [NotRunning("list") EXCEPT
                 !.execute = execute,
                 !.cutoff = {id \in Ids : Exists(id) /\ users[id].old},
                 !.abandoned = {id \in Ids : Abandoned(users[id])}]
    /\ quiet' = TRUE
    /\ UNCHANGED <<users, created, edits, signIn>>

(* GET /users?first=&max=, sorted by username.                             *)
Rank(id)    == Cardinality({j \in Ids : Exists(j) /\ users[j].address < users[id].address})
Page(first) == {id \in Ids : Exists(id) /\ Rank(id) \in first..first + PageSize - 1}
Sorted(seq, ids) ==
    /\ ToSet(seq) = ids
    /\ \A i, j \in DOMAIN seq : i < j => users[seq[i]].address < users[seq[j]].address
Entries(ids) == [i \in 1..Len(ids) |-> [id |-> ids[i], address |-> users[ids[i]].address]]

(* A bug: a page that is just full is taken for the last one.              *)
LastPage_Full(page) == Cardinality(page) <= PageSize

LastPage(page) == Cardinality(page) < PageSize

(* allUsers, page by page; of each page, the users of the right shape.     *)
List ==
    /\ run.pc = "list"
    /\ \E found \in BoundedSeq(Ids, PageSize) :
          /\ Sorted(found, {id \in Page(run.first) : PendingUserShape(id)})
          /\ LET listed == run.listed \o Entries(found)
             IN  run' = IF LastPage(Page(run.first))
                          THEN [run EXCEPT !.pc = "detail", !.listed = listed, !.first = 0]
                          ELSE [run EXCEPT !.listed = listed, !.first = @ + PageSize]
    /\ UNCHANGED <<users, created, edits, signIn, quiet>>

Fail == NotRunning("failed")

(* The exact record: has it the marker?  After the last one, delete.       *)
Detail ==
    /\ run.pc = "detail"
    /\ run' = IF run.listed = <<>> THEN [run EXCEPT !.pc = "delete"]
              ELSE IF ~Exists(Head(run.listed).id) THEN Fail
              ELSE IF users[Head(run.listed).id].marked THEN [run EXCEPT !.pc = "credentials"]
              ELSE [run EXCEPT !.listed = Tail(@)]
    /\ UNCHANGED <<users, created, edits, signIn, quiet>>

Credentials ==
    /\ run.pc = "credentials"
    /\ LET entry == Head(run.listed)
       IN  run' = IF ~Exists(entry.id) THEN Fail
                  ELSE [run EXCEPT !.pc = "detail", !.listed = Tail(@),
                          !.candidates = IF users[entry.id].is = "credential" THEN @
                                         ELSE Append(@, entry)]
    /\ UNCHANGED <<users, created, edits, signIn, quiet>>

(* A bug: the account is deleted that has the candidate's address now.     *)
Deleted_ByAddress(entry) == Found(entry.address)

(* DELETE /users/<id>                                                      *)
Deleted(entry) == {id \in {entry.id} : Exists(id)}

(* The candidates, one by one; a dry run only prints them.                 *)
Delete ==
    /\ run.pc = "delete"
    /\ IF run.candidates = <<>> \/ ~run.execute
         THEN run' = NotRunning("over") /\ UNCHANGED users
         ELSE LET ids == Deleted(Head(run.candidates))
              IN  /\ run' = IF ids = {} THEN Fail ELSE [run EXCEPT !.candidates = Tail(@)]
                  /\ users' = [id \in Ids |-> IF id \in ids THEN NoAccount ELSE users[id]]
    /\ UNCHANGED <<created, edits, signIn, quiet>>

(* Any of its calls is refused or lost, or the tool is stopped.            *)
Aborts ==
    /\ run.pc \notin {"over", "failed"}
    /\ run' = Fail
    /\ UNCHANGED <<users, created, edits, signIn, quiet>>

-----------------------------------------------------------------------------
(* The administrator invites a user, changes one, or deletes one.          *)
Administer ==
    /\ edits < MaxEdits /\ edits' = edits + 1
    /\ \/ \E a \in Addresses : Create(a, FALSE)
       \/ \E id \in Ids :
            /\ Exists(id) /\ users[id].is = Plain
            /\ \E is \in Is \ {Plain} : users' = [users EXCEPT ![id].is = is]
            /\ UNCHANGED created
       \/ \E id \in Ids : /\ Exists(id)
                          /\ users' = [users EXCEPT ![id] = NoAccount]
                          /\ UNCHANGED created
    /\ Disturb
    /\ UNCHANGED <<signIn, run>>

(* An account passes the retention threshold.                              *)
Ages ==
    /\ \E id \in Ids : /\ Exists(id) /\ ~users[id].old
                       /\ users' = [users EXCEPT ![id].old = TRUE]
    /\ UNCHANGED <<created, edits, signIn, run, quiet, late>>

SignInStep(s) ==
    (\E a \in Addresses : Submit(s, a)) \/ Insert(s) \/ LookAgain(s) \/ EnterCode(s)
RunStep ==
    /\ (\E e \in BOOLEAN : Start(e)) \/ List \/ Detail \/ Credentials \/ Delete \/ Aborts
    /\ late' = IF run'.pc \in {"over", "failed"} THEN {} ELSE late

Next == (\E s \in SignIns : SignInStep(s)) \/ RunStep \/ Administer \/ Ages

Spec == Init /\ [][Next]_vars

-----------------------------------------------------------------------------
(* "It never deletes a user with a credential or name"                     *)
(* (OTP_OPERATIONS.md:106-108), and never one who has proven the address,  *)
(* was invited, or took the address over during the run: the code keeps    *)
(* that for what it has read.  Between its reads and the DELETE, which has *)
(* no condition (cleanup-unverified-users.mjs:23), the words are not true  *)
(* of it: who is given a name or a credential, or signs in, is deleted.    *)
OnlyAbandonedAreDeleted ==
    [][\A id \in Ids :
          Delete /\ Exists(id) /\ users'[id] = NoAccount
            => id \in run.abandoned /\ (Abandoned(users[id]) \/ id \in late)]_vars

(* A run that nothing disturbs finds every abandoned account, however they *)
(* fall on the pages of the list, and leaves none when it executes.        *)
CompleteWhenQuiet ==
    [][run.pc = "delete" /\ run'.pc = "over" /\ quiet
         => IF run.execute
              THEN \A id \in run.abandoned : users'[id] = NoAccount
              ELSE run.abandoned \subseteq {entry.id : entry \in ToSet(run.candidates)}]_vars

(* A sign-in that loses the race to create its account goes on with the    *)
(* one that won (EmailIdentityAuthenticator.java:66-75): it is refused for *)
(* what an administrator made of the account, or if that is gone again.    *)
RaceIsResolved ==
    [][\A s \in SignIns :
          signIn[s].pc # "refused" /\ signIn'[s].pc = "refused"
            => \A id \in Found(signIn'[s].address) : users[id].is \in {"mailless", "disabled"}]_vars
=============================================================================
