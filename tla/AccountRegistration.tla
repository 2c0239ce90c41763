------------------------- MODULE AccountRegistration -------------------------
(***************************************************************************)
(* Sign-up and phone confirmation (backend/src/auth/services/              *)
(* auth.service.ts over backend/src/user/services/user.service.ts).  An    *)
(* account lives twice: in Cognito, under its phone, and in the User       *)
(* table, with the id (sub) Cognito gave it.  register writes the first,   *)
(* then the second, and undoes the first when it believes the second       *)
(* failed.  Cognito is external: it is modelled from how it is called.     *)
(*                                                                         *)
(* A step is the work of a handler between two awaits.  An update is an    *)
(* updateUser call whose promise nobody awaits.  Definitions marked        *)
(* "mistake" are plausible bugs that no behaviour uses.                    *)
(***************************************************************************)
EXTENDS Naturals, FiniteSets

CONSTANTS
    Phones, Emails,
    Subs,           \* ids Cognito gives its accounts: the bound on sign-ups
    Slots,          \* the bound on requests served at the same time
    None

Account == [phone: Phones, confirmed: BOOLEAN, enabled: BOOLEAN]
User == [sub: Subs, phone: Phones, email: Emails, verified: BOOLEAN]

ASSUME NoneAssumption == None \notin Account /\ None \notin User /\ None \notin Subs

VARIABLES
    accounts,       \* Cognito: accounts[s] is an Account or None
    issued,         \* the subs Cognito has ever given out
    users,          \* the User table
    up,             \* is the Node process running
    calls,          \* requests being served
    updates,        \* phones whose un-awaited updateUser is still running
    faulted         \* history: has Cognito or the database failed a call yet

vars == <<accounts, issued, users, up, calls, updates, faulted>>

Awaits == {"signUp", "findUser", "createUser", "disable", "delete",
           "confirm", "resend"}
Call == [id: Slots, pc: Awaits, phone: Phones, email: Emails \cup {None},
         sub: Subs \cup {None}]

Init ==
    /\ accounts = [s \in Subs |-> None]
    /\ issued = {}
    /\ users = {}
    /\ up = TRUE
    /\ calls = {}
    /\ updates = {}
    /\ faulted = FALSE

------------------------------------------------------------------------------
AccountsOf(phone) == {s \in Subs: accounts[s] # None /\ accounts[s].phone = phone}
UsersOf(phone) == {u \in users: u.phone = phone}

CanServe(id) == up /\ \A c \in calls: c.id # id

NewCall(id, pc, phone, email) ==
    [id |-> id, pc |-> pc, phone |-> phone, email |-> email, sub |-> None]

Await(c, pc) == calls' = (calls \ {c}) \cup {[c EXCEPT !.pc = pc]}
Answer(c) == calls' = calls \ {c}

ProcessEnds ==
    /\ up' = FALSE
    /\ calls' = {}
    /\ updates' = {}
    /\ UNCHANGED <<accounts, issued, users>>

Stopped == up /\ ProcessEnds

Restart ==
    /\ ~up
    /\ up' = TRUE
    /\ UNCHANGED <<accounts, issued, users, calls, updates>>

------------------------------------------------------------------------------
(* register.                                                                *)

Register(id, phone, email) ==
    /\ CanServe(id)
    /\ calls' = calls \cup {NewCall(id, "signUp", phone, email)}
    /\ UNCHANGED <<accounts, issued, users, up, updates>>

(* Cognito makes an unconfirmed account, under a sub of its own.  The bound *)
(* is in SignUp: there is a sub left.                                       *)
MakeAccount(s, phone) ==
    /\ s \notin issued
    /\ issued' = issued \cup {s}
    /\ accounts' = [accounts EXCEPT ![s] =
                      [phone |-> phone, confirmed |-> FALSE, enabled |-> TRUE]]

SignedUp(c) ==
    \E s \in Subs:
        /\ MakeAccount(s, c.phone)
        /\ calls' = (calls \ {c}) \cup {[c EXCEPT !.pc = "findUser", !.sub = s]}

(* A phone that has an account gets UsernameExistsException, status 400,    *)
(* and the handler answers at once.                                         *)
\* mistake: the status is not looked at, and any error is compensated for
SignUpCompensating(c) ==
    /\ c.pc = "signUp"
    /\ IF AccountsOf(c.phone) = {} THEN SignedUp(c)
       ELSE Await(c, "disable") /\ UNCHANGED <<accounts, issued>>
    /\ UNCHANGED <<users, up, updates>>
\* mistake: an account that exists is taken for the one just made
SignUpAdopting(c) ==
    /\ c.pc = "signUp"
    /\ IF AccountsOf(c.phone) = {} THEN SignedUp(c)
       ELSE /\ \E s \in AccountsOf(c.phone):
                  calls' = (calls \ {c}) \cup
                               {[c EXCEPT !.pc = "findUser", !.sub = s]}
            /\ UNCHANGED <<accounts, issued>>
    /\ UNCHANGED <<users, up, updates>>
\* mistake: the error is swallowed, and there is no UserSub
SignUpSwallowing(c) ==
    /\ c.pc = "signUp"
    /\ IF AccountsOf(c.phone) = {} THEN SignedUp(c)
       ELSE Await(c, "findUser") /\ UNCHANGED <<accounts, issued>>
    /\ UNCHANGED <<users, up, updates>>
SignUp(c) ==
    /\ c.pc = "signUp"
    /\ IF AccountsOf(c.phone) = {} THEN SignedUp(c)
       ELSE Answer(c) /\ UNCHANGED <<accounts, issued>>
    /\ UNCHANGED <<users, up, updates>>

(* Cognito refuses the password or throttles: status 400 too.               *)
SignUpRefused(c) ==
    /\ c.pc = "signUp"
    /\ Answer(c)
    /\ UNCHANGED <<accounts, issued, users, up, updates>>

(* Cognito answers 5xx, or its answer is lost with the account made or not: *)
(* there is no status 400, and the handler goes on to undo.                 *)
SignUpFails(c) ==
    /\ c.pc = "signUp"
    /\ Await(c, "disable")
    /\ \/ UNCHANGED <<accounts, issued>>
       \/ /\ AccountsOf(c.phone) = {}
          /\ \E s \in Subs: MakeAccount(s, c.phone)
    /\ UNCHANGED <<users, up, updates>>

(* createUser: UserAlreadyExistsException carries no statusCode.            *)
FindUser(c) ==
    /\ c.pc = "findUser"
    /\ Await(c, IF UsersOf(c.phone) = {} THEN "createUser" ELSE "disable")
    /\ UNCHANGED <<accounts, issued, users, up, updates>>

(* phone, email and coginitoId are unique.                                  *)
\* mistake: the e-mail is not
InsertableTwice(c) == \A u \in users: u.phone # c.phone /\ u.sub # c.sub
Insertable(c) ==
    \A u \in users: u.phone # c.phone /\ u.email # c.email /\ u.sub # c.sub

Insert(c) ==
    users' = users \cup {[sub |-> c.sub, phone |-> c.phone, email |-> c.email,
                          verified |-> FALSE]}

CreateUser(c) ==
    /\ c.pc = "createUser"
    /\ IF Insertable(c)
       THEN Insert(c) /\ Answer(c)
       ELSE Await(c, "disable") /\ UNCHANGED users
    /\ UNCHANGED <<accounts, issued, up, updates>>

(* The database refuses, or its answer is lost with the row inserted or not.*)
CreateUserFails(c) ==
    /\ c.pc \in {"findUser", "createUser"}
    /\ Await(c, "disable")
    /\ \/ UNCHANGED users
       \/ c.pc = "createUser" /\ Insertable(c) /\ Insert(c)
    /\ UNCHANGED <<accounts, issued, up, updates>>

(* adminDisableUser and adminDeleteUser name the account by its phone and   *)
(* throw when there is none.                                                *)
DisableAccount(c) ==
    /\ c.pc = "disable"
    /\ accounts' = [s \in Subs |-> IF s \in AccountsOf(c.phone)
                                   THEN [accounts[s] EXCEPT !.enabled = FALSE]
                                   ELSE accounts[s]]
    /\ IF AccountsOf(c.phone) = {} THEN Answer(c) ELSE Await(c, "delete")
    /\ UNCHANGED <<issued, users, up, updates>>

DeleteAccount(c) ==
    /\ c.pc = "delete"
    /\ accounts' = [s \in Subs |-> IF s \in AccountsOf(c.phone) THEN None
                                   ELSE accounts[s]]
    /\ Answer(c)
    /\ UNCHANGED <<issued, users, up, updates>>

(* Either call to Cognito, or a lookup, fails: the request ends there.      *)
CallFails(c) ==
    /\ c.pc \in {"disable", "delete", "confirm", "resend"}
    /\ Answer(c)
    /\ UNCHANGED <<accounts, issued, users, up, updates>>

------------------------------------------------------------------------------
(* verifyOTP and resendOTP.  Both start the same un-awaited update.         *)

VerifyOTP(id, phone) ==
    /\ CanServe(id)
    /\ UsersOf(phone) # {}
    /\ calls' = calls \cup {NewCall(id, "confirm", phone, None)}
    /\ UNCHANGED <<accounts, issued, users, up, updates>>

Confirmable(phone) ==
    {s \in AccountsOf(phone): accounts[s].enabled /\ ~accounts[s].confirmed}

(* confirmSignUp with the right code; with a wrong one see CallFails.       *)
Confirm(c) ==
    /\ c.pc = "confirm"
    /\ accounts' = [s \in Subs |-> IF s \in Confirmable(c.phone)
                                   THEN [accounts[s] EXCEPT !.confirmed = TRUE]
                                   ELSE accounts[s]]
    /\ updates' = IF Confirmable(c.phone) = {} THEN updates
                  ELSE updates \cup {c.phone}
    /\ Answer(c)
    /\ UNCHANGED <<issued, users, up>>

ResendOTP(id, phone) ==
    /\ CanServe(id)
    /\ UsersOf(phone) # {}
    /\ calls' = calls \cup {NewCall(id, "resend", phone, None)}
    /\ UNCHANGED <<accounts, issued, users, up, updates>>

(* resendConfirmationCode refuses an account that is already confirmed.     *)
Resend(c) ==
    /\ c.pc = "resend"
    /\ updates' = IF Confirmable(c.phone) = {} THEN updates
                  ELSE updates \cup {c.phone}
    /\ Answer(c)
    /\ UNCHANGED <<accounts, issued, users, up>>

(* updateUser({ phone }, { verified: true }); it throws when no user has    *)
(* the phone any more, and nobody awaits it.                                *)
MarkVerified(phone) ==
    /\ phone \in updates
    /\ IF UsersOf(phone) = {} THEN ProcessEnds
       ELSE /\ users' = {IF u.phone = phone THEN [u EXCEPT !.verified = TRUE] ELSE u:
                            u \in users}
            /\ updates' = updates \ {phone}
            /\ UNCHANGED <<accounts, issued, up, calls>>

(* PUT user/:id as the app sends it, with a phone: Cognito is not told.     *)
(* (The endpoint takes a verified flag too, which the app never sends.)     *)
UpdateUser(u, phone) ==
    /\ up
    /\ UsersOf(phone) = {}
    /\ users' = (users \ {u}) \cup {[u EXCEPT !.phone = phone]}
    /\ UNCHANGED <<accounts, issued, up, calls, updates>>

------------------------------------------------------------------------------
HandlerStep(c) ==
    \/ SignUp(c) \/ FindUser(c) \/ CreateUser(c)
    \/ DisableAccount(c) \/ DeleteAccount(c)
    \/ Confirm(c) \/ Resend(c)

NewRequest(id, phone) ==
    \/ \E email \in Emails: Register(id, phone, email)
    \/ VerifyOTP(id, phone)
    \/ ResendOTP(id, phone)

(* Cognito and the database serve every call; the platform may still stop   *)
(* the process, and users mistype.                                          *)
NextServed ==
    \/ \E id \in Slots, phone \in Phones: NewRequest(id, phone)
    \/ \E u \in users, phone \in Phones: UpdateUser(u, phone)
    \/ \E c \in calls: HandlerStep(c) \/ SignUpRefused(c)
    \/ \E phone \in Phones: MarkVerified(phone)
    \/ Stopped
    \/ Restart

NextFailing == \E c \in calls: SignUpFails(c) \/ CreateUserFails(c) \/ CallFails(c)

Next ==
    \/ NextServed /\ UNCHANGED faulted
    \/ NextFailing /\ faulted' = TRUE

Spec == Init /\ [][Next]_vars
------------------------------------------------------------------------------
(* Types, and one call per slot.                                            *)
TypeOK ==
    /\ accounts \in [Subs -> Account \cup {None}]
    /\ issued \subseteq Subs
    /\ users \subseteq User
    /\ up \in BOOLEAN
    /\ calls \subseteq Call
    /\ updates \subseteq Phones
    /\ faulted \in BOOLEAN
    /\ \A c, d \in calls: c.id = d.id => c = d

(* While Cognito and the database serve every call, undoing a sign-up never *)
(* costs a registered user the account: each row of User has an enabled     *)
(* account, whatever sign-ups race for a phone or an e-mail, whatever       *)
(* phones users change to, and wherever the process is stopped.             *)
Kept == \A u \in users: accounts[u.sub] # None /\ accounts[u.sub].enabled

UsersKeepAccounts == ~faulted => Kept

(* An account no row refers to and no call in flight is about: the process  *)
(* stopped between signUp and the insert, or while it was undoing.          *)
Orphaned(s) ==
    /\ accounts[s] # None
    /\ \A u \in users: u.sub # s
    /\ \A c \in calls: c.sub # s

(* Then its phone is lost to sign-up: every retry is told the user already  *)
(* exists, no row is ever made for the account, and nothing removes it      *)
(* while every call is served.                                              *)
OrphanedForEver ==
    [][~faulted' => \A s \in Subs: Orphaned(s) => Orphaned(s)']_vars

(* A user whose account was undone never gets it back, even when calls to   *)
(* Cognito and the database fail: the row stays, under the sub of the       *)
(* account that is gone, and keeps the e-mail from every other sign-up.     *)
LostAccountIsForEver ==
    [][\A u \in users: accounts[u.sub] = None =>
          \A v \in users': v.email = u.email =>
              v.sub = u.sub /\ accounts'[v.sub] = None]_vars

------------------------------------------------------------------------------
(* "if we come here that mean db call failed" (auth.service.ts:70): the     *)
(* account of a registered user is undone, if at all, by the register that  *)
(* made it and whose own insert went wrong.                                 *)
UndoneAccountIsOwn ==
    [][\A u \in users: accounts[u.sub] # None /\ accounts'[u.sub] = None =>
          \E c \in calls: c.pc = "delete" /\ c.sub = u.sub]_vars

(* "const isConfirmed = user?.verified" (auth.service.ts:122), "profiles    *)
(* include verified information" (README.md:7): while every call is served, *)
(* the phone of a verified user was confirmed with the code Cognito sent.   *)
VerifiedIsConfirmed ==
    ~faulted => \A u \in users: u.verified =>
        accounts[u.sub] # None /\ accounts[u.sub].confirmed

==============================================================================
