--------------------- MODULE AccountRegistration_proofs ---------------------
(***************************************************************************)
(* Theorems about AccountRegistration, for any sets of phones, e-mails,    *)
(* subs and slots.  FailingInv is inductive whatever calls to Cognito and  *)
(* the database fail.  ServedInv adds what a register knows of the account *)
(* it made: it holds for as long as no call has failed.                    *)
(***************************************************************************)
EXTENDS AccountRegistration, TLAPS

Types ==
    /\ accounts \in [Subs -> Account \cup {None}]
    /\ issued \subseteq Subs
    /\ users \subseteq User
    /\ up \in BOOLEAN
    /\ calls \subseteq Call
    /\ updates \subseteq Phones
    /\ faulted \in BOOLEAN

OneCallPerSlot == \A c, d \in calls: c.id = d.id => c = d

(* A register on its way to the insert, and one that may also be undoing.   *)
Creating == {c \in calls: c.pc \in {"findUser", "createUser"}}
Registering == {c \in calls: c.pc \in {"findUser", "createUser", "disable", "delete"}}

(* Cognito gave out every sub that is anywhere.                             *)
SubsIssued ==
    /\ \A s \in Subs: accounts[s] # None => s \in issued
    /\ \A u \in users: u.sub \in issued
    /\ \A c \in calls: c.sub # None => c.sub \in issued
    /\ \A c \in Creating: c.sub # None

(* A register has an e-mail to insert.                                      *)
EmailsGiven ==
    \A c \in calls: c.pc \in {"signUp", "findUser", "createUser"} => c.email \in Emails

EmailsUnique == \A u, v \in users: u.email = v.email => u.sub = v.sub

FailingInv == Types /\ OneCallPerSlot /\ SubsIssued /\ EmailsGiven /\ EmailsUnique

(* No two accounts share a phone, and a register holds the account of its   *)
(* phone, which is no user's and no other register's.                       *)
PhonesUnique ==
    \A s, t \in Subs: accounts[s] # None /\ accounts[t] # None
        /\ accounts[s].phone = accounts[t].phone => s = t

RegistersHoldAccounts ==
    \A c \in Registering:
        /\ c.sub \in Subs
        /\ accounts[c.sub] # None
        /\ accounts[c.sub].phone = c.phone

CreatingIsEnabled == \A c \in Creating: accounts[c.sub].enabled

RegistersAreApart ==
    /\ \A c \in Registering, u \in users: u.sub # c.sub
    /\ \A c, d \in Registering: c.sub = d.sub => c = d

Undoable ==
    /\ PhonesUnique
    /\ RegistersHoldAccounts
    /\ CreatingIsEnabled
    /\ RegistersAreApart
    /\ Kept

ServedInv == FailingInv /\ Undoable

------------------------------------------------------------------------------
(* What becomes of the calls: one may start, one may be answered, all may   *)
(* be lost, or one goes on.                                                 *)
Start(d) ==
    /\ d.sub = None
    /\ d.pc \in {"signUp", "confirm", "resend"}
    /\ d.pc = "signUp" => d.email \in Emails
    /\ \A c \in calls: c.id # d.id
    /\ calls' = calls \cup {d}

Becomes(c, d) ==
    /\ d.id = c.id /\ d.phone = c.phone /\ d.email = c.email
    /\ calls' = (calls \ {c}) \cup {d}

Moves == {<<"findUser", "createUser">>, <<"findUser", "disable">>,
          <<"createUser", "disable">>, <<"disable", "delete">>}

GoesOn(c, d) ==
    /\ Becomes(c, d)
    /\ \/ d.sub = c.sub /\ <<c.pc, d.pc>> \in Moves
       \/ /\ c.pc = "signUp" /\ d.pc = "findUser"
          /\ d.sub \in Subs
          /\ AccountsOf(c.phone) = {}
          /\ MakeAccount(d.sub, c.phone)

GivesUp(c, d) ==
    /\ Becomes(c, d)
    /\ d.sub = c.sub
    /\ c.pc = "signUp" /\ d.pc = "disable"

ServedCallsStep ==
    \/ calls' \subseteq calls
    \/ \E d \in Call: Start(d)
    \/ \E c \in calls, d \in Call: GoesOn(c, d)

CallsStep == ServedCallsStep \/ \E c \in calls, d \in Call: GivesUp(c, d)

LEMMA StartedCall ==
    ASSUME NEW id \in Slots, NEW phone \in Phones, NEW email \in Emails \cup {None},
           NEW pc \in {"signUp", "confirm", "resend"}, pc = "signUp" => email \in Emails,
           CanServe(id), calls' = calls \cup {NewCall(id, pc, phone, email)}
    PROVE  \E d \in Call: Start(d)
  <1> DEFINE d == NewCall(id, pc, phone, email)
  <1>1. d \in Call
    BY DEF NewCall, Call, Awaits
  <1>2. Start(d)
    BY DEF Start, NewCall, CanServe
  <1>3. QED
    BY <1>1, <1>2

LEMMA AwaitingCall ==
    ASSUME Types, NEW c \in calls, NEW pc \in Awaits, Await(c, pc)
    PROVE  \E d \in Call: Becomes(c, d) /\ d.pc = pc /\ d.sub = c.sub
  <1> DEFINE d == [c EXCEPT !.pc = pc]
  <1>1. c \in Call
    BY DEF Types
  <1>2. d \in Call /\ d.id = c.id /\ d.phone = c.phone /\ d.email = c.email
            /\ d.pc = pc /\ d.sub = c.sub
    BY <1>1 DEF Call
  <1>3. QED
    BY <1>2 DEF Becomes, Await

LEMMA MovingCall ==
    ASSUME Types, NEW c \in calls, NEW pc \in Awaits, Await(c, pc), <<c.pc, pc>> \in Moves
    PROVE  ServedCallsStep
  <1>1. PICK d \in Call: Becomes(c, d) /\ d.pc = pc /\ d.sub = c.sub
    BY AwaitingCall
  <1>2. QED
    BY <1>1 DEF GoesOn, ServedCallsStep

LEMMA SignedUpCall ==
    ASSUME Types, NEW c \in calls, c.pc = "signUp", AccountsOf(c.phone) = {}, SignedUp(c)
    PROVE  \E d \in Call: GoesOn(c, d) /\ d.pc = "findUser"
  <1>1. PICK s \in Subs: /\ MakeAccount(s, c.phone)
                         /\ calls' = (calls \ {c}) \cup
                                {[c EXCEPT !.pc = "findUser", !.sub = s]}
    BY DEF SignedUp
  <1> DEFINE d == [c EXCEPT !.pc = "findUser", !.sub = s]
  <1>2. c \in Call
    BY DEF Types
  <1>3. d \in Call /\ d.id = c.id /\ d.phone = c.phone /\ d.email = c.email
            /\ d.pc = "findUser" /\ d.sub = s
    BY <1>2 DEF Call, Awaits
  <1>4. QED
    BY <1>1, <1>3 DEF Becomes, GoesOn

LEMMA ServedCallsSteps ==
    ASSUME Types, [NextServed]_vars
    PROVE  ServedCallsStep
  <1>1. ASSUME NEW id \in Slots, NEW phone \in Phones, NewRequest(id, phone)
        PROVE  ServedCallsStep
    <2>1. ASSUME NEW email \in Emails, Register(id, phone, email) PROVE ServedCallsStep
      BY <2>1, StartedCall DEF Register, ServedCallsStep
    <2>2. CASE VerifyOTP(id, phone) \/ ResendOTP(id, phone)
      BY <2>2, StartedCall DEF VerifyOTP, ResendOTP, ServedCallsStep
    <2>3. QED
      BY <1>1, <2>1, <2>2 DEF NewRequest
  <1>2. ASSUME NEW c \in calls,
               SignUpRefused(c) \/ Confirm(c) \/ Resend(c) \/ DeleteAccount(c)
        PROVE  ServedCallsStep
    BY <1>2 DEF SignUpRefused, Confirm, Resend, DeleteAccount, Answer, ServedCallsStep
  <1>3. ASSUME NEW c \in calls, SignUp(c) PROVE ServedCallsStep
    BY <1>3, SignedUpCall DEF SignUp, Answer, ServedCallsStep
  <1>4. ASSUME NEW c \in calls, FindUser(c) \/ CreateUser(c) \/ DisableAccount(c)
        PROVE  ServedCallsStep
    <2>1. "disable" \in Awaits /\ "delete" \in Awaits /\ "createUser" \in Awaits
      BY DEF Awaits
    <2>2. ASSUME Answer(c) PROVE ServedCallsStep
      BY <2>2 DEF Answer, ServedCallsStep
    <2>3. QED
      BY <1>4, <2>1, <2>2, MovingCall DEF FindUser, CreateUser, DisableAccount, Moves
  <1>5. ASSUME NEW phone \in Phones, MarkVerified(phone) PROVE ServedCallsStep
    BY <1>5 DEF MarkVerified, ProcessEnds, ServedCallsStep
  <1>6. ASSUME NEW u \in users, NEW phone \in Phones, UpdateUser(u, phone)
        PROVE  ServedCallsStep
    BY <1>6 DEF UpdateUser, ServedCallsStep
  <1>7. CASE Stopped \/ Restart \/ UNCHANGED vars
    BY <1>7 DEF Stopped, ProcessEnds, Restart, vars, ServedCallsStep
  <1>8. QED
    BY <1>1, <1>2, <1>3, <1>4, <1>5, <1>6, <1>7 DEF NextServed, HandlerStep

LEMMA CallsSteps ==
    ASSUME Types, [Next]_vars
    PROVE  CallsStep
  <1>1. CASE [NextServed]_vars
    BY <1>1, ServedCallsSteps DEF CallsStep
  <1>2. ASSUME NEW c \in calls, CallFails(c) PROVE CallsStep
    BY <1>2 DEF CallFails, Answer, CallsStep, ServedCallsStep
  <1>3. "disable" \in Awaits
    BY DEF Awaits
  <1>4. ASSUME NEW c \in calls, CreateUserFails(c) PROVE CallsStep
    BY <1>3, <1>4, MovingCall DEF CreateUserFails, Moves, CallsStep
  <1>5. ASSUME NEW c \in calls, SignUpFails(c) PROVE CallsStep
    <2>1. PICK d \in Call: Becomes(c, d) /\ d.pc = "disable" /\ d.sub = c.sub
      BY <1>3, <1>5, AwaitingCall DEF SignUpFails
    <2>2. QED
      BY <1>5, <2>1 DEF SignUpFails, GivesUp, CallsStep
  <1>6. QED
    BY <1>1, <1>2, <1>4, <1>5 DEF Next, NextFailing

LEMMA CallTypesStep ==
    ASSUME Types, OneCallPerSlot, [Next]_vars
    PROVE  calls' \subseteq Call /\ OneCallPerSlot'
  <1>1. CASE calls' \subseteq calls
    BY <1>1 DEF Types, OneCallPerSlot
  <1>2. ASSUME NEW d \in Call, Start(d) PROVE calls' \subseteq Call /\ OneCallPerSlot'
    BY <1>2 DEF Start, Types, OneCallPerSlot
  <1>3. ASSUME NEW c \in calls, NEW d \in Call, Becomes(c, d)
        PROVE  calls' \subseteq Call /\ OneCallPerSlot'
    BY <1>3 DEF Becomes, Types, OneCallPerSlot
  <1>4. QED
    BY <1>1, <1>2, <1>3, CallsSteps DEF CallsStep, ServedCallsStep, GoesOn, GivesUp

LEMMA AccountsStep ==
    ASSUME Types, [Next]_vars
    PROVE  accounts' \in [Subs -> Account \cup {None}] /\ issued' \subseteq Subs
  <1> DEFINE Goal == accounts' \in [Subs -> Account \cup {None}] /\ issued' \subseteq Subs
  <1>1. CASE UNCHANGED <<accounts, issued>>
    BY <1>1 DEF Types
  <1>2. ASSUME NEW s \in Subs, NEW phone \in Phones, MakeAccount(s, phone) PROVE Goal
    <2>1. [phone |-> phone, confirmed |-> FALSE, enabled |-> TRUE] \in Account
      BY DEF Account
    <2>2. QED
      BY <1>2, <2>1 DEF MakeAccount, Types
  <1>3. \A c \in calls: c.phone \in Phones
    BY DEF Types, Call
  <1>4. ASSUME NEW c \in calls, SignUp(c) \/ SignUpFails(c) PROVE Goal
    BY <1>1, <1>2, <1>3, <1>4 DEF SignUp, SignUpFails, SignedUp
  <1>5. \A s \in Subs: accounts[s] # None =>
            /\ [accounts[s] EXCEPT !.enabled = FALSE] \in Account
            /\ [accounts[s] EXCEPT !.confirmed = TRUE] \in Account
    BY DEF Types, Account
  <1>6. ASSUME NEW c \in calls, DisableAccount(c) PROVE Goal
    BY <1>5, <1>6 DEF DisableAccount, AccountsOf, Types
  <1>7. ASSUME NEW c \in calls, DeleteAccount(c) PROVE Goal
    BY <1>7 DEF DeleteAccount, Types
  <1>8. ASSUME NEW c \in calls, Confirm(c) PROVE Goal
    BY <1>5, <1>8 DEF Confirm, Confirmable, AccountsOf, Types
  <1>9. ASSUME NEW c \in calls,
               SignUpRefused(c) \/ Resend(c) \/ CallFails(c) \/ FindUser(c) \/ CreateUser(c)
                   \/ CreateUserFails(c)
        PROVE  Goal
    BY <1>1, <1>9 DEF SignUpRefused, Resend, CallFails, FindUser, CreateUser, CreateUserFails
  <1>10. ASSUME NEW id \in Slots, NEW phone \in Phones, NewRequest(id, phone) PROVE Goal
    BY <1>1, <1>10 DEF NewRequest, Register, VerifyOTP, ResendOTP
  <1>11. ASSUME NEW phone \in Phones, MarkVerified(phone) PROVE Goal
    BY <1>1, <1>11 DEF MarkVerified, ProcessEnds
  <1>12. ASSUME NEW u \in users, NEW phone \in Phones, UpdateUser(u, phone) PROVE Goal
    BY <1>1, <1>12 DEF UpdateUser
  <1>13. CASE Stopped \/ Restart \/ UNCHANGED vars
    BY <1>1, <1>13 DEF Stopped, ProcessEnds, Restart, vars
  <1>14. QED
    BY <1>4, <1>6, <1>7, <1>8, <1>9, <1>10, <1>11, <1>12, <1>13
       DEF Next, NextServed, NextFailing, HandlerStep

(* The User table keeps its rows, with their subs and e-mails, and at most  *)
(* one register adds the row it has just found room for.                    *)
RowsRewritten ==
    /\ \A v \in users': \E u \in users: v.sub = u.sub /\ v.email = u.email
    /\ \A u \in users: \E v \in users': v.sub = u.sub /\ v.email = u.email

RowInserted(c) ==
    /\ c.pc = "createUser"
    /\ Insertable(c)
    /\ Insert(c)
    /\ UNCHANGED <<accounts, issued>>
    /\ Answer(c) \/ Await(c, "disable")

UsersStep == RowsRewritten \/ \E c \in calls: RowInserted(c)

LEMMA UserFields ==
    ASSUME Types, NEW u \in users, NEW phone \in Phones
    PROVE  /\ u.sub \in Subs
           /\ [u EXCEPT !.phone = phone] \in User
           /\ [u EXCEPT !.verified = TRUE] \in User
           /\ [u EXCEPT !.phone = phone].sub = u.sub
           /\ [u EXCEPT !.phone = phone].email = u.email
           /\ [u EXCEPT !.verified = TRUE].sub = u.sub
           /\ [u EXCEPT !.verified = TRUE].email = u.email
  <1>1. u \in User
    BY DEF Types
  <1>2. QED
    BY <1>1 DEF User

LEMMA MarkingRewrites ==
    ASSUME Types, NEW phone \in Phones, MarkVerified(phone)
    PROVE  RowsRewritten /\ users' \subseteq User
  <1>1. CASE UsersOf(phone) = {}
    BY <1>1 DEF MarkVerified, ProcessEnds, RowsRewritten, Types
  <1>2. CASE UsersOf(phone) # {}
    <2>1. users' = {IF u.phone = phone THEN [u EXCEPT !.verified = TRUE] ELSE u:
                        u \in users}
      BY <1>2 DEF MarkVerified
    <2>2. ASSUME NEW u \in users
          PROVE  \E v \in users': v.sub = u.sub /\ v.email = u.email
      BY <2>1, UserFields, Zenon
    <2>3. ASSUME NEW v \in users'
          PROVE  \E u \in users: v.sub = u.sub /\ v.email = u.email
      BY <2>1, UserFields, Zenon
    <2>4. users' \subseteq User
      BY <2>1, UserFields DEF Types
    <2>5. QED
      BY <2>2, <2>3, <2>4 DEF RowsRewritten
  <1>3. QED
    BY <1>1, <1>2

LEMMA UpdatingRewrites ==
    ASSUME Types, NEW u \in users, NEW phone \in Phones, UpdateUser(u, phone)
    PROVE  RowsRewritten /\ users' \subseteq User
  <1> DEFINE w == [u EXCEPT !.phone = phone]
  <1>1. users' = (users \ {u}) \cup {w}
    BY DEF UpdateUser
  <1>2. w \in User /\ w.sub = u.sub /\ w.email = u.email
    BY UserFields
  <1> HIDE DEF w
  <1>3. QED
    BY <1>1, <1>2 DEF RowsRewritten, Types

LEMMA UsersSteps ==
    ASSUME Types, SubsIssued, EmailsGiven, [Next]_vars
    PROVE  UsersStep /\ users' \subseteq User
  <1> DEFINE Goal == UsersStep /\ users' \subseteq User
  <1>1. CASE UNCHANGED users
    BY <1>1 DEF UsersStep, RowsRewritten, Types
  <1>2. ASSUME NEW c \in calls, RowInserted(c) PROVE Goal
    <2>1. c \in Creating
      BY <1>2 DEF RowInserted, Creating
    <2>2. c.sub \in Subs /\ c.phone \in Phones /\ c.email \in Emails
      BY <2>1 DEF SubsIssued, EmailsGiven, Creating, Types, Call
    <2>3. [sub |-> c.sub, phone |-> c.phone, email |-> c.email,
            verified |-> FALSE] \in User
      BY <2>2 DEF User
    <2>4. QED
      BY <1>2, <2>3 DEF RowInserted, Insert, UsersStep, Types
  <1>3. ASSUME NEW c \in calls, CreateUser(c) \/ CreateUserFails(c) PROVE Goal
    BY <1>1, <1>2, <1>3 DEF CreateUser, CreateUserFails, RowInserted
  <1>4. ASSUME NEW phone \in Phones, MarkVerified(phone) PROVE Goal
    BY <1>4, MarkingRewrites DEF UsersStep
  <1>5. ASSUME NEW u \in users, NEW phone \in Phones, UpdateUser(u, phone) PROVE Goal
    BY <1>5, UpdatingRewrites DEF UsersStep
  <1>6. ASSUME NEW c \in calls,
               SignUp(c) \/ SignUpFails(c) \/ SignUpRefused(c) \/ FindUser(c)
                   \/ DisableAccount(c) \/ DeleteAccount(c) \/ CallFails(c)
                   \/ Confirm(c) \/ Resend(c)
        PROVE  Goal
    BY <1>1, <1>6 DEF SignUp, SignUpFails, SignUpRefused, FindUser, DisableAccount,
                      DeleteAccount, CallFails, Confirm, Resend
  <1>7. ASSUME NEW id \in Slots, NEW phone \in Phones, NewRequest(id, phone) PROVE Goal
    BY <1>1, <1>7 DEF NewRequest, Register, VerifyOTP, ResendOTP
  <1>8. CASE Stopped \/ Restart \/ UNCHANGED vars
    BY <1>1, <1>8 DEF Stopped, ProcessEnds, Restart, vars
  <1>9. QED
    BY <1>3, <1>4, <1>5, <1>6, <1>7, <1>8
       DEF Next, NextServed, NextFailing, HandlerStep

LEMMA OtherTypesStep ==
    ASSUME Types, [Next]_vars
    PROVE  up' \in BOOLEAN /\ updates' \subseteq Phones
  <1>1. \A c \in calls: c.phone \in Phones
    BY DEF Types, Call
  <1>2. QED
    BY <1>1
       DEF Types, Next, NextServed, NextFailing, HandlerStep, NewRequest, Register, VerifyOTP,
           ResendOTP, UpdateUser, SignUp, SignUpFails, SignUpRefused, FindUser, CreateUser,
           CreateUserFails, DisableAccount, DeleteAccount, CallFails, Confirm, Resend,
           MarkVerified, Stopped, Restart, ProcessEnds, vars

(* Accounts are made under subs never issued before, and only then.         *)
LEMMA IssuedStep ==
    ASSUME Types, SubsIssued, [Next]_vars
    PROVE  /\ issued \subseteq issued'
           /\ \A s \in Subs: accounts'[s] # None => accounts[s] # None \/ s \in issued' \ issued
  <1> DEFINE Goal == /\ issued \subseteq issued'
                     /\ \A s \in Subs: accounts'[s] # None =>
                           accounts[s] # None \/ s \in issued' \ issued
  <1>1. CASE UNCHANGED <<accounts, issued>>
    BY <1>1
  <1>2. ASSUME NEW s \in Subs, NEW phone \in Phones, MakeAccount(s, phone) PROVE Goal
    BY <1>2 DEF MakeAccount, Types
  <1>3. \A c \in calls: c.phone \in Phones
    BY DEF Types, Call
  <1>4. ASSUME NEW c \in calls, SignUp(c) \/ SignUpFails(c) PROVE Goal
    BY <1>1, <1>2, <1>3, <1>4 DEF SignUp, SignUpFails, SignedUp
  <1>5. ASSUME NEW c \in calls, DisableAccount(c) PROVE Goal
    BY <1>5 DEF DisableAccount, AccountsOf, Types
  <1>6. ASSUME NEW c \in calls, DeleteAccount(c) PROVE Goal
    BY <1>6 DEF DeleteAccount, Types
  <1>7. ASSUME NEW c \in calls, Confirm(c) PROVE Goal
    BY <1>7 DEF Confirm, Confirmable, AccountsOf, Types
  <1>8. ASSUME NEW c \in calls,
               SignUpRefused(c) \/ Resend(c) \/ CallFails(c) \/ FindUser(c) \/ CreateUser(c)
                   \/ CreateUserFails(c)
        PROVE  Goal
    BY <1>1, <1>8 DEF SignUpRefused, Resend, CallFails, FindUser, CreateUser, CreateUserFails
  <1>9. ASSUME NEW id \in Slots, NEW phone \in Phones, NewRequest(id, phone) PROVE Goal
    BY <1>1, <1>9 DEF NewRequest, Register, VerifyOTP, ResendOTP
  <1>10. ASSUME NEW phone \in Phones, MarkVerified(phone) PROVE Goal
    BY <1>1, <1>10 DEF MarkVerified, ProcessEnds
  <1>11. ASSUME NEW u \in users, NEW phone \in Phones, UpdateUser(u, phone) PROVE Goal
    BY <1>1, <1>11 DEF UpdateUser
  <1>12. CASE Stopped \/ Restart \/ UNCHANGED vars
    BY <1>1, <1>12 DEF Stopped, ProcessEnds, Restart, vars
  <1>13. QED
    BY <1>4, <1>5, <1>6, <1>7, <1>8, <1>9, <1>10, <1>11, <1>12
       DEF Next, NextServed, NextFailing, HandlerStep

LEMMA SubsIssuedStep ==
    ASSUME FailingInv, [Next]_vars
    PROVE  SubsIssued'
  <1> USE DEF FailingInv
  <1>1. \A s \in Subs: accounts'[s] # None => s \in issued'
    BY IssuedStep DEF SubsIssued
  <1>2. \A u \in users': u.sub \in issued'
    <2>1. CASE RowsRewritten
      BY <2>1, IssuedStep DEF RowsRewritten, SubsIssued
    <2>2. ASSUME NEW c \in calls, RowInserted(c) PROVE \A u \in users': u.sub \in issued'
      <3>1. c.sub \in issued
        BY <2>2 DEF RowInserted, Creating, SubsIssued
      <3>2. QED
        BY <2>2, <3>1 DEF RowInserted, Insert, SubsIssued
    <2>3. QED
      BY <2>1, <2>2, UsersSteps DEF UsersStep
  <1> DEFINE Goal == /\ \A c \in calls': c.sub # None => c.sub \in issued'
                     /\ \A c \in Creating': c.sub # None
  <1>3. Goal
    <2>1. CASE calls' \subseteq calls
      BY <2>1, IssuedStep DEF SubsIssued, Creating
    <2>2. ASSUME NEW d \in Call, Start(d) PROVE Goal
      BY <2>2, IssuedStep DEF Start, SubsIssued, Creating
    <2>3. ASSUME NEW c \in calls, NEW d \in Call, GoesOn(c, d) PROVE Goal
      <3>1. CASE d.sub = c.sub /\ <<c.pc, d.pc>> \in Moves
        BY <2>3, <3>1, IssuedStep DEF GoesOn, Becomes, Moves, SubsIssued, Creating
      <3>2. CASE d.sub \in Subs /\ MakeAccount(d.sub, c.phone)
        BY <2>3, <3>2, IssuedStep, NoneAssumption
           DEF GoesOn, Becomes, MakeAccount, SubsIssued, Creating
      <3>3. QED
        BY <2>3, <3>1, <3>2 DEF GoesOn
    <2>4. ASSUME NEW c \in calls, NEW d \in Call, GivesUp(c, d) PROVE Goal
      BY <2>4, IssuedStep DEF GivesUp, Becomes, SubsIssued, Creating
    <2>5. QED
      BY <2>1, <2>2, <2>3, <2>4, CallsSteps DEF CallsStep, ServedCallsStep
  <1>4. QED
    BY <1>1, <1>2, <1>3 DEF SubsIssued

LEMMA EmailsGivenStep ==
    ASSUME Types, EmailsGiven, [Next]_vars
    PROVE  EmailsGiven'
  <1>1. CASE calls' \subseteq calls
    BY <1>1 DEF EmailsGiven
  <1>2. ASSUME NEW d \in Call, Start(d) PROVE EmailsGiven'
    BY <1>2 DEF Start, EmailsGiven
  <1>3. ASSUME NEW c \in calls, NEW d \in Call, GoesOn(c, d) PROVE EmailsGiven'
    BY <1>3 DEF GoesOn, Becomes, Moves, EmailsGiven
  <1>4. ASSUME NEW c \in calls, NEW d \in Call, GivesUp(c, d) PROVE EmailsGiven'
    BY <1>4 DEF GivesUp, Becomes, EmailsGiven
  <1>5. QED
    BY <1>1, <1>2, <1>3, <1>4, CallsSteps DEF CallsStep, ServedCallsStep

LEMMA EmailsUniqueStep ==
    ASSUME FailingInv, [Next]_vars
    PROVE  EmailsUnique'
  <1>1. CASE RowsRewritten
    BY <1>1 DEF RowsRewritten, FailingInv, EmailsUnique
  <1>2. ASSUME NEW c \in calls, RowInserted(c) PROVE EmailsUnique'
    <2> DEFINE w == [sub |-> c.sub, phone |-> c.phone, email |-> c.email,
                     verified |-> FALSE]
    <2>1. w.email = c.email /\ users' = users \cup {w}
      BY <1>2 DEF RowInserted, Insert
    <2> HIDE DEF w
    <2>2. \A u \in users: u.email # w.email
      BY <1>2, <2>1 DEF RowInserted, Insertable
    <2>3. QED
      BY <2>1, <2>2 DEF FailingInv, EmailsUnique
  <1>3. QED
    BY <1>1, <1>2, UsersSteps DEF UsersStep, FailingInv

LEMMA FailingInvariance == Spec => []FailingInv
  <1>1. Init => FailingInv
    BY DEF Init, FailingInv, Types, OneCallPerSlot, SubsIssued, EmailsGiven, EmailsUnique,
           Creating
  <1>2. FailingInv /\ [Next]_vars => FailingInv'
    <2> SUFFICES ASSUME FailingInv, [Next]_vars PROVE FailingInv'
      OBVIOUS
    <2>1. faulted' \in BOOLEAN
      BY DEF FailingInv, Types, Next, vars
    <2>2. Types'
      BY <2>1, AccountsStep, UsersSteps, CallTypesStep, OtherTypesStep DEF FailingInv, Types
    <2>3. QED
      BY <2>2, CallTypesStep, SubsIssuedStep, EmailsGivenStep, EmailsUniqueStep
         DEF FailingInv
  <1>3. QED
    BY <1>1, <1>2, PTL DEF Spec

(* The five tables and the calls keep their types, whatever fails.          *)
THEOREM TypeCorrect == Spec => []TypeOK
  <1>1. FailingInv => TypeOK
    BY DEF FailingInv, Types, OneCallPerSlot, TypeOK
  <1>2. QED
    BY <1>1, FailingInvariance, PTL

(* A user whose account was undone never gets it back, and keeps the e-mail *)
(* from every other sign-up: subs are never issued twice, and a row with a  *)
(* taken e-mail is refused.                                                 *)
THEOREM LostAccountsAreForEver == Spec => LostAccountIsForEver
  <1> DEFINE A == \A u \in users: accounts[u.sub] = None =>
                    \A v \in users': v.email = u.email =>
                        v.sub = u.sub /\ accounts'[v.sub] = None
  <1>1. FailingInv /\ [Next]_vars => A
    <2> SUFFICES ASSUME FailingInv, [Next]_vars,
                        NEW u \in users, accounts[u.sub] = None,
                        NEW v \in users', v.email = u.email
                 PROVE  v.sub = u.sub /\ accounts'[v.sub] = None
      OBVIOUS
    <2> USE DEF FailingInv
    <2>1. v.sub = u.sub
      <3>1. CASE RowsRewritten
        BY <3>1 DEF RowsRewritten, EmailsUnique
      <3>2. ASSUME NEW c \in calls, RowInserted(c) PROVE v.sub = u.sub
        BY <3>2 DEF RowInserted, Insert, Insertable, EmailsUnique
      <3>3. QED
        BY <3>1, <3>2, UsersSteps DEF UsersStep
    <2>2. u.sub \in Subs /\ u.sub \in issued
      BY DEF Types, User, SubsIssued
    <2>3. QED
      BY <2>1, <2>2, IssuedStep
  <1>2. FailingInv /\ [Next]_vars => [A]_vars
    BY <1>1
  <1>3. QED
    BY <1>2, FailingInvariance, PTL DEF Spec, LostAccountIsForEver

------------------------------------------------------------------------------
(* While every call is served: what a step does to the tables.              *)
AccountsKept ==
    /\ issued' = issued
    /\ \A s \in Subs:
           /\ accounts'[s] = None <=> accounts[s] = None
           /\ accounts[s] # None =>
                  /\ accounts'[s].phone = accounts[s].phone
                  /\ accounts'[s].enabled = accounts[s].enabled

RegistersMoveOn ==
    \/ calls' \subseteq calls
    \/ \E d \in Call: Start(d)
    \/ \E c \in calls, d \in Call:
           Becomes(c, d) /\ d.sub = c.sub /\ <<c.pc, d.pc>> \in Moves

QuietStep == AccountsKept /\ RowsRewritten /\ RegistersMoveOn
Inserting(c) == RowInserted(c) /\ Answer(c)
Making(c, d) ==
    /\ Becomes(c, d)
    /\ c.pc = "signUp" /\ d.pc = "findUser"
    /\ d.sub \in Subs
    /\ AccountsOf(c.phone) = {}
    /\ MakeAccount(d.sub, c.phone)
    /\ UNCHANGED users

ServedStep ==
    \/ QuietStep
    \/ \E c \in calls: Inserting(c) \/ DisableAccount(c) \/ DeleteAccount(c)
    \/ \E c \in calls, d \in Call: Making(c, d)

LEMMA QuietSteps ==
    ASSUME Types, [NextServed]_vars, AccountsKept, RowsRewritten
    PROVE  ServedStep
  <1>1. ASSUME NEW c \in calls, NEW d \in Call, GoesOn(c, d) PROVE RegistersMoveOn
    <2>1. ~(d.sub \in Subs /\ MakeAccount(d.sub, c.phone))
      BY DEF AccountsKept, MakeAccount
    <2>2. QED
      BY <1>1, <2>1 DEF GoesOn, RegistersMoveOn
  <1>2. RegistersMoveOn
    BY <1>1, ServedCallsSteps DEF ServedCallsStep, RegistersMoveOn
  <1>3. QED
    BY <1>2 DEF QuietStep, ServedStep

LEMMA ServedSteps ==
    ASSUME Types, [NextServed]_vars
    PROVE  ServedStep
  <1>1. UNCHANGED <<accounts, issued>> => AccountsKept
    BY DEF AccountsKept
  <1>2. UNCHANGED users => RowsRewritten
    BY DEF RowsRewritten
  <1>3. ASSUME NEW c \in calls, SignUp(c) PROVE ServedStep
    <2>1. CASE AccountsOf(c.phone) = {}
      <3>1. PICK d \in Call: GoesOn(c, d) /\ d.pc = "findUser"
        BY <1>3, <2>1, SignedUpCall DEF SignUp
      <3>2. Making(c, d)
        BY <1>3, <3>1 DEF SignUp, GoesOn, Moves, Making
      <3>3. QED
        BY <3>2 DEF ServedStep
    <2>2. CASE AccountsOf(c.phone) # {}
      BY <1>1, <1>2, <1>3, <2>2, QuietSteps DEF SignUp
    <2>3. QED
      BY <2>1, <2>2
  <1>4. ASSUME NEW c \in calls, CreateUser(c) PROVE ServedStep
    <2>1. CASE Insertable(c)
      BY <1>4, <2>1 DEF CreateUser, RowInserted, Inserting, ServedStep
    <2>2. CASE ~Insertable(c)
      BY <1>1, <1>2, <1>4, <2>2, QuietSteps DEF CreateUser
    <2>3. QED
      BY <2>1, <2>2
  <1>5. ASSUME NEW c \in calls, DisableAccount(c) \/ DeleteAccount(c) PROVE ServedStep
    BY <1>5 DEF ServedStep
  <1>6. ASSUME NEW c \in calls, Confirm(c) PROVE ServedStep
    <2>1. \A s \in Subs: accounts[s] # None =>
              /\ [accounts[s] EXCEPT !.confirmed = TRUE] # None
              /\ [accounts[s] EXCEPT !.confirmed = TRUE].phone = accounts[s].phone
              /\ [accounts[s] EXCEPT !.confirmed = TRUE].enabled = accounts[s].enabled
      <3> SUFFICES ASSUME NEW s \in Subs, accounts[s] # None
                   PROVE  /\ [accounts[s] EXCEPT !.confirmed = TRUE] # None
                          /\ [accounts[s] EXCEPT !.confirmed = TRUE].phone = accounts[s].phone
                          /\ [accounts[s] EXCEPT !.confirmed = TRUE].enabled
                                 = accounts[s].enabled
        OBVIOUS
      <3>1. accounts[s] \in Account
        BY DEF Types
      <3>2. [accounts[s] EXCEPT !.confirmed = TRUE] \in Account
        BY <3>1 DEF Account
      <3>3. QED
        BY <3>1, <3>2, NoneAssumption DEF Account
    <2>2. AccountsKept
      BY <1>6, <2>1 DEF Confirm, Confirmable, AccountsOf, AccountsKept, Types
    <2>3. QED
      BY <1>2, <1>6, <2>2, QuietSteps DEF Confirm
  <1>7. ASSUME NEW c \in calls, SignUpRefused(c) \/ Resend(c) \/ FindUser(c)
        PROVE  ServedStep
    BY <1>1, <1>2, <1>7, QuietSteps DEF SignUpRefused, Resend, FindUser
  <1>8. ASSUME NEW id \in Slots, NEW phone \in Phones, NewRequest(id, phone)
        PROVE  ServedStep
    BY <1>1, <1>2, <1>8, QuietSteps DEF NewRequest, Register, VerifyOTP, ResendOTP
  <1>9. ASSUME NEW phone \in Phones, MarkVerified(phone) PROVE ServedStep
    BY <1>1, <1>9, MarkingRewrites, QuietSteps DEF MarkVerified, ProcessEnds
  <1>10. ASSUME NEW u \in users, NEW phone \in Phones, UpdateUser(u, phone)
         PROVE  ServedStep
    BY <1>1, <1>10, UpdatingRewrites, QuietSteps DEF UpdateUser
  <1>11. CASE Stopped \/ Restart \/ UNCHANGED vars
    BY <1>1, <1>2, <1>11, QuietSteps DEF Stopped, ProcessEnds, Restart, vars
  <1>12. QED
    BY <1>3, <1>4, <1>5, <1>6, <1>7, <1>8, <1>9, <1>10, <1>11
       DEF NextServed, HandlerStep

------------------------------------------------------------------------------
(* A register undoes its own account and no other.                          *)
LEMMA OwnAccount ==
    ASSUME ServedInv, NEW c \in Registering
    PROVE  AccountsOf(c.phone) = {c.sub}
  BY DEF ServedInv, Undoable, PhonesUnique, RegistersHoldAccounts, AccountsOf

LEMMA SubsAreSubs ==
    ASSUME Types
    PROVE  \A u \in users: u.sub \in Subs
  BY DEF Types, User

LEMMA QuietKeeps ==
    ASSUME ServedInv, QuietStep
    PROVE  Undoable'
  <1> USE DEF ServedInv, Undoable
  <1>1. AccountsKept /\ RowsRewritten /\ RegistersMoveOn
    BY DEF QuietStep
  <1>2. \A u \in users: u.sub \in Subs
    BY SubsAreSubs DEF FailingInv
  <1>3. PhonesUnique'
    BY <1>1 DEF AccountsKept, PhonesUnique
  <1>4. Kept'
    BY <1>1, <1>2 DEF AccountsKept, RowsRewritten, Kept
  <1>5. \A d \in Registering': \E c \in Registering:
            d.phone = c.phone /\ d.sub = c.sub /\ (d \in Creating' => c \in Creating)
    BY <1>1 DEF RegistersMoveOn, Start, Becomes, Moves, Registering, Creating
  <1>6. RegistersHoldAccounts'
    BY <1>1, <1>5 DEF AccountsKept, RegistersHoldAccounts
  <1>7. CreatingIsEnabled'
    <2>1. \A d \in Creating': \E c \in Creating: d.sub = c.sub
      BY <1>5 DEF Registering, Creating
    <2>2. \A c \in Creating: c.sub \in Subs /\ accounts[c.sub] # None
      BY DEF RegistersHoldAccounts, Registering, Creating
    <2>3. QED
      BY <1>1, <2>1, <2>2 DEF AccountsKept, CreatingIsEnabled
  <1>8. \A d \in Registering', u \in users': u.sub # d.sub
    BY <1>1, <1>5 DEF RowsRewritten, RegistersAreApart
  <1>9. \A d, e \in Registering': d.sub = e.sub => d = e
    <2>1. CASE calls' \subseteq calls
      BY <2>1 DEF Registering, RegistersAreApart
    <2>2. ASSUME NEW d \in Call, Start(d)
          PROVE  \A e, f \in Registering': e.sub = f.sub => e = f
      BY <2>2 DEF Start, Registering, RegistersAreApart
    <2>3. ASSUME NEW c \in calls, NEW d \in Call, Becomes(c, d), d.sub = c.sub,
                 <<c.pc, d.pc>> \in Moves
          PROVE  \A e, f \in Registering': e.sub = f.sub => e = f
      <3>1. c \in Registering
        BY <2>3 DEF Moves, Registering
      <3>2. Registering' \subseteq (Registering \ {c}) \cup {d}
        BY <2>3 DEF Becomes, Registering
      <3>3. QED
        BY <2>3, <3>1, <3>2 DEF RegistersAreApart
    <2>4. QED
      BY <1>1, <2>1, <2>2, <2>3 DEF RegistersMoveOn
  <1>10. QED
    BY <1>3, <1>4, <1>6, <1>7, <1>8, <1>9 DEF RegistersAreApart

LEMMA InsertingKeeps ==
    ASSUME ServedInv, NEW c \in calls, Inserting(c)
    PROVE  Undoable'
  <1> USE DEF ServedInv, Undoable
  <1>1. c \in Registering /\ c \in Creating /\ calls' = calls \ {c}
    BY DEF Inserting, RowInserted, Answer, Registering, Creating
  <1>2. UNCHANGED <<accounts, issued>>
    BY DEF Inserting, RowInserted
  <1> DEFINE w == [sub |-> c.sub, phone |-> c.phone, email |-> c.email,
                   verified |-> FALSE]
  <1>3. w.sub = c.sub /\ users' = users \cup {w}
    BY DEF Inserting, RowInserted, Insert
  <1> HIDE DEF w
  <1>4. Registering' = Registering \ {c} /\ Creating' \subseteq Creating
    BY <1>1 DEF Registering, Creating
  <1>5. Kept'
    BY <1>1, <1>2, <1>3 DEF Kept, RegistersHoldAccounts, CreatingIsEnabled
  <1>6. QED
    BY <1>1, <1>2, <1>3, <1>4, <1>5
       DEF PhonesUnique, RegistersHoldAccounts, CreatingIsEnabled, RegistersAreApart

LEMMA DisablingKeeps ==
    ASSUME ServedInv, NEW c \in calls, DisableAccount(c)
    PROVE  Undoable'
  <1> USE DEF ServedInv, Undoable
  <1>1. c \in Registering /\ c \notin Creating
    BY DEF DisableAccount, Registering, Creating
  <1>2. AccountsOf(c.phone) = {c.sub} /\ c.sub \in Subs
    BY <1>1, OwnAccount DEF RegistersHoldAccounts
  <1>3. \A s \in Subs: s # c.sub => accounts'[s] = accounts[s]
    BY <1>2 DEF DisableAccount
  <1>4. accounts'[c.sub] # None /\ accounts'[c.sub].phone = accounts[c.sub].phone
    <2>1. accounts[c.sub] \in Account
      BY <1>1, <1>2 DEF FailingInv, Types, RegistersHoldAccounts
    <2>2. accounts'[c.sub] = [accounts[c.sub] EXCEPT !.enabled = FALSE]
      BY <1>2 DEF DisableAccount
    <2>3. [accounts[c.sub] EXCEPT !.enabled = FALSE] \in Account
      BY <2>1 DEF Account
    <2>4. QED
      BY <2>1, <2>2, <2>3, NoneAssumption DEF Account
  <1>5. users' = users
    BY DEF DisableAccount
  <1>6. PICK d \in Call: Becomes(c, d) /\ d.pc = "delete" /\ d.sub = c.sub
    BY <1>2, AwaitingCall DEF DisableAccount, FailingInv, Awaits
  <1>7. Registering' = (Registering \ {c}) \cup {d} /\ Creating' = Creating
    BY <1>1, <1>6 DEF Becomes, Registering, Creating
  <1>8. PhonesUnique'
    <2>1. \A s \in Subs: /\ accounts'[s] # None => accounts[s] # None
                         /\ accounts'[s] # None => accounts'[s].phone = accounts[s].phone
      BY <1>1, <1>3, <1>4 DEF RegistersHoldAccounts
    <2>2. QED
      BY <2>1 DEF PhonesUnique
  <1>9. RegistersHoldAccounts'
    <2>1. d.sub \in Subs /\ accounts'[d.sub] # None /\ accounts'[d.sub].phone = d.phone
      BY <1>1, <1>2, <1>4, <1>6 DEF Becomes, RegistersHoldAccounts
    <2>2. \A e \in Registering \ {c}: e.sub # c.sub
      BY <1>1 DEF RegistersAreApart
    <2>3. QED
      BY <1>3, <1>7, <2>1, <2>2 DEF RegistersHoldAccounts
  <1>10. CreatingIsEnabled'
    <2>1. \A e \in Creating: e \in Registering /\ e.sub # c.sub
      BY <1>1 DEF RegistersAreApart, Registering, Creating
    <2>2. QED
      BY <1>3, <1>7, <2>1 DEF CreatingIsEnabled, RegistersHoldAccounts
  <1>11. RegistersAreApart'
    BY <1>1, <1>5, <1>6, <1>7 DEF RegistersAreApart
  <1>12. Kept'
    BY <1>1, <1>3, <1>5, SubsAreSubs DEF FailingInv, Kept, RegistersAreApart
  <1>13. QED
    BY <1>8, <1>9, <1>10, <1>11, <1>12

LEMMA DeletingKeeps ==
    ASSUME ServedInv, NEW c \in calls, DeleteAccount(c)
    PROVE  Undoable'
  <1> USE DEF ServedInv, Undoable
  <1>1. c \in Registering /\ c \notin Creating /\ calls' = calls \ {c} /\ users' = users
    BY DEF DeleteAccount, Answer, Registering, Creating
  <1>2. AccountsOf(c.phone) = {c.sub}
    BY <1>1, OwnAccount
  <1>3. \A s \in Subs: /\ s # c.sub => accounts'[s] = accounts[s]
                       /\ s = c.sub => accounts'[s] = None
    BY <1>2 DEF DeleteAccount
  <1>4. Registering' = Registering \ {c} /\ Creating' = Creating
    BY <1>1 DEF Registering, Creating
  <1>5. \A e \in Registering': e \in Registering /\ e.sub # c.sub
    BY <1>1, <1>4 DEF RegistersAreApart
  <1>6. PhonesUnique'
    BY <1>3 DEF PhonesUnique
  <1>7. RegistersHoldAccounts'
    BY <1>3, <1>5 DEF RegistersHoldAccounts
  <1>8. CreatingIsEnabled'
    <2>1. \A e \in Creating: e \in Registering'
      BY <1>4 DEF Registering, Creating
    <2>2. QED
      BY <1>3, <1>4, <1>5, <2>1 DEF CreatingIsEnabled, RegistersHoldAccounts
  <1>9. RegistersAreApart'
    BY <1>1, <1>4 DEF RegistersAreApart
  <1>10. Kept'
    BY <1>1, <1>3, SubsAreSubs DEF FailingInv, Kept, RegistersAreApart
  <1>11. QED
    BY <1>6, <1>7, <1>8, <1>9, <1>10

LEMMA MakingKeeps ==
    ASSUME ServedInv, NEW c \in calls, NEW d \in Call, Making(c, d)
    PROVE  Undoable'
  <1> USE DEF ServedInv, Undoable
  <1>1. /\ d.sub \in Subs /\ d.sub \notin issued /\ d.phone = c.phone /\ d.phone \in Phones
        /\ AccountsOf(c.phone) = {} /\ users' = users
    BY DEF Making, Becomes, MakeAccount, FailingInv, Types, Call
  <1>2. \A s \in Subs: s # d.sub => accounts'[s] = accounts[s]
    BY DEF Making, MakeAccount, FailingInv, Types
  <1>3. /\ accounts'[d.sub] # None
        /\ accounts'[d.sub].phone = d.phone
        /\ accounts'[d.sub].enabled
    <2> DEFINE a == [phone |-> c.phone, confirmed |-> FALSE, enabled |-> TRUE]
    <2>1. a \in Account
      BY <1>1 DEF Account
    <2>2. accounts'[d.sub] = a
      BY <1>1 DEF Making, MakeAccount, FailingInv, Types
    <2>3. a.phone = c.phone /\ a.enabled = TRUE
      OBVIOUS
    <2> HIDE DEF a
    <2>4. QED
      BY <1>1, <2>1, <2>2, <2>3, NoneAssumption
  <1>4. accounts[d.sub] = None
    BY <1>1 DEF FailingInv, SubsIssued
  <1>5. \A e \in Registering: e.sub \in Subs /\ e.sub # d.sub /\ accounts[e.sub] # None
    BY <1>4 DEF RegistersHoldAccounts
  <1>6. \A u \in users: u.sub \in Subs /\ u.sub # d.sub
    BY <1>1, SubsAreSubs DEF FailingInv, SubsIssued
  <1>7. Registering' = Registering \cup {d} /\ Creating' = Creating \cup {d}
    BY DEF Making, Becomes, Registering, Creating
  <1>8. Creating \subseteq Registering
    BY DEF Creating, Registering
  <1>9. PhonesUnique'
    <2>1. \A s \in Subs: accounts[s] # None => accounts[s].phone # d.phone
      BY <1>1 DEF AccountsOf
    <2>2. QED
      BY <1>2, <1>3, <1>4, <2>1 DEF PhonesUnique
  <1>10. RegistersHoldAccounts'
    BY <1>1, <1>2, <1>3, <1>5, <1>7 DEF RegistersHoldAccounts
  <1>11. CreatingIsEnabled'
    BY <1>2, <1>3, <1>5, <1>7, <1>8 DEF CreatingIsEnabled
  <1>12. RegistersAreApart'
    BY <1>1, <1>5, <1>6, <1>7 DEF RegistersAreApart
  <1>13. Kept'
    BY <1>1, <1>2, <1>6 DEF Kept
  <1>14. QED
    BY <1>9, <1>10, <1>11, <1>12, <1>13

(* A step after which no call has failed was served, as all before it.      *)
LEMMA UnfaultedStep ==
    ASSUME Types, [Next]_vars, ~faulted'
    PROVE  ~faulted /\ [NextServed]_vars
  BY DEF Types, Next, vars

LEMMA ServedInvariance == Spec => [](~faulted => ServedInv)
  <1> DEFINE I == ~faulted => Undoable
  <1>1. Init => I
    BY DEF Init, Undoable, PhonesUnique, RegistersHoldAccounts, CreatingIsEnabled,
           RegistersAreApart, Kept, Registering, Creating
  <1>2. FailingInv /\ I /\ [Next]_vars => I'
    <2> SUFFICES ASSUME FailingInv, I, [Next]_vars, ~faulted'
                 PROVE  Undoable'
      OBVIOUS
    <2>1. ServedInv /\ [NextServed]_vars
      BY UnfaultedStep DEF FailingInv, ServedInv
    <2> HIDE DEF I
    <2>2. QED
      BY <2>1, ServedSteps, QuietKeeps, InsertingKeeps, DisablingKeeps, DeletingKeeps,
         MakingKeeps
         DEF ServedStep, ServedInv, FailingInv
  <1>3. FailingInv /\ I => (~faulted => ServedInv)
    BY DEF ServedInv
  <1> HIDE DEF I
  <1>4. QED
    BY <1>1, <1>2, <1>3, FailingInvariance, PTL DEF Spec

(* Whatever sign-ups race, whatever phones users change to and wherever the *)
(* process stops, undoing a sign-up costs no registered user the account:   *)
(* as long as Cognito and the database serve every call.                    *)
THEOREM UsersAreKept == Spec => []UsersKeepAccounts
  <1>1. (~faulted => ServedInv) => UsersKeepAccounts
    BY DEF ServedInv, Undoable, UsersKeepAccounts
  <1>2. QED
    BY <1>1, ServedInvariance, PTL

LEMMA OrphanStays ==
    ASSUME ServedInv, [NextServed]_vars, NEW s \in Subs, Orphaned(s)
    PROVE  Orphaned(s)'
  <1> USE DEF ServedInv, Undoable, Orphaned
  <1>1. s # None /\ s \in issued
    BY NoneAssumption DEF FailingInv, SubsIssued
  <1>2. CASE QuietStep
    <2>1. \A d \in calls': d.sub = None \/ \E c \in calls: d.sub = c.sub
      BY <1>2 DEF QuietStep, RegistersMoveOn, Start, Becomes
    <2>2. QED
      BY <1>1, <1>2, <2>1 DEF QuietStep, AccountsKept, RowsRewritten
  <1>3. ASSUME NEW c \in calls, Inserting(c) PROVE Orphaned(s)'
    BY <1>3 DEF Inserting, RowInserted, Insert, Answer
  <1>4. ASSUME NEW c \in calls, DisableAccount(c) PROVE Orphaned(s)'
    <2>1. c \in Registering
      BY <1>4 DEF DisableAccount, Registering
    <2>2. s \notin AccountsOf(c.phone)
      BY <2>1, OwnAccount
    <2>3. accounts'[s] = accounts[s] /\ users' = users
      BY <1>4, <2>2 DEF DisableAccount
    <2>4. PICK d \in Call: Becomes(c, d) /\ d.sub = c.sub
      BY <1>4, <2>1, OwnAccount, AwaitingCall DEF DisableAccount, FailingInv, Awaits
    <2>5. QED
      BY <2>3, <2>4 DEF Becomes
  <1>5. ASSUME NEW c \in calls, DeleteAccount(c) PROVE Orphaned(s)'
    <2>1. c \in Registering
      BY <1>5 DEF DeleteAccount, Registering
    <2>2. s \notin AccountsOf(c.phone)
      BY <2>1, OwnAccount
    <2>3. QED
      BY <1>5, <2>2 DEF DeleteAccount, Answer
  <1>6. ASSUME NEW c \in calls, NEW d \in Call, Making(c, d) PROVE Orphaned(s)'
    <2>1. d.sub # s
      BY <1>1, <1>6 DEF Making, MakeAccount
    <2>2. accounts'[s] = accounts[s]
      BY <1>6, <2>1 DEF Making, MakeAccount, FailingInv, Types
    <2>3. QED
      BY <1>6, <2>1, <2>2 DEF Making, Becomes
  <1>7. QED
    BY <1>2, <1>3, <1>4, <1>5, <1>6, ServedSteps DEF ServedStep, FailingInv

(* An account whose register was cut short stays as it is for ever: nothing *)
(* the service does gives it a row, or frees its phone.                     *)
THEOREM OrphansStay == Spec => OrphanedForEver
  <1> DEFINE A == ~faulted' => \A s \in Subs: Orphaned(s) => Orphaned(s)'
             J == ~faulted => ServedInv
  <1>1. FailingInv /\ J /\ [Next]_vars => A
    <2> SUFFICES ASSUME FailingInv, J, [Next]_vars, ~faulted', NEW s \in Subs, Orphaned(s)
                 PROVE  Orphaned(s)'
      OBVIOUS
    <2>1. ServedInv /\ [NextServed]_vars
      BY UnfaultedStep DEF FailingInv
    <2>2. QED
      BY <2>1, OrphanStays
  <1>2. FailingInv /\ J /\ [Next]_vars => [A]_vars
    BY <1>1
  <1> HIDE DEF J
  <1>3. J <=> (~faulted => ServedInv)
    BY DEF J
  <1>4. QED
    BY <1>2, <1>3, FailingInvariance, ServedInvariance, PTL DEF Spec, OrphanedForEver

==============================================================================
