-------------------------------- MODULE Accounts --------------------------------
(***************************************************************************)
(* Accounts of YoutubeArchive: registration, login with lockout, one-time  *)
(* tokens and the administrator's edits (auth.py, the routes of main.py    *)
(* that call it, update_user_admin_settings of crud.py).                   *)
(*                                                                         *)
(* Every request has a database session of its own: it reads, decides in   *)
(* memory and commits, and other requests run in between.  A session keeps *)
(* the row it read (seen), computes new values from it, and its flush      *)
(* writes only the columns whose value changed.                            *)
(***************************************************************************)
EXTENDS Naturals

CONSTANTS
    Emails,       \* normalised addresses; unique in the users table
    Clients,      \* concurrent requests
    Tokens,       \* bound: tokens that may ever be issued
    Nobody, NoToken, Missing,
    LocalEmails,  \* users of the time before passwords that may exist
    AdminEmails,  \* ADMIN_EMAILS
    VerifyEmail,  \* REQUIRE_EMAIL_VERIFICATION
    MaxAttempts   \* LOGIN_MAX_ATTEMPTS

Accounts == [password : {"local", "set"}, active : BOOLEAN, verified : BOOLEAN,
             superuser : BOOLEAN, failed : Nat, lock : {"never", "on", "over"}]
Purposes == {"verify", "reset"}
Links    == [user : Emails, purpose : Purposes]
Steps    == {"idle", "count", "store", "mail", "forgot", "right", "wrong",
             "consume", "refresh", "apply", "admin", "edit"}

ASSUME AccountsAssumption ==
    /\ Nobody \notin Emails
    /\ NoToken \notin Tokens
    /\ Missing \notin Accounts
    /\ Missing \notin Links
    /\ LocalEmails \subseteq Emails
    /\ VerifyEmail \in BOOLEAN
    /\ MaxAttempts \in Nat \ {0}

VARIABLES
    account,    \* email -> row of the users table, or Missing
    link,       \* token -> user and purpose of its row, or Missing
    used,       \* tokens with used_at
    expired,    \* tokens past expires_at
    pc,         \* client -> where its request stands
    who,        \* client -> the account it reads and writes
    admin,      \* client -> the administrator who makes it
    seen,       \* client -> the row of who that its session computes with
    first,      \* client -> did it count no password user?
    token,      \* client -> the token it consumes
    streak,     \* history: email -> failed logins in a row while not contended
    changes,    \* history: token -> changes made with it, up to two
    contended   \* history: emails two requests had in hand at once

database == <<account, link, used, expired>>
locals   == <<who, admin, seen, first, token>>
history  == <<streak, changes, contended>>
vars     == <<database, pc, locals, history>>

-------------------------------------------------------------------------------
Goto(c, step) == pc' = [pc EXCEPT ![c] = step]

\* The response is sent, or the request ends in an exception.
Return(c) ==
    /\ Goto(c, "idle")
    /\ who'   = [who EXCEPT ![c] = Nobody]
    /\ admin' = [admin EXCEPT ![c] = Nobody]
    /\ seen'  = [seen EXCEPT ![c] = Missing]
    /\ first' = [first EXCEPT ![c] = FALSE]
    /\ token' = [token EXCEPT ![c] = NoToken]

\* A request reads the row of e.
Read(c, e) ==
    /\ who'  = [who EXCEPT ![c] = e]
    /\ seen' = [seen EXCEPT ![c] = account[e]]

\* History: from here on c has e in hand.
TakeInHand(c, e) ==
    IF \E d \in Clients \ {c} : e \in {who[d], admin[d]}
    THEN /\ contended' = contended \cup {e}
         /\ streak' = [streak EXCEPT ![e] = 0]
    ELSE UNCHANGED <<contended, streak>>

\* History: the account of c has now seen n failed logins in a row.
Streak(c, n) ==
    streak' = IF who[c] \in contended THEN streak ELSE [streak EXCEPT ![who[c]] = n]

\* The flush of an object that was loaded as old and is new now.
Column(db, old, new) == IF new = old THEN db ELSE new
Flush(db, old, new) ==
    [password  |-> Column(db.password, old.password, new.password),
     active    |-> Column(db.active, old.active, new.active),
     verified  |-> Column(db.verified, old.verified, new.verified),
     superuser |-> Column(db.superuser, old.superuser, new.superuser),
     failed    |-> Column(db.failed, old.failed, new.failed),
     lock      |-> Column(db.lock, old.lock, new.lock)]

\* Commit new as the row of c's account.
Commit(c, new) ==
    account' = [account EXCEPT ![who[c]] = Flush(@, seen[c], new)]

HasPassword(e) == account[e] # Missing /\ account[e].password = "set"
IsAdmin(e, isFirst) == IF AdminEmails # {} THEN e \in AdminEmails ELSE isFirst

LocalUser == [password |-> "local", active |-> TRUE, verified |-> TRUE,
              superuser |-> TRUE, failed |-> 0, lock |-> "never"]

Init ==
    /\ \E old \in SUBSET LocalEmails :
           account = [e \in Emails |-> IF e \in old THEN LocalUser ELSE Missing]
    /\ link = [t \in Tokens |-> Missing]
    /\ used = {}
    /\ expired = {}
    /\ pc = [c \in Clients |-> "idle"]
    /\ who = [c \in Clients |-> Nobody]
    /\ admin = [c \in Clients |-> Nobody]
    /\ seen = [c \in Clients |-> Missing]
    /\ first = [c \in Clients |-> FALSE]
    /\ token = [c \in Clients |-> NoToken]
    /\ streak = [e \in Emails |-> 0]
    /\ changes = [t \in Tokens |-> 0]
    /\ contended = {}

-------------------------------------------------------------------------------
(* Registration                                                            *)

Register(c, e) ==
    /\ pc[c] = "idle"
    /\ Goto(c, "count")
    /\ Read(c, e)
    /\ TakeInHand(c, e)
    /\ UNCHANGED <<database, admin, first, token, changes>>

\* Mutant: users without a password count as well.
CountUsers_Local(c) ==
    /\ pc[c] = "count"
    /\ seen[c] # Missing => seen[c].password = "local"
    /\ first' = [first EXCEPT ![c] = \A e \in Emails : account[e] = Missing]
    /\ Goto(c, "store")
    /\ UNCHANGED <<database, who, admin, seen, token, history>>

\* count_password_users; only a user without a password may be registered again.
CountUsers(c) ==
    /\ pc[c] = "count"
    /\ seen[c] # Missing => seen[c].password = "local"
    /\ first' = [first EXCEPT ![c] = \A e \in Emails : ~HasPassword(e)]
    /\ Goto(c, "store")
    /\ UNCHANGED <<database, who, admin, seen, token, history>>

AlreadyRegistered(c) ==
    /\ pc[c] = "count"
    /\ seen[c] # Missing
    /\ seen[c].password = "set"
    /\ Return(c)
    /\ UNCHANGED <<database, history>>

\* After the commit: a verification link, or the login cookie.
AfterRegister(c) ==
    IF account'[who[c]].verified
    THEN Return(c)
    ELSE /\ Goto(c, "mail")
         /\ seen' = [seen EXCEPT ![c] = Missing]
         /\ first' = [first EXCEPT ![c] = FALSE]
         /\ UNCHANGED <<who, admin, token>>

CreateUser(c) ==
    /\ pc[c] = "store"
    /\ seen[c] = Missing
    /\ account[who[c]] = Missing
    /\ account' = [account EXCEPT ![who[c]] =
           [password |-> "set", active |-> TRUE, verified |-> ~VerifyEmail,
            superuser |-> IsAdmin(who[c], first[c]), failed |-> 0, lock |-> "never"]]
    /\ AfterRegister(c)
    /\ UNCHANGED <<link, used, expired, history>>

\* The unique index on the address refuses the second of two rows.
EmailTaken(c) ==
    /\ pc[c] = "store"
    /\ seen[c] = Missing
    /\ account[who[c]] # Missing
    /\ Return(c)
    /\ UNCHANGED <<database, history>>

\* A user of the time before passwords gets one.
UpgradeUser(c) ==
    /\ pc[c] = "store"
    /\ seen[c] # Missing
    /\ Commit(c, [seen[c] EXCEPT !.password = "set", !.active = TRUE,
                                 !.verified = ~VerifyEmail,
                                 !.superuser = @ \/ IsAdmin(who[c], first[c])])
    /\ AfterRegister(c)
    /\ UNCHANGED <<link, used, expired, history>>

-------------------------------------------------------------------------------
(* Tokens                                                                  *)

ForgotPassword(c, e) ==
    /\ pc[c] = "idle"
    /\ account[e] # Missing
    /\ Goto(c, "forgot")
    /\ who' = [who EXCEPT ![c] = e]
    /\ TakeInHand(c, e)
    /\ UNCHANGED <<database, admin, seen, first, token, changes>>

\* Mutant: the token's purpose is the name of the page that asked for it.
IssueToken_Page(c, t) ==
    /\ pc[c] \in {"mail", "forgot"}
    /\ link[t] = Missing
    /\ link' = [link EXCEPT ![t] = [user |-> who[c], purpose |-> pc[c]]]
    /\ Return(c)
    /\ UNCHANGED <<account, used, expired, history>>

\* create_auth_token; the link is mailed after the commit.
IssueToken(c, t) ==
    /\ pc[c] \in {"mail", "forgot"}
    /\ link[t] = Missing
    /\ link' = [link EXCEPT ![t] =
           [user |-> who[c], purpose |-> IF pc[c] = "mail" THEN "verify" ELSE "reset"]]
    /\ Return(c)
    /\ UNCHANGED <<account, used, expired, history>>

\* Mutant: used_at is not looked at.
FollowLink_Reusable(c, t) ==
    /\ pc[c] = "idle"
    /\ link[t] # Missing
    /\ t \notin expired
    /\ Goto(c, "consume")
    /\ token' = [token EXCEPT ![c] = t]
    /\ who' = [who EXCEPT ![c] = link[t].user]
    /\ TakeInHand(c, link[t].user)
    /\ UNCHANGED <<database, admin, seen, first, changes>>

\* consume_auth_token: the token is read and marked, its user is read afterwards.
FollowLink(c, t) ==
    /\ pc[c] = "idle"
    /\ link[t] # Missing
    /\ t \notin used \cup expired
    /\ Goto(c, "consume")
    /\ token' = [token EXCEPT ![c] = t]
    /\ who' = [who EXCEPT ![c] = link[t].user]
    /\ TakeInHand(c, link[t].user)
    /\ UNCHANGED <<database, admin, seen, first, changes>>

Consume(c) ==
    /\ pc[c] = "consume"
    /\ used' = used \cup {token[c]}
    /\ Goto(c, "refresh")
    /\ UNCHANGED <<account, link, expired, locals, history>>

Refresh(c) ==
    /\ pc[c] = "refresh"
    /\ Goto(c, "apply")
    /\ Read(c, who[c])
    /\ UNCHANGED <<database, admin, first, token, history>>

\* History: one more change through the token of c.
Changed(c) == changes' = [changes EXCEPT ![token[c]] = IF @ < 2 THEN @ + 1 ELSE @]

\* verify_email_token
ApplyVerify(c) ==
    /\ pc[c] = "apply"
    /\ link[token[c]].purpose = "verify"
    /\ Commit(c, [seen[c] EXCEPT !.verified = TRUE])
    /\ Changed(c)
    /\ Return(c)
    /\ UNCHANGED <<link, used, expired, streak, contended>>

\* reset_password_with_token
ApplyReset(c) ==
    /\ pc[c] = "apply"
    /\ link[token[c]].purpose = "reset"
    /\ Commit(c, [seen[c] EXCEPT !.password = "set", !.failed = 0, !.lock = "never"])
    /\ Streak(c, 0)
    /\ Changed(c)
    /\ Return(c)
    /\ UNCHANGED <<link, used, expired, contended>>

-------------------------------------------------------------------------------
(* Login                                                                   *)

\* Accounts that authenticate_user goes on with to the password.
MayLogIn(e) ==
    /\ account[e] # Missing
    /\ account[e].active
    /\ account[e].lock # "on"
    /\ VerifyEmail => account[e].verified

Login(c, e, outcome) ==
    /\ pc[c] = "idle"
    /\ MayLogIn(e)
    /\ outcome \in IF account[e].password = "set" THEN {"right", "wrong"} ELSE {"wrong"}
    /\ Goto(c, outcome)
    /\ Read(c, e)
    /\ TakeInHand(c, e)
    /\ UNCHANGED <<database, admin, first, token, changes>>

\* Mutant: the attempt after the last one locks.
CountFailure_Late(c) ==
    /\ pc[c] = "wrong"
    /\ LET n == seen[c].failed + 1
       IN  /\ IF n > MaxAttempts
              THEN Commit(c, [seen[c] EXCEPT !.failed = 0, !.lock = "on"])
              ELSE Commit(c, [seen[c] EXCEPT !.failed = n])
           /\ Streak(c, IF n > MaxAttempts THEN 0 ELSE streak[who[c]] + 1)
    /\ Return(c)
    /\ UNCHANGED <<link, used, expired, changes, contended>>

CountFailure(c) ==
    /\ pc[c] = "wrong"
    /\ LET n == seen[c].failed + 1
       IN  /\ IF n >= MaxAttempts
              THEN Commit(c, [seen[c] EXCEPT !.failed = 0, !.lock = "on"])
              ELSE Commit(c, [seen[c] EXCEPT !.failed = n])
           /\ Streak(c, IF n >= MaxAttempts THEN 0 ELSE streak[who[c]] + 1)
    /\ Return(c)
    /\ UNCHANGED <<link, used, expired, changes, contended>>

LogIn(c) ==
    /\ pc[c] = "right"
    /\ Commit(c, [seen[c] EXCEPT !.failed = 0, !.lock = "never"])
    /\ Streak(c, 0)
    /\ Return(c)
    /\ UNCHANGED <<link, used, expired, changes, contended>>

-------------------------------------------------------------------------------
(* Administration                                                          *)

\* require_superuser; the administrator's row is the first of the session.
EnterAdmin(c, a) ==
    /\ pc[c] = "idle"
    /\ account[a] # Missing
    /\ account[a].active
    /\ account[a].superuser
    /\ Goto(c, "admin")
    /\ admin' = [admin EXCEPT ![c] = a]
    /\ Read(c, a)
    /\ TakeInHand(c, a)
    /\ UNCHANGED <<database, first, token, changes>>

\* session.get, which does not read a row twice.
LoadUser(c, e) ==
    /\ pc[c] = "admin"
    /\ account[e] # Missing
    /\ Goto(c, "edit")
    /\ IF e = admin[c] THEN UNCHANGED <<who, seen>> ELSE Read(c, e)
    /\ TakeInHand(c, e)
    /\ UNCHANGED <<database, admin, first, token, changes>>

\* Mutant: administrators may switch themselves off.
EditUser_Self(c, on) ==
    /\ pc[c] = "edit"
    /\ Commit(c, [seen[c] EXCEPT !.active = on])
    /\ Return(c)
    /\ UNCHANGED <<link, used, expired, history>>

\* update_user_admin_settings; nobody switches off the own account.
EditUser(c, on) ==
    /\ pc[c] = "edit"
    /\ admin[c] = who[c] => on
    /\ Commit(c, [seen[c] EXCEPT !.active = on])
    /\ Return(c)
    /\ UNCHANGED <<link, used, expired, history>>

-------------------------------------------------------------------------------
(* Time, and requests that are cut off                                     *)

LockEnds(e) ==
    /\ account[e] # Missing
    /\ account[e].lock = "on"
    /\ account' = [account EXCEPT ![e].lock = "over"]
    /\ UNCHANGED <<link, used, expired, pc, locals, history>>

\* Only tokens that are still good for something need to expire.
TokenExpires(t) ==
    /\ link[t] # Missing
    /\ t \notin used \cup expired
    /\ expired' = expired \cup {t}
    /\ UNCHANGED <<account, link, used, pc, locals, history>>

\* A lost connection, a database error or a restart.
Abort(c) ==
    /\ pc[c] # "idle"
    /\ Return(c)
    /\ UNCHANGED <<database, history>>

-------------------------------------------------------------------------------
Request(c) ==
    \/ \E e \in Emails : \/ Register(c, e) \/ ForgotPassword(c, e)
                         \/ \E outcome \in {"right", "wrong"} : Login(c, e, outcome)
                         \/ EnterAdmin(c, e) \/ LoadUser(c, e)
    \/ CountUsers(c) \/ AlreadyRegistered(c)
    \/ CreateUser(c) \/ EmailTaken(c) \/ UpgradeUser(c)
    \/ \E t \in Tokens : IssueToken(c, t) \/ FollowLink(c, t)
    \/ Consume(c) \/ Refresh(c) \/ ApplyVerify(c) \/ ApplyReset(c)
    \/ CountFailure(c) \/ LogIn(c)
    \/ \E on \in BOOLEAN : EditUser(c, on)
    \/ Abort(c)

Next ==
    \/ \E c \in Clients : Request(c)
    \/ \E e \in Emails : LockEnds(e)
    \/ \E t \in Tokens : TokenExpires(t)

Spec == Init /\ [][Next]_vars

-------------------------------------------------------------------------------
(* Properties *)

\* Every variable has its type.
TypeOK ==
    /\ account \in [Emails -> Accounts \cup {Missing}]
    /\ link \in [Tokens -> Links \cup {Missing}]
    /\ used \in SUBSET Tokens
    /\ expired \in SUBSET Tokens
    /\ pc \in [Clients -> Steps]
    /\ who \in [Clients -> Emails \cup {Nobody}]
    /\ admin \in [Clients -> Emails \cup {Nobody}]
    /\ seen \in [Clients -> Accounts \cup {Missing}]
    /\ first \in [Clients -> BOOLEAN]
    /\ token \in [Clients -> Tokens \cup {NoToken}]
    /\ streak \in [Emails -> Nat]
    /\ changes \in [Tokens -> 0..2]
    /\ contended \in SUBSET Emails

\* Without ADMIN_EMAILS one of the users with a password is a superuser, however
\* the first registrations race (register_user, "the first password-backed
\* account is marked as superuser").
FirstUserIsAdmin ==
    AdminEmails = {} /\ (\E e \in Emails : HasPassword(e)) =>
        \E e \in Emails : HasPassword(e) /\ account[e].superuser

\* A link changes its account at most once, and only after it was marked as used,
\* unless requests of the same account overlapped (consume_auth_token).
LinksWorkOnce ==
    \A t \in Tokens : /\ changes[t] > 0 => t \in used
                      /\ changes[t] > 1 => link[t].user \in contended

\* The counter holds the failed logins in a row, and MaxAttempts of them never go
\* by without a lock, unless requests of the account overlapped
\* (authenticate_user, reset_password_with_token).
LockoutCounts ==
    \A e \in Emails \ contended : account[e] # Missing =>
        account[e].failed = streak[e] /\ streak[e] < MaxAttempts

ActiveAdmins == {e \in Emails : /\ account[e] # Missing
                                /\ account[e].superuser
                                /\ account[e].active}

\* No request, registration, login or link leaves the site without an active administrator, but
\* one: the edit of an administrator whom another one has switched off after it
\* had entered the admin routes (require_superuser, admin_update_user).
SomeoneAdministers ==
    [][ActiveAdmins # {} /\ ActiveAdmins' = {} =>
          \E c \in Clients : /\ pc[c] = "edit" /\ pc'[c] = "idle"
                             /\ admin[c] \notin ActiveAdmins]_vars
===============================================================================
