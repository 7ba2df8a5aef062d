----------------------------- MODULE Accounts_proofs -----------------------------
(***************************************************************************)
(* Theorems about Accounts for any number of users, concurrent requests    *)
(* and tokens.                                                             *)
(***************************************************************************)
EXTENDS Accounts, TLAPS

LinkSteps    == {"consume", "refresh", "apply"}
ComputeSteps == {"right", "wrong", "apply", "edit"}

\* What a request has in hand at each of its steps.
HoldsWhatItNeeds(c) ==
    /\ pc[c] # "idle" => who[c] \in Emails
    /\ pc[c] \notin {"idle", "count", "store"} => account[who[c]] # Missing
    /\ pc[c] = "idle" => who[c] = Nobody
    /\ pc[c] \in {"admin", "edit"} => admin[c] \in Emails
    /\ pc[c] \notin {"admin", "edit"} => admin[c] = Nobody
    /\ pc[c] \notin ComputeSteps \cup {"count", "store", "admin"} => seen[c] = Missing
    /\ pc[c] \in ComputeSteps \cup {"admin"} => seen[c] # Missing
    /\ pc[c] \in LinkSteps => /\ token[c] \in Tokens
                              /\ link[token[c]] # Missing
                              /\ link[token[c]].user = who[c]
    /\ seen[c] # Missing => who[c] \in Emails /\ account[who[c]] # Missing

LinksHaveUsers == \A t \in Tokens : link[t] # Missing => account[link[t].user] # Missing

TypeInv ==
    /\ TypeOK
    /\ \A c \in Clients : HoldsWhatItNeeds(c)
    /\ LinksHaveUsers

\* Rows and links are never deleted, and links never change.
NothingDeleted ==
    /\ \A e \in Emails : account[e] # Missing => account'[e] # Missing
    /\ \A t \in Tokens : link[t] # Missing => link'[t] = link[t]

\* A step of c does not touch the other requests.
OthersUntouched(c) ==
    \A d \in Clients : d # c => /\ pc'[d] = pc[d]
                                /\ who'[d] = who[d]
                                /\ admin'[d] = admin[d]
                                /\ seen'[d] = seen[d]
                                /\ first'[d] = first[d]
                                /\ token'[d] = token[d]

LocalsTyped ==
    /\ pc \in [Clients -> Steps]
    /\ who \in [Clients -> Emails \cup {Nobody}]
    /\ admin \in [Clients -> Emails \cup {Nobody}]
    /\ seen \in [Clients -> Accounts \cup {Missing}]
    /\ first \in [Clients -> BOOLEAN]
    /\ token \in [Clients -> Tokens \cup {NoToken}]

DataTyped ==
    /\ account \in [Emails -> Accounts \cup {Missing}]
    /\ link \in [Tokens -> Links \cup {Missing}]
    /\ used \in SUBSET Tokens
    /\ expired \in SUBSET Tokens
    /\ streak \in [Emails -> Nat]
    /\ changes \in [Tokens -> 0..2]
    /\ contended \in SUBSET Emails

\* TypeOK in two halves.
LEMMA TypeHalves == TypeOK <=> LocalsTyped /\ DataTyped
BY DEF TypeOK, LocalsTyped, DataTyped

\* The other requests keep what they need as long as nothing is deleted.
LEMMA OthersKeepTheirs ==
    ASSUME TypeInv, NEW c \in Clients, OthersUntouched(c), NothingDeleted,
           HoldsWhatItNeeds(c)'
    PROVE  \A d \in Clients : HoldsWhatItNeeds(d)'
<1> SUFFICES ASSUME NEW d \in Clients, d # c PROVE HoldsWhatItNeeds(d)'
  OBVIOUS
<1>1. HoldsWhatItNeeds(d)
  BY DEF TypeInv
<1>2. /\ pc'[d] = pc[d] /\ who'[d] = who[d] /\ admin'[d] = admin[d]
      /\ seen'[d] = seen[d] /\ token'[d] = token[d]
  BY DEF OthersUntouched
<1> QED
  BY <1>1, <1>2 DEF HoldsWhatItNeeds, NothingDeleted, LinkSteps

\* A request that ends holds nothing.
LEMMA ReturnHolds ==
    ASSUME TypeInv, NEW c \in Clients, Return(c)
    PROVE  /\ LocalsTyped'
           /\ OthersUntouched(c)
           /\ HoldsWhatItNeeds(c)'
           /\ pc'[c] = "idle" /\ who'[c] = Nobody /\ admin'[c] = Nobody
           /\ seen'[c] = Missing
<1>1. LocalsTyped
  BY TypeHalves DEF TypeInv
<1>2. /\ pc'[c] = "idle" /\ who'[c] = Nobody /\ admin'[c] = Nobody
      /\ seen'[c] = Missing
  BY <1>1 DEF Return, Goto, LocalsTyped
<1>3. OthersUntouched(c)
  BY <1>1 DEF Return, Goto, LocalsTyped, OthersUntouched
<1>4. LocalsTyped'
  BY <1>1 DEF Return, Goto, LocalsTyped, Steps
<1> QED
  BY <1>2, <1>3, <1>4 DEF HoldsWhatItNeeds, ComputeSteps, LinkSteps

\* A flush makes a row of rows.
LEMMA FlushTyped ==
    ASSUME NEW db \in Accounts, NEW old \in Accounts, NEW new \in Accounts
    PROVE  Flush(db, old, new) \in Accounts
<1>1. \A x, y, z : Column(x, y, z) \in {x, z}
  BY DEF Column
<1>2. /\ Column(db.password, old.password, new.password) \in {"local", "set"}
      /\ Column(db.active, old.active, new.active) \in BOOLEAN
      /\ Column(db.verified, old.verified, new.verified) \in BOOLEAN
  BY DEF Column, Accounts
<1>3. /\ Column(db.superuser, old.superuser, new.superuser) \in BOOLEAN
      /\ Column(db.failed, old.failed, new.failed) \in Nat
      /\ Column(db.lock, old.lock, new.lock) \in {"never", "on", "over"}
  BY DEF Column, Accounts
<1> QED
  BY <1>2, <1>3 DEF Flush, Accounts

\* What a commit of a row the session has loaded does to the table.
LEMMA CommitEffect ==
    ASSUME TypeInv, NEW c \in Clients, NEW new \in Accounts,
           pc[c] # "idle", seen[c] # Missing, Commit(c, new)
    PROVE  /\ account' \in [Emails -> Accounts \cup {Missing}]
           /\ who[c] \in Emails
           /\ account[who[c]] \in Accounts /\ seen[c] \in Accounts
           /\ account'[who[c]] = Flush(account[who[c]], seen[c], new)
           /\ account'[who[c]] \in Accounts
           /\ \A e \in Emails : e # who[c] => account'[e] = account[e]
<1>1. /\ account \in [Emails -> Accounts \cup {Missing}]
      /\ seen[c] \in Accounts
  BY DEF TypeInv, TypeOK
<1>2. who[c] \in Emails /\ account[who[c]] \in Accounts
  BY <1>1 DEF TypeInv, HoldsWhatItNeeds
<1>3. Flush(account[who[c]], seen[c], new) \in Accounts
  BY <1>1, <1>2, FlushTyped
<1> QED
  BY <1>1, <1>2, <1>3 DEF Commit

\* Putting an account in hand keeps the history well typed.
LEMMA TakeTyped ==
    ASSUME TypeInv, NEW c \in Clients, NEW e \in Emails, TakeInHand(c, e)
    PROVE  /\ streak' \in [Emails -> Nat]
           /\ contended' \in SUBSET Emails
           /\ contended \subseteq contended'
BY DEF TakeInHand, TypeInv, TypeOK

\* From what a step does to its own request and to the tables.
LEMMA TypedStep ==
    ASSUME TypeInv, NEW c \in Clients, LocalsTyped', DataTyped',
           OthersUntouched(c), NothingDeleted, HoldsWhatItNeeds(c)',
           \A t \in Tokens : link'[t] # Missing =>
               link'[t] = link[t] \/ account'[link'[t].user] # Missing
    PROVE  TypeInv'
<1>1. \A d \in Clients : HoldsWhatItNeeds(d)'
  BY OthersKeepTheirs
<1>2. LinksHaveUsers'
  <2> SUFFICES ASSUME NEW t \in Tokens, link'[t] # Missing
               PROVE  account'[link'[t].user] # Missing
    BY DEF LinksHaveUsers
  <2>1. link'[t] \in Links
    BY DEF DataTyped
  <2>2. link'[t].user \in Emails
    BY <2>1 DEF Links
  <2> QED
    BY <2>2 DEF TypeInv, LinksHaveUsers, NothingDeleted
<1>3. TypeOK'
  BY DEF TypeOK, LocalsTyped, DataTyped
<1> QED
  BY <1>1, <1>2, <1>3 DEF TypeInv

\* The steps that only read and go on.
Reading(c) ==
    \/ \E e \in Emails : \/ Register(c, e) \/ ForgotPassword(c, e)
                         \/ \E outcome \in {"right", "wrong"} : Login(c, e, outcome)
                         \/ EnterAdmin(c, e) \/ LoadUser(c, e)
    \/ CountUsers(c) \/ Refresh(c) \/ Consume(c)
    \/ \E t \in Tokens : FollowLink(c, t)

\* They leave accounts and links alone, and typed histories behind.
LEMMA ReadingEffect ==
    ASSUME TypeInv, NEW c \in Clients, Reading(c)
    PROVE  /\ UNCHANGED <<account, link, expired, changes>>
           /\ used' \in SUBSET Tokens /\ used \subseteq used'
           /\ streak' \in [Emails -> Nat]
           /\ contended' \in SUBSET Emails /\ contended \subseteq contended'
<1>0. /\ used \in SUBSET Tokens /\ streak \in [Emails -> Nat] /\ contended \in SUBSET Emails
      /\ pc[c] = "consume" => token[c] \in Tokens
      /\ \A t \in Tokens : link[t] # Missing => link[t].user \in Emails
  BY DEF TypeInv, TypeOK, HoldsWhatItNeeds, LinkSteps, Links
<1>1. UNCHANGED <<account, link, expired, changes>>
  BY DEF Reading, Register, ForgotPassword, Login, EnterAdmin, LoadUser, CountUsers, Refresh,
         Consume, FollowLink, database, history
<1>2. ASSUME NEW e \in Emails, TakeInHand(c, e), used' = used
      PROVE  /\ used' \in SUBSET Tokens /\ used \subseteq used'
             /\ streak' \in [Emails -> Nat]
             /\ contended' \in SUBSET Emails /\ contended \subseteq contended'
  BY <1>0, <1>2, TakeTyped
<1>3. CASE CountUsers(c) \/ Refresh(c) \/ Consume(c)
  BY <1>0, <1>1, <1>3 DEF CountUsers, Refresh, Consume, database, history
<1>4. CASE \E t \in Tokens : FollowLink(c, t)
  BY <1>0, <1>1, <1>2, <1>4 DEF FollowLink, database
<1>5. CASE \E e \in Emails : \/ Register(c, e) \/ ForgotPassword(c, e)
                             \/ \E outcome \in {"right", "wrong"} : Login(c, e, outcome)
                             \/ EnterAdmin(c, e) \/ LoadUser(c, e)
  BY <1>1, <1>2, <1>5 DEF Register, ForgotPassword, Login, EnterAdmin, LoadUser, database
<1> QED
  BY <1>1, <1>3, <1>4, <1>5 DEF Reading

\* They set up what the next step of the request needs.
LEMMA ReadingLocals ==
    ASSUME TypeInv, NEW c \in Clients, Reading(c)
    PROVE  LocalsTyped' /\ OthersUntouched(c) /\ HoldsWhatItNeeds(c)'
<1>0. /\ LocalsTyped
      /\ account \in [Emails -> Accounts \cup {Missing}]
      /\ account' = account /\ link' = link
      /\ HoldsWhatItNeeds(c)
  BY TypeHalves, ReadingEffect DEF TypeInv, DataTyped
<1> USE DEF Read, Goto, LocalsTyped, OthersUntouched
<1>1. ASSUME NEW e \in Emails, Register(c, e)
      PROVE  LocalsTyped' /\ OthersUntouched(c) /\ HoldsWhatItNeeds(c)'
  BY <1>0, <1>1 DEF Register, HoldsWhatItNeeds, ComputeSteps, LinkSteps, Steps
<1>2. ASSUME NEW e \in Emails, ForgotPassword(c, e)
      PROVE  LocalsTyped' /\ OthersUntouched(c) /\ HoldsWhatItNeeds(c)'
  <2>1. /\ pc[c] = "idle"
        /\ pc' = [pc EXCEPT ![c] = "forgot"] /\ who' = [who EXCEPT ![c] = e]
        /\ UNCHANGED <<admin, seen, first, token>>
        /\ account[e] # Missing
    BY <1>2 DEF ForgotPassword
  <2> QED
    BY <1>0, <2>1 DEF HoldsWhatItNeeds, ComputeSteps, LinkSteps, Steps
<1>3. ASSUME NEW e \in Emails, NEW outcome \in {"right", "wrong"}, Login(c, e, outcome)
      PROVE  LocalsTyped' /\ OthersUntouched(c) /\ HoldsWhatItNeeds(c)'
  <2>1. /\ pc[c] = "idle"
        /\ pc' = [pc EXCEPT ![c] = outcome] /\ who' = [who EXCEPT ![c] = e]
        /\ seen' = [seen EXCEPT ![c] = account[e]]
        /\ UNCHANGED <<admin, first, token>>
        /\ account[e] # Missing
    BY <1>3 DEF Login, MayLogIn
  <2> QED
    BY <1>0, <2>1 DEF HoldsWhatItNeeds, ComputeSteps, LinkSteps, Steps
<1>4. ASSUME NEW e \in Emails, EnterAdmin(c, e)
      PROVE  LocalsTyped' /\ OthersUntouched(c) /\ HoldsWhatItNeeds(c)'
  <2>1. /\ pc[c] = "idle"
        /\ pc' = [pc EXCEPT ![c] = "admin"] /\ admin' = [admin EXCEPT ![c] = e]
        /\ who' = [who EXCEPT ![c] = e] /\ seen' = [seen EXCEPT ![c] = account[e]]
        /\ UNCHANGED <<first, token>>
        /\ account[e] # Missing
    BY <1>4 DEF EnterAdmin
  <2> QED
    BY <1>0, <2>1 DEF HoldsWhatItNeeds, ComputeSteps, LinkSteps, Steps
<1>5. ASSUME NEW e \in Emails, LoadUser(c, e)
      PROVE  LocalsTyped' /\ OthersUntouched(c) /\ HoldsWhatItNeeds(c)'
  <2>1. /\ pc[c] = "admin"
        /\ pc' = [pc EXCEPT ![c] = "edit"]
        /\ \/ UNCHANGED <<who, seen>>
           \/ who' = [who EXCEPT ![c] = e] /\ seen' = [seen EXCEPT ![c] = account[e]]
        /\ UNCHANGED <<admin, first, token>>
        /\ account[e] # Missing
    BY <1>5 DEF LoadUser
  <2> QED
    BY <1>0, <2>1 DEF HoldsWhatItNeeds, ComputeSteps, LinkSteps, Steps
<1>6. CASE CountUsers(c)
  BY <1>0, <1>6 DEF CountUsers, HoldsWhatItNeeds, ComputeSteps, LinkSteps, Steps
<1>7. CASE Refresh(c)
  BY <1>0, <1>7 DEF Refresh, HoldsWhatItNeeds, ComputeSteps, LinkSteps, Steps
<1>8. CASE Consume(c)
  BY <1>0, <1>8 DEF Consume, locals, HoldsWhatItNeeds, ComputeSteps, LinkSteps, Steps
<1>9. ASSUME NEW t \in Tokens, FollowLink(c, t)
      PROVE  LocalsTyped' /\ OthersUntouched(c) /\ HoldsWhatItNeeds(c)'
  <2>1. /\ pc[c] = "idle"
        /\ pc' = [pc EXCEPT ![c] = "consume"] /\ who' = [who EXCEPT ![c] = link[t].user]
        /\ token' = [token EXCEPT ![c] = t]
        /\ UNCHANGED <<admin, seen, first>>
        /\ link[t] # Missing
    BY <1>9 DEF FollowLink
  <2>2. link[t].user \in Emails /\ account[link[t].user] # Missing
    BY <2>1 DEF TypeInv, TypeOK, LinksHaveUsers, Links
  <2> QED
    BY <1>0, <2>1, <2>2 DEF HoldsWhatItNeeds, ComputeSteps, LinkSteps, Steps
<1> QED
  BY <1>1, <1>2, <1>3, <1>4, <1>5, <1>6, <1>7, <1>8, <1>9 DEF Reading

\* So the steps that read keep the type invariant.
LEMMA ReadingTyped ==
    ASSUME TypeInv, NEW c \in Clients, Reading(c) PROVE TypeInv'
<1>1. DataTyped'
  BY ReadingEffect DEF DataTyped, TypeInv, TypeOK
<1>2. NothingDeleted
  BY ReadingEffect DEF NothingDeleted
<1>3. \A t \in Tokens : link'[t] = link[t]
  BY ReadingEffect
<1> QED
  BY <1>1, <1>2, <1>3, ReadingLocals, TypedStep

\* The steps that end a request without writing.
Ending(c) == AlreadyRegistered(c) \/ EmailTaken(c) \/ Abort(c)

\* Requests that end keep the type invariant.
LEMMA EndingTyped ==
    ASSUME TypeInv, NEW c \in Clients, Ending(c) PROVE TypeInv'
<1>1. Return(c) /\ UNCHANGED <<database, history>>
  BY DEF Ending, AlreadyRegistered, EmailTaken, Abort
<1>2. DataTyped' /\ NothingDeleted /\ \A t \in Tokens : link'[t] = link[t]
  BY <1>1 DEF database, history, DataTyped, NothingDeleted, TypeInv, TypeOK
<1> QED
  BY <1>1, <1>2, ReturnHolds, TypedStep

\* A new link belongs to the account in hand.
LEMMA IssueTyped ==
    ASSUME TypeInv, NEW c \in Clients, NEW t \in Tokens, IssueToken(c, t) PROVE TypeInv'
<1>1. /\ pc[c] \in {"mail", "forgot"}
      /\ link[t] = Missing
      /\ link' = [link EXCEPT ![t] =
             [user |-> who[c], purpose |-> IF pc[c] = "mail" THEN "verify" ELSE "reset"]]
      /\ Return(c)
      /\ UNCHANGED <<account, used, expired, history>>
  BY DEF IssueToken
<1>2. who[c] \in Emails /\ account[who[c]] # Missing
  BY <1>1 DEF TypeInv, HoldsWhatItNeeds
<1>3. link \in [Tokens -> Links \cup {Missing}]
  BY DEF TypeInv, TypeOK
<1>4. link' \in [Tokens -> Links \cup {Missing}]
  BY <1>1, <1>2, <1>3 DEF Links, Purposes
<1>5. /\ link'[t].user = who[c]
      /\ \A s \in Tokens : s # t => link'[s] = link[s]
  BY <1>1, <1>3
<1>6. DataTyped' /\ NothingDeleted
  BY <1>1, <1>4, <1>5 DEF history, DataTyped, NothingDeleted, TypeInv, TypeOK
<1>7. \A s \in Tokens : link'[s] # Missing =>
          link'[s] = link[s] \/ account'[link'[s].user] # Missing
  BY <1>1, <1>2, <1>5
<1> QED
  BY <1>1, <1>6, <1>7, ReturnHolds, TypedStep

\* The steps that write the row a session has loaded.
Committing(c) ==
    \/ UpgradeUser(c) \/ ApplyVerify(c) \/ ApplyReset(c) \/ CountFailure(c) \/ LogIn(c)
    \/ \E on \in BOOLEAN : EditUser(c, on)

\* is_admin_email answers yes or no.
LEMMA IsAdminTyped ==
    ASSUME TypeInv, NEW c \in Clients PROVE IsAdmin(who[c], first[c]) \in BOOLEAN
<1>1. first[c] \in BOOLEAN
  BY DEF TypeInv, TypeOK
<1>2. (who[c] \in AdminEmails) \in BOOLEAN
  OBVIOUS
<1> QED
  BY <1>1, <1>2, Zenon DEF IsAdmin

\* They never take a password or the superuser's mark away, and only an
\* administrator switches an account off.
LEMMA CommittingWrites ==
    ASSUME TypeInv, NEW c \in Clients, Committing(c)
    PROVE  /\ pc[c] \in ComputeSteps \cup {"store"}
           /\ seen[c] \in Accounts
           /\ \E new \in Accounts :
                  /\ Commit(c, new)
                  /\ new.password \in {seen[c].password, "set"}
                  /\ seen[c].superuser => new.superuser
                  /\ new.active \in {seen[c].active, TRUE} \/ pc[c] = "edit"
                  /\ new.superuser = seen[c].superuser \/ pc[c] = "store"
                  /\ new.failed = seen[c].failed \/ pc[c] \in {"right", "wrong", "apply"}
<1>0. /\ pc[c] \in ComputeSteps \cup {"store"}
      /\ seen[c] \in Accounts
  BY DEF Committing, UpgradeUser, ApplyVerify, ApplyReset, CountFailure, LogIn, EditUser,
         ComputeSteps, TypeInv, TypeOK, HoldsWhatItNeeds
<1> DEFINE Good(new) ==
      /\ new \in Accounts
      /\ new.password \in {seen[c].password, "set"}
      /\ seen[c].superuser => new.superuser
      /\ new.active \in {seen[c].active, TRUE} \/ pc[c] = "edit"
      /\ new.superuser = seen[c].superuser \/ pc[c] = "store"
      /\ new.failed = seen[c].failed \/ pc[c] \in {"right", "wrong", "apply"}
<1>1. CASE UpgradeUser(c)
  <2>1. IsAdmin(who[c], first[c]) \in BOOLEAN
    BY IsAdminTyped
  <2>2. Good([seen[c] EXCEPT !.password = "set", !.active = TRUE, !.verified = ~VerifyEmail,
                             !.superuser = @ \/ IsAdmin(who[c], first[c])])
    BY <1>0, <1>1, <2>1 DEF UpgradeUser, Accounts
  <2> QED
    BY <1>0, <1>1, <2>2 DEF UpgradeUser
<1>2. CASE ApplyVerify(c)
  <2>1. Good([seen[c] EXCEPT !.verified = TRUE])
    BY <1>0 DEF Accounts
  <2> QED
    BY <1>0, <1>2, <2>1 DEF ApplyVerify
<1>3. CASE ApplyReset(c)
  <2>1. Good([seen[c] EXCEPT !.password = "set", !.failed = 0, !.lock = "never"])
    BY <1>0, <1>3 DEF ApplyReset, Accounts
  <2> QED
    BY <1>0, <1>3, <2>1 DEF ApplyReset
<1>4. CASE CountFailure(c)
  <2>1. Good([seen[c] EXCEPT !.failed = 0, !.lock = "on"])
    BY <1>0, <1>4 DEF CountFailure, Accounts
  <2>2. Good([seen[c] EXCEPT !.failed = seen[c].failed + 1])
    BY <1>0, <1>4 DEF CountFailure, Accounts
  <2> QED
    BY <1>0, <1>4, <2>1, <2>2 DEF CountFailure
<1>5. CASE LogIn(c)
  <2>1. Good([seen[c] EXCEPT !.failed = 0, !.lock = "never"])
    BY <1>0, <1>5 DEF LogIn, Accounts
  <2> QED
    BY <1>0, <1>5, <2>1 DEF LogIn
<1>6. ASSUME NEW on \in BOOLEAN, EditUser(c, on)
      PROVE  \E new : Good(new) /\ Commit(c, new)
  <2>1. Good([seen[c] EXCEPT !.active = on])
    BY <1>0, <1>6 DEF EditUser, Accounts
  <2> QED
    BY <1>6, <2>1 DEF EditUser
<1> QED
  BY <1>0, <1>1, <1>2, <1>3, <1>4, <1>5, <1>6 DEF Committing

\* What they do to the other tables, to the history and to their request.
LEMMA CommittingRest ==
    ASSUME TypeInv, NEW c \in Clients, Committing(c)
    PROVE  /\ UNCHANGED <<link, used, expired, contended>>
           /\ streak' \in [Emails -> Nat]
           /\ changes' \in [Tokens -> 0..2]
           /\ OthersUntouched(c)
           /\ Return(c) \/ (pc[c] = "store" /\ pc'[c] = "mail" /\ who' = who /\ admin' = admin
                            /\ seen'[c] = Missing /\ LocalsTyped')
<1>0. /\ LocalsTyped /\ DataTyped
      /\ pc[c] \in ComputeSteps \cup {"store"}
      /\ who[c] \in Emails
  BY TypeHalves, CommittingWrites DEF TypeInv, HoldsWhatItNeeds, ComputeSteps
<1>1. UNCHANGED <<link, used, expired, contended>>
  BY DEF Committing, UpgradeUser, ApplyVerify, ApplyReset, CountFailure, LogIn, EditUser, history
<1>2. \A n \in Nat : Streak(c, n) => streak' \in [Emails -> Nat]
  BY <1>0 DEF Streak, DataTyped
<1>3. streak' \in [Emails -> Nat]
  <2>1. CASE CountFailure(c)
    <3>1. streak[who[c]] + 1 \in Nat
      BY <1>0 DEF DataTyped
    <3> QED
      BY <1>2, <2>1, <3>1 DEF CountFailure
  <2>2. CASE ApplyReset(c) \/ LogIn(c)
    BY <1>2, <2>2 DEF ApplyReset, LogIn
  <2>3. CASE streak' = streak
    BY <1>0, <2>3 DEF DataTyped
  <2> QED
    BY <2>1, <2>2, <2>3 DEF Committing, UpgradeUser, ApplyVerify, EditUser, history
<1>4. changes' \in [Tokens -> 0..2]
  <2>1. CASE changes' = changes
    BY <1>0, <2>1 DEF DataTyped
  <2>2. CASE Changed(c) /\ pc[c] = "apply"
    <3>1. token[c] \in Tokens
      BY <2>2 DEF TypeInv, HoldsWhatItNeeds, LinkSteps
    <3>2. changes[token[c]] \in 0..2
      BY <1>0, <3>1 DEF DataTyped
    <3>3. (IF changes[token[c]] < 2 THEN changes[token[c]] + 1 ELSE changes[token[c]]) \in 0..2
      BY <3>2
    <3> QED
      BY <1>0, <2>2, <3>3 DEF Changed, DataTyped
  <2> QED
    BY <2>1, <2>2 DEF Committing, UpgradeUser, ApplyVerify, ApplyReset, CountFailure, LogIn,
                      EditUser, history
<1>5. CASE UpgradeUser(c)
  <2>1. Return(c) \/ /\ pc[c] = "store"
                     /\ pc' = [pc EXCEPT ![c] = "mail"]
                     /\ seen' = [seen EXCEPT ![c] = Missing]
                     /\ first' = [first EXCEPT ![c] = FALSE]
                     /\ UNCHANGED <<who, admin, token>>
    BY <1>5 DEF UpgradeUser, AfterRegister, Goto
  <2> QED
    BY <1>0, <1>1, <1>3, <1>4, <2>1, ReturnHolds DEF LocalsTyped, OthersUntouched, Steps
<1>6. CASE Return(c)
  BY <1>1, <1>3, <1>4, <1>6, ReturnHolds
<1> QED
  BY <1>5, <1>6 DEF Committing, ApplyVerify, ApplyReset, CountFailure, LogIn, EditUser

\* So the steps that write keep the type invariant.
LEMMA CommittingTyped ==
    ASSUME TypeInv, NEW c \in Clients, Committing(c)
    PROVE  TypeInv' /\ account'[who[c]] \in Accounts
<1>1. /\ pc[c] \in ComputeSteps \cup {"store"}
      /\ seen[c] \in Accounts
      /\ \E new \in Accounts : Commit(c, new)
  BY CommittingWrites
<1>2. /\ seen[c] # Missing
      /\ pc[c] # "idle"
  BY <1>1, AccountsAssumption DEF ComputeSteps
<1>3. /\ account' \in [Emails -> Accounts \cup {Missing}]
      /\ who[c] \in Emails
      /\ account'[who[c]] \in Accounts
      /\ \A e \in Emails : e # who[c] => account'[e] = account[e]
  BY <1>1, <1>2, CommitEffect
<1>4. DataTyped'
  BY <1>3, CommittingRest DEF DataTyped, TypeInv, TypeOK
<1>5. NothingDeleted /\ \A t \in Tokens : link'[t] = link[t]
  BY <1>3, CommittingRest, AccountsAssumption DEF NothingDeleted
<1>6. LocalsTyped' /\ HoldsWhatItNeeds(c)'
  <2>1. CASE Return(c)
    BY <2>1, ReturnHolds
  <2>2. CASE ~Return(c)
    <3>1. /\ pc[c] = "store" /\ pc'[c] = "mail" /\ who' = who /\ admin' = admin
          /\ seen'[c] = Missing /\ LocalsTyped'
      BY <2>2, CommittingRest
    <3>2. admin[c] = Nobody
      BY <3>1 DEF TypeInv, HoldsWhatItNeeds
    <3> QED
      BY <1>3, <3>1, <3>2, AccountsAssumption DEF HoldsWhatItNeeds, ComputeSteps, LinkSteps
  <2> QED
    BY <2>1, <2>2
<1> QED
  BY <1>3, <1>4, <1>5, <1>6, CommittingRest, TypedStep

\* A new row.
LEMMA CreateEffect ==
    ASSUME TypeInv, NEW c \in Clients, CreateUser(c)
    PROVE  /\ pc[c] = "store" /\ who[c] \in Emails
           /\ account[who[c]] = Missing
           /\ account'[who[c]].password = "set"
           /\ account'[who[c]].active = TRUE
           /\ account'[who[c]].superuser = IsAdmin(who[c], first[c])
           /\ account'[who[c]].failed = 0
           /\ account'[who[c]] \in Accounts
           /\ \A e \in Emails : e # who[c] => account'[e] = account[e]
           /\ UNCHANGED <<link, used, expired, history>>
           /\ OthersUntouched(c)
           /\ Return(c) \/ (pc'[c] = "mail" /\ who' = who /\ admin' = admin)
           /\ TypeInv'
<1>0. /\ pc[c] = "store" /\ who[c] \in Emails /\ admin[c] = Nobody
      /\ LocalsTyped /\ DataTyped
      /\ IsAdmin(who[c], first[c]) \in BOOLEAN
  BY TypeHalves, IsAdminTyped DEF CreateUser, TypeInv, HoldsWhatItNeeds
<1> DEFINE new == [password |-> "set", active |-> TRUE,
                   verified |-> ~VerifyEmail, superuser |-> IsAdmin(who[c], first[c]),
                   failed |-> 0, lock |-> "never"]
<1>1. /\ new \in Accounts
      /\ new.password = "set" /\ new.active = TRUE /\ new.failed = 0
      /\ new.superuser = IsAdmin(who[c], first[c])
  BY <1>0 DEF Accounts
<1>2. /\ account[who[c]] = Missing
      /\ account' = [account EXCEPT ![who[c]] = new]
      /\ UNCHANGED <<link, used, expired, history>>
  BY DEF CreateUser
<1> HIDE DEF new
<1>3. /\ account'[who[c]] = new
      /\ \A e \in Emails : e # who[c] => account'[e] = account[e]
      /\ account' \in [Emails -> Accounts \cup {Missing}]
  BY <1>0, <1>1, <1>2 DEF DataTyped
<1>4. Return(c) \/ /\ pc' = [pc EXCEPT ![c] = "mail"]
                   /\ seen' = [seen EXCEPT ![c] = Missing]
                   /\ first' = [first EXCEPT ![c] = FALSE]
                   /\ UNCHANGED <<who, admin, token>>
  BY DEF CreateUser, AfterRegister, Goto
<1>5. /\ OthersUntouched(c) /\ LocalsTyped'
      /\ Return(c) \/ (pc'[c] = "mail" /\ who' = who /\ admin' = admin /\ seen'[c] = Missing)
  BY <1>0, <1>4, ReturnHolds DEF LocalsTyped, OthersUntouched, Steps
<1>6. HoldsWhatItNeeds(c)'
  BY <1>0, <1>1, <1>3, <1>5, ReturnHolds, AccountsAssumption
     DEF HoldsWhatItNeeds, ComputeSteps, LinkSteps
<1>7. DataTyped' /\ NothingDeleted /\ \A t \in Tokens : link'[t] = link[t]
  BY <1>1, <1>2, <1>3, <1>0, AccountsAssumption DEF DataTyped, NothingDeleted, history
<1>8. TypeInv'
  BY <1>5, <1>6, <1>7, TypedStep
<1> QED
  BY <1>0, <1>1, <1>2, <1>3, <1>5, <1>8

\* The passing of time changes neither what exists nor any request.
TimePasses == (\E e \in Emails : LockEnds(e)) \/ (\E t \in Tokens : TokenExpires(t))

\* Locks and links expire, and nothing else happens.
LEMMA TimeEffect ==
    ASSUME TypeInv, TimePasses
    PROVE  /\ UNCHANGED <<link, used, pc, locals, history>>
           /\ \A e \in Emails : /\ account[e] = Missing <=> account'[e] = Missing
                                /\ account'[e].password = account[e].password
                                /\ account'[e].active = account[e].active
                                /\ account'[e].superuser = account[e].superuser
                                /\ account'[e].failed = account[e].failed
           /\ TypeInv'
<1>0. DataTyped
  BY TypeHalves DEF TypeInv
<1>1. UNCHANGED <<link, used, pc, locals, history>>
  BY DEF TimePasses, LockEnds, TokenExpires
<1> DEFINE Aged ==
      /\ account' \in [Emails -> Accounts \cup {Missing}]
      /\ expired' \in SUBSET Tokens
      /\ \A e \in Emails : /\ account[e] = Missing <=> account'[e] = Missing
                           /\ account'[e].password = account[e].password
                           /\ account'[e].active = account[e].active
                           /\ account'[e].superuser = account[e].superuser
                           /\ account'[e].failed = account[e].failed
<1>2. Aged
  <2>1. ASSUME NEW f \in Emails, LockEnds(f) PROVE Aged
    <3>1. account[f] \in Accounts /\ expired' = expired
      BY <1>0, <2>1 DEF LockEnds, DataTyped
    <3>2. account' = [account EXCEPT ![f].lock = "over"]
      BY <2>1 DEF LockEnds
    <3>3. [account[f] EXCEPT !.lock = "over"] \in Accounts
      BY <3>1 DEF Accounts
    <3>4. /\ account' = [account EXCEPT ![f] = [account[f] EXCEPT !.lock = "over"]]
          /\ account[f] # Missing /\ account'[f] # Missing
      BY <1>0, <3>1, <3>2, <3>3, AccountsAssumption DEF DataTyped
    <3> QED
      BY <1>0, <3>1, <3>3, <3>4 DEF DataTyped, Accounts
  <2>2. ASSUME NEW t \in Tokens, TokenExpires(t) PROVE Aged
    BY <1>0, <2>2 DEF TokenExpires, DataTyped
  <2> QED
    BY <2>1, <2>2 DEF TimePasses
<1>3. TypeInv'
  <2>1. TypeOK'
    BY <1>0, <1>1, <1>2 DEF DataTyped, TypeOK, TypeInv, locals, history
  <2>2. \A d \in Clients : HoldsWhatItNeeds(d)'
    BY <1>1, <1>2, AccountsAssumption DEF TypeInv, TypeOK, HoldsWhatItNeeds, locals
  <2>3. LinksHaveUsers'
    BY <1>1, <1>2 DEF TypeInv, TypeOK, LinksHaveUsers, Links
  <2> QED
    BY <2>1, <2>2, <2>3 DEF TypeInv
<1> QED
  BY <1>1, <1>2, <1>3

\* Every step is one of these.
LEMMA StepKinds ==
    ASSUME Next
    PROVE  \/ TimePasses
           \/ \E c \in Clients :
                  \/ Reading(c) \/ Ending(c) \/ Committing(c) \/ CreateUser(c)
                  \/ \E t \in Tokens : IssueToken(c, t)
BY DEF Next, Request, TimePasses, Reading, Ending, Committing

\* Every step keeps the type invariant.
LEMMA TypeStep == ASSUME TypeInv, [Next]_vars PROVE TypeInv'
<1>1. CASE UNCHANGED vars
  BY <1>1 DEF vars, database, locals, history, TypeInv, TypeOK, HoldsWhatItNeeds, LinksHaveUsers
<1>2. CASE Next
  BY <1>2, StepKinds, ReadingTyped, EndingTyped, IssueTyped, CommittingTyped, CreateEffect,
     TimeEffect
<1> QED
  BY <1>1, <1>2

\* At the start nobody holds anything.
LEMMA TypeInit == ASSUME Init PROVE TypeInv
<1>1. LocalUser \in Accounts
  BY DEF LocalUser, Accounts
<1>2. TypeOK
  BY <1>1 DEF Init, TypeOK, Steps
<1>3. \A c \in Clients : HoldsWhatItNeeds(c)
  BY DEF Init, HoldsWhatItNeeds, ComputeSteps, LinkSteps
<1>4. LinksHaveUsers
  BY DEF Init, LinksHaveUsers
<1> QED
  BY <1>2, <1>3, <1>4 DEF TypeInv

\* Every variable keeps its type, and no request works on a row that is not there.
THEOREM TypeCorrect == Spec => []TypeOK
<1>1. TypeInv => TypeOK
  BY DEF TypeInv
<1> QED
  BY TypeInit, TypeStep, <1>1, PTL DEF Spec

-------------------------------------------------------------------------------
(* What commits do to single columns *)

\* A flush of an object whose column did not change keeps the column.
LEMMA ColumnKept == \A db, old, new : Column(db, old, new) \in {db, new}
                                      /\ (new = old => Column(db, old, new) = db)
BY DEF Column

\* Commits add passwords and superusers and take none away; only an edit by an
\* administrator switches off, and only steps of the login count failures.
LEMMA CommittingColumns ==
    ASSUME TypeInv, NEW c \in Clients, Committing(c)
    PROVE  /\ who[c] \in Emails /\ account[who[c]] \in Accounts
           /\ account'[who[c]] \in Accounts
           /\ \A e \in Emails : e # who[c] => account'[e] = account[e]
           /\ account[who[c]].password = "set" => account'[who[c]].password = "set"
           /\ account[who[c]].superuser => account'[who[c]].superuser
           /\ account[who[c]].active /\ pc[c] # "edit" => account'[who[c]].active
           /\ pc[c] \notin {"right", "wrong", "apply"} =>
                  account'[who[c]].failed = account[who[c]].failed
<1>1. /\ pc[c] \in ComputeSteps \cup {"store"}
      /\ seen[c] \in Accounts
  BY CommittingWrites
<1>2. PICK new \in Accounts :
          /\ Commit(c, new)
          /\ new.password \in {seen[c].password, "set"}
          /\ seen[c].superuser => new.superuser
          /\ new.active \in {seen[c].active, TRUE} \/ pc[c] = "edit"
          /\ new.superuser = seen[c].superuser \/ pc[c] = "store"
          /\ new.failed = seen[c].failed \/ pc[c] \in {"right", "wrong", "apply"}
  BY CommittingWrites
<1>3. /\ who[c] \in Emails
      /\ account[who[c]] \in Accounts
      /\ account'[who[c]] = Flush(account[who[c]], seen[c], new)
      /\ account'[who[c]] \in Accounts
      /\ \A e \in Emails : e # who[c] => account'[e] = account[e]
  BY <1>1, <1>2, CommitEffect, AccountsAssumption DEF ComputeSteps
<1> DEFINE db == account[who[c]]
<1>4. /\ account'[who[c]].password = Column(db.password, seen[c].password, new.password)
      /\ account'[who[c]].active = Column(db.active, seen[c].active, new.active)
      /\ account'[who[c]].superuser = Column(db.superuser, seen[c].superuser, new.superuser)
      /\ account'[who[c]].failed = Column(db.failed, seen[c].failed, new.failed)
  BY <1>3 DEF Flush
<1>5. /\ db.superuser \in BOOLEAN /\ db.active \in BOOLEAN
      /\ seen[c].superuser \in BOOLEAN /\ seen[c].active \in BOOLEAN
      /\ new.superuser \in BOOLEAN /\ new.active \in BOOLEAN
  BY <1>1, <1>2, <1>3 DEF Accounts
<1>6. db.password = "set" => account'[who[c]].password = "set"
  BY <1>2, <1>4, ColumnKept
<1>7. db.superuser => account'[who[c]].superuser
  BY <1>2, <1>4, <1>5 DEF Column
<1>8. db.active /\ pc[c] # "edit" => account'[who[c]].active
  BY <1>2, <1>4, <1>5 DEF Column
<1>9. pc[c] \notin {"right", "wrong", "apply"} => account'[who[c]].failed = db.failed
  BY <1>2, <1>4, ColumnKept
<1> QED
  BY <1>3, <1>6, <1>7, <1>8, <1>9

\* What every step does to a row: it stays, and keeps its password and mark.
RowsGrow ==
    \A e \in Emails : account[e] # Missing =>
        /\ account'[e] # Missing
        /\ account[e].password = "set" => account'[e].password = "set"
        /\ account[e].superuser => account'[e].superuser

\* Rows only gain passwords and marks.
LEMMA RowsGrowStep == ASSUME TypeInv, [Next]_vars PROVE RowsGrow
<1>0. /\ account \in [Emails -> Accounts \cup {Missing}]
      /\ Missing \notin Accounts
  BY AccountsAssumption DEF TypeInv, TypeOK
<1>1. CASE account' = account
  BY <1>1 DEF RowsGrow
<1>2. CASE TimePasses
  BY <1>2, TimeEffect DEF RowsGrow
<1>3. ASSUME NEW c \in Clients, Reading(c) \/ Ending(c) \/ \E t \in Tokens : IssueToken(c, t)
      PROVE  account' = account
  BY <1>3, ReadingEffect DEF Ending, AlreadyRegistered, EmailTaken, Abort, IssueToken, database
<1>4. ASSUME NEW c \in Clients, Committing(c) PROVE RowsGrow
  BY <1>0, <1>4, CommittingColumns DEF RowsGrow
<1>5. ASSUME NEW c \in Clients, CreateUser(c) PROVE RowsGrow
  BY <1>0, <1>5, CreateEffect DEF RowsGrow
<1> QED
  BY <1>1, <1>2, <1>3, <1>4, <1>5, StepKinds DEF vars, database

-------------------------------------------------------------------------------
(* The first user is an administrator *)

\* Users of the time before passwords are superusers, and a request that does not
\* store the first user saw another one.
FirstInv ==
    /\ TypeInv
    /\ \A e \in Emails : account[e] # Missing /\ account[e].password = "local" =>
           account[e].superuser
    /\ \A c \in Clients : pc[c] = "store" /\ ~first[c] => \E e \in Emails : HasPassword(e)
    /\ FirstUserIsAdmin

\* A new row has a password, and its mark if it is the first.
LEMMA FirstCreate ==
    ASSUME FirstInv, NEW c \in Clients, CreateUser(c), RowsGrow
    PROVE  FirstUserIsAdmin'
<1> SUFFICES ASSUME AdminEmails = {}
             PROVE  \E e \in Emails : HasPassword(e)' /\ account'[e].superuser
  BY DEF FirstUserIsAdmin
<1>1. /\ who[c] \in Emails /\ pc[c] = "store"
      /\ account'[who[c]].password = "set"
      /\ account'[who[c]].superuser = IsAdmin(who[c], first[c])
  BY CreateEffect DEF FirstInv
<1>4. account'[who[c]] # Missing
  <2>1. account'[who[c]] \in Accounts
    BY CreateEffect DEF FirstInv
  <2> QED
    BY <2>1, AccountsAssumption
<1>2. CASE first[c]
  <2>1. IsAdmin(who[c], first[c]) = first[c]
    BY DEF IsAdmin
  <2>2. account'[who[c]].superuser
    BY <1>1, <1>2, <2>1
  <2> QED
    BY <1>1, <1>4, <2>2 DEF HasPassword
<1>3. CASE ~first[c]
  <2>1. PICK e \in Emails : HasPassword(e) /\ account[e].superuser
    BY <1>1, <1>3 DEF FirstInv, FirstUserIsAdmin
  <2> QED
    BY <2>1 DEF RowsGrow, HasPassword
<1> QED
  BY <1>2, <1>3

\* Rows that get a password later were superusers.
LEMMA FirstKept ==
    ASSUME FirstInv, RowsGrow,
           \A e \in Emails : account'[e] # Missing => account[e] # Missing
    PROVE  FirstUserIsAdmin'
<1> SUFFICES ASSUME AdminEmails = {}, NEW e \in Emails, HasPassword(e)'
             PROVE  \E f \in Emails : HasPassword(f)' /\ account'[f].superuser
  BY DEF FirstUserIsAdmin
<1>1. account[e] \in Accounts
  BY DEF FirstInv, TypeInv, TypeOK, HasPassword
<1>2. CASE account[e].password = "local"
  BY <1>1, <1>2, AccountsAssumption DEF FirstInv, RowsGrow
<1>3. CASE HasPassword(e)
  <2>1. PICK f \in Emails : HasPassword(f) /\ account[f].superuser
    BY <1>3 DEF FirstInv, FirstUserIsAdmin
  <2> QED
    BY <2>1 DEF RowsGrow, HasPassword
<1> QED
  BY <1>1, <1>2, <1>3, AccountsAssumption DEF Accounts, HasPassword

\* Only a registration makes a row.
LEMMA RowsExist ==
    ASSUME TypeInv, [Next]_vars
    PROVE  \/ \A e \in Emails : account'[e] # Missing => account[e] # Missing
           \/ \E c \in Clients : CreateUser(c)
<1>1. CASE account' = account
  BY <1>1
<1>2. CASE TimePasses
  BY <1>2, TimeEffect
<1>3. ASSUME NEW c \in Clients, Reading(c) \/ Ending(c) \/ \E t \in Tokens : IssueToken(c, t)
      PROVE  account' = account
  BY <1>3, ReadingEffect DEF Ending, AlreadyRegistered, EmailTaken, Abort, IssueToken, database
<1>4. ASSUME NEW c \in Clients, Committing(c)
      PROVE  \A e \in Emails : account'[e] # Missing => account[e] # Missing
  BY <1>4, CommittingColumns, AccountsAssumption
<1> QED
  BY <1>1, <1>2, <1>3, <1>4, StepKinds DEF vars, database

\* No row becomes one of the time before passwords.
LEMMA LocalsStep ==
    ASSUME TypeInv, [Next]_vars, NEW e \in Emails,
           account'[e] # Missing, account'[e].password = "local"
    PROVE  account[e] # Missing /\ account[e].password = "local"
<1>1. ASSUME NEW c \in Clients, CreateUser(c), e = who[c] PROVE FALSE
  <2>1. account'[who[c]].password = "set"
    BY <1>1, CreateEffect
  <2> QED
    BY <1>1, <2>1
<1>2. ASSUME NEW c \in Clients, CreateUser(c), e # who[c] PROVE account'[e] = account[e]
  BY <1>2, CreateEffect
<1>3. account[e] # Missing
  BY <1>1, <1>2, RowsExist
<1>4. account[e] \in Accounts
  BY <1>3 DEF TypeInv, TypeOK
<1> QED
  BY <1>3, <1>4, RowsGrowStep DEF RowsGrow, Accounts

\* Who goes on to store a user has counted; the others did so before.
LEMMA CountedStep ==
    ASSUME FirstInv, [Next]_vars, RowsGrow, NEW c \in Clients, pc'[c] = "store", ~first'[c]
    PROVE  (\E e \in Emails : HasPassword(e))'
<1>1. ASSUME \E e \in Emails : HasPassword(e) PROVE (\E e \in Emails : HasPassword(e))'
  BY <1>1 DEF RowsGrow, HasPassword
<1>2. CASE pc'[c] = pc[c] /\ first'[c] = first[c]
  BY <1>1, <1>2 DEF FirstInv
<1>3. CASE CountUsers(c)
  <2>1. first'[c] = \A e \in Emails : ~HasPassword(e)
    BY <1>3 DEF CountUsers, FirstInv, TypeInv, TypeOK
  <2> QED
    BY <1>1, <2>1
<1>4. CASE UNCHANGED <<pc, first>>
  BY <1>2, <1>4
<1>5. CASE TimePasses
  BY <1>4, <1>5, TimeEffect DEF FirstInv, locals
<1>6. ASSUME NEW d \in Clients, d # c,
             \/ Reading(d) \/ Ending(d) \/ Committing(d) \/ CreateUser(d)
             \/ \E t \in Tokens : IssueToken(d, t)
      PROVE  pc'[c] = pc[c] /\ first'[c] = first[c]
  <2>1. OthersUntouched(d)
    BY <1>6, ReadingLocals, ReturnHolds, CommittingRest, CreateEffect
       DEF FirstInv, Ending, AlreadyRegistered, EmailTaken, Abort, IssueToken
  <2> QED
    BY <1>6, <2>1 DEF OthersUntouched
<1>7. ASSUME \/ Ending(c) \/ Committing(c) \/ CreateUser(c)
             \/ \E t \in Tokens : IssueToken(c, t)
      PROVE  FALSE
  BY <1>7, ReturnHolds, CommittingRest, CreateEffect
     DEF FirstInv, Ending, AlreadyRegistered, EmailTaken, Abort, IssueToken
<1>8. ASSUME Reading(c), ~CountUsers(c) PROVE FALSE
  <2>1. pc \in [Clients -> Steps]
    BY DEF FirstInv, TypeInv, TypeOK
  <2>2. \E s \in Steps \ {"store"} : Goto(c, s)
    BY <1>8 DEF Reading, Register, ForgotPassword, Login, EnterAdmin, LoadUser, Refresh, Consume,
                FollowLink, Steps
  <2> QED
    BY <2>1, <2>2 DEF Goto
<1> QED
  BY <1>2, <1>3, <1>4, <1>5, <1>6, <1>7, <1>8, StepKinds DEF vars, locals

\* The first password-backed account is an administrator's, whatever registrations
\* run at once.
THEOREM AlwaysAnAdmin == Spec => []FirstUserIsAdmin
<1>1. ASSUME Init PROVE FirstInv
  <2>1. TypeInv
    BY <1>1, TypeInit
  <2>2. \A e \in Emails : account[e] \in {LocalUser, Missing}
    BY <1>1 DEF Init
  <2>3. \A e \in Emails : account[e] # Missing => account[e].superuser /\ account[e].password = "local"
    BY <2>2 DEF LocalUser
  <2> QED
    BY <1>1, <2>1, <2>3 DEF Init, FirstInv, FirstUserIsAdmin, HasPassword
<1>2. ASSUME FirstInv, [Next]_vars PROVE FirstInv'
  <2>1. TypeInv' /\ RowsGrow
    BY <1>2, TypeStep, RowsGrowStep DEF FirstInv
  <2>2. FirstUserIsAdmin'
    BY <1>2, <2>1, FirstCreate, FirstKept, RowsExist DEF FirstInv
  <2>3. \A e \in Emails : account'[e] # Missing /\ account'[e].password = "local" =>
            account'[e].superuser
    BY <1>2, <2>1, LocalsStep DEF FirstInv, RowsGrow
  <2>4. \A c \in Clients : pc'[c] = "store" /\ ~first'[c] => (\E e \in Emails : HasPassword(e))'
    BY <1>2, <2>1, CountedStep
  <2> QED
    BY <2>1, <2>2, <2>3, <2>4 DEF FirstInv
<1>3. FirstInv => FirstUserIsAdmin
  BY DEF FirstInv
<1> QED
  BY <1>1, <1>2, <1>3, PTL DEF Spec

-------------------------------------------------------------------------------
(* Overlapping requests are noticed *)

\* Two requests with one account in hand are on record.
HandsMeet ==
    \A c, d \in Clients : \A e \in Emails :
        c # d /\ e \in {who[c], admin[c]} /\ e \in {who[d], admin[d]} => e \in contended

\* What c takes in hand is in no other hand, or goes on record.
HandsClean(c) ==
    \A e \in Emails : e \in {who'[c], admin'[c]} =>
        \/ e \in {who[c], admin[c]}
        \/ e \in contended'
        \/ \A d \in Clients : d # c => e \notin {who[d], admin[d]}

\* The record grows, and c is the only request that moves.
OneMoves(c) == OthersUntouched(c) /\ contended \subseteq contended' /\ HandsClean(c)

\* A request that takes an account in hand looks for others that have it.
LEMMA TakeClean ==
    ASSUME TypeInv, NEW c \in Clients, NEW f \in Emails, TakeInHand(c, f),
           \/ who' = [who EXCEPT ![c] = f] /\ admin' = admin
           \/ who' = [who EXCEPT ![c] = f] /\ admin' = [admin EXCEPT ![c] = f]
           \/ who' = who /\ admin' = admin
    PROVE  HandsClean(c)
<1>1. \/ f \in contended'
      \/ \A d \in Clients : d # c => f \notin {who[d], admin[d]}
  BY DEF TakeInHand
<1>2. \A e \in Emails : e \in {who'[c], admin'[c]} => e \in {who[c], admin[c]} \/ e = f
  BY DEF TypeInv, TypeOK
<1> QED
  BY <1>1, <1>2 DEF HandsClean

\* Requests that read notice the others.
LEMMA ReadingMoves == ASSUME TypeInv, NEW c \in Clients, Reading(c) PROVE OneMoves(c)
<1>1. OthersUntouched(c) /\ contended \subseteq contended'
  BY ReadingEffect, ReadingLocals
<1>2. ASSUME NEW t \in Tokens, FollowLink(c, t) PROVE HandsClean(c)
  <2>1. link[t].user \in Emails
    BY <1>2 DEF FollowLink, TypeInv, TypeOK, Links
  <2> QED
    BY <1>2, <2>1, TakeClean DEF FollowLink
<1>3. ASSUME NEW e \in Emails,
             \/ Register(c, e) \/ ForgotPassword(c, e)
             \/ \E outcome \in {"right", "wrong"} : Login(c, e, outcome)
             \/ EnterAdmin(c, e) \/ LoadUser(c, e)
      PROVE  HandsClean(c)
  BY <1>3, TakeClean DEF Register, ForgotPassword, Login, EnterAdmin, LoadUser, Read
<1>4. ASSUME CountUsers(c) \/ Refresh(c) \/ Consume(c) PROVE HandsClean(c)
  <2>1. who'[c] = who[c] /\ admin'[c] = admin[c]
    BY <1>4 DEF CountUsers, Refresh, Consume, Read, locals, TypeInv, TypeOK
  <2> QED
    BY <2>1 DEF HandsClean
<1> QED
  BY <1>1, <1>2, <1>3, <1>4 DEF Reading, OneMoves

\* The other steps of requests take nothing in hand.
LEMMA ReturnMoves ==
    ASSUME TypeInv, NEW c \in Clients, Return(c), contended' = contended
    PROVE  OneMoves(c)
BY ReturnHolds, AccountsAssumption DEF OneMoves, HandsClean

\* No request moves.
Quiet ==
    /\ UNCHANGED <<link, used, pc, locals, history>>
    /\ \A e \in Emails : /\ account[e] = Missing <=> account'[e] = Missing
                         /\ account'[e].password = account[e].password
                         /\ account'[e].active = account[e].active
                         /\ account'[e].superuser = account[e].superuser
                         /\ account'[e].failed = account[e].failed

\* Every step is one request's, or time passing.
LEMMA MoveKinds ==
    ASSUME TypeInv, [Next]_vars
    PROVE  \/ Quiet
           \/ \E c \in Clients :
                  /\ OneMoves(c)
                  /\ \/ Reading(c) \/ Ending(c) \/ Committing(c) \/ CreateUser(c)
                     \/ \E t \in Tokens : IssueToken(c, t)
<1>1. ASSUME NEW c \in Clients, Ending(c) \/ \E t \in Tokens : IssueToken(c, t)
      PROVE  OneMoves(c)
  BY <1>1, ReturnMoves DEF Ending, AlreadyRegistered, EmailTaken, Abort, IssueToken, history
<1>2. ASSUME NEW c \in Clients, Committing(c) PROVE OneMoves(c)
  <2>1. contended' = contended /\ OthersUntouched(c)
    BY <1>2, CommittingRest
  <2>2. CASE who' = who /\ admin' = admin
    BY <2>1, <2>2 DEF OneMoves, HandsClean
  <2> QED
    BY <1>2, <2>1, <2>2, CommittingRest, ReturnMoves
<1>3. ASSUME NEW c \in Clients, CreateUser(c) PROVE OneMoves(c)
  <2>1. contended' = contended /\ OthersUntouched(c)
    BY <1>3, CreateEffect DEF history
  <2>2. CASE who' = who /\ admin' = admin
    BY <2>1, <2>2 DEF OneMoves, HandsClean
  <2> QED
    BY <1>3, <2>1, <2>2, CreateEffect, ReturnMoves
<1>4. ASSUME TimePasses PROVE Quiet
  BY <1>4, TimeEffect DEF Quiet
<1>5. ASSUME UNCHANGED vars PROVE Quiet
  BY <1>5 DEF Quiet, vars, database
<1> QED
  BY <1>1, <1>2, <1>3, <1>4, <1>5, ReadingMoves, StepKinds

\* So overlaps stay on record.
LEMMA HandsStep == ASSUME TypeInv, HandsMeet, [Next]_vars PROVE HandsMeet'
<1>1. CASE Quiet
  BY <1>1 DEF Quiet, locals, history, HandsMeet
<1>2. ASSUME NEW c \in Clients, OneMoves(c) PROVE HandsMeet'
  <2> SUFFICES ASSUME NEW a \in Clients, NEW b \in Clients, NEW e \in Emails, a # b,
                      e \in {who'[a], admin'[a]}, e \in {who'[b], admin'[b]}
               PROVE  e \in contended'
    BY DEF HandsMeet
  <2>1. CASE a # c /\ b # c
    BY <1>2, <2>1 DEF OneMoves, OthersUntouched, HandsMeet
  <2>2. ASSUME NEW d \in Clients, d # c, e \in {who'[d], admin'[d]}, e \in {who'[c], admin'[c]}
        PROVE  e \in contended'
    <3>1. e \in {who[d], admin[d]}
      BY <1>2, <2>2 DEF OneMoves, OthersUntouched
    <3> QED
      BY <1>2, <2>2, <3>1 DEF OneMoves, HandsClean, HandsMeet
  <2> QED
    BY <2>1, <2>2
<1> QED
  BY <1>1, <1>2, MoveKinds

\* Nobody holds anything at the start.
LEMMA HandsInit == ASSUME Init PROVE HandsMeet
BY AccountsAssumption DEF Init, HandsMeet

-------------------------------------------------------------------------------
(* Somebody administers *)

\* Whoever is in the admin routes entered them as a superuser, and still is one.
AdminInv ==
    /\ TypeInv
    /\ \A c \in Clients : pc[c] \in {"admin", "edit"} =>
           account[admin[c]] # Missing /\ account[admin[c]].superuser

\* A request is in the admin routes since a superuser entered, and nobody takes
\* that mark away.
LEMMA AdminStep == ASSUME AdminInv, [Next]_vars, TypeInv' PROVE AdminInv'
<1>0. RowsGrow
  BY RowsGrowStep DEF AdminInv
<1> SUFFICES ASSUME NEW d \in Clients, pc'[d] \in {"admin", "edit"}
             PROVE  account'[admin'[d]] # Missing /\ account'[admin'[d]].superuser
  BY DEF AdminInv
<1>1. ASSUME pc[d] \in {"admin", "edit"}, admin'[d] = admin[d]
      PROVE  account'[admin'[d]] # Missing /\ account'[admin'[d]].superuser
  <2>1. admin[d] \in Emails /\ account[admin[d]] # Missing /\ account[admin[d]].superuser
    BY <1>1 DEF AdminInv, TypeInv, HoldsWhatItNeeds
  <2> QED
    BY <1>0, <1>1, <2>1 DEF RowsGrow
<1>2. CASE Quiet
  BY <1>1, <1>2 DEF Quiet, locals
<1>3. ASSUME NEW c \in Clients, OneMoves(c), d # c
      PROVE  pc[d] \in {"admin", "edit"} /\ admin'[d] = admin[d]
  BY <1>3 DEF OneMoves, OthersUntouched
<1>4. ASSUME \/ Reading(d) \/ Ending(d) \/ Committing(d) \/ CreateUser(d)
             \/ \E t \in Tokens : IssueToken(d, t)
      PROVE  account'[admin'[d]] # Missing /\ account'[admin'[d]].superuser
  <2>1. Reading(d)
    <3>1. ASSUME Return(d) PROVE FALSE
      BY <3>1, ReturnHolds DEF AdminInv
    <3> QED
      BY <1>4, <3>1, CommittingRest, CreateEffect
         DEF AdminInv, Ending, AlreadyRegistered, EmailTaken, Abort, IssueToken
  <2>2. \/ \E a \in Emails : EnterAdmin(d, a)
        \/ pc[d] = "admin" /\ admin' = admin
    BY <2>1 DEF Reading, Register, ForgotPassword, Login, LoadUser, CountUsers, Refresh,
                Consume, FollowLink, Goto, AdminInv, TypeInv, TypeOK
  <2>3. ASSUME NEW a \in Emails, EnterAdmin(d, a)
        PROVE  account'[admin'[d]] # Missing /\ account'[admin'[d]].superuser
    <3>1. admin'[d] = a /\ account' = account
      BY <2>3 DEF EnterAdmin, database, AdminInv, TypeInv, TypeOK
    <3> QED
      BY <2>3, <3>1 DEF EnterAdmin
  <2> QED
    BY <1>1, <2>2, <2>3
<1> QED
  BY <1>1, <1>2, <1>3, <1>4, MoveKinds DEF AdminInv

\* The one step that switches a user off is an edit, and an administrator who is
\* active stays so in his own edit.
LEMMA SwitchedOff ==
    ASSUME TypeInv, NEW c \in Clients, Committing(c), NEW e \in Emails,
           account[e] # Missing, account[e].active, ~account'[e].active
    PROVE  e = who[c] /\ pc[c] = "edit" /\ pc'[c] = "idle" /\ admin[c] # e
<1>1. e = who[c] /\ pc[c] = "edit"
  BY CommittingColumns
<1>2. PICK on \in BOOLEAN : EditUser(c, on)
  BY <1>1 DEF Committing, UpgradeUser, ApplyVerify, ApplyReset, CountFailure, LogIn
<1>3. pc'[c] = "idle"
  BY <1>2 DEF EditUser, Return, Goto, TypeInv, TypeOK
<1>4. ASSUME admin[c] = e PROVE FALSE
  <2>1. on = TRUE
    BY <1>1, <1>2, <1>4 DEF EditUser
  <2>2. seen[c] \in Accounts /\ seen[c] # Missing
    BY <1>1, CommittingWrites, AccountsAssumption
  <2> DEFINE new == [seen[c] EXCEPT !.active = TRUE]
  <2>3. new \in Accounts /\ new.active = TRUE
    BY <2>2 DEF Accounts
  <2>4. Commit(c, new)
    BY <1>2, <2>1 DEF EditUser
  <2> HIDE DEF new
  <2>5. account'[e] = Flush(account[e], seen[c], new)
    BY <1>1, <2>2, <2>3, <2>4, CommitEffect
  <2>6. account'[e].active = Column(account[e].active, seen[c].active, new.active)
    BY <2>5 DEF Flush
  <2> QED
    BY <2>3, <2>6 DEF Column
<1> QED
  BY <1>1, <1>3, <1>4

\* Whoever is an active administrator stays one, but for an edit by another one.
LEMMA AdminsKept ==
    ASSUME AdminInv, [Next]_vars, NEW e \in ActiveAdmins, e \notin ActiveAdmins'
    PROVE  \E c \in Clients : /\ Committing(c) /\ e = who[c] /\ pc[c] = "edit"
                              /\ pc'[c] = "idle" /\ admin[c] # e
<1>1. e \in Emails /\ account[e] # Missing /\ account[e].superuser /\ account[e].active
  BY DEF ActiveAdmins
<1>2. account'[e] # Missing /\ account'[e].superuser
  BY <1>1, RowsGrowStep DEF RowsGrow, AdminInv
<1>3. ~account'[e].active
  BY <1>1, <1>2 DEF ActiveAdmins
<1>4. ~Quiet
  BY <1>1, <1>3 DEF Quiet
<1>5. ASSUME NEW c \in Clients,
             Reading(c) \/ Ending(c) \/ \E t \in Tokens : IssueToken(c, t)
      PROVE  FALSE
  <2>1. account' = account
    BY <1>5, ReadingEffect
       DEF AdminInv, Ending, AlreadyRegistered, EmailTaken, Abort, IssueToken, database
  <2> QED
    BY <1>1, <1>3, <2>1
<1>6. ASSUME NEW c \in Clients, CreateUser(c) PROVE FALSE
  BY <1>1, <1>3, <1>6, CreateEffect DEF AdminInv
<1>7. PICK c \in Clients : Committing(c)
  BY <1>4, <1>5, <1>6, MoveKinds DEF AdminInv
<1> QED
  BY <1>1, <1>3, <1>7, SwitchedOff DEF AdminInv

\* The last active administrator is switched off only by one who was switched off
\* himself inside the admin routes: who makes an edit is spared by it, and no other
\* request takes away an administrator.
THEOREM AlwaysAdministered == Spec => SomeoneAdministers
<1> DEFINE Excused == \E c \in Clients : /\ pc[c] = "edit" /\ pc'[c] = "idle"
                                         /\ admin[c] \notin ActiveAdmins
           Kept    == ActiveAdmins # {} /\ ActiveAdmins' = {} => Excused
<1>1. ASSUME Init PROVE AdminInv
  BY <1>1, TypeInit DEF Init, AdminInv
<1>2. ASSUME AdminInv, [Next]_vars PROVE AdminInv'
  BY <1>2, AdminStep, TypeStep DEF AdminInv
<1>3. ASSUME AdminInv, [Next]_vars PROVE [Kept]_vars
  <2> SUFFICES ASSUME NEW e \in ActiveAdmins, ActiveAdmins' = {} PROVE Excused
    OBVIOUS
  <2>1. PICK c \in Clients : /\ Committing(c) /\ e = who[c] /\ pc[c] = "edit"
                             /\ pc'[c] = "idle" /\ admin[c] # e
    BY <1>3, AdminsKept
  <2>2. admin[c] \notin ActiveAdmins
    <3> SUFFICES ASSUME admin[c] \in ActiveAdmins PROVE FALSE
      OBVIOUS
    <3>1. admin[c] \in Emails /\ account'[admin[c]] = account[admin[c]]
      BY <1>3, <2>1, CommittingColumns DEF AdminInv, ActiveAdmins
    <3> QED
      BY <3>1 DEF ActiveAdmins
  <2> QED
    BY <2>1, <2>2
<1>4. SomeoneAdministers <=> [][Kept]_vars
  BY DEF SomeoneAdministers
<1> QED
  BY <1>1, <1>2, <1>3, <1>4, PTL DEF Spec

-------------------------------------------------------------------------------
(* Links work once *)

\* A request past the mark of its link finds it marked, and a link that has
\* already changed something is only followed by overlapping requests.
LinkInv ==
    /\ TypeInv
    /\ HandsMeet
    /\ \A c \in Clients : pc[c] \in {"refresh", "apply"} => token[c] \in used
    /\ \A c \in Clients : pc[c] \in LinkSteps /\ changes[token[c]] > 0 => who[c] \in contended
    /\ \A t \in Tokens : changes[t] > 0 => link[t] # Missing
    /\ LinksWorkOnce

\* Marks stay, issued links stay, and only the last step of a link counts.
LinkMove(c) ==
    /\ used \subseteq used'
    /\ \A t \in Tokens : link[t] # Missing => link'[t] = link[t]
    /\ \A t \in Tokens :
           \/ changes'[t] = changes[t]
           \/ pc[c] = "apply" /\ t = token[c] /\ changes'[t] \in {changes[t], changes[t] + 1}

\* What a request's step does to links.
LEMMA LinkMoves ==
    ASSUME TypeInv, NEW c \in Clients,
           \/ Reading(c) \/ Ending(c) \/ Committing(c) \/ CreateUser(c)
           \/ \E t \in Tokens : IssueToken(c, t)
    PROVE  LinkMove(c)
<1>1. ASSUME Reading(c) PROVE LinkMove(c)
  BY <1>1, ReadingEffect DEF LinkMove
<1>2. ASSUME Ending(c) \/ CreateUser(c) PROVE LinkMove(c)
  BY <1>2 DEF LinkMove, Ending, AlreadyRegistered, EmailTaken, Abort, CreateUser, database, history
<1>3. ASSUME NEW t \in Tokens, IssueToken(c, t) PROVE LinkMove(c)
  <2>1. /\ link[t] = Missing /\ used' = used /\ changes' = changes
        /\ \A s \in Tokens : s # t => link'[s] = link[s]
    BY <1>3 DEF IssueToken, history, TypeInv, TypeOK
  <2> QED
    BY <2>1 DEF LinkMove
<1>4. ASSUME Committing(c) PROVE LinkMove(c)
  <2>1. used' = used /\ link' = link
    BY <1>4, CommittingRest
  <2>2. changes' = changes \/ (pc[c] = "apply" /\ Changed(c))
    BY <1>4 DEF Committing, UpgradeUser, ApplyVerify, ApplyReset, CountFailure, LogIn, EditUser,
                history
  <2>3. changes \in [Tokens -> 0..2]
    BY DEF TypeInv, TypeOK
  <2> QED
    BY <2>1, <2>2, <2>3 DEF LinkMove, Changed
<1> QED
  BY <1>1, <1>2, <1>3, <1>4

\* Requests that enter or go on with a link.
LEMMA LinkSteppers ==
    ASSUME TypeInv, TypeInv', NEW c \in Clients, pc'[c] \in LinkSteps,
           \/ Reading(c) \/ Ending(c) \/ Committing(c) \/ CreateUser(c)
           \/ \E t \in Tokens : IssueToken(c, t)
    PROVE  /\ changes' = changes /\ used \subseteq used'
           /\ \/ /\ pc'[c] = "consume"
                 /\ token'[c] \in Tokens \ used
              \/ /\ pc[c] \in LinkSteps
                 /\ token'[c] = token[c] /\ who'[c] = who[c]
                 /\ pc'[c] \in {"refresh", "apply"}
                 /\ \/ token[c] \in used'
                    \/ pc[c] = "refresh"
<1>1. Reading(c)
  <2>1. ASSUME Return(c) PROVE FALSE
    BY <2>1, ReturnHolds DEF LinkSteps
  <2>2. ASSUME CreateUser(c) PROVE FALSE
    BY <2>1, <2>2, CreateEffect DEF LinkSteps
  <2>3. ASSUME Committing(c) PROVE FALSE
    BY <2>1, <2>3, CommittingRest DEF LinkSteps
  <2> QED
    BY <2>1, <2>2, <2>3 DEF Ending, AlreadyRegistered, EmailTaken, Abort, IssueToken
<1>2. /\ pc \in [Clients -> Steps] /\ token \in [Clients -> Tokens \cup {NoToken}]
      /\ who \in [Clients -> Emails \cup {Nobody}]
  BY DEF TypeInv, TypeOK
<1>3. Consume(c) \/ Refresh(c) \/ \E t \in Tokens : FollowLink(c, t)
  BY <1>1, <1>2 DEF Reading, Register, ForgotPassword, Login, EnterAdmin, LoadUser, CountUsers,
                    Goto, LinkSteps
<1>4. CASE Consume(c)
  BY <1>1, <1>2, <1>4, ReadingEffect DEF Consume, Goto, locals, LinkSteps
<1>5. CASE Refresh(c)
  BY <1>1, <1>2, <1>5, ReadingEffect DEF Refresh, Goto, Read, LinkSteps
<1>6. ASSUME NEW t \in Tokens, FollowLink(c, t)
      PROVE  pc'[c] = "consume" /\ token'[c] \in Tokens \ used
  BY <1>2, <1>6 DEF FollowLink, Goto
<1> QED
  BY <1>1, <1>3, <1>4, <1>5, <1>6, ReadingEffect

\* A request's step keeps the invariant of links.
LEMMA LinkStep ==
    ASSUME LinkInv, TypeInv', HandsMeet', NEW c \in Clients, OneMoves(c),
           \/ Reading(c) \/ Ending(c) \/ Committing(c) \/ CreateUser(c)
           \/ \E t \in Tokens : IssueToken(c, t)
    PROVE  LinkInv'
<1>0. LinkMove(c) /\ TypeInv
  BY LinkMoves DEF LinkInv
<1>1. changes \in [Tokens -> 0..2] /\ changes' \in [Tokens -> 0..2]
  BY DEF LinkInv, TypeInv, TypeOK
<1>2. pc[c] = "apply" => /\ token[c] \in Tokens /\ token[c] \in used
                         /\ link[token[c]] # Missing /\ link[token[c]].user = who[c]
                         /\ who[c] \in Emails
  BY DEF LinkInv, TypeInv, HoldsWhatItNeeds, LinkSteps
<1>3. \A d \in Clients : pc'[d] \in {"refresh", "apply"} => token'[d] \in used'
  <2> SUFFICES ASSUME NEW d \in Clients, pc'[d] \in {"refresh", "apply"}
               PROVE  token'[d] \in used'
    OBVIOUS
  <2>1. CASE d # c
    BY <1>0, <2>1 DEF OneMoves, OthersUntouched, LinkInv, LinkMove
  <2>2. CASE d = c
    BY <1>0, <2>2, LinkSteppers DEF LinkSteps, LinkInv, LinkMove
  <2> QED
    BY <2>1, <2>2
<1>4. \A d \in Clients : pc'[d] \in LinkSteps /\ changes'[token'[d]] > 0 => who'[d] \in contended'
  <2> SUFFICES ASSUME NEW d \in Clients, pc'[d] \in LinkSteps, changes'[token'[d]] > 0
               PROVE  who'[d] \in contended'
    OBVIOUS
  <2>1. CASE d # c
    <3>1. /\ pc[d] \in LinkSteps /\ token'[d] = token[d] /\ who'[d] = who[d]
          /\ token[d] \in Tokens /\ link[token[d]].user = who[d]
          /\ contended \subseteq contended'
      BY <2>1 DEF OneMoves, OthersUntouched, LinkInv, TypeInv, HoldsWhatItNeeds
    <3>2. CASE changes[token[d]] > 0
      BY <3>1, <3>2 DEF LinkInv
    <3>3. CASE ~(changes[token[d]] > 0)
      <4>1. pc[c] = "apply" /\ token[c] = token[d]
        BY <1>0, <3>1, <3>3 DEF LinkMove
      <4> QED
        BY <1>2, <2>1, <3>1, <4>1 DEF LinkInv, HandsMeet
    <3> QED
      BY <3>2, <3>3
  <2>2. CASE d = c
    <3>1. contended \subseteq contended'
      BY DEF OneMoves
    <3>2. CASE token'[c] \in Tokens \ used
      <4>1. ~(changes[token'[c]] > 0)
        BY <3>2 DEF LinkInv, LinksWorkOnce
      <4> QED
        BY <1>0, <2>2, <4>1, LinkSteppers
    <3>3. CASE token'[c] \notin Tokens \ used
      BY <1>0, <2>2, <3>1, <3>3, LinkSteppers DEF LinkInv
    <3> QED
      BY <3>2, <3>3
  <2> QED
    BY <2>1, <2>2
<1>5. \A t \in Tokens : changes'[t] > 0 => link'[t] # Missing /\ t \in used'
  <2> SUFFICES ASSUME NEW t \in Tokens, changes'[t] > 0
               PROVE  link'[t] # Missing /\ t \in used'
    OBVIOUS
  <2>1. changes[t] > 0 \/ (pc[c] = "apply" /\ t = token[c])
    BY <1>0 DEF LinkMove
  <2> QED
    BY <1>0, <1>2, <2>1 DEF LinkMove, LinkInv, LinksWorkOnce
<1>6. \A t \in Tokens : changes'[t] > 1 => link'[t].user \in contended'
  <2> SUFFICES ASSUME NEW t \in Tokens, changes'[t] > 1
               PROVE  link'[t].user \in contended'
    OBVIOUS
  <2>1. contended \subseteq contended'
    BY DEF OneMoves
  <2>2. CASE changes[t] > 1
    <3>1. changes[t] > 0
      BY <1>1, <2>2
    <3> QED
      BY <1>0, <2>1, <2>2, <3>1 DEF LinkInv, LinksWorkOnce, LinkMove
  <2>3. CASE ~(changes[t] > 1)
    <3>1. changes'[t] # changes[t]
      BY <2>3
    <3>2. pc[c] = "apply" /\ t = token[c] /\ changes[t] > 0
      BY <1>0, <1>1, <2>3, <3>1 DEF LinkMove
    <3> QED
      BY <1>0, <1>2, <2>1, <3>2 DEF LinkInv, LinkMove, LinkSteps
  <2> QED
    BY <2>2, <2>3
<1>7. LinksWorkOnce'
  BY <1>5, <1>6 DEF LinksWorkOnce
<1> QED
  BY <1>3, <1>4, <1>5, <1>7 DEF LinkInv

\* A mailed link changes its account at most once, and leaves its mark first,
\* unless requests of the account overlap.
THEOREM OneUsePerLink == Spec => []LinksWorkOnce
<1>1. ASSUME Init PROVE LinkInv
  <2>1. TypeInv /\ HandsMeet
    BY <1>1, TypeInit, HandsInit
  <2>2. /\ \A c \in Clients : pc[c] = "idle"
        /\ \A t \in Tokens : changes[t] = 0
    BY <1>1 DEF Init
  <2> QED
    BY <2>1, <2>2 DEF LinkInv, LinksWorkOnce, LinkSteps
<1>2. ASSUME LinkInv, [Next]_vars PROVE LinkInv'
  <2>1. TypeInv' /\ HandsMeet'
    BY <1>2, TypeStep, HandsStep DEF LinkInv
  <2>2. CASE Quiet
    BY <1>2, <2>1, <2>2 DEF Quiet, locals, history, LinkInv, LinksWorkOnce
  <2> QED
    BY <1>2, <2>1, <2>2, LinkStep, MoveKinds DEF LinkInv
<1>3. LinkInv => LinksWorkOnce
  BY DEF LinkInv
<1> QED
  BY <1>1, <1>2, <1>3, PTL DEF Spec

-------------------------------------------------------------------------------
(* The lockout counts *)

CountSteps == {"right", "wrong", "apply"}

\* Outside overlaps a request computes with the counter that is in the table.
LockInv ==
    /\ TypeInv
    /\ HandsMeet
    /\ \A e \in Emails \ contended : account[e] = Missing => streak[e] = 0
    /\ \A c \in Clients : pc[c] \in CountSteps /\ who[c] \notin contended =>
           seen[c].failed = account[who[c]].failed
    /\ LockoutCounts

\* A login that fails adds one or locks, the other two steps clear the counter.
LEMMA CountedCommit ==
    ASSUME LockInv, NEW c \in Clients, Committing(c), pc[c] \in CountSteps,
           who[c] \notin contended
    PROVE  /\ account'[who[c]].failed = streak'[who[c]]
           /\ streak'[who[c]] < MaxAttempts
<1>1. /\ who[c] \in Emails /\ account[who[c]] \in Accounts
      /\ seen[c] \in Accounts
      /\ seen[c] # Missing /\ pc[c] # "idle"
  BY CommittingColumns, CommittingWrites, AccountsAssumption DEF LockInv, CountSteps
<1>2. /\ seen[c].failed = account[who[c]].failed
      /\ account[who[c]].failed = streak[who[c]]
      /\ streak[who[c]] \in Nat /\ MaxAttempts \in Nat \ {0}
  BY <1>1, AccountsAssumption DEF LockInv, LockoutCounts, TypeInv, TypeOK
<1>3. ASSUME NEW new \in Accounts, Commit(c, new)
      PROVE  account'[who[c]].failed = new.failed
  <2>1. account'[who[c]] = Flush(account[who[c]], seen[c], new)
    BY <1>1, <1>3, CommitEffect DEF LockInv
  <2>2. account'[who[c]].failed = Column(account[who[c]].failed, seen[c].failed, new.failed)
    BY <2>1 DEF Flush
  <2> QED
    BY <1>2, <2>2 DEF Column
<1>4. ASSUME NEW n \in Nat, Streak(c, n) PROVE streak'[who[c]] = n
  BY <1>1, <1>4 DEF Streak, LockInv, TypeInv, TypeOK
<1>5. ASSUME NEW l \in {"never", "on"}, Commit(c, [seen[c] EXCEPT !.failed = 0, !.lock = l])
      PROVE  account'[who[c]].failed = 0
  <2> DEFINE new == [seen[c] EXCEPT !.failed = 0, !.lock = l]
  <2>1. new \in Accounts /\ new.failed = 0
    BY <1>1 DEF Accounts
  <2> HIDE DEF new
  <2>2. Commit(c, new)
    BY <1>5 DEF new
  <2> QED
    BY <1>3, <2>1, <2>2
<1>6. CASE CountFailure(c)
  <2> DEFINE n == seen[c].failed + 1
  <2>1. n \in Nat /\ streak[who[c]] + 1 = n
    BY <1>2
  <2>2. CASE n >= MaxAttempts
    <3>1. Commit(c, [seen[c] EXCEPT !.failed = 0, !.lock = "on"]) /\ Streak(c, 0)
      BY <1>6, <2>2 DEF CountFailure
    <3> QED
      BY <1>2, <1>4, <1>5, <3>1
  <2>3. CASE ~(n >= MaxAttempts)
    <3> DEFINE new == [seen[c] EXCEPT !.failed = n]
    <3>1. Commit(c, new) /\ Streak(c, streak[who[c]] + 1)
      BY <1>6, <2>3 DEF CountFailure
    <3>2. new \in Accounts /\ new.failed = n
      BY <1>1, <2>1 DEF Accounts
    <3> HIDE DEF new
    <3>3. account'[who[c]].failed = n
      BY <1>3, <3>1, <3>2
    <3>4. streak'[who[c]] = n
      BY <1>4, <2>1, <3>1
    <3>5. n < MaxAttempts
      BY <1>2, <2>1, <2>3
    <3> QED
      BY <3>3, <3>4, <3>5
  <2> QED
    BY <2>2, <2>3
<1>7. CASE ApplyReset(c)
  <2> DEFINE new == [seen[c] EXCEPT !.password = "set", !.failed = 0, !.lock = "never"]
  <2>1. new \in Accounts /\ new.failed = 0
    BY <1>1 DEF Accounts
  <2>2. Commit(c, new) /\ Streak(c, 0)
    BY <1>7 DEF ApplyReset
  <2> HIDE DEF new
  <2> QED
    BY <1>2, <1>3, <1>4, <2>1, <2>2
<1>8. CASE LogIn(c)
  BY <1>2, <1>4, <1>5, <1>8 DEF LogIn
<1>9. CASE ApplyVerify(c)
  <2> DEFINE new == [seen[c] EXCEPT !.verified = TRUE]
  <2>1. new \in Accounts /\ new.failed = seen[c].failed
    BY <1>1 DEF Accounts
  <2>2. Commit(c, new) /\ streak' = streak
    BY <1>9 DEF ApplyVerify
  <2> HIDE DEF new
  <2> QED
    BY <1>1, <1>2, <1>3, <2>1, <2>2 DEF LockInv, LockoutCounts
<1> QED
  BY <1>6, <1>7, <1>8, <1>9 DEF Committing, UpgradeUser, EditUser, CountSteps

\* What a request's step leaves of the counters outside overlaps: all but its own.
LEMMA CountersKept ==
    ASSUME TypeInv, NEW c \in Clients,
           \/ Reading(c) \/ Ending(c) \/ Committing(c) \/ CreateUser(c)
           \/ \E t \in Tokens : IssueToken(c, t)
    PROVE  \A e \in Emails \ contended' :
               /\ account'[e] = account[e] \/ (e = who[c] /\ (Committing(c) \/ CreateUser(c)))
               /\ \/ streak'[e] = streak[e]
                  \/ e = who[c] /\ Committing(c) /\ pc[c] \in CountSteps
<1>1. CASE Committing(c)
  <2>1. \A e \in Emails : e # who[c] => account'[e] = account[e]
    BY <1>1, CommittingColumns
  <2>2. streak' = streak \/ (pc[c] \in CountSteps /\ \E n : Streak(c, n))
    BY <1>1 DEF Committing, UpgradeUser, ApplyVerify, ApplyReset, CountFailure, LogIn, EditUser,
                history, CountSteps
  <2>3. streak \in [Emails -> Nat]
    BY DEF TypeInv, TypeOK
  <2> QED
    BY <1>1, <2>1, <2>2, <2>3 DEF Streak
<1>2. CASE CreateUser(c)
  BY <1>2, CreateEffect DEF history
<1>3. CASE Ending(c) \/ \E t \in Tokens : IssueToken(c, t)
  BY <1>3 DEF Ending, AlreadyRegistered, EmailTaken, Abort, IssueToken, database, history
<1>4. CASE Reading(c)
  <2>1. account' = account
    BY <1>4, ReadingEffect
  <2>2. streak' = streak \/ \E f \in Emails : TakeInHand(c, f)
    BY <1>4 DEF Reading, Register, ForgotPassword, Login, EnterAdmin, LoadUser, CountUsers, Refresh,
                Consume, FollowLink, history, TypeInv, TypeOK, Links
  <2>3. ASSUME NEW f \in Emails, TakeInHand(c, f)
        PROVE  \A e \in Emails \ contended' : streak'[e] = streak[e]
    BY <2>3 DEF TakeInHand, TypeInv, TypeOK
  <2> QED
    BY <2>1, <2>2, <2>3
<1> QED
  BY <1>1, <1>2, <1>3, <1>4

\* Requests that enter or go on to a step that counts.
LEMMA CountSteppers ==
    ASSUME TypeInv, TypeInv', NEW c \in Clients, pc'[c] \in CountSteps,
           \/ Reading(c) \/ Ending(c) \/ Committing(c) \/ CreateUser(c)
           \/ \E t \in Tokens : IssueToken(c, t)
    PROVE  account' = account /\ who'[c] \in Emails /\ seen'[c] = account[who'[c]]
<1>1. Reading(c)
  <2>1. ASSUME Return(c) PROVE FALSE
    BY <2>1, ReturnHolds DEF CountSteps
  <2>2. ASSUME CreateUser(c) PROVE FALSE
    BY <2>1, <2>2, CreateEffect DEF CountSteps
  <2>3. ASSUME Committing(c) PROVE FALSE
    BY <2>1, <2>3, CommittingRest DEF CountSteps
  <2> QED
    BY <2>1, <2>2, <2>3 DEF Ending, AlreadyRegistered, EmailTaken, Abort, IssueToken
<1>2. /\ pc \in [Clients -> Steps] /\ who \in [Clients -> Emails \cup {Nobody}]
      /\ seen \in [Clients -> Accounts \cup {Missing}]
  BY DEF TypeInv, TypeOK
<1>3. Refresh(c) \/ \E e \in Emails : \E outcome \in {"right", "wrong"} : Login(c, e, outcome)
  BY <1>1, <1>2 DEF Reading, Register, ForgotPassword, EnterAdmin, LoadUser, CountUsers, Consume,
                    FollowLink, Goto, CountSteps
<1>4. CASE Refresh(c)
  <2>1. who[c] \in Emails
    BY <1>4 DEF Refresh, TypeInv, HoldsWhatItNeeds
  <2> QED
    BY <1>1, <1>2, <1>4, <2>1, ReadingEffect DEF Refresh, Read
<1>5. ASSUME NEW e \in Emails, NEW outcome \in {"right", "wrong"}, Login(c, e, outcome)
      PROVE  who'[c] = e /\ seen'[c] = account[e]
  BY <1>2, <1>5 DEF Login, Read
<1> QED
  BY <1>1, <1>3, <1>4, <1>5, ReadingEffect

\* A request's step keeps the counters right.
LEMMA LockStep ==
    ASSUME LockInv, TypeInv', HandsMeet', NEW c \in Clients, OneMoves(c),
           \/ Reading(c) \/ Ending(c) \/ Committing(c) \/ CreateUser(c)
           \/ \E t \in Tokens : IssueToken(c, t)
    PROVE  LockInv'
<1>0. TypeInv /\ contended \subseteq contended' /\ MaxAttempts \in Nat \ {0}
  BY AccountsAssumption DEF LockInv, OneMoves
<1>1. ASSUME Committing(c) \/ CreateUser(c) PROVE contended' = contended
  BY <1>0, <1>1, CommittingRest, CreateEffect DEF history
<1>2. \A e \in Emails \ contended' :
          /\ account'[e] = Missing => streak'[e] = 0
          /\ account'[e] # Missing => account'[e].failed = streak'[e] /\ streak'[e] < MaxAttempts
  <2> SUFFICES ASSUME NEW e \in Emails, e \notin contended'
               PROVE  /\ account'[e] = Missing => streak'[e] = 0
                      /\ account'[e] # Missing =>
                             account'[e].failed = streak'[e] /\ streak'[e] < MaxAttempts
    OBVIOUS
  <2>1. e \notin contended
    BY <1>0
  <2>2. /\ account[e] = Missing => streak[e] = 0
        /\ account[e] # Missing => account[e].failed = streak[e] /\ streak[e] < MaxAttempts
    BY <2>1 DEF LockInv, LockoutCounts
  <2>3. CASE account'[e] = account[e] /\ streak'[e] = streak[e]
    BY <2>2, <2>3
  <2>4. CASE CreateUser(c) /\ e = who[c]
    <3>1. account[e] = Missing /\ account'[e].failed = 0 /\ streak'[e] = streak[e]
          /\ account'[e] \in Accounts
      BY <1>0, <2>4, CreateEffect DEF history
    <3> QED
      BY <1>0, <2>2, <3>1, AccountsAssumption
  <2>5. CASE Committing(c) /\ e = who[c] /\ pc[c] \in CountSteps
    <3>1. account'[e] \in Accounts
      BY <1>0, <2>5, CommittingColumns
    <3> QED
      BY <2>1, <2>5, <3>1, CountedCommit, AccountsAssumption
  <2>6. CASE Committing(c) /\ e = who[c] /\ pc[c] \notin CountSteps
    <3>1. streak'[e] = streak[e]
      BY <1>0, <2>6, CountersKept
    <3>2. /\ account[e] \in Accounts /\ account'[e] \in Accounts
          /\ account'[e].failed = account[e].failed
      BY <1>0, <2>6, CommittingColumns DEF CountSteps
    <3> QED
      BY <2>2, <3>1, <3>2, AccountsAssumption
  <2> QED
    BY <1>0, <2>3, <2>4, <2>5, <2>6, CountersKept
<1>3. \A d \in Clients : pc'[d] \in CountSteps /\ who'[d] \notin contended' =>
          seen'[d].failed = account'[who'[d]].failed
  <2> SUFFICES ASSUME NEW d \in Clients, pc'[d] \in CountSteps, who'[d] \notin contended'
               PROVE  seen'[d].failed = account'[who'[d]].failed
    OBVIOUS
  <2>1. CASE d = c
    BY <1>0, <2>1, CountSteppers
  <2>2. CASE d # c
    <3>1. /\ pc[d] \in CountSteps /\ who'[d] = who[d] /\ seen'[d] = seen[d]
          /\ who[d] \in Emails /\ who[d] \notin contended
      BY <1>0, <2>2 DEF OneMoves, OthersUntouched, TypeInv, HoldsWhatItNeeds, CountSteps
    <3>2. who[c] # who[d]
      BY <2>2, <3>1 DEF LockInv, HandsMeet
    <3>3. account'[who[d]] = account[who[d]]
      BY <1>0, <2>2, <3>1, <3>2, CountersKept
    <3> QED
      BY <3>1, <3>3 DEF LockInv
  <2> QED
    BY <2>1, <2>2
<1>4. LockoutCounts'
  BY <1>2 DEF LockoutCounts
<1> QED
  BY <1>2, <1>3, <1>4 DEF LockInv

\* While the requests of an account do not overlap, its counter is the number of
\* failed logins in a row, and it never reaches the limit without a lock.
THEOREM LockoutIsExact == Spec => []LockoutCounts
<1>1. ASSUME Init PROVE LockInv
  <2>1. TypeInv /\ HandsMeet /\ MaxAttempts \in Nat \ {0}
    BY <1>1, TypeInit, HandsInit, AccountsAssumption
  <2>2. \A e \in Emails : account[e] \in {LocalUser, Missing} /\ streak[e] = 0
    BY <1>1 DEF Init
  <2>3. \A e \in Emails : account[e] # Missing => account[e].failed = 0
    BY <2>2 DEF LocalUser
  <2>4. \A c \in Clients : pc[c] = "idle"
    BY <1>1 DEF Init
  <2> QED
    BY <2>1, <2>2, <2>3, <2>4 DEF LockInv, LockoutCounts, CountSteps
<1>2. ASSUME LockInv, [Next]_vars PROVE LockInv'
  <2>1. TypeInv' /\ HandsMeet'
    BY <1>2, TypeStep, HandsStep DEF LockInv
  <2>2. CASE Quiet
    <3>1. UNCHANGED <<pc, who, seen, streak, contended>>
      BY <2>2 DEF Quiet, locals, history
    <3>2. \A c \in Clients : pc[c] \in CountSteps => who[c] \in Emails
      BY <1>2 DEF LockInv, TypeInv, HoldsWhatItNeeds, CountSteps
    <3>3. \A c \in Clients : pc'[c] \in CountSteps /\ who'[c] \notin contended' =>
              seen'[c].failed = account'[who'[c]].failed
      BY <1>2, <2>2, <3>1, <3>2 DEF LockInv, Quiet
    <3>4. LockoutCounts'
      BY <1>2, <2>2, <3>1 DEF LockInv, Quiet, LockoutCounts
    <3>5. \A e \in Emails \ contended' : account'[e] = Missing => streak'[e] = 0
      BY <1>2, <2>2, <3>1 DEF LockInv, Quiet
    <3> QED
      BY <2>1, <3>3, <3>4, <3>5 DEF LockInv
  <2> QED
    BY <1>2, <2>1, <2>2, LockStep, MoveKinds DEF LockInv
<1>3. LockInv => LockoutCounts
  BY DEF LockInv
<1> QED
  BY <1>1, <1>2, <1>3, PTL DEF Spec
===============================================================================
