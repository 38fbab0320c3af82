-------------------------- MODULE AdministrationProofs --------------------------
(***************************************************************************)
(* Proofs about what superadmins administer: their own accounts and        *)
(* sessions (services/admin_accounts.py), seasons and their configuration  *)
(* (services/season_management.py, services/season_lifecycle.py), and the  *)
(* teams, players and leaders of a season (services/roster_management.py,  *)
(* services/leader_bindings.py), the imports of its schedule               *)
(* (services/schedule_imports_v3.py), the tasks in the inboxes of those    *)
(* who act on it (services/inbox_tasks.py), and the games that are put     *)
(* right after the fact (services/competition_corrections.py).  Each is a  *)
(* system of its own: that two instances have a variable of one name       *)
(* relates nothing.                                                        *)
(***************************************************************************)
EXTENDS AdminAccounts, Integers, FiniteSets, FiniteSetTheorems, TLAPS

(* A server is set up with a superadmin, and Nobody is not an account.      *)
Setup ==
  /\ IsFiniteSet(Accounts)
  /\ Founders \in (SUBSET Accounts) \ {{}}
  /\ Nobody \notin Accounts
  /\ MaxVersion \in Nat \ {0}

AccountRow == [role : {"USER", "ADMIN", "SUPERADMIN"}, active : BOOLEAN,
               version : 1 .. MaxVersion, password : 0 .. MaxVersion]
Session == [at : {"out", "checked", "open", "changing"},
            account : Accounts \cup {Nobody}, password : 0 .. MaxVersion]

(* A password is set at most once for every save of its account, and no     *)
(* session knows a later password than its account has.                     *)
PasswordsTrail ==
  /\ \A a \in Accounts : account[a].password <= account[a].version
  /\ \A b \in Browsers : browser[b].account \in Accounts =>
        browser[b].password <= account[browser[b].account].password

(* A session that was ended for its account knows an earlier password.      *)
RevokedTrail ==
  \A b \in revoked : /\ browser[b].account \in Accounts
                     /\ browser[b].password < account[browser[b].account].password

(* Whoever is logged in, commands or confirms a code is an account.         *)
ActorsExist ==
  /\ \A b \in Browsers : browser[b].at # "out" => browser[b].account \in Accounts
  /\ \A c \in Commands : command[c] # NoCommand => command[c].actor \in Accounts
  /\ challenge.status = "CONFIRMED" => challenge.account \in Accounts

IInv == TypeOK /\ SomeoneGoverns /\ PasswordsTrail /\ RevokedTrail /\ ActorsExist

-----------------------------------------------------------------------------
(* Somebody else remains of a set with more than one member.                *)
LEMMA SomebodyElse ==
  ASSUME NEW S, IsFiniteSet(S), ~ Cardinality(S) <= 1, NEW x
  PROVE  \E y \in S : y # x
<1>1. SUFFICES ASSUME \A y \in S : y = x PROVE FALSE
  OBVIOUS
<1>2. S \subseteq {x}
  BY <1>1
<1>3. IsFiniteSet({x}) /\ Cardinality({x}) = 1
  BY FS_Singleton
<1>4. Cardinality(S) <= 1
  BY <1>2, <1>3, FS_Subset
<1> QED
  BY <1>4

(* A save leaves the row given to it, one version on, and the other rows.   *)
LEMMA RowSaved ==
  ASSUME Setup, TypeOK, NEW a \in Accounts, Room(a),
         NEW row \in AccountRow, row.version = account[a].version
  PROVE  /\ Saved(a, row) \in [Accounts -> AccountRow]
         /\ Saved(a, row)[a].version = account[a].version + 1
         /\ Saved(a, row)[a].role = row.role
         /\ Saved(a, row)[a].active = row.active
         /\ Saved(a, row)[a].password = row.password
         /\ \A x \in Accounts : x # a => Saved(a, row)[x] = account[x]
<1>1. account \in [Accounts -> AccountRow]
  BY DEF TypeOK, AccountRow
<1>2. row.version + 1 \in 1 .. MaxVersion
  BY <1>1 DEF Room, Setup, AccountRow
<1> DEFINE next == [row EXCEPT !.version = row.version + 1]
<1>3. /\ next \in AccountRow
      /\ next.version = account[a].version + 1
      /\ next.role = row.role /\ next.active = row.active /\ next.password = row.password
  BY <1>2 DEF AccountRow
<1>4. Saved(a, row) = [account EXCEPT ![a] = next]
  BY DEF Saved
<1> HIDE DEF next
<1> QED
  BY <1>1, <1>3, <1>4

(* A new password is one set more, and touches nothing else of the account. *)
LEMMA PasswordSaved ==
  ASSUME Setup, TypeOK, PasswordsTrail, NEW a \in Accounts, Room(a)
  PROVE  /\ WithPassword(a) \in [Accounts -> AccountRow]
         /\ WithPassword(a)[a].version = account[a].version + 1
         /\ WithPassword(a)[a].role = account[a].role
         /\ WithPassword(a)[a].active = account[a].active
         /\ WithPassword(a)[a].password = account[a].password + 1
         /\ \A x \in Accounts : x # a => WithPassword(a)[x] = account[x]
<1> DEFINE row == [account[a] EXCEPT !.password = account[a].password + 1]
<1>1. account[a] \in AccountRow /\ account[a].password + 1 \in 0 .. MaxVersion
  BY DEF TypeOK, AccountRow, Room, Setup, PasswordsTrail
<1>2. /\ row \in AccountRow /\ row.version = account[a].version
      /\ row.role = account[a].role /\ row.active = account[a].active
      /\ row.password = account[a].password + 1
  BY <1>1 DEF AccountRow
<1>3. WithPassword(a) = Saved(a, row)
  BY DEF WithPassword
<1> HIDE DEF row
<1> QED
  BY <1>2, <1>3, RowSaved

(* Accounts that only gain versions and passwords leave the sessions where  *)
(* they were, and those that were ended stay ended.                         *)
LEMMA SavesKeepSessions ==
  ASSUME Setup, IInv, NEW a \in Accounts, Room(a),
         account' \in [Accounts -> AccountRow],
         account'[a].version = account[a].version + 1,
         account'[a].password \in {account[a].password, account[a].password + 1},
         \A x \in Accounts : x # a => account'[x] = account[x],
         UNCHANGED browser,
         NEW ended \in SUBSET {b \in Browsers : browser[b].account = a},
         ended # {} => account'[a].password = account[a].password + 1,
         revoked' = revoked \cup ended
  PROVE  PasswordsTrail' /\ RevokedTrail' /\ revoked' \subseteq Browsers
<1>1. /\ account \in [Accounts -> AccountRow] /\ browser \in [Browsers -> Session]
      /\ revoked \subseteq Browsers
  BY DEF IInv, TypeOK, AccountRow, Session
<1>2. \A x \in Accounts : /\ account[x].password \in Nat /\ account[x].version \in Nat
                          /\ account[x].password <= account'[x].password
                          /\ account'[x].password \in Nat
  BY <1>1 DEF AccountRow, Setup
<1>3. \A b \in Browsers : browser[b].password \in Nat
  BY <1>1 DEF Session, Setup
<1>4. \A x \in Accounts : account'[x].password <= account'[x].version
  BY <1>2 DEF IInv, PasswordsTrail
<1>5. PasswordsTrail'
  BY <1>2, <1>3, <1>4 DEF IInv, PasswordsTrail
<1>6. ASSUME NEW b \in revoked'
      PROVE  /\ browser[b].account \in Accounts
             /\ browser[b].password < account'[browser[b].account].password
  <2>1. CASE b \in revoked
    BY <1>1, <1>2, <1>3, <2>1 DEF IInv, RevokedTrail
  <2>2. CASE b \in ended
    <3>1. b \in Browsers /\ browser[b].account = a /\ browser[b].password <= account[a].password
      BY <2>2 DEF IInv, PasswordsTrail
    <3> QED
      BY <1>2, <1>3, <2>2, <3>1
  <2> QED
    BY <1>6, <2>1, <2>2
<1> QED
  BY <1>1, <1>5, <1>6 DEF RevokedTrail

-----------------------------------------------------------------------------
LEMMA InitIInv == ASSUME Setup PROVE Init => IInv
<1> SUFFICES ASSUME Init PROVE IInv
  OBVIOUS
<1> USE DEF Setup
<1>1. account \in [Accounts -> AccountRow]
  BY DEF Init, AccountRow
<1>2. browser \in [Browsers -> Session] /\ \A b \in Browsers : browser[b] = Out
  BY DEF Init, Out, Session
<1>3. TypeOK
  BY <1>1, <1>2 DEF TypeOK, Init, NoCode, NoCommand, AccountRow, Session
<1>4. SomeoneGoverns
  BY DEF SomeoneGoverns, Superadmins, Superadmin, Init
<1>5. PasswordsTrail /\ RevokedTrail
  BY <1>2 DEF PasswordsTrail, RevokedTrail, Init, Out
<1>6. ActorsExist
  BY <1>2 DEF ActorsExist, Init, Out, NoCode
<1> QED
  BY <1>3, <1>4, <1>5, <1>6 DEF IInv

-----------------------------------------------------------------------------
(* Steps that save an account.                                              *)
LEMMA RegisterIInv ==
  ASSUME Setup, IInv, NEW a \in Accounts, Register(a) PROVE IInv'
<1> DEFINE row == [account[a] EXCEPT !.role = "ADMIN", !.password = account[a].password + 1]
<1>1. account[a] \in AccountRow /\ account[a].password + 1 \in 0 .. MaxVersion
  BY DEF IInv, TypeOK, AccountRow, Register, Room, Setup, PasswordsTrail
<1>2. row \in AccountRow /\ row.version = account[a].version
      /\ row.password = account[a].password + 1
  BY <1>1 DEF AccountRow
<1>3. account' = Saved(a, row) /\ UNCHANGED <<browser, challenge, command, revoked>> /\ Room(a)
      /\ account[a].role = "USER"
  BY DEF Register
<1> HIDE DEF row
<1>4. /\ account' \in [Accounts -> AccountRow]
      /\ account'[a].version = account[a].version + 1
      /\ account'[a].password = account[a].password + 1
      /\ \A x \in Accounts : x # a => account'[x] = account[x]
  BY <1>2, <1>3, RowSaved DEF IInv
<1> DEFINE ended == {}
<1>10. /\ ended \in SUBSET {b \in Browsers : browser[b].account = a}
      /\ ended = {} /\ revoked' = revoked \cup ended
  BY <1>3
<1> HIDE DEF ended
<1>5. PasswordsTrail' /\ RevokedTrail' /\ revoked' \subseteq Browsers
  BY <1>3, <1>4, <1>10, SavesKeepSessions
<1>6. TypeOK'
  BY <1>3, <1>4 DEF IInv, TypeOK, AccountRow
<1>7. SomeoneGoverns'
  BY <1>3, <1>4 DEF IInv, SomeoneGoverns, Superadmins, Superadmin
<1>8. ActorsExist'
  BY <1>3 DEF IInv, ActorsExist
<1> QED
  BY <1>5, <1>6, <1>7, <1>8 DEF IInv

(* What the commands of superadmins have in common: one account is saved,   *)
(* the sessions ended are its own, and somebody governs still.              *)
LEMMA CommandIInv ==
  ASSUME Setup, IInv, NEW c \in Commands, NEW a \in Accounts, Room(a),
         account' \in [Accounts -> AccountRow],
         account'[a].version = account[a].version + 1,
         account'[a].password \in {account[a].password, account[a].password + 1},
         \A x \in Accounts : x # a => account'[x] = account[x],
         NEW ended \in SUBSET {b \in Browsers : browser[b].account = a},
         ended # {} => account'[a].password = account[a].password + 1,
         revoked' = revoked \cup ended,
         command' = [command EXCEPT ![c] = NoCommand],
         UNCHANGED <<browser, challenge>>,
         SomeoneGoverns'
  PROVE  IInv'
<1>1. PasswordsTrail' /\ RevokedTrail' /\ revoked' \subseteq Browsers
  BY SavesKeepSessions
<1>2. command' \in [Commands -> [actor : Accounts \cup {Nobody}, version : 0 .. MaxVersion]]
  BY DEF IInv, TypeOK, NoCommand, Setup
<1>3. TypeOK'
  BY <1>1, <1>2 DEF IInv, TypeOK, AccountRow
<1>4. ActorsExist'
  BY DEF IInv, TypeOK, ActorsExist
<1> QED
  BY <1>1, <1>3, <1>4 DEF IInv

LEMMA RunCommandIInv ==
  ASSUME Setup, IInv, NEW c \in Commands, RunCommand(c) PROVE IInv'
<1>1. account \in [Accounts -> AccountRow]
  BY DEF IInv, TypeOK, AccountRow
<1>2. command' = [command EXCEPT ![c] = NoCommand] /\ UNCHANGED <<browser, challenge>>
  BY DEF RunCommand
<1>3. CASE \E a \in Accounts : Promote(c, a)
  <2>1. PICK a \in Accounts : Promote(c, a)
    BY <1>3
  <2> DEFINE row == [account[a] EXCEPT !.role = "SUPERADMIN"]
  <2>2. row \in AccountRow /\ row.version = account[a].version
        /\ row.password = account[a].password /\ row.active = account[a].active
        /\ row.role = "SUPERADMIN"
    BY <1>1 DEF AccountRow
  <2>3. account' = Saved(a, row) /\ UNCHANGED revoked /\ Room(a) /\ account[a].active
    BY <2>1 DEF Promote
  <2> HIDE DEF row
  <2>4. /\ account' \in [Accounts -> AccountRow]
        /\ account'[a].version = account[a].version + 1
        /\ account'[a].password = account[a].password
        /\ account'[a].role = "SUPERADMIN" /\ account'[a].active
        /\ \A x \in Accounts : x # a => account'[x] = account[x]
    BY <2>2, <2>3, RowSaved DEF IInv
  <2>5. SomeoneGoverns'
    BY <2>4 DEF SomeoneGoverns, Superadmins, Superadmin
  <2> DEFINE ended == {}
  <2>8. /\ ended \in SUBSET {b \in Browsers : browser[b].account = a}
        /\ ended = {} /\ revoked' = revoked \cup ended
    BY <2>3
  <2> HIDE DEF ended
  <2> QED
    BY <1>2, <2>3, <2>4, <2>5, <2>8, CommandIInv
<1>4. CASE \E a \in Accounts : Demote(c, a)
  <2>1. PICK a \in Accounts : Demote(c, a)
    BY <1>4
  <2> DEFINE row == [account[a] EXCEPT !.role = "ADMIN"]
  <2>2. row \in AccountRow /\ row.version = account[a].version
        /\ row.password = account[a].password
    BY <1>1 DEF AccountRow
  <2>3. account' = Saved(a, row) /\ UNCHANGED revoked /\ Room(a)
    BY <2>1 DEF Demote
  <2> HIDE DEF row
  <2>4. /\ account' \in [Accounts -> AccountRow]
        /\ account'[a].version = account[a].version + 1
        /\ account'[a].password = account[a].password
        /\ \A x \in Accounts : x # a => account'[x] = account[x]
    BY <2>2, <2>3, RowSaved DEF IInv
  <2>5. command[c].actor \in Accounts /\ command[c].actor # a /\ Superadmin(command[c].actor)
    BY <2>1 DEF Demote, ActorStands, IInv, ActorsExist
  <2>6. SomeoneGoverns'
    BY <2>4, <2>5 DEF SomeoneGoverns, Superadmins, Superadmin
  <2> DEFINE ended == {}
  <2>8. /\ ended \in SUBSET {b \in Browsers : browser[b].account = a}
        /\ ended = {} /\ revoked' = revoked \cup ended
    BY <2>3
  <2> HIDE DEF ended
  <2> QED
    BY <1>2, <2>3, <2>4, <2>6, <2>8, CommandIInv
<1>5. CASE \E a \in Accounts : SetActive(c, a)
  <2>1. PICK a \in Accounts : SetActive(c, a)
    BY <1>5
  <2> DEFINE row == [account[a] EXCEPT !.active = ~account[a].active]
  <2>2. row \in AccountRow /\ row.version = account[a].version
        /\ row.password = account[a].password
    BY <1>1 DEF AccountRow
  <2>3. account' = Saved(a, row) /\ UNCHANGED revoked /\ Room(a)
        /\ (Superadmin(a) => ~LastSuperadmin)
    BY <2>1 DEF SetActive
  <2> HIDE DEF row
  <2>4. /\ account' \in [Accounts -> AccountRow]
        /\ account'[a].version = account[a].version + 1
        /\ account'[a].password = account[a].password
        /\ \A x \in Accounts : x # a => account'[x] = account[x]
    BY <2>2, <2>3, RowSaved DEF IInv
  <2>5. IsFiniteSet(Superadmins) /\ Superadmins # {}
    BY FS_Subset DEF Setup, Superadmins, IInv, SomeoneGoverns
  <2>6. \E x \in Superadmins : x # a
    BY <2>3, <2>5, SomebodyElse DEF LastSuperadmin, Superadmins
  <2>7. SomeoneGoverns'
    BY <2>4, <2>6 DEF SomeoneGoverns, Superadmins, Superadmin
  <2> DEFINE ended == {}
  <2>8. /\ ended \in SUBSET {b \in Browsers : browser[b].account = a}
        /\ ended = {} /\ revoked' = revoked \cup ended
    BY <2>3
  <2> HIDE DEF ended
  <2> QED
    BY <1>2, <2>3, <2>4, <2>7, <2>8, CommandIInv
<1>6. CASE \E a \in Accounts : ResetPassword(c, a)
  <2>1. PICK a \in Accounts : ResetPassword(c, a)
    BY <1>6
  <2>2. account' = WithPassword(a) /\ revoked' = revoked \cup SessionsOf(a) /\ Room(a)
    BY <2>1 DEF ResetPassword
  <2>3. /\ account' \in [Accounts -> AccountRow]
        /\ account'[a].version = account[a].version + 1
        /\ account'[a].password = account[a].password + 1
        /\ account'[a].role = account[a].role /\ account'[a].active = account[a].active
        /\ \A x \in Accounts : x # a => account'[x] = account[x]
    BY <2>2, PasswordSaved DEF IInv
  <2>4. SomeoneGoverns'
    BY <2>3 DEF IInv, SomeoneGoverns, Superadmins, Superadmin
  <2>5. SessionsOf(a) \in SUBSET {b \in Browsers : browser[b].account = a}
    BY DEF SessionsOf
  <2> QED
    BY <1>2, <2>2, <2>3, <2>4, <2>5, CommandIInv
<1>7. CASE Refused(c)
  <2>1. UNCHANGED <<account, revoked, browser, challenge>>
    BY <1>2, <1>7 DEF Refused
  <2>2. TypeOK'
    BY <1>2, <2>1 DEF IInv, TypeOK, NoCommand, Setup
  <2>3. SomeoneGoverns' /\ PasswordsTrail' /\ RevokedTrail'
    BY <2>1 DEF IInv, SomeoneGoverns, Superadmins, Superadmin, PasswordsTrail, RevokedTrail
  <2>4. ActorsExist'
    BY <1>2, <2>1 DEF IInv, TypeOK, ActorsExist
  <2> QED
    BY <2>2, <2>3, <2>4 DEF IInv
<1> QED
  BY <1>3, <1>4, <1>5, <1>6, <1>7 DEF RunCommand

(* The session that changed its own password was not an ended one, and      *)
(* knows the new one.                                                       *)
LEMMA ChangePasswordIInv ==
  ASSUME Setup, IInv, NEW b \in Browsers, ChangePassword(b) PROVE IInv'
<1> DEFINE a == browser[b].account
<1>1. /\ account \in [Accounts -> AccountRow] /\ browser \in [Browsers -> Session]
      /\ revoked \subseteq Browsers /\ browser[b].at = "changing" /\ a \in Accounts
      /\ UNCHANGED <<challenge, command>>
  BY DEF ChangePassword, IInv, TypeOK, ActorsExist, AccountRow, Session
<1>2. CASE StillCurrent(b) /\ Room(a)
  <2>1. /\ account' = WithPassword(a)
        /\ browser' = [browser EXCEPT ![b].at = "open", ![b].password = account'[a].password]
        /\ revoked' = revoked \cup (SessionsOf(a) \ {b})
    BY <1>2 DEF ChangePassword
  <2>2. /\ account' \in [Accounts -> AccountRow]
        /\ account'[a].version = account[a].version + 1
        /\ account'[a].password = account[a].password + 1
        /\ account'[a].role = account[a].role /\ account'[a].active = account[a].active
        /\ \A x \in Accounts : x # a => account'[x] = account[x]
    BY <1>1, <1>2, <2>1, PasswordSaved DEF IInv
  <2>3. account'[a].password \in 0 .. MaxVersion
    BY <1>1, <2>2 DEF AccountRow
  <2>4. /\ browser' \in [Browsers -> Session]
        /\ browser'[b].account = a /\ browser'[b].password = account'[a].password
        /\ \A x \in Browsers : x # b => browser'[x] = browser[x]
    BY <1>1, <2>1, <2>3 DEF Session
  <2>5. \A x \in Accounts : /\ account[x].password \in Nat /\ account[x].version \in Nat
                            /\ account'[x].password \in Nat
                            /\ account[x].password <= account'[x].password
    BY <1>1, <2>2 DEF AccountRow, Setup
  <2>6. \A x \in Browsers : browser[x].password \in Nat /\ browser'[x].account = browser[x].account
    BY <1>1, <2>4 DEF Session, Setup
  <2>7. PasswordsTrail'
    <3>1. \A x \in Accounts : account'[x].password <= account'[x].version
      BY <2>2, <2>5 DEF IInv, PasswordsTrail
    <3>2. ASSUME NEW x \in Browsers, browser'[x].account \in Accounts
          PROVE  browser'[x].password <= account'[browser'[x].account].password
      <4>1. CASE x = b
        BY <1>1, <2>4, <2>5, <4>1
      <4>2. CASE x # b
        BY <2>4, <2>5, <2>6, <3>2, <4>2 DEF IInv, PasswordsTrail
      <4> QED
        BY <4>1, <4>2
    <3> QED
      BY <3>1, <3>2 DEF PasswordsTrail
  <2>8. b \notin revoked
    BY <1>1, <1>2, <2>5, <2>6 DEF IInv, RevokedTrail, StillCurrent
  <2>9. RevokedTrail'
    <3>1. ASSUME NEW x \in revoked'
          PROVE  /\ browser'[x].account \in Accounts
                 /\ browser'[x].password < account'[browser'[x].account].password
      <4>1. x \in Browsers /\ x # b /\ (x \in revoked \/ browser[x].account = a)
        BY <1>1, <2>1, <2>8, <3>1 DEF SessionsOf
      <4>2. CASE x \in revoked
        BY <2>4, <2>5, <2>6, <4>1, <4>2 DEF IInv, RevokedTrail
      <4>3. CASE browser[x].account = a
        BY <1>1, <2>2, <2>4, <2>5, <2>6, <4>1, <4>3 DEF IInv, PasswordsTrail
      <4> QED
        BY <4>1, <4>2, <4>3
    <3> QED
      BY <3>1 DEF RevokedTrail
  <2>10. TypeOK'
    BY <1>1, <2>1, <2>2, <2>4 DEF IInv, TypeOK, AccountRow, Session, SessionsOf
  <2>11. SomeoneGoverns'
    BY <2>2 DEF IInv, SomeoneGoverns, Superadmins, Superadmin
  <2>12. ActorsExist'
    BY <1>1, <2>4, <2>6 DEF IInv, ActorsExist
  <2> QED
    BY <2>7, <2>9, <2>10, <2>11, <2>12 DEF IInv
<1>3. CASE ~(StillCurrent(b) /\ Room(a))
  <2>1. browser' = [browser EXCEPT ![b].at = "open"] /\ UNCHANGED <<account, revoked>>
    BY <1>3 DEF ChangePassword
  <2>2. /\ browser' \in [Browsers -> Session]
        /\ \A x \in Browsers : /\ browser'[x].account = browser[x].account
                               /\ browser'[x].password = browser[x].password
                               /\ x # b => browser'[x].at = browser[x].at
    BY <1>1, <2>1 DEF Session
  <2>3. TypeOK'
    BY <1>1, <2>1, <2>2 DEF IInv, TypeOK, Session
  <2>4. SomeoneGoverns' /\ PasswordsTrail' /\ RevokedTrail'
    BY <1>1, <2>1, <2>2
       DEF IInv, SomeoneGoverns, Superadmins, Superadmin, PasswordsTrail, RevokedTrail
  <2>5. ActorsExist'
    BY <1>1, <2>2 DEF IInv, ActorsExist
  <2> QED
    BY <2>3, <2>4, <2>5 DEF IInv
<1> QED
  BY <1>2, <1>3

-----------------------------------------------------------------------------
(* Steps that save no account.                                              *)
LEMMA LoginIInv ==
  ASSUME Setup, IInv, NEW b \in Browsers, NEW a \in Accounts, Admin(a),
         browser' = [browser EXCEPT ![b] = Entering(b, a)],
         revoked' = revoked \ {b},
         challenge' \in {challenge, NoCode}, UNCHANGED <<account, command>>
  PROVE  IInv'
<1>1. /\ account \in [Accounts -> AccountRow] /\ browser \in [Browsers -> Session]
      /\ revoked \subseteq Browsers
  BY DEF IInv, TypeOK, AccountRow, Session
<1>2. /\ Entering(b, a) \in Session /\ Entering(b, a).account = a
      /\ Entering(b, a).password = account[a].password
  BY <1>1 DEF Entering, Session, AccountRow
<1>3. /\ browser' \in [Browsers -> Session] /\ browser'[b] = Entering(b, a)
      /\ \A x \in Browsers : x # b => browser'[x] = browser[x]
  BY <1>1, <1>2
<1>4. account[a].password \in Nat
  BY <1>1 DEF AccountRow, Setup
<1>5. TypeOK'
  BY <1>1, <1>3 DEF IInv, TypeOK, Session, NoCode
<1>6. SomeoneGoverns'
  BY DEF IInv, SomeoneGoverns, Superadmins, Superadmin
<1>7. PasswordsTrail'
  BY <1>2, <1>3, <1>4 DEF IInv, PasswordsTrail
<1>8. RevokedTrail'
  BY <1>1, <1>3 DEF IInv, RevokedTrail
<1>9. ActorsExist'
  BY <1>2, <1>3 DEF IInv, ActorsExist, NoCode
<1> QED
  BY <1>5, <1>6, <1>7, <1>8, <1>9 DEF IInv

LEMMA SessionIInv ==
  ASSUME Setup, IInv, NEW b \in Browsers,
         \/ ShowCode(b) \/ ConsumeCode(b) \/ OpenSession(b) \/ Logout(b) \/ StartChange(b)
         \/ \E a \in Accounts : LoginByPassword(b, a)
  PROVE  IInv'
<1>1. /\ account \in [Accounts -> AccountRow] /\ browser \in [Browsers -> Session]
      /\ revoked \subseteq Browsers
  BY DEF IInv, TypeOK, AccountRow, Session
<1>2. CASE ShowCode(b)
  <2>1. UNCHANGED <<account, browser, command, revoked>>
        /\ challenge' = [status |-> "PENDING", browser |-> b, account |-> Nobody]
    BY <1>2 DEF ShowCode
  <2>2. TypeOK'
    BY <2>1 DEF IInv, TypeOK
  <2>3. SomeoneGoverns' /\ PasswordsTrail' /\ RevokedTrail'
    BY <2>1 DEF IInv, SomeoneGoverns, Superadmins, Superadmin, PasswordsTrail, RevokedTrail
  <2>4. ActorsExist'
    BY <2>1 DEF IInv, ActorsExist
  <2> QED
    BY <2>2, <2>3, <2>4 DEF IInv
<1>3. CASE ConsumeCode(b)
  <2>1. /\ challenge.account \in Accounts /\ challenge' = NoCode /\ revoked' = revoked \ {b}
        /\ UNCHANGED <<account, command>>
    BY <1>3 DEF ConsumeCode, IInv, ActorsExist
  <2>2. CASE Admin(challenge.account)
    <3>1. browser' = [browser EXCEPT ![b] = Entering(b, challenge.account)]
      BY <1>3, <2>2 DEF ConsumeCode
    <3> QED
      BY <2>1, <2>2, <3>1, LoginIInv
  <2>3. CASE ~Admin(challenge.account)
    <3>1. UNCHANGED browser
      BY <1>3, <2>3 DEF ConsumeCode
    <3>2. TypeOK'
      BY <2>1, <3>1 DEF IInv, TypeOK, NoCode
    <3>3. SomeoneGoverns' /\ PasswordsTrail' /\ RevokedTrail'
      BY <2>1, <3>1 DEF IInv, SomeoneGoverns, Superadmins, Superadmin, PasswordsTrail, RevokedTrail
    <3>4. ActorsExist'
      BY <2>1, <3>1 DEF IInv, ActorsExist, NoCode
    <3> QED
      BY <3>2, <3>3, <3>4 DEF IInv
  <2> QED
    BY <2>2, <2>3
<1>4. CASE OpenSession(b) \/ StartChange(b)
  <2>1. PICK at \in {"open", "changing"} :
          /\ browser[b].at # "out" /\ browser' = [browser EXCEPT ![b].at = at]
          /\ UNCHANGED <<account, challenge, command, revoked>>
    BY <1>4 DEF OpenSession, StartChange
  <2>2. /\ browser' \in [Browsers -> Session]
        /\ \A x \in Browsers : /\ browser'[x].account = browser[x].account
                               /\ browser'[x].password = browser[x].password
                               /\ x # b => browser'[x].at = browser[x].at
    BY <1>1, <2>1 DEF Session
  <2>3. TypeOK'
    BY <1>1, <2>1, <2>2 DEF IInv, TypeOK, Session
  <2>4. SomeoneGoverns' /\ PasswordsTrail' /\ RevokedTrail'
    BY <1>1, <2>1, <2>2
       DEF IInv, SomeoneGoverns, Superadmins, Superadmin, PasswordsTrail, RevokedTrail
  <2>5. ActorsExist'
    BY <2>1, <2>2 DEF IInv, ActorsExist
  <2> QED
    BY <2>3, <2>4, <2>5 DEF IInv
<1>5. CASE Logout(b)
  <2>1. /\ browser' = [browser EXCEPT ![b] = Out] /\ revoked' = revoked \ {b}
        /\ UNCHANGED <<account, challenge, command>>
    BY <1>5 DEF Logout
  <2>2. Out \in Session /\ Out.account = Nobody /\ Out.at = "out"
    BY DEF Out, Session, Setup
  <2>3. /\ browser' \in [Browsers -> Session] /\ browser'[b] = Out
        /\ \A x \in Browsers : x # b => browser'[x] = browser[x]
    BY <1>1, <2>1, <2>2
  <2>4. TypeOK'
    BY <1>1, <2>1, <2>3 DEF IInv, TypeOK, Session
  <2>5. SomeoneGoverns'
    BY <2>1 DEF IInv, SomeoneGoverns, Superadmins, Superadmin
  <2>6. PasswordsTrail'
    BY <2>1, <2>2, <2>3 DEF IInv, PasswordsTrail, Setup
  <2>7. RevokedTrail'
    BY <1>1, <2>1, <2>3 DEF IInv, RevokedTrail
  <2>8. ActorsExist'
    BY <2>1, <2>2, <2>3 DEF IInv, ActorsExist
  <2> QED
    BY <2>4, <2>5, <2>6, <2>7, <2>8 DEF IInv
<1>6. CASE \E a \in Accounts : LoginByPassword(b, a)
  <2>1. PICK a \in Accounts : LoginByPassword(b, a)
    BY <1>6
  <2> QED
    BY <2>1, LoginIInv DEF LoginByPassword
<1> QED
  BY <1>2, <1>3, <1>4, <1>5, <1>6

LEMMA CodeIInv ==
  ASSUME Setup, IInv, CodeExpires \/ \E a \in Accounts : ConfirmCode(a)
  PROVE  IInv'
<1>1. /\ UNCHANGED <<account, browser, command, revoked>>
      /\ challenge' \in [status : {"NONE", "PENDING", "CONFIRMED"},
                         browser : Browsers \cup {Nobody}, account : Accounts \cup {Nobody}]
      /\ challenge'.status = "CONFIRMED" => challenge'.account \in Accounts
  <2>1. CASE CodeExpires
    BY <2>1 DEF CodeExpires, NoCode
  <2>2. CASE \E a \in Accounts : ConfirmCode(a)
    <3>1. PICK a \in Accounts : ConfirmCode(a)
      BY <2>2
    <3>2. challenge' = [challenge EXCEPT !.status = "CONFIRMED", !.account = a]
      BY <3>1 DEF ConfirmCode
    <3> QED
      BY <3>1, <3>2 DEF ConfirmCode, IInv, TypeOK
  <2> QED
    BY <2>1, <2>2
<1>2. TypeOK'
  BY <1>1 DEF IInv, TypeOK
<1>3. SomeoneGoverns' /\ PasswordsTrail' /\ RevokedTrail'
  BY <1>1 DEF IInv, SomeoneGoverns, Superadmins, Superadmin, PasswordsTrail, RevokedTrail
<1>4. ActorsExist'
  BY <1>1 DEF IInv, ActorsExist
<1> QED
  BY <1>2, <1>3, <1>4 DEF IInv

LEMMA AuthenticateIInv ==
  ASSUME Setup, IInv, NEW c \in Commands, NEW b \in Browsers, Authenticate(c, b)
  PROVE  IInv'
<1> DEFINE a == browser[b].account
<1>1. a \in Accounts /\ account[a].version \in 0 .. MaxVersion
  BY DEF Authenticate, IInv, ActorsExist, TypeOK, Setup
<1>2. /\ UNCHANGED <<account, browser, challenge, revoked>>
      /\ command' = [command EXCEPT ![c] = [actor |-> a, version |-> account[a].version]]
  BY DEF Authenticate
<1> HIDE DEF a
<1>3. TypeOK'
  BY <1>1, <1>2 DEF IInv, TypeOK
<1>4. SomeoneGoverns' /\ PasswordsTrail' /\ RevokedTrail'
  BY <1>2 DEF IInv, SomeoneGoverns, Superadmins, Superadmin, PasswordsTrail, RevokedTrail
<1>5. ActorsExist'
  BY <1>1, <1>2 DEF IInv, TypeOK, ActorsExist
<1> QED
  BY <1>3, <1>4, <1>5 DEF IInv

LEMMA NextIInv == ASSUME Setup PROVE IInv /\ [Next]_vars => IInv'
<1> SUFFICES ASSUME IInv, [Next]_vars PROVE IInv'
  OBVIOUS
<1>1. CASE \E a \in Accounts : Register(a)
  BY <1>1, RegisterIInv
<1>2. CASE CodeExpires \/ \E a \in Accounts : ConfirmCode(a)
  BY <1>2, CodeIInv
<1>3. CASE \E c \in Commands : AccountCommand(c)
  BY <1>3, RunCommandIInv, AuthenticateIInv DEF AccountCommand
<1>4. CASE \E b \in Browsers :
             \/ ShowCode(b) \/ ConsumeCode(b) \/ OpenSession(b) \/ Logout(b) \/ StartChange(b)
             \/ \E a \in Accounts : LoginByPassword(b, a)
  BY <1>4, SessionIInv
<1>5. CASE \E b \in Browsers : ChangePassword(b)
  BY <1>5, ChangePasswordIInv
<1>6. CASE UNCHANGED vars
  BY <1>6 DEF vars, IInv, TypeOK, SomeoneGoverns, Superadmins, Superadmin,
              PasswordsTrail, RevokedTrail, ActorsExist
<1> QED
  BY <1>1, <1>2, <1>3, <1>4, <1>5, <1>6 DEF Next

(* Superadmins demote, suspend and reset each other in any order, on any    *)
(* number of accounts: one of them always governs, and no session that a    *)
(* change by another ended works again (superadmin_command_lock,            *)
(* lock_current_superadmin_actor and the last-superadmin check of           *)
(* services/admin_accounts.py; change_password of api_auth.py).             *)
THEOREM GovernedCorrect == Setup /\ Spec => [](TypeOK /\ AccountsAreGoverned)
<1>1. Setup /\ IInv => TypeOK /\ AccountsAreGoverned
  <2> SUFFICES ASSUME Setup, IInv PROVE AccountsAreGoverned
    BY DEF IInv
  <2>1. ASSUME NEW b \in revoked PROVE ~Good(b)
    <3>1. /\ b \in Browsers /\ browser[b].account \in Accounts
          /\ browser[b].password < account[browser[b].account].password
      BY DEF IInv, TypeOK, RevokedTrail
    <3>2. browser[b].password \in Nat /\ account[browser[b].account].password \in Nat
      BY <3>1 DEF IInv, TypeOK, Setup
    <3> QED
      BY <3>1, <3>2 DEF Good
  <2> QED
    BY <2>1 DEF IInv, AccountsAreGoverned, RevokedForGood
<1>2. Setup /\ Init => IInv
  BY InitIInv
<1>3. (Setup /\ IInv) /\ [Next]_vars => (Setup /\ IInv)'
  <2>1. Setup => Setup'
    BY DEF Setup
  <2> QED
    BY <2>1, NextIInv
<1> QED
  BY <1>1, <1>2, <1>3, PTL DEF Spec

-----------------------------------------------------------------------------
(* Seasons, their configuration, publication and archival. *)
CONSTANTS Seasons, Divisions, Venues, Configurations, DivisionsOf, VenuesOf, Default, Flows,
          NoSeason, NoVenue, NoToken
VARIABLES season, divisions, scheduled, venues, flow, shown

Lifecycle == INSTANCE SeasonSetup

(* Configurations ask for divisions and courts there are. *)
SeasonAssumptions ==
  /\ Default \in Configurations
  /\ DivisionsOf \in [Configurations -> SUBSET Divisions]
  /\ VenuesOf \in [Configurations -> SUBSET Venues]
  /\ NoSeason \notin Seasons /\ MaxVersion \in Nat \ {0}

FlowRow ==
  [season : Seasons \cup {NoSeason}, at : {"idle", "checked", "active"},
   venue : Venues \cup {NoVenue}]

(* Flows are of seasons that exist, and seasons still to come have nothing *)
(* scheduled.                                                              *)
CreatedInUse ==
  /\ \A s \in Seasons : season[s].status # "NONE" => season[s].version >= 1
  /\ \A s \in Seasons : season[s].status = "NONE" => scheduled[s] = {}
  /\ \A f \in Flows : flow[f].at # "idle" =>
       flow[f].season \in Seasons /\ season[flow[f].season].status # "NONE"

SeasonInv == Lifecycle!TypeOK /\ CreatedInUse /\ Lifecycle!InUseIsKept

LEMMA SeasonParts ==
  ASSUME SeasonAssumptions, Lifecycle!TypeOK
  PROVE  /\ season \in [Seasons -> [status : Lifecycle!Statuses, version : 0 .. MaxVersion]]
         /\ divisions \in [Seasons -> SUBSET Divisions]
         /\ scheduled \in [Seasons -> SUBSET Divisions]
         /\ venues \in [Seasons -> SUBSET Venues]
         /\ flow \in [Flows -> FlowRow]
         /\ Lifecycle!NoFlow \in FlowRow
  BY DEF Lifecycle!TypeOK, FlowRow, Lifecycle!NoFlow

LEMMA CreationKeeps ==
  ASSUME SeasonAssumptions, SeasonInv, NEW s \in Seasons,
         NEW template \in Lifecycle!Created \cup {NoSeason}, Lifecycle!CreateSeason(s, template)
  PROVE  SeasonInv'
  <1> DEFINE row == [status |-> "SETUP", version |-> 1]
  <1>1. /\ season[s].status = "NONE" /\ season' = [season EXCEPT ![s] = row]
        /\ divisions' = [divisions EXCEPT ![s] = Lifecycle!CopiedDivisions(template)]
        /\ venues' = [venues EXCEPT ![s] = Lifecycle!CopiedVenues(template)]
        /\ UNCHANGED <<scheduled, flow, shown>>
    BY DEF Lifecycle!CreateSeason
  <1>2. /\ Lifecycle!CopiedDivisions(template) \in SUBSET Divisions
        /\ Lifecycle!CopiedVenues(template) \in SUBSET Venues
    BY SeasonParts DEF SeasonInv, SeasonAssumptions, Lifecycle!CopiedDivisions,
       Lifecycle!CopiedVenues, Lifecycle!Created
  <1>3. row \in [status : Lifecycle!Statuses, version : 0 .. MaxVersion]
    BY DEF SeasonAssumptions, Lifecycle!Statuses
  <1>4. /\ season'[s].status = "SETUP" /\ season'[s].version = 1
        /\ \A t \in Seasons \ {s} : /\ season'[t] = season[t] /\ divisions'[t] = divisions[t]
                                    /\ venues'[t] = venues[t]
    BY <1>1, SeasonParts DEF SeasonInv
  <1> HIDE DEF row
  <1>5. Lifecycle!TypeOK'
    <2>1. /\ season' \in [Seasons -> [status : Lifecycle!Statuses, version : 0 .. MaxVersion]]
          /\ divisions' \in [Seasons -> SUBSET Divisions]
          /\ venues' \in [Seasons -> SUBSET Venues]
      BY <1>1, <1>2, <1>3, SeasonParts DEF SeasonInv
    <2>q. QED BY <1>1, <2>1 DEF SeasonInv, Lifecycle!TypeOK, Lifecycle!Statuses
  <1>6. CreatedInUse'
    BY <1>1, <1>4 DEF SeasonInv, CreatedInUse
  <1>7. Lifecycle!InUseIsKept'
    BY <1>1, <1>4 DEF SeasonInv, CreatedInUse, Lifecycle!InUseIsKept
  <1>q. QED BY <1>5, <1>6, <1>7 DEF SeasonInv

(* Commands that raise the version of a season in use. *)
LEMMA CommandKeeps ==
  ASSUME SeasonAssumptions, SeasonInv, NEW s \in Seasons, season[s].status # "NONE",
         NEW status \in {season[s].status, "PUBLISHED", "ARCHIVED"}, season[s].version < MaxVersion,
         season' = [season EXCEPT ![s] = [status |-> status, version |-> season[s].version + 1]],
         \/ status # "PUBLISHED" \/ season[s].status = "PUBLISHED"
         \/ \A t \in Seasons \ {s} : season[t].status # "PUBLISHED",
         UNCHANGED shown
  PROVE  /\ season' \in [Seasons -> [status : Lifecycle!Statuses, version : 0 .. MaxVersion]]
         /\ \A t \in Seasons : /\ season'[t].status # "NONE" => season'[t].version >= 1
                               /\ season'[t].status = "NONE" <=> season[t].status = "NONE"
         /\ \A t, u \in Seasons : season'[t].status = "PUBLISHED" /\ season'[u].status = "PUBLISHED"
                                    => t = u
  <1>1. season \in [Seasons -> [status : Lifecycle!Statuses, version : 0 .. MaxVersion]]
    BY SeasonParts DEF SeasonInv
  <1>2. season[s].version + 1 \in 0 .. MaxVersion /\ season[s].version + 1 >= 1
    BY <1>1 DEF SeasonAssumptions
  <1> DEFINE row == [status |-> status, version |-> season[s].version + 1]
  <1>3. /\ row \in [status : Lifecycle!Statuses, version : 0 .. MaxVersion]
        /\ row.status = status /\ row.version >= 1
    BY <1>1, <1>2 DEF Lifecycle!Statuses
  <1> HIDE DEF row
  <1>4. season' = [season EXCEPT ![s] = row]
    BY DEF row
  <1>5. season'[s] = row /\ \A t \in Seasons \ {s} : season'[t] = season[t]
    BY <1>1, <1>4
  <1>6. season' \in [Seasons -> [status : Lifecycle!Statuses, version : 0 .. MaxVersion]]
    BY <1>1, <1>3, <1>4
  <1>7. \A t \in Seasons : /\ season'[t].status # "NONE" => season'[t].version >= 1
                           /\ season'[t].status = "NONE" <=> season[t].status = "NONE"
    BY <1>3, <1>5 DEF SeasonInv, CreatedInUse
  <1>8. ASSUME NEW t \in Seasons, NEW u \in Seasons, season'[t].status = "PUBLISHED",
               season'[u].status = "PUBLISHED"
        PROVE  t = u
    BY <1>3, <1>5, <1>8 DEF SeasonInv, Lifecycle!InUseIsKept
  <1>q. QED BY <1>6, <1>7, <1>8

LEMMA ScheduleKeeps ==
  ASSUME SeasonAssumptions, SeasonInv, NEW s \in Seasons, NEW d \in Divisions,
         Lifecycle!Schedule(s, d)
  PROVE  SeasonInv'
  <1>1. /\ season[s].status # "NONE" /\ season[s].version < MaxVersion /\ d \in divisions[s]
        /\ scheduled' = [scheduled EXCEPT ![s] = scheduled[s] \cup {d}]
        /\ UNCHANGED <<divisions, venues, flow, shown>>
    BY DEF Lifecycle!Schedule
  <1>2. season' = [season EXCEPT ![s] = [status |-> season[s].status,
                                         version |-> season[s].version + 1]]
    <2>1. season[s] \in [status : Lifecycle!Statuses, version : 0 .. MaxVersion]
      BY SeasonParts DEF SeasonInv
    <2>2. [season[s] EXCEPT !.version = season[s].version + 1]
            = [status |-> season[s].status, version |-> season[s].version + 1]
      BY <2>1
    <2>3. season' = [season EXCEPT ![s] = [season[s] EXCEPT !.version = season[s].version + 1]]
      BY DEF Lifecycle!Schedule
    <2>q. QED BY <2>2, <2>3
  <1>3. /\ season' \in [Seasons -> [status : Lifecycle!Statuses, version : 0 .. MaxVersion]]
        /\ \A t \in Seasons : /\ season'[t].status # "NONE" => season'[t].version >= 1
                              /\ season'[t].status = "NONE" <=> season[t].status = "NONE"
        /\ \A t, u \in Seasons : season'[t].status = "PUBLISHED" /\ season'[u].status = "PUBLISHED"
                                   => t = u
    BY <1>1, <1>2, CommandKeeps
  <1>4. /\ scheduled' \in [Seasons -> SUBSET Divisions]
        /\ scheduled'[s] = scheduled[s] \cup {d}
        /\ \A t \in Seasons \ {s} : scheduled'[t] = scheduled[t]
    BY <1>1, SeasonParts DEF SeasonInv
  <1>5. Lifecycle!TypeOK'
    BY <1>1, <1>3, <1>4 DEF SeasonInv, Lifecycle!TypeOK, Lifecycle!Statuses
  <1>6. CreatedInUse'
    BY <1>1, <1>3, <1>4 DEF SeasonInv, CreatedInUse
  <1>7. Lifecycle!InUseIsKept'
    BY <1>1, <1>3, <1>4 DEF SeasonInv, Lifecycle!InUseIsKept
  <1>q. QED BY <1>5, <1>6, <1>7 DEF SeasonInv

LEMMA LifecycleKeeps ==
  ASSUME SeasonAssumptions, SeasonInv, NEW s \in Seasons, NEW target \in {"PUBLISHED", "ARCHIVED"},
         Lifecycle!ApplyLifecycle(s, target)
  PROVE  SeasonInv'
  <1>1. /\ season[s].status # "NONE" /\ season[s].version < MaxVersion
        /\ target = "PUBLISHED" => \A t \in Seasons \ {s} : season[t].status # "PUBLISHED"
        /\ UNCHANGED <<divisions, scheduled, venues, flow, shown>>
    BY DEF Lifecycle!ApplyLifecycle, Lifecycle!Transition, Lifecycle!Blocked, Lifecycle!OtherPublic
  <1>2. season' = [season EXCEPT ![s] = [status |-> target, version |-> season[s].version + 1]]
    BY SeasonParts DEF Lifecycle!ApplyLifecycle, SeasonInv
  <1>3. /\ season' \in [Seasons -> [status : Lifecycle!Statuses, version : 0 .. MaxVersion]]
        /\ \A t \in Seasons : /\ season'[t].status # "NONE" => season'[t].version >= 1
                              /\ season'[t].status = "NONE" <=> season[t].status = "NONE"
        /\ \A t, u \in Seasons : season'[t].status = "PUBLISHED" /\ season'[u].status = "PUBLISHED"
                                   => t = u
    BY <1>1, <1>2, CommandKeeps
  <1>4. Lifecycle!TypeOK'
    BY <1>1, <1>3 DEF SeasonInv, Lifecycle!TypeOK, Lifecycle!Statuses
  <1>5. CreatedInUse'
    BY <1>1, <1>3 DEF SeasonInv, CreatedInUse
  <1>6. Lifecycle!InUseIsKept'
    BY <1>1, <1>3 DEF SeasonInv, Lifecycle!InUseIsKept
  <1>q. QED BY <1>4, <1>5, <1>6 DEF SeasonInv

(* Divisions with games stay, and requests whose courts go are cancelled   *)
(* with them.                                                              *)
LEMMA ConfigurationKeeps ==
  ASSUME SeasonAssumptions, SeasonInv, NEW s \in Seasons, NEW c \in Configurations,
         NEW cancelled, Lifecycle!UpdateConfiguration(s, c, cancelled)
  PROVE  SeasonInv'
  <1>1. /\ season[s].status # "NONE" /\ season[s].version < MaxVersion
        /\ scheduled[s] \cap divisions[s] \subseteq DivisionsOf[c]
        /\ divisions' = [divisions EXCEPT ![s] = DivisionsOf[c]]
        /\ venues' = [venues EXCEPT ![s] = VenuesOf[c]]
        /\ flow' = [f \in Flows |-> IF f \in Lifecycle!Affected(s, c) THEN Lifecycle!NoFlow
                                                                    ELSE flow[f]]
        /\ UNCHANGED <<scheduled, shown>>
    BY DEF Lifecycle!UpdateConfiguration, Lifecycle!Configurable, Lifecycle!Deletable
  <1>2. season' = [season EXCEPT ![s] = [status |-> season[s].status,
                                         version |-> season[s].version + 1]]
    <2>1. season[s] \in [status : Lifecycle!Statuses, version : 0 .. MaxVersion]
      BY SeasonParts DEF SeasonInv
    <2>2. [season[s] EXCEPT !.version = season[s].version + 1]
            = [status |-> season[s].status, version |-> season[s].version + 1]
      BY <2>1
    <2>3. season' = [season EXCEPT ![s] = [season[s] EXCEPT !.version = season[s].version + 1]]
      BY DEF Lifecycle!UpdateConfiguration
    <2>q. QED BY <2>2, <2>3
  <1>3. /\ season' \in [Seasons -> [status : Lifecycle!Statuses, version : 0 .. MaxVersion]]
        /\ \A t \in Seasons : /\ season'[t].status # "NONE" => season'[t].version >= 1
                              /\ season'[t].status = "NONE" <=> season[t].status = "NONE"
        /\ \A t, u \in Seasons : season'[t].status = "PUBLISHED" /\ season'[u].status = "PUBLISHED"
                                   => t = u
    BY <1>1, <1>2, CommandKeeps
  <1>4. /\ divisions' \in [Seasons -> SUBSET Divisions] /\ venues' \in [Seasons -> SUBSET Venues]
        /\ divisions'[s] = DivisionsOf[c] /\ venues'[s] = VenuesOf[c]
        /\ \A t \in Seasons \ {s} : divisions'[t] = divisions[t] /\ venues'[t] = venues[t]
    BY <1>1, SeasonParts DEF SeasonInv, SeasonAssumptions
  <1>5. /\ flow' \in [Flows -> FlowRow]
        /\ \A f \in Flows : flow'[f].at # "idle" =>
              flow'[f] = flow[f] /\ f \notin Lifecycle!Affected(s, c)
    BY <1>1, SeasonParts DEF SeasonInv, Lifecycle!NoFlow
  <1>6. Lifecycle!TypeOK'
    BY <1>1, <1>3, <1>4, <1>5 DEF SeasonInv, Lifecycle!TypeOK, Lifecycle!Statuses, FlowRow
  <1>7. CreatedInUse'
    BY <1>1, <1>3, <1>5 DEF SeasonInv, CreatedInUse
  <1>8. Lifecycle!InUseIsKept'
    <2>1. \A t \in Seasons : scheduled'[t] \subseteq divisions'[t]
      BY <1>1, <1>4 DEF SeasonInv, Lifecycle!InUseIsKept
    <2>2. ASSUME NEW f \in Flows, flow'[f].at = "active"
          PROVE  flow'[f].venue \in venues'[flow'[f].season] \cup {NoVenue}
      <3>1. /\ flow'[f] = flow[f] /\ f \notin Lifecycle!Affected(s, c) /\ flow[f].season \in Seasons
            /\ flow[f].venue \in venues[flow[f].season] \cup {NoVenue}
        BY <1>5, <2>2 DEF SeasonInv, CreatedInUse, Lifecycle!InUseIsKept
      <3>2. CASE flow[f].season = s
        BY <1>4, <2>2, <3>1, <3>2 DEF Lifecycle!Affected, Lifecycle!ActiveFlows
      <3>3. CASE flow[f].season # s
        BY <1>4, <3>1, <3>3
      <3>q. QED BY <3>2, <3>3
    <2>q. QED BY <1>3, <2>1, <2>2 DEF Lifecycle!InUseIsKept
  <1>q. QED BY <1>6, <1>7, <1>8 DEF SeasonInv

(* The database keeps a court that vanished meanwhile out of a request. *)
LEMMA FlowsKeep ==
  ASSUME SeasonAssumptions, SeasonInv, NEW f \in Flows,
         \/ Lifecycle!CommitFlow(f) \/ Lifecycle!EndFlow(f)
         \/ \E s \in Seasons, v \in Venues \cup {NoVenue} : Lifecycle!CheckFlow(f, s, v)
  PROVE  SeasonInv'
  <1>1. UNCHANGED <<season, divisions, scheduled, venues, shown>>
    BY DEF Lifecycle!CommitFlow, Lifecycle!EndFlow, Lifecycle!CheckFlow
  <1>2. PICK row \in FlowRow :
          /\ flow' = [flow EXCEPT ![f] = row]
          /\ row.at # "idle" => row.season \in Seasons /\ season[row.season].status # "NONE"
          /\ row.at = "active" => row.venue \in venues[row.season] \cup {NoVenue}
    <2>1. CASE Lifecycle!CommitFlow(f)
      <3>1. flow[f] \in FlowRow /\ flow[f].at = "checked"
        BY <2>1, SeasonParts DEF Lifecycle!CommitFlow, SeasonInv
      <3>2. flow[f].season \in Seasons /\ season[flow[f].season].status # "NONE"
        BY <3>1 DEF SeasonInv, CreatedInUse
      <3>3. CASE flow[f].venue \in venues[flow[f].season] \cup {NoVenue}
        <4> DEFINE row == [flow[f] EXCEPT !.at = "active"]
        <4>1. /\ row \in FlowRow /\ row.season = flow[f].season /\ row.venue = flow[f].venue
          BY <3>1 DEF FlowRow
        <4>2. flow' = [flow EXCEPT ![f] = row]
          BY <2>1, <3>3 DEF Lifecycle!CommitFlow
        <4> HIDE DEF row
        <4>q. QED BY <3>2, <3>3, <4>1, <4>2
      <3>4. CASE flow[f].venue \notin venues[flow[f].season] \cup {NoVenue}
        <4>1. flow' = [flow EXCEPT ![f] = Lifecycle!NoFlow]
          BY <2>1, <3>4 DEF Lifecycle!CommitFlow
        <4>2. Lifecycle!NoFlow.at = "idle"
          BY DEF Lifecycle!NoFlow
        <4>q. QED BY <4>1, <4>2, SeasonParts DEF SeasonInv
      <3>q. QED BY <3>3, <3>4
    <2>2. CASE Lifecycle!EndFlow(f)
      <3>1. Lifecycle!NoFlow.at = "idle"
        BY DEF Lifecycle!NoFlow
      <3>q. QED BY <2>2, <3>1, SeasonParts DEF Lifecycle!EndFlow, SeasonInv
    <2>3. ASSUME NEW s \in Seasons, NEW v \in Venues \cup {NoVenue}, Lifecycle!CheckFlow(f, s, v)
          PROVE  \E row \in FlowRow :
                   /\ flow' = [flow EXCEPT ![f] = row]
                   /\ row.at = "checked" /\ row.season = s /\ season[s].status # "NONE"
      <3> DEFINE row == [season |-> s, at |-> "checked", venue |-> v]
      <3>1. row \in FlowRow /\ row.at = "checked" /\ row.season = s
        BY DEF FlowRow
      <3>2. flow' = [flow EXCEPT ![f] = row] /\ season[s].status # "NONE"
        BY <2>3 DEF Lifecycle!CheckFlow
      <3> HIDE DEF row
      <3>q. QED BY <3>1, <3>2
    <2>q. QED BY <2>1, <2>2, <2>3
  <1>3. /\ flow' \in [Flows -> FlowRow] /\ flow'[f] = row
        /\ \A g \in Flows \ {f} : flow'[g] = flow[g]
    BY <1>2, SeasonParts DEF SeasonInv
  <1>4. Lifecycle!TypeOK'
    BY <1>1, <1>3 DEF SeasonInv, Lifecycle!TypeOK, FlowRow, Lifecycle!Statuses
  <1>5. CreatedInUse'
    BY <1>1, <1>2, <1>3 DEF SeasonInv, CreatedInUse
  <1>6. Lifecycle!InUseIsKept'
    BY <1>1, <1>2, <1>3 DEF SeasonInv, Lifecycle!InUseIsKept
  <1>q. QED BY <1>4, <1>5, <1>6 DEF SeasonInv

LEMMA PreviewsKeep ==
  ASSUME SeasonAssumptions, SeasonInv, NEW s \in Lifecycle!Created,
         NEW target \in {"PUBLISHED", "ARCHIVED"} \cup Configurations,
         shown' = Lifecycle!Token(s, target),
         UNCHANGED <<season, divisions, scheduled, venues, flow>>
  PROVE  SeasonInv'
  <1>1. s \in Seasons /\ season[s].version \in 1 .. MaxVersion
    BY SeasonParts DEF SeasonInv, CreatedInUse, Lifecycle!Created, SeasonAssumptions
  <1>2. Lifecycle!TypeOK'
    BY <1>1 DEF SeasonInv, Lifecycle!TypeOK, Lifecycle!Statuses, Lifecycle!Token
  <1>q. QED BY <1>2 DEF SeasonInv, CreatedInUse, Lifecycle!InUseIsKept

LEMMA SeasonInduction ==
  /\ SeasonAssumptions /\ Lifecycle!Init => SeasonInv
  /\ SeasonAssumptions /\ SeasonInv /\ [Lifecycle!Next]_Lifecycle!vars => SeasonInv'
  /\ SeasonAssumptions => SeasonAssumptions'
  <1>1. ASSUME SeasonAssumptions, Lifecycle!Init PROVE SeasonInv
    <2>1. /\ \A s \in Seasons : /\ season[s].status = "NONE" /\ season[s].version = 0
                                /\ scheduled[s] = {}
          /\ \A f \in Flows : flow[f].at = "idle"
      BY <1>1 DEF Lifecycle!Init, Lifecycle!NoFlow
    <2>2. Lifecycle!TypeOK
      BY <1>1 DEF Lifecycle!Init, Lifecycle!TypeOK, Lifecycle!Statuses, Lifecycle!NoFlow,
         SeasonAssumptions
    <2>q. QED BY <2>1, <2>2 DEF SeasonInv, CreatedInUse, Lifecycle!InUseIsKept
  <1>2. ASSUME SeasonAssumptions, SeasonInv, [Lifecycle!Next]_Lifecycle!vars PROVE SeasonInv'
    <2>1. CASE UNCHANGED Lifecycle!vars
      BY <1>2, <2>1 DEF SeasonInv, CreatedInUse, Lifecycle!InUseIsKept, Lifecycle!TypeOK,
         Lifecycle!Statuses, Lifecycle!vars
    <2>2. ASSUME NEW s \in Lifecycle!Created, NEW target \in {"PUBLISHED", "ARCHIVED"},
                 Lifecycle!LifecycleCommand(s, target)
          PROVE  SeasonInv'
      BY <1>2, <2>2, PreviewsKeep, LifecycleKeeps
         DEF Lifecycle!Created, Lifecycle!LifecycleCommand, Lifecycle!PreviewLifecycle
    <2>3. ASSUME NEW s \in Lifecycle!Created, NEW c \in Configurations,
                 Lifecycle!ConfigurationCommand(s, c)
          PROVE  SeasonInv'
      BY <1>2, <2>3, PreviewsKeep, ConfigurationKeeps
         DEF Lifecycle!Created, Lifecycle!ConfigurationCommand, Lifecycle!PreviewConfiguration
    <2>4. ASSUME NEW s \in Lifecycle!Created, NEW d \in Divisions, Lifecycle!Schedule(s, d)
          PROVE  SeasonInv'
      BY <1>2, <2>4, ScheduleKeeps DEF Lifecycle!Created
    <2>5. Lifecycle!Created \subseteq Seasons
      BY DEF Lifecycle!Created
    <2>q. QED BY <1>2, <2>1, <2>2, <2>3, <2>4, <2>5, CreationKeeps, FlowsKeep DEF Lifecycle!Next
  <1>q. QED BY <1>1, <1>2 DEF SeasonAssumptions

(* One season at most is public, its divisions with games stay, and running*)
(* requests keep courts of their season, for any number of seasons,        *)
(* configurations and flows that were checked before a configuration or a  *)
(* transition and commit after it (season_management.py,                   *)
(* season_lifecycle.py).                                                   *)
THEOREM SeasonsKeepWhatIsInUse ==
  SeasonAssumptions /\ Lifecycle!Spec => [](Lifecycle!TypeOK /\ Lifecycle!InUseIsKept)
  <1>1. SeasonInv => Lifecycle!TypeOK /\ Lifecycle!InUseIsKept
    BY DEF SeasonInv
  <1>q. QED BY <1>1, SeasonInduction, PTL DEF Lifecycle!Spec

-----------------------------------------------------------------------------
(* Rosters and leaders. *)
CONSTANTS Teams, Players, Names, Batches, Numbers, Entries, Files, NoNumber, NoTeam, NoBase, NoPreview
VARIABLES batch, team, player, leader, led, drawn

Squads == INSTANCE Rosters

(* Rows of teams and players never run out: every file finds fresh ones.   *)
RosterAssumptions ==
  /\ NoTeam \notin Teams
  /\ Entries \subseteq [number : Numbers \cup {NoNumber}, active : BOOLEAN]
  /\ Names # {} /\ Files # {} /\ MaxVersion \in Nat \ {0}
  /\ \A f \in Files :
       /\ DOMAIN f \subseteq Names /\ \A n \in DOMAIN f : f[n] \subseteq Numbers
       /\ \E at \in [DOMAIN f -> Teams] : Squads!IsInjective(at)
       /\ \E at \in [Squads!Rows(f) -> Players] : Squads!IsInjective(at)

-----------------------------------------------------------------------------
(* Rosters that are right as a whole: the order of the writes. *)

(* Half written, a row is what it was or what it will be, and as it was    *)
(* only if it stays so or is not active.                                   *)
LEMMA MidwayIsDistinct ==
  ASSUME NEW t, NEW rows, Squads!Distinct(rows), NEW saved \in SUBSET DOMAIN rows
  PROVE  Squads!Distinct(Squads!Midway(t, rows, saved))
  <1> DEFINE m == Squads!Midway(t, rows, saved)
  <1>1. DOMAIN m = Squads!Roster(t) \cup saved
    BY DEF Squads!Midway
  <1>2. ASSUME NEW p \in DOMAIN m, m[p].active
        PROVE  p \in DOMAIN rows /\ m[p].number = rows[p].number /\ rows[p].active
    <2>1. CASE p \in saved
      <3>1. m[p] = rows[p]
        BY <1>2, <2>1 DEF Squads!Midway
      <3>q. QED BY <1>2, <2>1, <3>1
    <2>2. CASE p \notin saved
      <3>1. /\ m[p] = [number |-> player[p].number,
                       active |-> player[p].active /\ p \notin Squads!ReleasedFirst(t, rows)]
            /\ p \in Squads!Roster(t)
        BY <1>2, <2>2 DEF Squads!Midway
      <3> DEFINE act == player[p].active /\ p \notin Squads!ReleasedFirst(t, rows)
      <3> HIDE DEF act, m
      <3>2. m[p] = [number |-> player[p].number, active |-> act]
        BY <3>1 DEF act
      <3>3. m[p].number = player[p].number /\ act
        BY <1>2, <3>2
      <3>4. player[p].active /\ p \notin Squads!ReleasedFirst(t, rows)
        BY <3>3 DEF act
      <3>q. QED BY <3>1, <3>3, <3>4 DEF Squads!ReleasedFirst, Squads!Renumbered
    <2>q. QED BY <2>1, <2>2
  <1> HIDE DEF m
  <1>3. Squads!Distinct(m)
    BY <1>2 DEF Squads!Distinct
  <1>q. QED BY <1>3 DEF m

(* No roster that is right as a whole is refused for the order in which    *)
(* its rows are saved, whatever numbers its players swap or pass on        *)
(* (save_team_roster).                                                     *)
THEOREM NoOrderIsRefused == Squads!ValidRostersAreSaved
  <1> SUFFICES ASSUME NEW t \in Squads!Live, NEW rows \in Squads!Payloads, Squads!Valid(t, rows)
               PROVE  ~Squads!IndexRefuses(t, rows)
    BY DEF Squads!ValidRostersAreSaved
  <1>1. Squads!Distinct(rows)
    BY DEF Squads!Valid
  <1>2. ASSUME NEW saved \in SUBSET (Squads!Roster(t) \cap DOMAIN rows)
        PROVE  Squads!Distinct(Squads!Midway(t, rows, saved))
    BY <1>1, MidwayIsDistinct
  <1>3. ASSUME NEW added \in SUBSET (DOMAIN rows \ Squads!Roster(t))
        PROVE  Squads!Distinct(Squads!Midway(t, rows, (Squads!Roster(t) \cap DOMAIN rows) \cup added))
    BY <1>1, MidwayIsDistinct
  <1>q. QED BY <1>2, <1>3 DEF Squads!IndexRefuses

-----------------------------------------------------------------------------
(* Teams in use. *)

TeamRow == [exists : BOOLEAN, name : Names, active : BOOLEAN]
PlayerRow == [team : Teams \cup {NoTeam}, number : Numbers \cup {NoNumber}, active : BOOLEAN]
BatchRow ==
  [status : {"NONE", "VALIDATED", "CONFIRMED"}, base : {NoBase} \cup 1 .. MaxVersion, file : Files]
SeasonRow == [status : {"SETUP", "PUBLISHED", "ARCHIVED"}, version : 1 .. MaxVersion]

RosterRows ==
  /\ season \in SeasonRow /\ batch \in [Batches -> BatchRow]
  /\ team \in [Teams -> TeamRow] /\ player \in [Players -> PlayerRow]
  /\ leader \in [Accounts -> Teams \cup {NoTeam}]
  /\ led \subseteq Teams /\ drawn \subseteq Teams

(* Whoever leads a team has it counted among the led ones, which is what a *)
(* new import and the end of a team look at.                               *)
UsedIsActive ==
  /\ \A a \in Accounts : leader[a] # NoTeam => leader[a] \in led
  /\ \A t \in drawn \cup led : t \in Squads!Active
OneLeader == \A a, b \in Accounts : leader[a] = leader[b] /\ leader[a] # NoTeam => a = b
NamesDiffer == \A t, u \in Squads!Live : team[t].name = team[u].name => t = u

(* Players are on rosters of teams there are, with numbers of their own.   *)
NumbersDiffer ==
  /\ \A p \in Players : player[p].team # NoTeam => player[p].team \in Squads!Live
  /\ \A p, q \in Players :
       /\ player[p].team = player[q].team /\ player[p].team # NoTeam
       /\ player[p].active /\ player[q].active
       /\ player[p].number = player[q].number /\ player[p].number # NoNumber
       => p = q
OneImport ==
  \A b, c \in Batches : batch[b].status = "CONFIRMED" /\ batch[c].status = "CONFIRMED" => b = c

RosterInv == RosterRows /\ UsedIsActive /\ OneLeader /\ NamesDiffer /\ NumbersDiffer /\ OneImport

LEMMA VersionRises ==
  ASSUME RosterAssumptions, RosterInv, season.version < MaxVersion
  PROVE  Squads!Bumped \in SeasonRow
  <1>1. season.version + 1 \in 1 .. MaxVersion
    BY DEF RosterInv, RosterRows, SeasonRow, RosterAssumptions
  <1>q. QED BY <1>1 DEF RosterInv, RosterRows, SeasonRow, Squads!Bumped

(* The files: where an import puts teams and players.                      *)
LEMMA ImportPlaces ==
  ASSUME RosterAssumptions, NEW f \in Files
  PROVE  /\ Squads!Placement(f) \in [DOMAIN f -> Teams] /\ Squads!IsInjective(Squads!Placement(f))
         /\ Squads!Seating(f) \in [Squads!Rows(f) -> Players]
         /\ Squads!IsInjective(Squads!Seating(f))
  BY DEF RosterAssumptions, Squads!Placement, Squads!Seating

LEMMA Inverted ==
  ASSUME NEW f, NEW y \in Squads!Range(f)
  PROVE  Squads!AntiFunction(f)[y] \in DOMAIN f /\ f[Squads!AntiFunction(f)[y]] = y
  BY DEF Squads!AntiFunction, Squads!Inverse, Squads!Range

LEMMA ImportKeeps ==
  ASSUME RosterAssumptions, RosterInv, NEW b \in Batches, Squads!ConfirmImport(b)
  PROVE  RosterInv'
  <1> DEFINE f == batch[b].file
             at == Squads!Placement(f)
             seat == Squads!Seating(f)
             where == Squads!AntiFunction(at)
             row == Squads!AntiFunction(seat)
  <1>1. /\ f \in Files /\ at \in [DOMAIN f -> Teams] /\ Squads!IsInjective(at)
        /\ seat \in [Squads!Rows(f) -> Players] /\ Squads!IsInjective(seat)
        /\ DOMAIN f \subseteq Names /\ \A n \in DOMAIN f : f[n] \subseteq Numbers
    BY ImportPlaces DEF RosterInv, RosterRows, BatchRow, RosterAssumptions
  <1>2. /\ team' = [t \in Teams |->
              IF t \in Squads!Range(at)
              THEN [exists |-> TRUE, active |-> TRUE, name |-> where[t]]
              ELSE [team[t] EXCEPT !.exists = FALSE, !.active = FALSE]]
        /\ player' = [p \in Players |->
              IF p \in Squads!Range(seat)
              THEN [team |-> at[row[p].name], active |-> TRUE, number |-> row[p].number]
              ELSE Squads!Gone(p)]
        /\ batch' = [batch EXCEPT ![b].status = "CONFIRMED"] /\ season' = Squads!Bumped
        /\ season.version < MaxVersion /\ ~Squads!Blockers(b)
        /\ UNCHANGED <<drawn, leader, led, shown>>
    BY DEF Squads!ConfirmImport, Squads!Open, Squads!bindingVars
  <1>3. \A t \in Squads!Range(at) : where[t] \in DOMAIN f /\ at[where[t]] = t
    BY <1>1, Inverted
  <1>4. \A p \in Squads!Range(seat) : row[p] \in Squads!Rows(f) /\ seat[row[p]] = p
    BY <1>1, Inverted
  <1>5. \A r \in Squads!Rows(f) : /\ r.name \in DOMAIN f /\ r.number \in Numbers
                                  /\ r = [name |-> r.name, number |-> r.number]
    BY <1>1 DEF Squads!Rows
  <1> HIDE DEF f, at, seat, where, row
  <1>6. \A t \in Teams :
          /\ t \in Squads!Range(at) => team'[t].exists /\ team'[t].name = where[t]
          /\ t \notin Squads!Range(at) => ~team'[t].exists
          /\ team'[t] \in TeamRow
    BY <1>1, <1>2, <1>3 DEF RosterInv, RosterRows, TeamRow
  <1>7. \A p \in Players :
          /\ p \in Squads!Range(seat) =>
               /\ player'[p].team = at[row[p].name] /\ player'[p].number = row[p].number
               /\ player'[p].team \in Teams
          /\ p \notin Squads!Range(seat) => player'[p].team = NoTeam
          /\ player'[p] \in PlayerRow
    BY <1>1, <1>2, <1>4, <1>5 DEF PlayerRow, Squads!Gone
  <1>8. RosterRows'
    <2>1. team' \in [Teams -> TeamRow]
      BY <1>2, <1>6
    <2>2. player' \in [Players -> PlayerRow]
      BY <1>2, <1>7
    <2>3. batch' \in [Batches -> BatchRow]
      BY <1>2 DEF RosterInv, RosterRows, BatchRow
    <2>q. QED BY <1>2, <2>1, <2>2, <2>3, VersionRises DEF RosterInv, RosterRows
  <1>9. UsedIsActive' /\ OneLeader'
    BY <1>2 DEF RosterInv, UsedIsActive, OneLeader, Squads!Blockers
  <1>10. NamesDiffer'
    <2>1. ASSUME NEW t \in Teams, NEW u \in Teams, team'[t].exists, team'[u].exists,
                 team'[t].name = team'[u].name
          PROVE  t = u
      <3>1. t \in Squads!Range(at) /\ u \in Squads!Range(at)
        BY <1>6, <2>1
      <3>2. where[t] = where[u]
        BY <1>6, <2>1, <3>1
      <3>q. QED BY <1>3, <3>1, <3>2
    <2>q. QED BY <2>1 DEF NamesDiffer, Squads!Live
  <1>11. NumbersDiffer'
    <2>1. ASSUME NEW p \in Players, player'[p].team # NoTeam
          PROVE  p \in Squads!Range(seat) /\ player'[p].team \in Squads!Live'
      <3>1. p \in Squads!Range(seat)
        BY <1>7, <2>1
      <3>2. row[p].name \in DOMAIN f /\ player'[p].team = at[row[p].name]
        BY <1>4, <1>5, <1>7, <3>1
      <3>3. at[row[p].name] \in Squads!Range(at) /\ at[row[p].name] \in Teams
        BY <1>1, <3>2 DEF Squads!Range
      <3>4. team'[player'[p].team].exists
        BY <1>6, <3>2, <3>3
      <3>q. QED BY <3>1, <3>2, <3>3, <3>4 DEF Squads!Live
    <2>2. ASSUME NEW p \in Players, NEW q \in Players, player'[p].team = player'[q].team,
                 player'[p].team # NoTeam, player'[p].number = player'[q].number
          PROVE  p = q
      <3>1. p \in Squads!Range(seat) /\ q \in Squads!Range(seat)
        BY <2>1, <2>2
      <3>2. /\ row[p] \in Squads!Rows(f) /\ row[q] \in Squads!Rows(f)
            /\ at[row[p].name] = at[row[q].name] /\ row[p].number = row[q].number
        BY <1>4, <1>7, <2>2, <3>1
      <3>3. row[p].name = row[q].name
        BY <1>1, <1>5, <3>2 DEF Squads!IsInjective
      <3>4. row[p] = row[q]
        BY <1>5, <3>2, <3>3
      <3>q. QED BY <1>4, <3>1, <3>4
    <2>q. QED BY <2>1, <2>2 DEF NumbersDiffer
  <1>12. OneImport'
    <2>1. \A c \in Batches \ {b} : batch'[c] = batch[c] /\ batch[c].status # "CONFIRMED"
      BY <1>2 DEF RosterInv, RosterRows, Squads!Blockers
    <2>q. QED BY <2>1 DEF OneImport
  <1>q. QED BY <1>8, <1>9, <1>10, <1>11, <1>12 DEF RosterInv

(* A team and its whole roster are written, new or anew.                   *)
LEMMA SavingKeeps ==
  ASSUME RosterAssumptions, RosterInv, season.version < MaxVersion, season' = Squads!Bumped,
         NEW t \in Teams, NEW rows \in Squads!Payloads, NEW new \in TeamRow,
         new.exists, ~Squads!NameTaken(new.name, t), new.active \/ t \notin drawn \cup led,
         team' = [team EXCEPT ![t] = new], Squads!Valid(t, rows),
         player' = [p \in Players |->
           IF p \in DOMAIN rows THEN [team |-> t, number |-> rows[p].number,
                                      active |-> rows[p].active]
           ELSE IF p \in Squads!Roster(t) THEN [player[p] EXCEPT !.active = FALSE]
           ELSE player[p]],
         UNCHANGED <<batch, drawn, leader, led, shown>>
  PROVE  RosterInv'
  <1>1. /\ team \in [Teams -> TeamRow] /\ player \in [Players -> PlayerRow]
        /\ leader \in [Accounts -> Teams \cup {NoTeam}] /\ led \subseteq Teams
        /\ drawn \subseteq Teams /\ t # NoTeam
    BY DEF RosterInv, RosterRows, RosterAssumptions
  <1>2. /\ DOMAIN rows \subseteq Players /\ Squads!Distinct(rows)
        /\ \A p \in DOMAIN rows : /\ rows[p].number \in Numbers \cup {NoNumber}
                                  /\ rows[p].active \in BOOLEAN
                                  /\ player[p].team \in {t, NoTeam}
    <2>1. PICK ps \in SUBSET Players : rows \in [ps -> Entries]
      BY DEF Squads!Payloads
    <2>2. \A p \in DOMAIN rows : rows[p] \in [number : Numbers \cup {NoNumber}, active : BOOLEAN]
      BY <2>1 DEF RosterAssumptions
    <2>q. QED BY <2>1, <2>2 DEF Squads!Valid, Squads!Roster, Squads!Free
  <1>3. team'[t] = new /\ \A u \in Teams \ {t} : team'[u] = team[u]
    BY <1>1
  <1>4. \A p \in Players :
          /\ p \in DOMAIN rows => /\ player'[p].team = t /\ player'[p].number = rows[p].number
                                  /\ player'[p].active = rows[p].active
          /\ p \notin DOMAIN rows /\ player[p].team = t => ~player'[p].active /\ player'[p].team = t
          /\ p \notin DOMAIN rows /\ player[p].team # t => player'[p] = player[p]
          /\ player'[p] \in PlayerRow
    <2>1. ASSUME NEW p \in Players, p \in DOMAIN rows
          PROVE  /\ player'[p].team = t /\ player'[p].number = rows[p].number
                 /\ player'[p].active = rows[p].active /\ player'[p] \in PlayerRow
      BY <1>2, <2>1 DEF PlayerRow
    <2>2. ASSUME NEW p \in Players, p \notin DOMAIN rows, player[p].team = t
          PROVE  ~player'[p].active /\ player'[p].team = t /\ player'[p] \in PlayerRow
      <3>1. player'[p] = [player[p] EXCEPT !.active = FALSE] /\ player[p] \in PlayerRow
        BY <1>1, <2>2 DEF Squads!Roster
      <3>q. QED BY <2>2, <3>1 DEF PlayerRow
    <2>3. ASSUME NEW p \in Players, p \notin DOMAIN rows, player[p].team # t
          PROVE  player'[p] = player[p] /\ player'[p] \in PlayerRow
      BY <1>1, <2>3 DEF Squads!Roster
    <2>q. QED BY <2>1, <2>2, <2>3
  <1>5. RosterRows'
    <2>1. team' \in [Teams -> TeamRow]
      BY <1>1
    <2>2. player' \in [Players -> PlayerRow]
      BY <1>4
    <2>q. QED BY <2>1, <2>2, VersionRises DEF RosterInv, RosterRows
  <1>6. \A u \in Squads!Live \cup {t} : u \in Squads!Live'
    BY <1>3 DEF Squads!Live
  <1>7. UsedIsActive'
    <2>1. \A u \in Squads!Active : u \in drawn \cup led => u \in Squads!Active'
      BY <1>3, <1>6 DEF Squads!Active, Squads!Live
    <2>q. QED BY <2>1 DEF RosterInv, UsedIsActive
  <1>8. OneLeader' /\ OneImport'
    BY DEF RosterInv, OneLeader, OneImport
  <1>9. NamesDiffer'
    <2>1. ASSUME NEW u \in Teams, NEW v \in Teams, team'[u].exists, team'[v].exists,
                 team'[u].name = team'[v].name
          PROVE  u = v
      BY <1>3, <2>1 DEF RosterInv, NamesDiffer, Squads!Live, Squads!NameTaken
    <2>q. QED BY <2>1 DEF NamesDiffer, Squads!Live
  <1>10. NumbersDiffer'
    <2>1. ASSUME NEW p \in Players, player'[p].team # NoTeam PROVE player'[p].team \in Squads!Live'
      BY <1>4, <1>6, <2>1 DEF RosterInv, NumbersDiffer
    <2>2. ASSUME NEW p \in Players, NEW q \in Players, player'[p].team = player'[q].team,
                 player'[p].team # NoTeam, player'[p].active, player'[q].active,
                 player'[p].number = player'[q].number, player'[p].number # NoNumber
          PROVE  p = q
      <3>1. CASE player'[p].team = t
        <4>1. p \in DOMAIN rows /\ q \in DOMAIN rows
          BY <1>4, <2>2, <3>1
        <4>2. /\ rows[p].active /\ rows[q].active /\ rows[p].number = rows[q].number
              /\ rows[p].number # NoNumber
          BY <1>4, <2>2, <4>1
        <4>q. QED BY <1>2, <4>1, <4>2 DEF Squads!Distinct
      <3>2. CASE player'[p].team # t
        <4>1. player'[p] = player[p] /\ player'[q] = player[q]
          BY <1>4, <2>2, <3>2
        <4>q. QED BY <2>2, <4>1 DEF RosterInv, NumbersDiffer
      <3>q. QED BY <3>1, <3>2
    <2>q. QED BY <2>1, <2>2 DEF NumbersDiffer
  <1>q. QED BY <1>5, <1>7, <1>8, <1>9, <1>10 DEF RosterInv

LEMMA TeamCommandsKeep ==
  ASSUME RosterAssumptions, RosterInv, NEW t \in Teams, NEW n \in Names,
         NEW rows \in Squads!Payloads, NEW active \in BOOLEAN,
         Squads!CreateTeam(t, n, rows) \/ Squads!SaveTeam(t, n, active, rows)
  PROVE  RosterInv'
  <1>1. CASE Squads!CreateTeam(t, n, rows)
    <2> DEFINE new == [exists |-> TRUE, name |-> n, active |-> TRUE]
    <2>1. new \in TeamRow /\ new.exists /\ new.active /\ new.name = n
      BY DEF TeamRow
    <2>2. Squads!Roster(t) = {}
      BY <1>1 DEF Squads!CreateTeam, Squads!Roster, RosterInv, NumbersDiffer, RosterAssumptions
    <2>3. /\ team' = [team EXCEPT ![t] = new] /\ season.version < MaxVersion
          /\ season' = Squads!Bumped /\ ~Squads!NameTaken(n, t) /\ Squads!Valid(t, rows)
          /\ UNCHANGED <<batch, drawn, leader, led, shown>>
      BY <1>1 DEF Squads!CreateTeam, Squads!Valid, Squads!Open, Squads!bindingVars
    <2>4. player' = [p \in Players |->
             IF p \in DOMAIN rows THEN [team |-> t, number |-> rows[p].number,
                                        active |-> rows[p].active]
             ELSE IF p \in Squads!Roster(t) THEN [player[p] EXCEPT !.active = FALSE]
             ELSE player[p]]
      BY <1>1, <2>2 DEF Squads!CreateTeam
    <2> HIDE DEF new
    <2>q. QED BY <2>1, <2>3, <2>4, SavingKeeps
  <1>2. CASE Squads!SaveTeam(t, n, active, rows)
    <2> DEFINE new == [team[t] EXCEPT !.name = n, !.active = active]
    <2>1. team[t] \in TeamRow /\ team[t].exists /\ team \in [Teams -> TeamRow]
      BY <1>2 DEF RosterInv, RosterRows, Squads!SaveTeam, Squads!Live
    <2>2. new \in TeamRow /\ new.exists /\ new.active = active /\ new.name = n
      BY <2>1 DEF TeamRow
    <2>3. team' = [team EXCEPT ![t] = new]
      BY <1>2, <2>1 DEF Squads!SaveTeam
    <2>4. new.active \/ t \notin drawn \cup led
      <3>1. t \in drawn \cup led => team[t].active
        BY DEF RosterInv, UsedIsActive, Squads!Active
      <3>q. QED BY <1>2, <2>2, <3>1 DEF Squads!SaveTeam, Squads!Referenced
    <2>5. /\ season.version < MaxVersion /\ season' = Squads!Bumped
          /\ ~Squads!NameTaken(n, t) /\ Squads!Valid(t, rows)
          /\ UNCHANGED <<batch, drawn, leader, led, shown>>
          /\ player' = [p \in Players |->
                IF p \in DOMAIN rows THEN [team |-> t, number |-> rows[p].number,
                                           active |-> rows[p].active]
                ELSE IF p \in Squads!Roster(t) THEN [player[p] EXCEPT !.active = FALSE]
                ELSE player[p]]
      BY <1>2 DEF Squads!SaveTeam, Squads!bindingVars
    <2> HIDE DEF new
    <2>q. QED BY <2>2, <2>3, <2>4, <2>5, SavingKeeps
  <1>q. QED BY <1>1, <1>2

(* Claims, transfers and releases: whoever gains a team was confirmed to   *)
(* take it from those that the preview showed.                             *)
LEMMA LeadersKeep ==
  ASSUME RosterAssumptions, RosterInv, NEW a \in Accounts,
         \/ Squads!ReleaseLeader(a)
         \/ \E t \in Teams : Squads!TransferLeader(a, t) \/ Squads!ClaimTeam(a, t)
  PROVE  RosterInv' /\ Squads!AsShown
  <1>1. /\ leader \in [Accounts -> Teams \cup {NoTeam}] /\ NoTeam \notin Teams
        /\ UNCHANGED <<batch, team, player, drawn, shown>>
    BY DEF RosterInv, RosterRows, RosterAssumptions, Squads!ReleaseLeader, Squads!TransferLeader,
       Squads!Transfers, Squads!ClaimTeam, Squads!rosterVars
  <1>2. ASSUME leader' \in [Accounts -> Teams \cup {NoTeam}], led' \subseteq Teams,
               season' \in SeasonRow, led \subseteq led', \A t \in led' : t \in Squads!Active,
               \A c \in Accounts : leader'[c] # NoTeam => leader'[c] \in led', OneLeader'
        PROVE  RosterInv'
    <2>1. RosterRows'
      BY <1>1, <1>2 DEF RosterInv, RosterRows
    <2>2. UsedIsActive'
      BY <1>1, <1>2 DEF RosterInv, UsedIsActive, Squads!Active, Squads!Live
    <2>3. NamesDiffer' /\ NumbersDiffer' /\ OneImport'
      BY <1>1 DEF RosterInv, NamesDiffer, NumbersDiffer, OneImport, Squads!Live
    <2>q. QED BY <1>2, <2>1, <2>2, <2>3 DEF RosterInv
  <1>3. /\ led \subseteq Teams /\ season \in SeasonRow /\ \A t \in led : t \in Squads!Active
        /\ \A c \in Accounts : leader[c] # NoTeam => leader[c] \in led
    BY DEF RosterInv, RosterRows, UsedIsActive
  <1>4. CASE Squads!ReleaseLeader(a)
    <2>1. /\ leader' = [leader EXCEPT ![a] = NoTeam] /\ season' = Squads!Bumped /\ led' = led
          /\ season.version < MaxVersion
      BY <1>4 DEF Squads!ReleaseLeader
    <2>2. /\ leader' \in [Accounts -> Teams \cup {NoTeam}]
          /\ \A c \in Accounts : leader'[c] \in {leader[c], NoTeam}
      BY <1>1, <2>1
    <2>3. OneLeader'
      BY <2>2 DEF RosterInv, OneLeader
    <2>4. RosterInv'
      BY <1>2, <1>3, <2>1, <2>2, <2>3, VersionRises
    <2>5. ~Squads!Gains
      BY <2>2 DEF Squads!Gains
    <2>q. QED BY <2>4, <2>5 DEF Squads!AsShown
  <1>5. ASSUME NEW t \in Teams, Squads!TransferLeader(a, t)
        PROVE  RosterInv' /\ Squads!AsShown
    <2>1. /\ led' = led \cup {t} /\ season' = Squads!Bumped /\ season.version < MaxVersion
          /\ t \in Squads!Active /\ leader[a] # t /\ shown.releases = Squads!Releases(a, t)
          /\ leader' = [c \in Accounts |->
                IF c = a THEN t ELSE IF c \in Squads!Releases(a, t) THEN NoTeam ELSE leader[c]]
      BY <1>5 DEF Squads!TransferLeader, Squads!Transfers, Squads!Transfer
    <2>2. /\ leader' \in [Accounts -> Teams \cup {NoTeam}] /\ leader'[a] = t
          /\ \A c \in Accounts \ {a} : /\ c \in Squads!Releases(a, t) => leader'[c] = NoTeam
                                       /\ c \notin Squads!Releases(a, t) => leader'[c] = leader[c]
      BY <1>1, <2>1
    <2>3. \A c \in Accounts : c \in Squads!Releases(a, t) <=>
                               leader[c] # NoTeam /\ (c = a \/ leader[c] = t)
      BY <2>1 DEF Squads!Releases
    <2>4. \A c \in Accounts \ {a} : leader'[c] # NoTeam => leader'[c] = leader[c] /\ leader[c] # t
      BY <2>2, <2>3
    <2>5. OneLeader'
      BY <2>2, <2>4 DEF RosterInv, OneLeader
    <2>6. \A c \in Accounts : leader'[c] # NoTeam => leader'[c] \in led'
      BY <1>3, <2>1, <2>2, <2>4
    <2>7. RosterInv'
      BY <1>2, <1>3, <2>1, <2>2, <2>5, <2>6, VersionRises
    <2>8. \A c \in Accounts : Squads!Loses(c) => c \in shown.releases
      BY <2>1, <2>2, <2>3 DEF Squads!Loses
    <2>q. QED BY <2>7, <2>8 DEF Squads!AsShown
  <1>6. ASSUME NEW t \in Teams, Squads!ClaimTeam(a, t)
        PROVE  RosterInv' /\ Squads!AsShown
    <2>1. /\ led' = led \cup {t} /\ season' = season /\ t \in Squads!Active
          /\ leader[a] = NoTeam /\ leader' = [leader EXCEPT ![a] = t]
          /\ \A c \in Accounts : leader[c] # t
      BY <1>6 DEF Squads!ClaimTeam, Squads!Leads
    <2>2. /\ leader' \in [Accounts -> Teams \cup {NoTeam}] /\ leader'[a] = t
          /\ \A c \in Accounts \ {a} : leader'[c] = leader[c]
      BY <1>1, <2>1
    <2>3. OneLeader'
      BY <2>1, <2>2 DEF RosterInv, OneLeader
    <2>4. \A c \in Accounts : leader'[c] # NoTeam => leader'[c] \in led'
      BY <1>3, <2>1, <2>2
    <2>5. RosterInv'
      BY <1>2, <1>3, <2>1, <2>2, <2>3, <2>4
    <2>6. \A c \in Accounts : ~Squads!Loses(c)
      BY <2>1, <2>2 DEF Squads!Loses
    <2>q. QED BY <2>5, <2>6 DEF Squads!AsShown
  <1>q. QED BY <1>4, <1>5, <1>6

LEMMA AroundKeeps ==
  ASSUME RosterAssumptions, RosterInv,
         \/ \E b \in Batches, f \in Files : Squads!UploadRoster(b, f) \/ Squads!ResolveNames(b, f)
         \/ \E a \in Accounts, t \in Teams : Squads!PreviewTransfer(a, t)
         \/ \E next \in {"PUBLISHED", "ARCHIVED"} : Squads!Lifecycle(next)
         \/ \E ts \in SUBSET Teams : Squads!Draw(ts)
         \/ UNCHANGED Squads!vars
  PROVE  RosterInv'
  <1>1. /\ UNCHANGED <<team, player, leader, led>>
        /\ drawn' \in SUBSET Teams
        /\ \A t \in drawn' : t \in drawn \/ t \in Squads!Active
    BY DEF Squads!UploadRoster, Squads!ResolveNames, Squads!PreviewTransfer, Squads!Lifecycle,
       Squads!Draw, Squads!vars, Squads!rosterVars, Squads!bindingVars, RosterInv, RosterRows
  <1>2. season' \in SeasonRow
    <2>1. CASE season' = season
      BY <2>1 DEF RosterInv, RosterRows
    <2>2. ASSUME NEW next \in {"PUBLISHED", "ARCHIVED"}, Squads!Lifecycle(next)
          PROVE  season' \in SeasonRow
      <3>1. Squads!Bumped \in SeasonRow /\ season' = [Squads!Bumped EXCEPT !.status = next]
        BY <2>2, VersionRises DEF Squads!Lifecycle, Squads!Open
      <3>q. QED BY <3>1 DEF SeasonRow
    <2>3. ASSUME NEW ts \in SUBSET Teams, Squads!Draw(ts) PROVE season' \in SeasonRow
      BY <2>3, VersionRises DEF Squads!Draw, Squads!Open
    <2>q. QED BY <2>1, <2>2, <2>3 DEF Squads!UploadRoster, Squads!ResolveNames,
             Squads!PreviewTransfer, Squads!vars
  <1>3. /\ batch' \in [Batches -> BatchRow]
        /\ \A c \in Batches : batch'[c].status = "CONFIRMED" => batch[c].status = "CONFIRMED"
    <2>1. /\ batch \in [Batches -> BatchRow] /\ season.version \in 1 .. MaxVersion
      BY DEF RosterInv, RosterRows, SeasonRow
    <2>2. ASSUME NEW b \in Batches, NEW f \in Files, Squads!UploadRoster(b, f)
          PROVE  /\ batch' \in [Batches -> BatchRow]
                 /\ \A c \in Batches : batch'[c].status = "CONFIRMED" => batch[c].status = "CONFIRMED"
      <3> DEFINE new == [status |-> "VALIDATED", base |-> season.version, file |-> f]
      <3>1. batch' = [batch EXCEPT ![b] = new] /\ new \in BatchRow /\ new.status = "VALIDATED"
        BY <2>1, <2>2 DEF Squads!UploadRoster, BatchRow
      <3> HIDE DEF new
      <3>q. QED BY <2>1, <3>1
    <2>3. ASSUME NEW b \in Batches, NEW f \in Files, Squads!ResolveNames(b, f)
          PROVE  /\ batch' \in [Batches -> BatchRow]
                 /\ \A c \in Batches : batch'[c].status = "CONFIRMED" => batch[c].status = "CONFIRMED"
      <3> DEFINE new == [batch[b] EXCEPT !.file = f]
      <3>1. batch' = [batch EXCEPT ![b] = new] /\ new \in BatchRow /\ new.status = batch[b].status
        BY <2>1, <2>3 DEF Squads!ResolveNames, BatchRow
      <3> HIDE DEF new
      <3>q. QED BY <2>1, <3>1
    <2>4. CASE batch' = batch
      BY <2>1, <2>4
    <2>q. QED BY <2>2, <2>3, <2>4 DEF Squads!PreviewTransfer, Squads!Lifecycle, Squads!Draw,
             Squads!vars, Squads!rosterVars
  <1>4. RosterRows'
    BY <1>1, <1>2, <1>3 DEF RosterInv, RosterRows
  <1>5. UsedIsActive' /\ OneLeader' /\ NamesDiffer' /\ NumbersDiffer'
    BY <1>1 DEF RosterInv, UsedIsActive, OneLeader, NamesDiffer, NumbersDiffer, Squads!Active,
       Squads!Live
  <1>6. OneImport'
    BY <1>3 DEF RosterInv, OneImport
  <1>q. QED BY <1>4, <1>5, <1>6 DEF RosterInv

LEMMA RosterStep ==
  ASSUME RosterAssumptions, RosterInv, [Squads!Next]_Squads!vars
  PROVE  RosterInv' /\ (Squads!AsShown \/ UNCHANGED Squads!vars)
  <1>1. CASE leader' = leader
    <2>1. Squads!AsShown
      BY <1>1 DEF Squads!AsShown, Squads!Gains
    <2>2. RosterInv'
      BY AroundKeeps, LeadersKeep, ImportKeeps, TeamCommandsKeep
         DEF Squads!Next, Squads!RosterCommand, Squads!LeaderCommand
    <2>q. QED BY <2>1, <2>2
  <1>2. CASE leader' # leader
    <2>1. PICK a \in Accounts : \/ Squads!ReleaseLeader(a)
                               \/ \E t \in Teams : Squads!TransferLeader(a, t) \/ Squads!ClaimTeam(a, t)
      BY <1>2 DEF Squads!Next, Squads!RosterCommand, Squads!LeaderCommand, Squads!UploadRoster,
         Squads!ResolveNames, Squads!ConfirmImport, Squads!CreateTeam, Squads!SaveTeam,
         Squads!PreviewTransfer, Squads!Lifecycle, Squads!Draw, Squads!vars, Squads!bindingVars
    <2>q. QED BY <2>1, LeadersKeep
  <1>q. QED BY <1>1, <1>2

LEMMA RosterInduction ==
  /\ RosterAssumptions /\ Squads!Init => RosterInv
  /\ RosterAssumptions /\ RosterInv /\ [Squads!Next]_Squads!vars => RosterInv' /\ [Squads!AsShown]_Squads!vars
  /\ RosterAssumptions => RosterAssumptions'
  <1>1. ASSUME RosterAssumptions, Squads!Init PROVE RosterInv
    <2>1. /\ \A t \in Teams : ~team[t].exists
          /\ \A p \in Players : player[p].team = NoTeam
          /\ \A a \in Accounts : leader[a] = NoTeam
          /\ \A b \in Batches : batch[b].status # "CONFIRMED"
          /\ led = {} /\ drawn = {}
      BY <1>1 DEF Squads!Init, Squads!Gone
    <2>2. RosterRows
      <3>1. (CHOOSE f \in Files : TRUE) \in Files /\ (CHOOSE n \in Names : TRUE) \in Names
        BY <1>1 DEF RosterAssumptions
      <3>2. /\ team \in [Teams -> TeamRow] /\ player \in [Players -> PlayerRow]
            /\ leader \in [Accounts -> Teams \cup {NoTeam}]
        BY <1>1, <3>1 DEF Squads!Init, Squads!Gone, TeamRow, PlayerRow
      <3>3. season \in SeasonRow
        BY <1>1 DEF Squads!Init, SeasonRow, RosterAssumptions
      <3>4. batch \in [Batches -> BatchRow]
        BY <1>1, <3>1 DEF Squads!Init, BatchRow
      <3>q. QED BY <2>1, <3>2, <3>3, <3>4 DEF RosterRows
    <2>q. QED BY <2>1, <2>2 DEF RosterInv, UsedIsActive, OneLeader, NamesDiffer, NumbersDiffer,
             OneImport, Squads!Live
  <1>q. QED BY <1>1, RosterStep DEF RosterAssumptions, Squads!Rows

LEMMA InUseFollows ==
  ASSUME RosterAssumptions, RosterInv
  PROVE  Squads!TeamsInUseStay
  <1>1. ASSUME NEW S, \A x, y \in S : x = y PROVE Cardinality(S) <= 1
    <2>1. CASE S = {}
      BY <2>1, FS_EmptySet
    <2>2. CASE S # {}
      <3>1. PICK x \in S : TRUE
        BY <2>2
      <3>2. S = {x}
        BY <1>1, <3>1
      <3>3. Cardinality({x}) = 1
        BY FS_Singleton
      <3>q. QED BY <3>2, <3>3
    <2>q. QED BY <2>1, <2>2
  <1>2. \A S : Squads!Cardinality(S) = Cardinality(S)
    BY DEF Cardinality, Squads!Cardinality
  <1>3. \A t \in drawn \cup ({leader[a] : a \in Accounts} \ {NoTeam}) : t \in Squads!Active
    BY DEF RosterInv, UsedIsActive
  <1>4. \A t \in Teams : Squads!Cardinality(Squads!Leads(t)) <= 1
    <2>1. ASSUME NEW t \in Teams PROVE \A a, b \in Squads!Leads(t) : a = b
      BY DEF RosterInv, OneLeader, Squads!Leads, RosterAssumptions
    <2>q. QED BY <1>1, <1>2, <2>1
  <1>5. Squads!Cardinality({b \in Batches : batch[b].status = "CONFIRMED"}) <= 1
    <2>1. \A b, c \in {b \in Batches : batch[b].status = "CONFIRMED"} : b = c
      BY DEF RosterInv, OneImport
    <2>q. QED BY <1>1, <1>2, <2>1
  <1>6. ASSUME NEW t \in Squads!Live
        PROVE  Squads!Distinct([p \in Squads!Roster(t) |->
                 [number |-> player[p].number, active |-> player[p].active]])
    <2>1. t # NoTeam
      BY DEF Squads!Live, RosterAssumptions
    <2>2. ASSUME NEW p \in Squads!Roster(t), NEW q \in Squads!Roster(t), p # q, player[p].active,
                 player[q].active, player[p].number # NoNumber
          PROVE  player[p].number # player[q].number
      BY <2>1, <2>2 DEF RosterInv, NumbersDiffer, Squads!Roster
    <2>q. QED BY <2>2 DEF Squads!Distinct
  <1>q. QED BY <1>3, <1>4, <1>5, <1>6 DEF Squads!TeamsInUseStay, RosterInv, NamesDiffer

(* What may be confirmed is the transfer of a leader of a version there was. *)
ShownTyped ==
  shown \in {NoPreview} \cup
    [version : 1 .. MaxVersion, account : Accounts, team : Teams, releases : SUBSET Accounts]

LEMMA ShownStaysTyped ==
  ASSUME RosterInv, ShownTyped, [Squads!Next]_Squads!vars
  PROVE  ShownTyped'
  <1>1. CASE shown' = shown
    BY <1>1 DEF ShownTyped
  <1>2. ASSUME NEW a \in Accounts, NEW t \in Teams, Squads!PreviewTransfer(a, t)
        PROVE  ShownTyped'
    <2>1. Squads!Releases(a, t) \in SUBSET Accounts
      BY DEF Squads!Releases
    <2>2. season.version \in 1 .. MaxVersion
      BY DEF RosterInv, RosterRows, SeasonRow
    <2>q. QED BY <1>2, <2>1, <2>2 DEF Squads!PreviewTransfer, Squads!Transfer, ShownTyped
  <1>3. CASE UNCHANGED Squads!vars
    BY <1>1, <1>3 DEF Squads!vars
  <1>4. CASE Squads!RosterCommand
    <2>1. UNCHANGED Squads!bindingVars
      BY <1>4 DEF Squads!RosterCommand, Squads!UploadRoster, Squads!ResolveNames,
         Squads!ConfirmImport, Squads!CreateTeam, Squads!SaveTeam
    <2>q. QED BY <1>1, <2>1 DEF Squads!bindingVars
  <1>5. ASSUME NEW a \in Accounts, Squads!LeaderCommand(a) \/ \E t \in Teams : Squads!ClaimTeam(a, t)
        PROVE  ShownTyped'
    BY <1>1, <1>2, <1>5 DEF Squads!LeaderCommand, Squads!ReleaseLeader, Squads!TransferLeader,
       Squads!Transfers, Squads!ClaimTeam
  <1>6. ASSUME \/ \E next \in {"PUBLISHED", "ARCHIVED"} : Squads!Lifecycle(next)
               \/ \E ts \in SUBSET Teams : Squads!Draw(ts)
        PROVE  ShownTyped'
    BY <1>1, <1>6 DEF Squads!Lifecycle, Squads!Draw, Squads!bindingVars
  <1>q. QED BY <1>3, <1>4, <1>5, <1>6 DEF Squads!Next

(* Teams that are drawn or led exist and are active, have one leader, a    *)
(* name and numbers of their own, whatever imports, edits, claims and      *)
(* transfers come between; and whoever loses a team to a transfer was      *)
(* shown to the administrator who confirmed it (roster_management.py,      *)
(* leader_bindings.py).                                                    *)
THEOREM TeamsStay ==
  RosterAssumptions /\ Squads!Spec
    => [](Squads!TypeOK /\ Squads!TeamsInUseStay) /\ [][Squads!AsShown]_Squads!vars
  <1>1. RosterAssumptions /\ RosterInv => Squads!TeamsInUseStay
    BY InUseFollows
  <1>2. RosterInv /\ ShownTyped => Squads!TypeOK
    BY DEF RosterInv, RosterRows, SeasonRow, BatchRow, TeamRow, PlayerRow, ShownTyped,
       Squads!TypeOK
  <1>3. Squads!Init => ShownTyped
    BY DEF Squads!Init, ShownTyped
  <1>q. QED BY <1>1, <1>2, <1>3, ShownStaysTyped, RosterInduction, PTL DEF Squads!Spec

-----------------------------------------------------------------------------
(* Imports of the schedule. *)
CONSTANTS Matchups, Places, SlotsOf, TimeOf, Capacity, Grids, Families, NoGame
VARIABLES draft, game

Imports == INSTANCE ScheduleImports

(* A grid puts matchups on places; a date and period holds so many games. *)
ImportAssumptions ==
  /\ IsFiniteSet(Places) /\ IsFiniteSet(Matchups) /\ MaxVersion \in Nat \ {0}
  /\ \A p \in Places : Capacity[TimeOf[p]] \in Nat
  /\ \A c \in Grids : DOMAIN c \subseteq Places /\ c \in [DOMAIN c -> Matchups]
  /\ NoGame \notin [place : Places, batch : Batches, live : BOOLEAN]

GameRow == [place : Places, batch : Batches, live : BOOLEAN]
ImportRow ==
  [status : {"NONE", "VALIDATED", "REJECTED", "CONFIRMED", "ROLLED_BACK"},
   draftVersion : 0 .. MaxVersion, cells : Imports!Cells, clean : BOOLEAN]
DraftRow == [version : 1 .. MaxVersion, cells : Imports!Cells]

ImportSeason == [status : {"SETUP", "PUBLISHED"}, version : Nat, expected : Families]

ImportRows ==
  /\ season \in ImportSeason
  /\ draft \in DraftRow /\ batch \in [Batches -> ImportRow]
  /\ game \in [Matchups -> {NoGame} \cup GameRow]

(* What was validated from the draft as it is now is what the draft shows. *)
Dated ==
  \A b \in Batches :
    /\ batch[b].draftVersion <= draft.version
    /\ batch[b].draftVersion = draft.version => batch[b].cells = draft.cells

(* Games are those of the confirmed imports. *)
GamesOfImports ==
  /\ \A m \in Matchups : game[m] # NoGame => batch[game[m].batch].status = "CONFIRMED"
  /\ \A b \in Batches : batch[b].status = "CONFIRMED" =>
       \A p \in DOMAIN batch[b].cells :
         game[batch[b].cells[p]] # NoGame /\ game[batch[b].cells[p]].batch = b

Playing(m) == game[m] # NoGame /\ game[m].live
GamesApart ==
  \A m, n \in Matchups : Playing(m) /\ Playing(n) /\ m # n =>
    /\ game[m].place # game[n].place
    /\ TimeOf[game[m].place] = TimeOf[game[n].place] => SlotsOf[m] \cap SlotsOf[n] = {}

PlayedAt(t) == {m \in Matchups : Playing(m) /\ TimeOf[game[m].place] = t}
RoomForAll == \A p \in Places : Cardinality(PlayedAt(TimeOf[p])) <= Capacity[TimeOf[p]]

ImportInv == ImportRows /\ Dated /\ GamesOfImports /\ GamesApart /\ RoomForAll

-----------------------------------------------------------------------------
LEMMA BumpedIsSeason ==
  ASSUME ImportInv
  PROVE  Imports!Bumped \in ImportSeason
  BY DEF ImportInv, ImportRows, ImportSeason, Imports!Bumped

LEMMA PlayedIsFinite ==
  ASSUME ImportAssumptions, NEW t
  PROVE  /\ IsFiniteSet(PlayedAt(t)) /\ Cardinality(PlayedAt(t)) \in Nat
  <1>1. PlayedAt(t) \subseteq Matchups
    BY DEF PlayedAt
  <1>q. QED BY <1>1, FS_Subset, FS_CardinalityType DEF ImportAssumptions

(* The game that a confirmation makes of a place. *)
Entry(p, b) == [place |-> p, batch |-> b, live |-> TRUE]
LEMMA EntryIsGame ==
  ASSUME ImportAssumptions, NEW p \in Places, NEW b \in Batches
  PROVE  /\ Entry(p, b) \in GameRow /\ Entry(p, b) # NoGame
         /\ Entry(p, b).place = p /\ Entry(p, b).batch = b /\ Entry(p, b).live
  <1>1. Entry(p, b) \in GameRow
    BY DEF Entry, GameRow
  <1>2. Entry(p, b).place = p
    BY DEF Entry
  <1>3. Entry(p, b).batch = b
    BY DEF Entry
  <1>4. Entry(p, b).live
    BY DEF Entry
  <1>q. QED BY <1>1, <1>2, <1>3, <1>4 DEF ImportAssumptions, GameRow

LEMMA ConfirmationEnters ==
  ASSUME ImportAssumptions, ImportInv, NEW b \in Batches, Imports!ConfirmSchedule(b)
  PROVE  LET cells == batch[b].cells IN
         /\ DOMAIN cells \subseteq Places /\ DOMAIN cells # {}
         /\ \A p \in DOMAIN cells : cells[p] \in Matchups
         /\ \A p, q \in DOMAIN cells : cells[p] = cells[q] => p = q
         /\ \A p \in DOMAIN cells :
              /\ game[cells[p]] = NoGame
              /\ game'[cells[p]] = Entry(p, b)
         /\ \A m \in Matchups : (\A p \in DOMAIN cells : cells[p] # m) => game'[m] = game[m]
         /\ game' \in [Matchups -> {NoGame} \cup GameRow]
  <1> DEFINE cells == batch[b].cells
             at == Imports!AntiFunction(cells)
  <1>1. /\ DOMAIN cells # {} /\ Imports!IsInjective(cells)
        /\ Imports!Range(cells) \cap Imports!Exists(game) = {}
        /\ game' = [m \in Matchups |->
              IF m \in DOMAIN at THEN Entry(at[m], b) ELSE game[m]]
    BY DEF Entry, Imports!ConfirmSchedule, Imports!Confirmable, Imports!Clean, Imports!MatchupsNew,
       Imports!Enter
  <1>2. cells \in Grids
    <2>1. batch[b] \in ImportRow
      BY DEF ImportInv, ImportRows
    <2>2. DOMAIN Imports!NoCells = {}
      BY DEF Imports!NoCells
    <2>q. QED BY <1>1, <2>1, <2>2 DEF ImportRow, Imports!Cells
  <1>3. DOMAIN cells \subseteq Places /\ \A p \in DOMAIN cells : cells[p] \in Matchups
    BY <1>2 DEF ImportAssumptions
  <1> HIDE DEF cells
  <1>4. DOMAIN at = Imports!Range(cells)
    BY DEF Imports!AntiFunction, Imports!Inverse
  <1>5. \A p \in DOMAIN cells : cells[p] \in Imports!Range(cells)
    BY DEF Imports!Range
  <1>6. ASSUME NEW p \in DOMAIN cells PROVE at[cells[p]] = p
    <2>1. at[cells[p]] = CHOOSE s \in DOMAIN cells :
                            cells[p] \in Imports!Range(cells) => cells[s] = cells[p]
      BY <1>5 DEF Imports!AntiFunction, Imports!Inverse
    <2>2. /\ at[cells[p]] \in DOMAIN cells /\ cells[at[cells[p]]] = cells[p]
      BY <1>5, <2>1
    <2>q. QED BY <1>1, <2>2 DEF Imports!IsInjective
  <1>7. \A m : m \in Imports!Range(cells) => \E p \in DOMAIN cells : cells[p] = m
    BY DEF Imports!Range
  <1> HIDE DEF at
  <1>8. \A p \in DOMAIN cells :
          /\ game[cells[p]] = NoGame
          /\ game'[cells[p]] = Entry(p, b)
    BY <1>1, <1>3, <1>4, <1>5, <1>6 DEF Imports!Exists
  <1>9. \A m \in Matchups : (\A p \in DOMAIN cells : cells[p] # m) => game'[m] = game[m]
    BY <1>1, <1>4, <1>7
  <1>10. game' \in [Matchups -> {NoGame} \cup GameRow]
    <2>1. \A p \in DOMAIN cells : Entry(p, b) \in GameRow
      BY <1>3, EntryIsGame
    <2>2. \A m \in Matchups : game'[m] \in {NoGame} \cup GameRow
      BY <1>8, <1>9, <2>1 DEF ImportInv, ImportRows
    <2>q. QED BY <1>1, <2>2
  <1>11. \A p, q \in DOMAIN cells : cells[p] = cells[q] => p = q
    BY <1>1 DEF Imports!IsInjective
  <1>q. QED BY <1>1, <1>3, <1>8, <1>9, <1>10, <1>11 DEF cells

LEMMA ConfirmationKeepsApart ==
  ASSUME ImportAssumptions, ImportInv, NEW b \in Batches, Imports!ConfirmSchedule(b)
  PROVE  GamesApart'
  <1> DEFINE cells == batch[b].cells
             Entered(m) == \E p \in DOMAIN cells : cells[p] = m
  <1>1. /\ DOMAIN cells \subseteq Places
        /\ \A p \in DOMAIN cells : cells[p] \in Matchups
        /\ \A p \in DOMAIN cells :
              /\ game[cells[p]] = NoGame
              /\ game'[cells[p]] = Entry(p, b)
        /\ \A m \in Matchups : ~Entered(m) => game'[m] = game[m]
    BY ConfirmationEnters
  <1>2. /\ \A m \in Imports!Live(game) : game[m].place \notin DOMAIN cells
        /\ \A p \in DOMAIN cells :
             /\ \A q \in DOMAIN cells \ {p} :
                  TimeOf[p] = TimeOf[q] => SlotsOf[cells[p]] \cap SlotsOf[cells[q]] = {}
             /\ \A m \in Imports!Live(game) :
                  TimeOf[p] = TimeOf[game[m].place] => SlotsOf[cells[p]] \cap SlotsOf[m] = {}
    BY DEF Imports!ConfirmSchedule, Imports!Confirmable, Imports!Clean, Imports!PlacesFree,
       Imports!SlotsFree
  <1>3. \A m \in Matchups : Playing(m) <=> m \in Imports!Live(game)
    BY DEF Playing, Imports!Live, Imports!Exists
  <1> HIDE DEF cells
  <1>4. \A p \in DOMAIN cells : game'[cells[p]].place = p
    BY <1>1, EntryIsGame
  <1>5. \A m, n \in Matchups : Entered(m) /\ Entered(n) /\ m # n =>
          /\ game'[m].place # game'[n].place
          /\ TimeOf[game'[m].place] = TimeOf[game'[n].place] => SlotsOf[m] \cap SlotsOf[n] = {}
    BY <1>2, <1>4
  <1>6. \A m, n \in Matchups : Entered(m) /\ ~Entered(n) /\ Playing(n)' =>
          /\ game'[m].place # game'[n].place
          /\ TimeOf[game'[m].place] = TimeOf[game'[n].place] => SlotsOf[m] \cap SlotsOf[n] = {}
    BY <1>1, <1>2, <1>3, <1>4 DEF Playing
  <1>7. \A m, n \in Matchups : ~Entered(m) /\ ~Entered(n) /\ Playing(m)' /\ Playing(n)' /\ m # n =>
          /\ game'[m].place # game'[n].place
          /\ TimeOf[game'[m].place] = TimeOf[game'[n].place] => SlotsOf[m] \cap SlotsOf[n] = {}
    BY <1>1 DEF Playing, ImportInv, GamesApart
  <1>q. QED BY <1>5, <1>6, <1>7 DEF GamesApart

(* A confirmation counts its grid with the games that are there. *)
LEMMA ConfirmationHasRoom ==
  ASSUME ImportAssumptions, ImportInv, NEW b \in Batches, Imports!ConfirmSchedule(b)
  PROVE  RoomForAll'
  <1> DEFINE cells == batch[b].cells
             New(t) == {p \in DOMAIN cells : TimeOf[p] = t}
             Games(t) == {cells[p] : p \in New(t)}
             Entered(m) == \E p \in DOMAIN cells : cells[p] = m
  <1>1. /\ DOMAIN cells \subseteq Places
        /\ \A p \in DOMAIN cells : game'[cells[p]] = Entry(p, b)
        /\ \A m \in Matchups : ~Entered(m) => game'[m] = game[m]
    BY ConfirmationEnters
  <1>2. \A p \in DOMAIN cells : Imports!GamesAt(cells, game, TimeOf[p]) <= Capacity[TimeOf[p]]
    BY DEF Imports!ConfirmSchedule, Imports!Confirmable, Imports!Clean, Imports!WithinCapacity
  <1>3. \A t : Imports!GamesAt(cells, game, t) = Cardinality(New(t)) + Cardinality(PlayedAt(t))
    <2> SUFFICES ASSUME NEW t
                 PROVE  Imports!GamesAt(cells, game, t)
                          = Cardinality(New(t)) + Cardinality(PlayedAt(t))
      OBVIOUS
    <2>1. \A S : Imports!Cardinality(S) = Cardinality(S)
      BY DEF Cardinality, Imports!Cardinality
    <2>2. {m \in Imports!Live(game) : TimeOf[game[m].place] = t} = PlayedAt(t)
      BY DEF PlayedAt, Playing, Imports!Live, Imports!Exists
    <2>q. QED BY <2>1, <2>2 DEF Imports!GamesAt
  <1> HIDE DEF cells
  <1>4. ASSUME NEW t PROVE PlayedAt(t)' \subseteq PlayedAt(t) \cup Games(t)
    <2> SUFFICES ASSUME NEW m \in PlayedAt(t)' PROVE m \in PlayedAt(t) \cup Games(t)
      OBVIOUS
    <2>1. m \in Matchups /\ Playing(m)' /\ TimeOf[game'[m].place] = t
      BY DEF PlayedAt
    <2>2. CASE Entered(m)
      <3>1. PICK p \in DOMAIN cells : cells[p] = m
        BY <2>2
      <3>2. game'[m].place = p
        BY <1>1, <3>1, EntryIsGame
      <3>q. QED BY <2>1, <3>1, <3>2
    <2>3. CASE ~Entered(m)
      BY <1>1, <2>1, <2>3 DEF PlayedAt, Playing
    <2>q. QED BY <2>2, <2>3
  <1>5. ASSUME NEW t
        PROVE  /\ IsFiniteSet(Games(t)) /\ Cardinality(Games(t)) <= Cardinality(New(t))
               /\ Cardinality(Games(t)) \in Nat /\ Cardinality(New(t)) \in Nat
    <2>1. New(t) \subseteq Places
      BY <1>1
    <2>2. IsFiniteSet(New(t)) /\ Cardinality(New(t)) \in Nat
      BY <2>1, FS_Subset, FS_CardinalityType DEF ImportAssumptions
    <2> DEFINE f == [p \in New(t) |-> cells[p]]
    <2>3. f \in Surjection(New(t), Games(t))
      BY DEF Surjection
    <2> HIDE DEF f, New, Games
    <2>4. IsFiniteSet(Games(t)) /\ Cardinality(Games(t)) <= Cardinality(New(t))
      BY <2>2, <2>3, FS_Surjection
    <2>q. QED BY <2>2, <2>4, FS_CardinalityType
  <1>6. ASSUME NEW q \in Places
        PROVE  Cardinality(PlayedAt(TimeOf[q])') <= Capacity[TimeOf[q]]
    <2> DEFINE t == TimeOf[q]
    <2>1. /\ IsFiniteSet(PlayedAt(t)) /\ Cardinality(PlayedAt(t)) \in Nat
          /\ Capacity[t] \in Nat /\ Cardinality(PlayedAt(t)) <= Capacity[t]
      BY PlayedIsFinite DEF ImportAssumptions, ImportInv, RoomForAll
    <2>2. CASE New(t) = {}
      <3>1. Games(t) = {}
        BY <2>2
      <3>2. PlayedAt(t)' \subseteq PlayedAt(t)
        BY <1>4, <3>1
      <3>3. Cardinality(PlayedAt(t)') <= Cardinality(PlayedAt(t)) /\ Cardinality(PlayedAt(t)') \in Nat
        BY <2>1, <3>2, FS_Subset, FS_CardinalityType
      <3>q. QED BY <2>1, <3>3
    <2>3. CASE New(t) # {}
      <3>1. Cardinality(New(t)) + Cardinality(PlayedAt(t)) <= Capacity[t]
        BY <1>2, <1>3, <2>3
      <3> HIDE DEF New, Games
      <3>2. /\ IsFiniteSet(PlayedAt(t) \cup Games(t))
            /\ Cardinality(PlayedAt(t) \cup Games(t))
                 = Cardinality(PlayedAt(t)) + Cardinality(Games(t))
                     - Cardinality(PlayedAt(t) \cap Games(t))
        BY <1>5, <2>1, FS_Union
      <3>3. Cardinality(PlayedAt(t) \cap Games(t)) \in Nat
        BY <2>1, FS_Intersection, FS_CardinalityType
      <3>4. /\ Cardinality(PlayedAt(t)') <= Cardinality(PlayedAt(t) \cup Games(t))
            /\ Cardinality(PlayedAt(t)') \in Nat /\ Cardinality(PlayedAt(t) \cup Games(t)) \in Nat
        BY <1>4, <3>2, FS_Subset, FS_CardinalityType
      <3>5. Cardinality(Games(t)) <= Cardinality(New(t)) /\ Cardinality(Games(t)) \in Nat
            /\ Cardinality(New(t)) \in Nat
        BY <1>5
      <3>q. QED BY <2>1, <3>1, <3>2, <3>3, <3>4, <3>5
    <2>q. QED BY <2>2, <2>3
  <1>7. \A q \in Places : Cardinality(PlayedAt(TimeOf[q]))' <= Capacity[TimeOf[q]]
    BY <1>6
  <1>q. QED BY <1>7 DEF RoomForAll

LEMMA ConfirmationKeeps ==
  ASSUME ImportAssumptions, ImportInv, NEW b \in Batches, Imports!ConfirmSchedule(b)
  PROVE  ImportInv'
  <1> DEFINE cells == batch[b].cells
             Entered(m) == \E p \in DOMAIN cells : cells[p] = m
             row == [batch[b] EXCEPT !.status = "CONFIRMED"]
             next == [version |-> draft.version + 1, cells |-> Imports!NoCells]
  <1>1. /\ DOMAIN cells \subseteq Places /\ \A p \in DOMAIN cells : cells[p] \in Matchups
        /\ \A p \in DOMAIN cells : game[cells[p]] = NoGame /\ game'[cells[p]] = Entry(p, b)
        /\ \A m \in Matchups : ~Entered(m) => game'[m] = game[m]
        /\ game' \in [Matchups -> {NoGame} \cup GameRow]
    BY ConfirmationEnters
  <1>2. /\ batch[b].status = "VALIDATED" /\ draft.version < MaxVersion
        /\ batch' = [batch EXCEPT ![b] = row]
        /\ draft' = draft \/ draft' = next
        /\ season' = Imports!Bumped
    BY DEF Imports!ConfirmSchedule, Imports!Confirmable, Imports!Enter
  <1>3. /\ batch[b] \in ImportRow /\ draft \in DraftRow /\ season \in ImportSeason
    BY DEF ImportInv, ImportRows
  <1>4. /\ row \in ImportRow /\ row.status = "CONFIRMED" /\ row.cells = cells
        /\ row.draftVersion = batch[b].draftVersion
    BY <1>3 DEF ImportRow
  <1>5. next \in DraftRow /\ next.version = draft.version + 1
    BY <1>2, <1>3 DEF DraftRow, Imports!Cells, ImportAssumptions
  <1>6. season' \in ImportSeason
    BY <1>2, BumpedIsSeason
  <1> HIDE DEF row, next, cells
  <1>7. /\ batch' \in [Batches -> ImportRow] /\ batch'[b] = row
        /\ \A c \in Batches \ {b} : batch'[c] = batch[c]
    BY <1>2, <1>4 DEF ImportInv, ImportRows
  <1>8. ImportRows'
    BY <1>1, <1>2, <1>3, <1>5, <1>6, <1>7 DEF ImportRows
  <1>9. Dated'
    <2>1. \A c \in Batches : /\ batch'[c].draftVersion = batch[c].draftVersion
                             /\ batch'[c].cells = batch[c].cells
                             /\ batch[c].draftVersion \in Nat
      BY <1>3, <1>4, <1>7 DEF cells, ImportInv, ImportRows, ImportRow
    <2>2. \A c \in Batches : /\ batch[c].draftVersion <= draft.version
                             /\ batch[c].draftVersion = draft.version => batch[c].cells = draft.cells
      BY DEF ImportInv, Dated
    <2>3. draft.version \in Nat
      BY <1>3 DEF DraftRow
    <2>q. QED BY <1>2, <1>5, <2>1, <2>2, <2>3 DEF Dated
  <1>10. GamesOfImports'
    <2>1. ASSUME NEW m \in Matchups, game'[m] # NoGame
          PROVE  batch'[game'[m].batch].status = "CONFIRMED"
      <3>1. CASE Entered(m)
        BY <1>1, <1>4, <1>7, <3>1, EntryIsGame
      <3>2. CASE ~Entered(m)
        <4>1. game'[m] = game[m] /\ game[m].batch \in Batches
          BY <1>1, <2>1, <3>2 DEF ImportInv, ImportRows, GameRow
        <4>2. batch[game[m].batch].status = "CONFIRMED"
          BY <2>1, <4>1 DEF ImportInv, GamesOfImports
        <4>q. QED BY <1>4, <1>7, <4>1, <4>2
      <3>q. QED BY <3>1, <3>2
    <2>2. ASSUME NEW c \in Batches, batch'[c].status = "CONFIRMED", NEW p \in DOMAIN batch'[c].cells
          PROVE  /\ game'[batch'[c].cells[p]] # NoGame
                 /\ game'[batch'[c].cells[p]].batch = c
      <3>1. CASE c = b
        BY <1>1, <1>4, <1>7, <2>2, <3>1, EntryIsGame
      <3>2. CASE c # b
        <4>1. batch'[c] = batch[c]
          BY <1>7, <3>2
        <4> DEFINE m == batch[c].cells[p]
        <4>2. game[m] # NoGame /\ game[m].batch = c
          BY <2>2, <4>1 DEF ImportInv, GamesOfImports
        <4>3. m \in Matchups
          <5>1. batch[c].cells \in Grids
            BY <2>2, <4>1 DEF ImportInv, ImportRows, ImportRow, Imports!Cells, Imports!NoCells
          <5>q. QED BY <2>2, <4>1, <5>1 DEF ImportAssumptions
        <4>4. ~Entered(m)
          BY <1>1, <4>2
        <4>q. QED BY <1>1, <4>1, <4>2, <4>3, <4>4
      <3>q. QED BY <3>1, <3>2
    <2>q. QED BY <2>1, <2>2 DEF GamesOfImports
  <1>q. QED BY <1>8, <1>9, <1>10, ConfirmationKeepsApart, ConfirmationHasRoom DEF ImportInv

-----------------------------------------------------------------------------
(* What happens beside confirmations. *)

LEMMA BatchesRewritten ==
  ASSUME ImportAssumptions, ImportInv, UNCHANGED game, ImportRows', Dated',
         \A b \in Batches : /\ batch'[b].status = "CONFIRMED" <=> batch[b].status = "CONFIRMED"
                            /\ batch[b].status = "CONFIRMED" => batch'[b].cells = batch[b].cells
  PROVE  ImportInv'
  <1>1. GamesOfImports'
    <2>1. \A m \in Matchups : game[m] # NoGame => game[m].batch \in Batches
      BY DEF ImportInv, ImportRows, GameRow
    <2>q. QED BY <2>1 DEF ImportInv, GamesOfImports
  <1>2. GamesApart'
    BY DEF ImportInv, GamesApart, Playing
  <1>3. RoomForAll'
    BY DEF ImportInv, RoomForAll, PlayedAt, Playing
  <1>q. QED BY <1>1, <1>2, <1>3 DEF ImportInv

LEMMA DraftKeeps ==
  ASSUME ImportAssumptions, ImportInv, NEW cells \in Imports!Cells, Imports!ReplaceDraft(cells)
  PROVE  ImportInv'
  <1> DEFINE next == [version |-> draft.version + 1, cells |-> cells]
             Reject(b) == IF Imports!FromDraft(b) /\ batch[b].status = "VALIDATED"
                          THEN [batch[b] EXCEPT !.status = "REJECTED"] ELSE batch[b]
  <1>1. /\ draft.version < MaxVersion /\ draft' = next
        /\ batch' = [b \in Batches |-> Reject(b)]
        /\ UNCHANGED <<season, game>>
    BY DEF Imports!ReplaceDraft
  <1>2. draft \in DraftRow /\ \A b \in Batches : batch[b] \in ImportRow
    BY DEF ImportInv, ImportRows
  <1>3. next \in DraftRow /\ next.version = draft.version + 1 /\ draft.version \in Nat
    BY <1>1, <1>2 DEF DraftRow, ImportAssumptions
  <1>4. \A b \in Batches :
          /\ Reject(b) \in ImportRow
          /\ Reject(b).status = "CONFIRMED" <=> batch[b].status = "CONFIRMED"
          /\ Reject(b).cells = batch[b].cells
          /\ Reject(b).draftVersion = batch[b].draftVersion
          /\ batch[b].draftVersion \in Nat
    BY <1>2 DEF ImportRow
  <1> HIDE DEF Reject, next
  <1>5. batch' \in [Batches -> ImportRow] /\ \A b \in Batches : batch'[b] = Reject(b)
    BY <1>1, <1>4
  <1>6. ImportRows'
    BY <1>1, <1>3, <1>5 DEF ImportInv, ImportRows
  <1>7. Dated'
    BY <1>1, <1>3, <1>4, <1>5 DEF ImportInv, Dated
  <1>q. QED BY <1>1, <1>4, <1>5, <1>6, <1>7, BatchesRewritten

LEMMA ValidationKeeps ==
  ASSUME ImportAssumptions, ImportInv, NEW b \in Batches, NEW cells \in Imports!Cells,
         NEW version \in {0, draft.version}, version = draft.version => cells = draft.cells,
         batch[b].status = "NONE", Imports!Validated(b, cells, version),
         UNCHANGED <<season, draft, game>>
  PROVE  ImportInv'
  <1> DEFINE clean == Imports!Clean(cells)
             row == [status |-> "VALIDATED", draftVersion |-> version, cells |-> cells,
                     clean |-> clean]
  <1>1. clean \in BOOLEAN
    BY DEF Imports!Clean
  <1>2. batch' = [batch EXCEPT ![b] = row]
    BY DEF Imports!Validated
  <1>3. draft.version \in 1 .. MaxVersion
    BY DEF ImportInv, ImportRows, DraftRow
  <1> HIDE DEF clean
  <1>4. row \in ImportRow
    BY <1>1, <1>3 DEF ImportRow, ImportAssumptions
  <1>5. row.draftVersion = version /\ row.cells = cells /\ row.status = "VALIDATED"
    OBVIOUS
  <1> HIDE DEF row
  <1>6. /\ batch' \in [Batches -> ImportRow] /\ batch'[b] = row
        /\ \A c \in Batches \ {b} : batch'[c] = batch[c]
    BY <1>2, <1>4 DEF ImportInv, ImportRows
  <1>7. ImportRows'
    BY <1>6 DEF ImportInv, ImportRows
  <1>8. Dated'
    BY <1>3, <1>5, <1>6 DEF ImportInv, Dated
  <1>9. \A c \in Batches : /\ batch'[c].status = "CONFIRMED" <=> batch[c].status = "CONFIRMED"
                           /\ batch[c].status = "CONFIRMED" => batch'[c].cells = batch[c].cells
    BY <1>5, <1>6
  <1>q. QED BY <1>7, <1>8, <1>9, BatchesRewritten

(* A reset takes every game back: all are of confirmed imports. *)
LEMMA ResetKeeps ==
  ASSUME ImportAssumptions, ImportInv, Imports!ResetImports
  PROVE  ImportInv' /\ UNCHANGED draft
  <1> DEFINE Undo(b) == IF b \in Imports!Confirmed
                        THEN [batch[b] EXCEPT !.status = "ROLLED_BACK"] ELSE batch[b]
  <1>1. /\ game' = [m \in Matchups |-> IF m \in Imports!Imported THEN NoGame ELSE game[m]]
        /\ batch' = [b \in Batches |-> Undo(b)]
        /\ season' = Imports!Bumped /\ UNCHANGED draft
    BY DEF Imports!ResetImports
  <1>2. \A m \in Matchups : game'[m] = NoGame
    <2>1. \A m \in Matchups : game[m] # NoGame => m \in Imports!Imported
      BY DEF ImportInv, ImportRows, GameRow, GamesOfImports, Imports!Imported, Imports!Exists,
         Imports!Confirmed
    <2>q. QED BY <1>1, <2>1
  <1>3. \A b \in Batches :
          /\ Undo(b) \in ImportRow /\ Undo(b).status # "CONFIRMED"
          /\ Undo(b).cells = batch[b].cells /\ Undo(b).draftVersion = batch[b].draftVersion
    <2>1. \A b \in Batches : batch[b] \in ImportRow
      BY DEF ImportInv, ImportRows
    <2>q. QED BY <2>1 DEF ImportRow, Imports!Confirmed
  <1> HIDE DEF Undo
  <1>4. batch' \in [Batches -> ImportRow] /\ \A b \in Batches : batch'[b] = Undo(b)
    BY <1>1, <1>3
  <1>5. ImportRows'
    <2>1. game' \in [Matchups -> {NoGame} \cup GameRow]
      BY <1>1, <1>2
    <2>q. QED BY <1>1, <1>4, <2>1, BumpedIsSeason DEF ImportInv, ImportRows
  <1>6. Dated'
    BY <1>1, <1>3, <1>4 DEF ImportInv, Dated
  <1>7. GamesOfImports'
    BY <1>2, <1>3, <1>4 DEF GamesOfImports
  <1>8. GamesApart'
    BY <1>2 DEF GamesApart, Playing
  <1>9. RoomForAll'
    <2>1. \A t : PlayedAt(t)' = {}
      BY <1>2 DEF PlayedAt, Playing
    <2>2. Cardinality({}) = 0
      BY FS_EmptySet
    <2>q. QED BY <2>1, <2>2 DEF RoomForAll, ImportAssumptions
  <1>q. QED BY <1>1, <1>5, <1>6, <1>7, <1>8, <1>9 DEF ImportInv

LEMMA EditKeepsImports ==
  ASSUME ImportAssumptions, ImportInv, NEW m \in Matchups, NEW place \in Places,
         NEW live \in BOOLEAN, Imports!EditGame(m, place, live)
  PROVE  ImportInv'
  <1> DEFINE row == [game[m] EXCEPT !.place = place, !.live = live]
  <1>1. /\ Playing(m)
        /\ \A n \in Matchups \ {m} : Playing(n) =>
             /\ place # game[n].place
             /\ TimeOf[place] = TimeOf[game[n].place] => SlotsOf[m] \cap SlotsOf[n] = {}
        /\ UNCHANGED <<season, draft, batch>>
    BY DEF Imports!EditGame, Imports!Live, Imports!Exists, Playing
  <1>2. game[m] \in GameRow
    BY <1>1 DEF ImportInv, ImportRows, Playing
  <1>3. game' = [game EXCEPT ![m] = row]
    BY <1>2 DEF Imports!EditGame, GameRow, ImportInv, ImportRows
  <1>4. row \in GameRow /\ row.place = place /\ row.batch = game[m].batch
    BY <1>2 DEF GameRow
  <1> HIDE DEF row
  <1>5. /\ game' \in [Matchups -> {NoGame} \cup GameRow] /\ game'[m] = row
        /\ \A n \in Matchups \ {m} : game'[n] = game[n]
    BY <1>3, <1>4 DEF ImportInv, ImportRows
  <1>6. ImportRows'
    BY <1>1, <1>5 DEF ImportInv, ImportRows
  <1>7. Dated'
    BY <1>1 DEF ImportInv, Dated
  <1>8. GamesOfImports'
    <2>1. row # NoGame /\ game[m] # NoGame
      BY <1>1, <1>4 DEF ImportAssumptions, GameRow, Playing
    <2>2. \A n \in Matchups : /\ game'[n] # NoGame <=> game[n] # NoGame
                              /\ game[n] # NoGame => game'[n].batch = game[n].batch
      BY <1>4, <1>5, <2>1
    <2>3. \A b \in Batches : \A p \in DOMAIN batch[b].cells : batch[b].cells[p] \in Matchups
      BY DEF ImportInv, ImportRows, ImportRow, Imports!Cells, Imports!NoCells, ImportAssumptions
    <2>q. QED BY <1>1, <2>2, <2>3 DEF ImportInv, GamesOfImports
  <1>9. GamesApart'
    BY <1>1, <1>4, <1>5 DEF ImportInv, GamesApart, Playing
  <1>10. \A t : PlayedAt(t)' \subseteq PlayedAt(t) \cup (IF TimeOf[place] = t THEN {m} ELSE {})
    BY <1>4, <1>5 DEF PlayedAt, Playing
  <1>11. ASSUME NEW q \in Places
         PROVE  Cardinality(PlayedAt(TimeOf[q])') <= Capacity[TimeOf[q]]
    <2> DEFINE t == TimeOf[q]
    <2>1. /\ IsFiniteSet(PlayedAt(t)) /\ Cardinality(PlayedAt(t)) \in Nat
          /\ Capacity[t] \in Nat /\ Cardinality(PlayedAt(t)) <= Capacity[t]
      BY PlayedIsFinite DEF ImportAssumptions, ImportInv, RoomForAll
    <2>2. CASE TimeOf[place] # t
      <3>1. PlayedAt(t)' \subseteq PlayedAt(t)
        BY <1>10, <2>2
      <3>2. Cardinality(PlayedAt(t)') <= Cardinality(PlayedAt(t)) /\ Cardinality(PlayedAt(t)') \in Nat
        BY <2>1, <3>1, FS_Subset, FS_CardinalityType
      <3>q. QED BY <2>1, <3>2
    <2>3. CASE TimeOf[place] = t
      <3> DEFINE Others == PlayedAt(t) \ {m}
                 without == [game EXCEPT ![m] = NoGame]
      <3>1. Imports!GamesAt(Imports!NoCells, without, t) < Capacity[t]
        BY <2>3 DEF Imports!EditGame
      <3>2. {n \in Imports!Live(without) : TimeOf[without[n].place] = t} = Others
        <4>1. \A n \in Matchups \ {m} : without[n] = game[n]
          BY DEF ImportInv, ImportRows
        <4>2. without[m] = NoGame
          BY DEF ImportInv, ImportRows
        <4> HIDE DEF without
        <4>q. QED BY <4>1, <4>2 DEF PlayedAt, Playing, Imports!Live, Imports!Exists
      <3> HIDE DEF without
      <3>3. Imports!GamesAt(Imports!NoCells, without, t) = Cardinality({}) + Cardinality(Others)
        <4>1. \A S : Imports!Cardinality(S) = Cardinality(S)
          BY DEF Cardinality, Imports!Cardinality
        <4>2. {p \in DOMAIN Imports!NoCells : TimeOf[p] = t} = {}
          BY DEF Imports!NoCells
        <4>q. QED BY <3>2, <4>1, <4>2 DEF Imports!GamesAt
      <3>4. m \notin Others
        OBVIOUS
      <3>5. IsFiniteSet(Others) /\ Cardinality(Others) \in Nat /\ Cardinality({}) = 0
        BY <2>1, FS_Subset, FS_CardinalityType, FS_EmptySet
      <3> HIDE DEF Others
      <3>6. Cardinality(Others) < Capacity[t]
        BY <2>1, <3>1, <3>3, <3>5
      <3>7. PlayedAt(t)' \subseteq Others \cup {m}
        BY <1>10 DEF Others
      <3>8. IsFiniteSet(Others \cup {m}) /\ Cardinality(Others \cup {m}) = Cardinality(Others) + 1
        BY <3>4, <3>5, FS_AddElement
      <3>9. /\ Cardinality(PlayedAt(t)') <= Cardinality(Others \cup {m})
            /\ Cardinality(PlayedAt(t)') \in Nat /\ Cardinality(Others \cup {m}) \in Nat
        BY <3>7, <3>8, FS_Subset, FS_CardinalityType
      <3>q. QED BY <2>1, <3>5, <3>6, <3>8, <3>9
    <2>q. QED BY <2>2, <2>3
  <1>12. RoomForAll'
    <2>1. \A q \in Places : Cardinality(PlayedAt(TimeOf[q]))' <= Capacity[TimeOf[q]]
      BY <1>11
    <2>q. QED BY <2>1 DEF RoomForAll
  <1>q. QED BY <1>6, <1>7, <1>8, <1>9, <1>12 DEF ImportInv

LEMMA SeasonMoves ==
  ASSUME ImportAssumptions, ImportInv,
         Imports!DrawTeams \/ Imports!Publish \/ \E families \in Families : Imports!Configure(families)
  PROVE  ImportInv' /\ UNCHANGED <<game, draft>>
  <1>1. UNCHANGED <<draft, batch, game>>
    BY DEF Imports!DrawTeams, Imports!Publish, Imports!Configure
  <1>2. season' \in ImportSeason
    <2>1. \A families \in Families : [Imports!Bumped EXCEPT !.expected = families] \in ImportSeason
      BY BumpedIsSeason DEF ImportSeason
    <2>2. [Imports!Bumped EXCEPT !.status = "PUBLISHED"] \in ImportSeason
      BY BumpedIsSeason DEF ImportSeason
    <2>q. QED BY <2>1, <2>2, BumpedIsSeason DEF Imports!DrawTeams, Imports!Publish, Imports!Configure
  <1>3. ImportRows' /\ Dated'
    BY <1>1, <1>2 DEF ImportInv, ImportRows, Dated
  <1>q. QED BY <1>1, <1>3, BatchesRewritten

LEMMA ImportStep ==
  ASSUME ImportAssumptions, ImportInv, [Imports!Next]_Imports!vars
  PROVE  ImportInv'
  <1>1. ASSUME NEW cells \in Imports!Cells, Imports!ReplaceDraft(cells) PROVE ImportInv'
    BY <1>1, DraftKeeps
  <1>2. ASSUME NEW b \in Batches, Imports!ValidateDraft(b) PROVE ImportInv'
    <2>1. draft.cells \in Imports!Cells
      BY DEF ImportInv, ImportRows, DraftRow
    <2>q. QED BY <1>2, <2>1, ValidationKeeps DEF Imports!ValidateDraft
  <1>3. ASSUME NEW b \in Batches, NEW cells \in Grids, Imports!UploadSchedule(b, cells)
        PROVE  ImportInv'
    <2>1. cells \in Imports!Cells /\ 0 # draft.version
      BY DEF ImportInv, ImportRows, DraftRow, Imports!Cells
    <2>q. QED BY <1>3, <2>1, ValidationKeeps DEF Imports!UploadSchedule
  <1>4. CASE UNCHANGED Imports!vars
    <2>1. UNCHANGED <<season, draft, batch, game>>
      BY <1>4 DEF Imports!vars
    <2>2. ImportRows' /\ Dated'
      BY <2>1 DEF ImportInv, ImportRows, Dated
    <2>q. QED BY <2>1, <2>2, BatchesRewritten
  <1>5. CASE Imports!DraftCommand
    BY <1>1, <1>2, <1>5 DEF Imports!DraftCommand
  <1>6. CASE Imports!ImportCommand
    BY <1>3, <1>6, ConfirmationKeeps, ResetKeeps DEF Imports!ImportCommand
  <1>q. QED BY <1>4, <1>5, <1>6, EditKeepsImports, SeasonMoves DEF Imports!Next

LEMMA ImportInduction ==
  /\ ImportAssumptions /\ Imports!Init => ImportInv
  /\ (ImportAssumptions /\ ImportInv) /\ [Imports!Next]_Imports!vars => (ImportAssumptions /\ ImportInv)'
  <1>1. ASSUME ImportAssumptions, Imports!Init PROVE ImportInv
    <2>1. /\ \A m \in Matchups : game[m] = NoGame
          /\ \A b \in Batches : batch[b] = Imports!Blank
          /\ draft = [version |-> 1, cells |-> Imports!NoCells]
          /\ game = [m \in Matchups |-> NoGame] /\ batch = [b \in Batches |-> Imports!Blank]
          /\ season \in ImportSeason
      BY <1>1 DEF Imports!Init, ImportSeason
    <2>2. Imports!Blank \in ImportRow /\ draft \in DraftRow
      BY <1>1, <2>1 DEF Imports!Blank, ImportRow, Imports!Cells, DraftRow, ImportAssumptions
    <2>3. ImportRows
      BY <2>1, <2>2 DEF ImportRows
    <2>4. Dated
      BY <2>1 DEF Dated, Imports!Blank
    <2>5. GamesOfImports /\ GamesApart
      BY <2>1 DEF GamesOfImports, GamesApart, Playing, Imports!Blank
    <2>6. RoomForAll
      <3>1. \A t : PlayedAt(t) = {}
        BY <2>1 DEF PlayedAt, Playing
      <3>2. Cardinality({}) = 0
        BY FS_EmptySet
      <3>q. QED BY <1>1, <3>1, <3>2 DEF RoomForAll, ImportAssumptions
    <2>q. QED BY <2>3, <2>4, <2>5, <2>6 DEF ImportInv
  <1>2. ImportAssumptions => ImportAssumptions'
    BY DEF ImportAssumptions
  <1>q. QED BY <1>1, <1>2, ImportStep

(* The invariant says what ImportsAreWhole does. *)
LEMMA WholeFollows ==
  ASSUME ImportAssumptions, ImportInv
  PROVE  Imports!ImportsAreWhole
  <1>1. \A m \in Imports!Exists(game) : game[m].batch \in Imports!Confirmed
    BY DEF ImportInv, ImportRows, GameRow, GamesOfImports, Imports!Exists, Imports!Confirmed
  <1>2. ASSUME NEW b \in Imports!Confirmed, NEW m \in Imports!Range(batch[b].cells)
        PROVE  m \in Imports!Exists(game) /\ game[m].batch = b
    <2>1. PICK p \in DOMAIN batch[b].cells : m = batch[b].cells[p]
      BY DEF Imports!Range
    <2>2. b \in Batches /\ game[m] # NoGame /\ game[m].batch = b
      BY <2>1 DEF ImportInv, GamesOfImports, Imports!Confirmed
    <2>3. m \in Matchups
      BY <2>1, <2>2 DEF ImportInv, ImportRows, ImportRow, Imports!Cells, Imports!NoCells,
         ImportAssumptions
    <2>q. QED BY <2>2, <2>3 DEF Imports!Exists
  <1>3. \A m \in Imports!Live(game) : m \in Matchups /\ Playing(m)
    BY DEF Playing, Imports!Live, Imports!Exists
  <1>4. \A m, n \in Imports!Live(game) : m # n =>
          /\ game[m].place # game[n].place
          /\ TimeOf[game[m].place] = TimeOf[game[n].place] => SlotsOf[m] \cap SlotsOf[n] = {}
    BY <1>3 DEF ImportInv, GamesApart
  <1>5. ASSUME NEW p \in Places
        PROVE  Imports!GamesAt(Imports!NoCells, game, TimeOf[p]) <= Capacity[TimeOf[p]]
    <2> DEFINE t == TimeOf[p]
    <2>1. \A S : Imports!Cardinality(S) = Cardinality(S)
      BY DEF Cardinality, Imports!Cardinality
    <2>2. {m \in Imports!Live(game) : TimeOf[game[m].place] = t} = PlayedAt(t)
      BY DEF PlayedAt, Playing, Imports!Live, Imports!Exists
    <2>3. {q \in DOMAIN Imports!NoCells : TimeOf[q] = t} = {}
      BY DEF Imports!NoCells
    <2>4. Imports!GamesAt(Imports!NoCells, game, t) = Cardinality({}) + Cardinality(PlayedAt(t))
      BY <2>1, <2>2, <2>3 DEF Imports!GamesAt
    <2>5. Cardinality({}) = 0 /\ Cardinality(PlayedAt(t)) \in Nat
      BY FS_EmptySet, PlayedIsFinite
    <2>6. Cardinality(PlayedAt(t)) <= Capacity[t]
      BY DEF ImportInv, RoomForAll
    <2> HIDE DEF t
    <2>q. QED BY <2>4, <2>5, <2>6 DEF t
  <1>q. QED BY <1>1, <1>2, <1>4, <1>5 DEF Imports!ImportsAreWhole

(* A draft is emptied into games only by a confirmation of what it shows. *)
LEMMA DraftEmptied ==
  ASSUME ImportAssumptions, ImportInv, [Imports!Next]_Imports!vars
  PROVE  Imports!UsedUpAsGames
  <1> SUFFICES ASSUME Imports!DraftUsedUp, NEW p \in DOMAIN draft.cells
               PROVE  Imports!Entered(p)
    BY DEF Imports!UsedUpAsGames
  <1>1. draft' # draft
    BY DEF Imports!DraftUsedUp, Imports!NoCells
  <1>2. game' # game
    BY DEF Imports!DraftUsedUp
  <1>3. PICK b \in Batches : Imports!ConfirmSchedule(b)
    <2>1. ~(Imports!DrawTeams \/ Imports!Publish
              \/ \E families \in Families : Imports!Configure(families))
      BY <1>1, SeasonMoves
    <2>2. ~Imports!ResetImports /\ ~UNCHANGED Imports!vars
      BY <1>1, ResetKeeps DEF Imports!vars
    <2>3. ~ \E m \in Matchups, q \in Places, live \in BOOLEAN : Imports!EditGame(m, q, live)
      BY <1>1 DEF Imports!EditGame
    <2>4. ~Imports!DraftCommand
      BY <1>2 DEF Imports!DraftCommand, Imports!ReplaceDraft, Imports!ValidateDraft
    <2>5. ~ \E b \in Batches, cells \in Grids : Imports!UploadSchedule(b, cells)
      BY <1>2 DEF Imports!UploadSchedule
    <2>q. QED BY <2>1, <2>2, <2>3, <2>4, <2>5 DEF Imports!Next, Imports!ImportCommand
  <1>4. batch[b].draftVersion = draft.version
    BY <1>1, <1>3 DEF Imports!ConfirmSchedule, Imports!Enter, Imports!UpToDate
  <1>5. batch[b].cells = draft.cells
    BY <1>4 DEF ImportInv, Dated
  <1>6. game'[draft.cells[p]] = Entry(p, b) /\ p \in Places
    BY <1>3, <1>5, ConfirmationEnters
  <1>q. QED BY <1>6, EntryIsGame DEF Imports!Entered

(* Versions of the season stay in their bound.                              *)
SeasonTyped ==
  /\ season \in [status : {"SETUP", "PUBLISHED"}, version : 1 .. MaxVersion, expected : Families]
  /\ drawn \in BOOLEAN

LEMMA SeasonStaysTyped ==
  ASSUME ImportAssumptions, SeasonTyped, [Imports!Next]_Imports!vars
  PROVE  SeasonTyped'
  <1>1. CASE UNCHANGED <<season, drawn>>
    BY <1>1 DEF SeasonTyped
  <1>2. ASSUME season.version < MaxVersion, drawn' \in BOOLEAN,
               NEW status \in {"SETUP", "PUBLISHED"}, NEW families \in Families,
               season' = [season EXCEPT !.version = season.version + 1, !.status = status,
                                        !.expected = families]
        PROVE  SeasonTyped'
    <2>1. season.version + 1 \in 1 .. MaxVersion
      BY <1>2 DEF SeasonTyped, ImportAssumptions
    <2>q. QED BY <1>2, <2>1 DEF SeasonTyped
  <1>3. /\ season.status \in {"SETUP", "PUBLISHED"} /\ season.expected \in Families
        /\ drawn \in BOOLEAN
    BY DEF SeasonTyped
  <1>4. Imports!Bumped = [season EXCEPT !.version = season.version + 1, !.status = season.status,
                                        !.expected = season.expected]
    BY DEF SeasonTyped, Imports!Bumped
  <1>5. ASSUME NEW b \in Batches, Imports!ConfirmSchedule(b) PROVE SeasonTyped'
    BY <1>2, <1>3, <1>4, <1>5 DEF Imports!ConfirmSchedule, Imports!Confirmable, Imports!Enter
  <1>6. CASE Imports!ResetImports
    BY <1>2, <1>3, <1>4, <1>6 DEF Imports!ResetImports
  <1>7. CASE Imports!DrawTeams
    BY <1>2, <1>3, <1>4, <1>7 DEF Imports!DrawTeams
  <1>8. ASSUME NEW families \in Families, Imports!Configure(families) PROVE SeasonTyped'
    BY <1>2, <1>3, <1>4, <1>8 DEF Imports!Configure, Imports!Bumped, SeasonTyped
  <1>9. CASE Imports!Publish
    BY <1>2, <1>3, <1>4, <1>9 DEF Imports!Publish, Imports!Bumped, SeasonTyped
  <1>10. ASSUME NEW b \in Batches, NEW cells \in Grids, Imports!UploadSchedule(b, cells)
         PROVE  SeasonTyped'
    BY <1>1, <1>10 DEF Imports!UploadSchedule
  <1>11. CASE Imports!DraftCommand
    BY <1>1, <1>11 DEF Imports!DraftCommand, Imports!ReplaceDraft, Imports!ValidateDraft
  <1>12. ASSUME NEW m \in Matchups, NEW p \in Places, NEW live \in BOOLEAN,
                Imports!EditGame(m, p, live)
         PROVE  SeasonTyped'
    BY <1>1, <1>12 DEF Imports!EditGame
  <1>13. CASE UNCHANGED Imports!vars
    BY <1>1, <1>13 DEF Imports!vars
  <1>q. QED BY <1>5, <1>6, <1>7, <1>8, <1>9, <1>10, <1>11, <1>12, <1>13
           DEF Imports!Next, Imports!ImportCommand

(* Imports and resets are whole, games never meet on a court or in a slot  *)
(* nor exceed the capacity, though batches are validated long before they  *)
(* are confirmed and games move meanwhile; and a draft is used up only as  *)
(* the games it shows (confirm_schedule_import, reset_schedule_imports).          *)
THEOREM ImportsStayWhole ==
  ImportAssumptions /\ Imports!Spec
    => [](Imports!TypeOK /\ Imports!ImportsAreWhole) /\ [][Imports!UsedUpAsGames]_Imports!vars
  <1>1. ImportAssumptions /\ ImportInv => Imports!ImportsAreWhole
    BY WholeFollows
  <1>2. (ImportAssumptions /\ ImportInv) /\ [Imports!Next]_Imports!vars => Imports!UsedUpAsGames
    BY DraftEmptied
  <1>3. ImportInv /\ SeasonTyped => Imports!TypeOK
    BY DEF ImportInv, ImportRows, ImportRow, DraftRow, GameRow, SeasonTyped, Imports!TypeOK
  <1>4. ImportAssumptions /\ Imports!Init => SeasonTyped
    <2>1. ImportAssumptions => 1 \in 1 .. MaxVersion
      BY DEF ImportAssumptions
    <2>q. QED BY <2>1 DEF Imports!Init, SeasonTyped
  <1>q. QED BY <1>1, <1>2, <1>3, <1>4, SeasonStaysTyped, ImportInduction, PTL DEF Imports!Spec

-----------------------------------------------------------------------------
(* The inbox. *)
CONSTANTS Roles, Opponents, Voters, MaxSerial
VARIABLES request, staff, sheet, task

Tasks == INSTANCE Inbox

(* The opponent of a game is not among those who vote on it                *)
(* (eligible_reschedule_voter_teams), and nobody is no account.            *)
InboxAssumptions ==
  Opponents \cap Voters = {} /\ Nobody \notin Accounts /\ MaxSerial \in Nat

Stages == {"NONE", "ENDED"} \cup Tasks!AsksTeams \cup Tasks!AsksStaff
Runs == {"NONE", "ACTIVE", "SUCCEEDED", "FAILED", "EVIDENCE"}
SheetRow ==
  [serial : 0 .. MaxSerial, run : Runs, published : BOOLEAN, before : BOOLEAN, played : BOOLEAN]
StatusRow == [Tasks!Keys -> {"NONE", "OPEN", "CLOSED"}]

InboxRows ==
  /\ request.stage \in Stages
  /\ sheet \in SheetRow
  /\ task \in [Accounts -> StatusRow]

LeadersAreAccounts == \A t \in Tasks!Teams : leader[t] \in Accounts \cup {Nobody}

(* Only a request that asks teams has some to ask: the opponent, then those *)
(* who vote.                                                                *)
AskedTeams ==
  /\ request.asked # {} => request.stage \in Tasks!AsksTeams
  /\ request.stage = "WAITING_OPPONENT" => request.asked \subseteq Opponents
  /\ request.stage = "WAITING_SELECTED_TEAMS" => request.asked \subseteq Voters

(* The stages before the one that a key belongs to.                        *)
Before(k) ==
  IF k[1] = "WAITING_ADMIN_FINAL"
  THEN {"NONE", "WAITING_OPPONENT", "WAITING_ADMIN_DECISION", "WAITING_SELECTED_TEAMS"}
  ELSE IF k[1] = "voter" \/ (k[1] = "missing" /\ k[2] \in Voters)
  THEN {"NONE", "WAITING_OPPONENT", "WAITING_ADMIN_DECISION"}
  ELSE IF k[1] = "WAITING_ADMIN_DECISION" THEN {"NONE", "WAITING_OPPONENT"} ELSE {"NONE"}

(* No task is created before its stage, so none is closed before it.       *)
NothingAhead ==
  \A a \in Accounts, k \in Tasks!RequestKeys : request.stage \in Before(k) => task[a][k] = "NONE"

(* The open tasks of the request, and of the sheet, are those of its state. *)
AskedNow(k) ==
  \/ k[1] = "opponent" /\ request.stage = "WAITING_OPPONENT" /\ k[2] \in request.asked
  \/ k[1] = "voter" /\ request.stage = "WAITING_SELECTED_TEAMS" /\ k[2] \in request.asked
  \/ k[1] = "missing" /\ k[2] \in request.asked
  \/ k[1] \in Tasks!AsksStaff /\ request.stage = k[1]
RequestCurrent ==
  \A a \in Accounts, k \in Tasks!RequestKeys : task[a][k] = "OPEN" => AskedNow(k)

SeenNow(k) ==
  \/ /\ k[1] = "review" /\ k[2] = sheet.serial /\ sheet.run = "SUCCEEDED" /\ sheet.played
     /\ ~sheet.published
  \/ k[1] = "failed" /\ k[2] = sheet.serial /\ sheet.run = "FAILED" /\ sheet.played
SheetCurrent ==
  \A a \in Accounts, k \in Tasks!SheetKeys : task[a][k] = "OPEN" => SeenNow(k)

InboxInv ==
  InboxRows /\ LeadersAreAccounts /\ AskedTeams /\ NothingAhead /\ RequestCurrent /\ SheetCurrent

-----------------------------------------------------------------------------
LEMMA KeysDiffer ==
  /\ \A k \in Tasks!RequestKeys : k \notin Tasks!SheetKeys /\ k \in Tasks!Keys
  /\ \A k \in Tasks!SheetKeys : k \notin Tasks!RequestKeys /\ k \in Tasks!Keys
  /\ \A k \in Tasks!Keys : k \in Tasks!RequestKeys \/ k \in Tasks!SheetKeys
  /\ \A k \in Tasks!RequestKeys :
       \/ k[1] \in {"opponent", "voter", "missing"} /\ k[2] \in Tasks!Teams
       \/ k[1] \in Tasks!AsksStaff /\ k[2] = Nobody
  /\ \A k \in Tasks!SheetKeys : k[1] \in {"review", "failed"}
BY DEF Tasks!RequestKeys, Tasks!SheetKeys, Tasks!Keys, Tasks!AsksStaff

(* What a synchronisation makes of a task. *)
LEMMA SyncedRow ==
  ASSUME InboxInv, NEW wanted, NEW own
  PROVE  /\ Tasks!Synced(wanted, own) \in [Accounts -> StatusRow]
         /\ \A a \in Accounts, k \in Tasks!Keys :
              /\ k \in own /\ k \notin Tasks!Kept(wanted) => Tasks!Synced(wanted, own)[a][k] # "OPEN"
              /\ k \in own /\ k \notin Tasks!Kept(wanted) /\ <<a, k>> \notin wanted
                   /\ task[a][k] = "NONE" => Tasks!Synced(wanted, own)[a][k] = "NONE"
              /\ k \in own /\ k \in Tasks!Kept(wanted) /\ <<a, k>> \in wanted
                   /\ task[a][k] = "NONE" => Tasks!Synced(wanted, own)[a][k] = "OPEN"
              /\ k \in own /\ k \in Tasks!Kept(wanted) /\ task[a][k] = "OPEN"
                   => Tasks!Synced(wanted, own)[a][k] = "OPEN"
  <1> DEFINE kept == Tasks!Kept(wanted)
             Value(a, k) ==
               IF k \notin own THEN task[a][k]
               ELSE IF k \in kept
                    THEN IF <<a, k>> \in wanted /\ task[a][k] = "NONE" THEN "OPEN" ELSE task[a][k]
               ELSE IF task[a][k] = "OPEN" \/ <<a, k>> \in wanted THEN "CLOSED" ELSE task[a][k]
  <1>1. Tasks!Synced(wanted, own) = [a \in Accounts |-> [k \in Tasks!Keys |-> Value(a, k)]]
    BY DEF Tasks!Synced
  <1>2. \A a \in Accounts, k \in Tasks!Keys : task[a][k] \in {"NONE", "OPEN", "CLOSED"}
    BY DEF InboxInv, InboxRows, StatusRow
  <1>3. \A a \in Accounts, k \in Tasks!Keys : Value(a, k) \in {"NONE", "OPEN", "CLOSED"}
    BY <1>2
  <1>4. \A a \in Accounts, k \in Tasks!Keys :
          /\ k \in own /\ k \notin kept => Value(a, k) # "OPEN"
          /\ k \in own /\ k \notin kept /\ <<a, k>> \notin wanted
               /\ task[a][k] = "NONE" => Value(a, k) = "NONE"
          /\ k \in own /\ k \in kept /\ <<a, k>> \in wanted
               /\ task[a][k] = "NONE" => Value(a, k) = "OPEN"
          /\ k \in own /\ k \in kept /\ task[a][k] = "OPEN" => Value(a, k) = "OPEN"
    BY <1>2
  <1> HIDE DEF Value
  <1>5. /\ Tasks!Synced(wanted, own) \in [Accounts -> StatusRow]
        /\ \A a \in Accounts, k \in Tasks!Keys : Tasks!Synced(wanted, own)[a][k] = Value(a, k)
    BY <1>1, <1>3 DEF StatusRow
  <1>q. QED BY <1>4, <1>5

LEMMA OthersLeft ==
  ASSUME InboxInv, NEW wanted, NEW own, NEW a \in Accounts, NEW k \in Tasks!Keys, k \notin own
  PROVE  Tasks!Synced(wanted, own)[a][k] = task[a][k]
  BY DEF Tasks!Synced

(* Tasks of the request and of the sheet are synchronised apart. *)
LEMMA SyncedApart ==
  ASSUME InboxInv, NEW wanted
  PROVE  /\ Tasks!Synced(wanted, Tasks!SheetKeys) \in [Accounts -> StatusRow]
         /\ \A a \in Accounts, k \in Tasks!RequestKeys :
              Tasks!Synced(wanted, Tasks!SheetKeys)[a][k] = task[a][k]
         /\ \A a \in Accounts, k \in Tasks!SheetKeys :
              Tasks!Synced(wanted, Tasks!SheetKeys)[a][k] = "OPEN" => k \in Tasks!Kept(wanted)
         /\ \A a \in Accounts, k \in Tasks!SheetKeys :
              Tasks!Synced(wanted, Tasks!RequestKeys)[a][k] = task[a][k]
  <1>1. Tasks!Synced(wanted, Tasks!SheetKeys) \in [Accounts -> StatusRow]
    BY SyncedRow
  <1>2. ASSUME NEW a \in Accounts, NEW k \in Tasks!RequestKeys
        PROVE  Tasks!Synced(wanted, Tasks!SheetKeys)[a][k] = task[a][k]
    BY OthersLeft, KeysDiffer
  <1>3. ASSUME NEW a \in Accounts, NEW k \in Tasks!SheetKeys,
               Tasks!Synced(wanted, Tasks!SheetKeys)[a][k] = "OPEN"
        PROVE  k \in Tasks!Kept(wanted)
    BY <1>3, SyncedRow, KeysDiffer
  <1>4. ASSUME NEW a \in Accounts, NEW k \in Tasks!SheetKeys
        PROVE  Tasks!Synced(wanted, Tasks!RequestKeys)[a][k] = task[a][k]
    BY OthersLeft, KeysDiffer
  <1>q. QED BY <1>1, <1>2, <1>3, <1>4

(* What a state of the request asks. *)
LEMMA KeptKeys ==
  ASSUME NEW r, r.asked # {} => r.stage \in Tasks!AsksTeams,
         NEW k, k \in Tasks!Kept(Tasks!Wanted(r))
  PROVE  \/ k = <<r.stage, Nobody>> /\ r.stage \in Tasks!AsksStaff
         \/ /\ r.stage \in Tasks!AsksTeams
            /\ \E t \in r.asked : k \in {<<"missing", t>>,
                  <<IF r.stage = "WAITING_OPPONENT" THEN "opponent" ELSE "voter", t>>}
  <1>1. PICK w \in Tasks!Wanted(r) : k = w[2]
    BY DEF Tasks!Kept
  <1>2. CASE r.stage \in Tasks!AsksStaff
    BY <1>1, <1>2 DEF Tasks!Wanted
  <1>3. CASE r.stage \notin Tasks!AsksStaff
    <2>1. PICK t \in r.asked : w \in Tasks!AskOf(r, t)
      BY <1>1, <1>3 DEF Tasks!Wanted
    <2>2. w[2] \in {<<"missing", t>>,
                    <<IF r.stage = "WAITING_OPPONENT" THEN "opponent" ELSE "voter", t>>}
      BY <2>1 DEF Tasks!AskOf
    <2>q. QED BY <1>1, <2>1, <2>2
  <1>q. QED BY <1>2, <1>3

LEMMA RequestSynced ==
  ASSUME InboxAssumptions, InboxInv, NEW r, r.asked # {} => r.stage \in Tasks!AsksTeams,
         NEW a \in Accounts, NEW k \in Tasks!RequestKeys,
         Tasks!SyncRequest(r)[a][k] = "OPEN"
  PROVE  \/ k[1] = "opponent" /\ r.stage = "WAITING_OPPONENT" /\ k[2] \in r.asked
         \/ k[1] = "voter" /\ r.stage = "WAITING_SELECTED_TEAMS" /\ k[2] \in r.asked
         \/ k[1] = "missing" /\ k[2] \in r.asked
         \/ k[1] \in Tasks!AsksStaff /\ r.stage = k[1]
  <1>1. k \in Tasks!Kept(Tasks!Wanted(r))
    BY SyncedRow, KeysDiffer DEF Tasks!SyncRequest
  <1>q. QED BY <1>1, KeptKeys DEF Tasks!AsksTeams

-----------------------------------------------------------------------------
(* Commands on the request. *)

(* Each command of the request leads to a later stage, or a vote leaves     *)
(* fewer to ask in the same.                                                *)
Onward(stage, asked) ==
  \/ request.stage = "NONE" /\ stage = "WAITING_OPPONENT" /\ asked \subseteq Opponents
  \/ request.stage = "WAITING_OPPONENT" /\ stage = "WAITING_ADMIN_DECISION" /\ asked = {}
  \/ /\ request.stage = "WAITING_ADMIN_DECISION" /\ stage = "WAITING_SELECTED_TEAMS"
     /\ asked \subseteq Voters
  \/ request.stage = "WAITING_SELECTED_TEAMS" /\ stage = "WAITING_ADMIN_FINAL" /\ asked = {}
  \/ request.stage # "NONE" /\ stage = "ENDED" /\ asked = {}
  \/ /\ request.stage = "WAITING_SELECTED_TEAMS" /\ stage = request.stage
     /\ asked \subseteq request.asked

(* What a state of the request asks is not ahead of it. *)
LEMMA KeptNotAhead ==
  ASSUME InboxAssumptions, NEW r, r.asked # {} => r.stage \in Tasks!AsksTeams,
         r.stage = "WAITING_OPPONENT" => r.asked \subseteq Opponents,
         r.stage = "WAITING_SELECTED_TEAMS" => r.asked \subseteq Voters,
         NEW k \in Tasks!RequestKeys, k \in Tasks!Kept(Tasks!Wanted(r))
  PROVE  r.stage \notin Before(k)
  <1>1. \/ k = <<r.stage, Nobody>> /\ r.stage \in Tasks!AsksStaff
        \/ /\ r.stage \in Tasks!AsksTeams
           /\ \E t \in r.asked : k \in {<<"missing", t>>,
                 <<IF r.stage = "WAITING_OPPONENT" THEN "opponent" ELSE "voter", t>>}
    BY KeptKeys
  <1>2. CASE k = <<r.stage, Nobody>> /\ r.stage \in Tasks!AsksStaff
    BY <1>2 DEF Before, Tasks!AsksStaff
  <1>3. CASE r.stage = "WAITING_OPPONENT"
    BY <1>1, <1>3 DEF InboxAssumptions, Before, Tasks!AsksStaff, Tasks!AsksTeams
  <1>4. CASE r.stage = "WAITING_SELECTED_TEAMS"
    BY <1>1, <1>4 DEF Before, Tasks!AsksStaff, Tasks!AsksTeams
  <1>q. QED BY <1>1, <1>2, <1>3, <1>4 DEF Tasks!AsksTeams

LEMMA OnwardCases ==
  ASSUME InboxAssumptions, InboxInv, NEW stage, NEW asked, Onward(stage, asked)
  PROVE  LET r == [stage |-> stage, asked |-> asked] IN
         /\ r.stage = stage /\ r.asked = asked /\ stage \in Stages
         /\ asked # {} => stage \in Tasks!AsksTeams
         /\ stage = "WAITING_OPPONENT" => asked \subseteq Opponents
         /\ stage = "WAITING_SELECTED_TEAMS" => asked \subseteq Voters
         /\ \A k \in Tasks!RequestKeys : stage \in Before(k) => request.stage \in Before(k)
         /\ \A k \in Tasks!RequestKeys :
              k \in Tasks!Kept(Tasks!Wanted(r)) => stage \notin Before(k)
  <1> DEFINE r == [stage |-> stage, asked |-> asked]
  <1>1. r.stage = stage /\ r.asked = asked
    OBVIOUS
  <1> HIDE DEF r
  <1>2. /\ stage \in Stages /\ (asked # {} => stage \in Tasks!AsksTeams)
        /\ stage = "WAITING_OPPONENT" => asked \subseteq Opponents
        /\ stage = "WAITING_SELECTED_TEAMS" => asked \subseteq Voters
    BY DEF Onward, InboxInv, AskedTeams, Stages, Tasks!AsksTeams, Tasks!AsksStaff
  <1>3. \A k \in Tasks!RequestKeys : stage \in Before(k) => request.stage \in Before(k)
    BY DEF Onward, Before
  <1>4. \A k \in Tasks!RequestKeys :
          k \in Tasks!Kept(Tasks!Wanted(r)) => stage \notin Before(k)
    BY <1>1, <1>2, KeptNotAhead
  <1>q. QED BY <1>1, <1>2, <1>3, <1>4 DEF r

LEMMA MoveKeeps ==
  ASSUME InboxAssumptions, InboxInv, NEW stage, NEW asked, Onward(stage, asked),
         Tasks!MoveTo(stage, asked)
  PROVE  InboxInv'
  <1>0. PICK r : r = [stage |-> stage, asked |-> asked]
    OBVIOUS
  <1>1. /\ request' = r /\ r.stage = stage /\ r.asked = asked
        /\ task' = Tasks!SyncRequest(r)
        /\ UNCHANGED sheet
    BY <1>0 DEF Tasks!MoveTo
  <1>2. /\ stage \in Stages
        /\ asked # {} => stage \in Tasks!AsksTeams
        /\ stage = "WAITING_OPPONENT" => asked \subseteq Opponents
        /\ stage = "WAITING_SELECTED_TEAMS" => asked \subseteq Voters
        /\ \A k \in Tasks!RequestKeys : stage \in Before(k) => request.stage \in Before(k)
        /\ \A k \in Tasks!RequestKeys :
             k \in Tasks!Kept(Tasks!Wanted(r)) => stage \notin Before(k)
    BY <1>0, OnwardCases
  <1>3. task' \in [Accounts -> StatusRow]
    BY <1>1, SyncedRow DEF Tasks!SyncRequest
  <1>4. InboxRows' /\ LeadersAreAccounts' /\ AskedTeams'
    BY <1>1, <1>2, <1>3 DEF InboxInv, InboxRows, LeadersAreAccounts, AskedTeams, Tasks!MoveTo
  <1>5. NothingAhead'
    <2> SUFFICES ASSUME NEW a \in Accounts, NEW k \in Tasks!RequestKeys, stage \in Before(k)
                 PROVE  task'[a][k] = "NONE"
      BY <1>1 DEF NothingAhead, Before
    <2>1. k \notin Tasks!Kept(Tasks!Wanted(r)) /\ task[a][k] = "NONE"
      BY <1>2 DEF InboxInv, NothingAhead
    <2>2. <<a, k>> \notin Tasks!Wanted(r)
      <3>1. \A w \in Tasks!Wanted(r) : w[2] \in Tasks!Kept(Tasks!Wanted(r))
        BY DEF Tasks!Kept
      <3>q. QED BY <2>1, <3>1
    <2>q. QED BY <1>1, <2>1, <2>2, SyncedRow, KeysDiffer DEF Tasks!SyncRequest
  <1>6. RequestCurrent'
    BY <1>1, <1>2, RequestSynced DEF RequestCurrent, AskedNow
  <1>7. SheetCurrent'
    <2>1. \A a \in Accounts, k \in Tasks!SheetKeys : task'[a][k] = task[a][k]
      BY <1>1, SyncedApart DEF Tasks!SyncRequest
    <2>q. QED BY <1>1, <2>1 DEF InboxInv, SheetCurrent, SeenNow
  <1>q. QED BY <1>4, <1>5, <1>6, <1>7 DEF InboxInv

LEMMA RequestCommands ==
  ASSUME InboxInv,
         \/ Tasks!Submit \/ Tasks!OpponentAgrees \/ Tasks!CallVote \/ Tasks!EndRequest
         \/ \E t \in Voters : Tasks!Vote(t)
  PROVE  \E stage, asked : Onward(stage, asked) /\ Tasks!MoveTo(stage, asked)
  <1>1. CASE Tasks!Submit
    <2>1. PICK t \in Opponents : Tasks!MoveTo("WAITING_OPPONENT", {t})
      BY <1>1 DEF Tasks!Submit
    <2>2. Onward("WAITING_OPPONENT", {t})
      BY <1>1, <2>1 DEF Tasks!Submit, Onward
    <2>q. QED BY <2>1, <2>2
  <1>2. CASE Tasks!OpponentAgrees
    <2>1. Onward("WAITING_ADMIN_DECISION", {}) /\ Tasks!MoveTo("WAITING_ADMIN_DECISION", {})
      BY <1>2 DEF Tasks!OpponentAgrees, Onward
    <2>q. QED BY <2>1
  <1>3. CASE Tasks!CallVote
    <2>1. PICK selected \in (SUBSET Voters) \ {{}} : Tasks!MoveTo("WAITING_SELECTED_TEAMS", selected)
      BY <1>3 DEF Tasks!CallVote
    <2>2. Onward("WAITING_SELECTED_TEAMS", selected)
      BY <1>3, <2>1 DEF Tasks!CallVote, Onward
    <2>q. QED BY <2>1, <2>2
  <1>4. CASE Tasks!EndRequest
    <2>1. Onward("ENDED", {}) /\ Tasks!MoveTo("ENDED", {})
      BY <1>4 DEF Tasks!EndRequest, Onward, Tasks!AsksTeams, Tasks!AsksStaff
    <2>q. QED BY <2>1
  <1>5. ASSUME NEW t \in Voters, Tasks!Vote(t)
        PROVE  \E stage, asked : Onward(stage, asked) /\ Tasks!MoveTo(stage, asked)
    <2>1. CASE request.asked = {t}
      <3>1. Onward("WAITING_ADMIN_FINAL", {}) /\ Tasks!MoveTo("WAITING_ADMIN_FINAL", {})
        BY <1>5, <2>1 DEF Tasks!Vote, Onward
      <3>q. QED BY <3>1
    <2>2. CASE request.asked # {t}
      <3>1. /\ Onward(request.stage, request.asked \ {t})
            /\ Tasks!MoveTo(request.stage, request.asked \ {t})
        BY <1>5, <2>2 DEF Tasks!Vote, Onward
      <3>q. QED BY <3>1
    <2>q. QED BY <2>1, <2>2
  <1>q. QED BY <1>1, <1>2, <1>3, <1>4, <1>5

-----------------------------------------------------------------------------
(* Commands on the sheet. *)

(* Tasks of the request are not touched by those of the sheet.             *)
LEMMA SheetMoves ==
  ASSUME InboxInv, UNCHANGED <<request, leader>>, sheet' \in SheetRow,
         task' \in [Accounts -> StatusRow],
         \A a \in Accounts, k \in Tasks!RequestKeys : task'[a][k] = task[a][k],
         SheetCurrent'
  PROVE  InboxInv'
  <1>1. InboxRows' /\ LeadersAreAccounts' /\ AskedTeams'
    BY DEF InboxInv, InboxRows, LeadersAreAccounts, AskedTeams
  <1>2. NothingAhead' /\ RequestCurrent'
    BY DEF InboxInv, NothingAhead, Before, RequestCurrent, AskedNow
  <1>q. QED BY <1>1, <1>2 DEF InboxInv

LEMMA TasksClosed ==
  ASSUME InboxAssumptions, InboxInv, NEW s \in SheetRow,
         Tasks!Sheet(s, Tasks!ClosedTasks)
  PROVE  InboxInv'
  <1>1. task' = Tasks!Synced({}, Tasks!SheetKeys) /\ sheet' = s /\ UNCHANGED <<request, leader>>
    BY DEF Tasks!Sheet, Tasks!ClosedTasks
  <1>2. Tasks!Kept({}) = {}
    BY DEF Tasks!Kept
  <1>3. \A a \in Accounts, k \in Tasks!SheetKeys : task'[a][k] # "OPEN"
    BY <1>1, <1>2, SyncedApart
  <1>4. /\ task' \in [Accounts -> StatusRow]
        /\ \A a \in Accounts, k \in Tasks!RequestKeys : task'[a][k] = task[a][k]
    BY <1>1, SyncedApart
  <1>q. QED BY <1>1, <1>3, <1>4, SheetMoves DEF SheetCurrent

(* What a recognition that ended asks for. *)
LEMMA SheetSynced ==
  ASSUME InboxAssumptions, InboxInv, NEW s, NEW a \in Accounts, NEW k \in Tasks!SheetKeys,
         Tasks!SyncSheet(s)[a][k] = "OPEN"
  PROVE  \/ k[1] = "review" /\ k[2] = s.serial /\ s.run = "SUCCEEDED" /\ s.played /\ ~s.published
         \/ k[1] = "failed" /\ k[2] = s.serial /\ s.run = "FAILED" /\ s.played
  <1> DEFINE wanted ==
        IF ~s.played \/ s.run = "EVIDENCE" THEN {}
        ELSE IF s.run = "SUCCEEDED" /\ ~s.published THEN Tasks!Review(s)
        ELSE IF s.run = "FAILED" THEN Tasks!Failure(s) ELSE {}
  <1>1. Tasks!SyncSheet(s) = Tasks!Synced(wanted, Tasks!SheetKeys)
    BY DEF Tasks!SyncSheet
  <1> HIDE DEF wanted
  <1>2. k \in Tasks!Kept(wanted)
    BY <1>1, SyncedApart
  <1>3. PICK w \in wanted : k = w[2]
    BY <1>2 DEF Tasks!Kept
  <1>4. \/ w \in Tasks!Review(s) /\ s.run = "SUCCEEDED" /\ s.played /\ ~s.published
        \/ w \in Tasks!Failure(s) /\ s.run = "FAILED" /\ s.played
    BY <1>3 DEF wanted
  <1>q. QED BY <1>3, <1>4 DEF Tasks!Review, Tasks!Failure

LEMMA TasksSynced ==
  ASSUME InboxAssumptions, InboxInv, NEW s \in SheetRow,
         Tasks!Sheet(s, Tasks!SyncSheet(s))
  PROVE  InboxInv'
  <1>1. task' = Tasks!SyncSheet(s) /\ sheet' = s /\ UNCHANGED <<request, leader>>
    BY DEF Tasks!Sheet
  <1>2. SheetCurrent'
    BY <1>1, SheetSynced DEF SheetCurrent, SeenNow
  <1>3. /\ task' \in [Accounts -> StatusRow]
        /\ \A a \in Accounts, k \in Tasks!RequestKeys : task'[a][k] = task[a][k]
    BY <1>1, SyncedApart DEF Tasks!SyncSheet
  <1>q. QED BY <1>1, <1>2, <1>3, SheetMoves

(* Where nothing is closed nothing was open, or it stays what it asks for. *)
LEMMA TasksLeft ==
  ASSUME InboxAssumptions, InboxInv, NEW s \in SheetRow,
         Tasks!Sheet(s, task),
         \A k \in Tasks!SheetKeys : SeenNow(k) =>
            \/ k[1] = "review" /\ k[2] = s.serial /\ s.run = "SUCCEEDED" /\ s.played /\ ~s.published
            \/ k[1] = "failed" /\ k[2] = s.serial /\ s.run = "FAILED" /\ s.played
  PROVE  InboxInv'
  <1>1. task' = task /\ sheet' = s /\ UNCHANGED <<request, leader>>
    BY DEF Tasks!Sheet
  <1>2. \A k \in Tasks!SheetKeys : SeenNow(k) => SeenNow(k)'
    BY <1>1 DEF SeenNow
  <1>3. SheetCurrent'
    BY <1>1, <1>2 DEF InboxInv, SheetCurrent
  <1>q. QED BY <1>1, <1>3, SheetMoves DEF InboxInv, InboxRows

(* The commands of the sheet close all its tasks, synchronise them, or      *)
(* leave them.                                                              *)
LEMMA UploadKeeps ==
  ASSUME InboxAssumptions, InboxInv, NEW run \in {"ACTIVE", "FAILED", "NONE"}, Tasks!Upload(run)
  PROVE  InboxInv'
  <1>0. PICK s : s = [sheet EXCEPT !.serial = @ + 1, !.run = run]
    OBVIOUS
  <1>1. /\ Tasks!Sheet(s, IF run = "FAILED" THEN Tasks!SyncSheet(s) ELSE Tasks!ClosedTasks)
        /\ sheet.serial < MaxSerial
    BY <1>0 DEF Tasks!Upload
  <1>2. s \in SheetRow
    <2>1. sheet.serial + 1 \in 0 .. MaxSerial /\ sheet \in SheetRow
      BY <1>1 DEF InboxInv, InboxRows, InboxAssumptions, SheetRow
    <2>q. QED BY <1>0, <2>1 DEF SheetRow, Runs
  <1>q. QED BY <1>1, <1>2, TasksClosed, TasksSynced

LEMMA RecognitionKeeps ==
  ASSUME InboxAssumptions, InboxInv, NEW run \in {"SUCCEEDED", "FAILED"},
         Tasks!RecognitionEnds(run)
  PROVE  InboxInv'
  <1>0. PICK s : s = [sheet EXCEPT !.run = IF sheet.played THEN run ELSE "EVIDENCE"]
    OBVIOUS
  <1>1. /\ Tasks!Sheet(s, IF sheet.played THEN Tasks!SyncSheet(s) ELSE task)
        /\ sheet.run = "ACTIVE"
    BY <1>0 DEF Tasks!RecognitionEnds
  <1>2. s \in SheetRow
    BY <1>0 DEF InboxInv, InboxRows, Runs, SheetRow
  <1>3. \A k \in Tasks!SheetKeys : ~SeenNow(k)
    BY <1>1 DEF SeenNow
  <1>q. QED BY <1>1, <1>2, <1>3, TasksSynced, TasksLeft

LEMMA RetryKeeps ==
  ASSUME InboxAssumptions, InboxInv, Tasks!RetryRecognition
  PROVE  InboxInv'
  <1>0. PICK s : s = [sheet EXCEPT !.serial = @ + 1, !.run = "ACTIVE"]
    OBVIOUS
  <1>1. Tasks!Sheet(s, Tasks!ClosedTasks) /\ sheet.serial < MaxSerial
    BY <1>0 DEF Tasks!RetryRecognition
  <1>2. s \in SheetRow
    <2>1. sheet.serial + 1 \in 0 .. MaxSerial /\ sheet \in SheetRow
      BY <1>1 DEF InboxInv, InboxRows, InboxAssumptions, SheetRow
    <2>q. QED BY <1>0, <2>1 DEF SheetRow, Runs
  <1>q. QED BY <1>1, <1>2, TasksClosed

LEMMA PublicationKeeps ==
  ASSUME InboxAssumptions, InboxInv, Tasks!Publish \/ Tasks!Withdraw
  PROVE  InboxInv'
  <1>1. CASE Tasks!Publish
    <2>0. PICK s : s = [sheet EXCEPT !.published = TRUE, !.before = TRUE]
      OBVIOUS
    <2>1. Tasks!Sheet(s, Tasks!ClosedTasks)
      BY <1>1, <2>0 DEF Tasks!Publish
    <2>2. s \in SheetRow
      BY <2>0 DEF InboxInv, InboxRows, SheetRow
    <2>q. QED BY <2>1, <2>2, TasksClosed
  <1>2. CASE Tasks!Withdraw
    <2>0. PICK s : s = [sheet EXCEPT !.published = FALSE]
      OBVIOUS
    <2>1. sheet.published /\ Tasks!Sheet(s, task)
      BY <1>2, <2>0 DEF Tasks!Withdraw
    <2>2. /\ s.serial = sheet.serial /\ s.run = sheet.run /\ s.played = sheet.played
          /\ s \in SheetRow
      BY <2>0 DEF InboxInv, InboxRows, SheetRow
    <2>3. \A k \in Tasks!SheetKeys : SeenNow(k) =>
             k[1] = "failed" /\ k[2] = s.serial /\ s.run = "FAILED" /\ s.played
      BY <2>1, <2>2 DEF SeenNow
    <2>q. QED BY <2>1, <2>2, <2>3, TasksLeft
  <1>q. QED BY <1>1, <1>2

LEMMA GameChangeKeeps ==
  ASSUME InboxAssumptions, InboxInv, Tasks!ChangeGame
  PROVE  InboxInv'
  <1>1. CASE sheet.played
    <2>0. PICK s : s = [sheet EXCEPT !.played = FALSE, !.published = FALSE,
                                     !.run = IF @ = "ACTIVE" THEN "EVIDENCE" ELSE @]
      OBVIOUS
    <2>1. Tasks!Sheet(s, Tasks!ClosedTasks)
      BY <1>1, <2>0 DEF Tasks!ChangeGame
    <2>2. s \in SheetRow
      BY <2>0 DEF InboxInv, InboxRows, Runs, SheetRow
    <2>q. QED BY <2>1, <2>2, TasksClosed
  <1>2. CASE ~sheet.played
    <2>0. PICK s : s = [sheet EXCEPT !.played = TRUE]
      OBVIOUS
    <2>1. Tasks!Sheet(s, task)
      BY <1>2, <2>0 DEF Tasks!ChangeGame
    <2>2. s \in SheetRow
      BY <2>0 DEF InboxInv, InboxRows, SheetRow
    <2>3. \A k \in Tasks!SheetKeys : ~SeenNow(k)
      BY <1>2 DEF SeenNow
    <2>q. QED BY <2>1, <2>2, <2>3, TasksLeft
  <1>q. QED BY <1>1, <1>2

-----------------------------------------------------------------------------
(* Reconciliation makes the tasks those of the state as it is. *)
LEMMA ReconciliationKeeps ==
  ASSUME InboxAssumptions, InboxInv, Tasks!Reconcile
  PROVE  InboxInv'
  <1> DEFINE asked == Tasks!SyncRequest(request)
             seen == Tasks!SyncSheet(sheet)
             wanted == Tasks!Wanted(request)
  <1>1. /\ task' = [a \in Accounts |-> [k \in Tasks!Keys |->
                       IF k \in Tasks!RequestKeys THEN asked[a][k] ELSE seen[a][k]]]
        /\ UNCHANGED <<request, leader, sheet>>
    BY DEF Tasks!Reconcile
  <1>2. asked \in [Accounts -> StatusRow] /\ seen \in [Accounts -> StatusRow]
    BY SyncedRow, SyncedApart DEF Tasks!SyncRequest, Tasks!SyncSheet
  <1>3. \A a \in Accounts, k \in Tasks!RequestKeys :
          asked[a][k] = "OPEN" => AskedNow(k)
    BY RequestSynced DEF InboxInv, AskedTeams, AskedNow
  <1>4. \A a \in Accounts, k \in Tasks!SheetKeys : seen[a][k] = "OPEN" => SeenNow(k)
    BY SheetSynced DEF SeenNow
  <1>5. ASSUME NEW a \in Accounts, NEW k \in Tasks!RequestKeys, request.stage \in Before(k)
        PROVE  asked[a][k] = "NONE"
    <2>1. task[a][k] = "NONE"
      BY <1>5 DEF InboxInv, NothingAhead
    <2>2. k \notin Tasks!Kept(wanted)
      BY <1>5, KeptNotAhead DEF InboxInv, AskedTeams
    <2>3. <<a, k>> \notin wanted
      <3>1. \A w \in wanted : w[2] \in Tasks!Kept(wanted)
        BY DEF Tasks!Kept
      <3>q. QED BY <2>2, <3>1
    <2>q. QED BY <2>1, <2>2, <2>3, SyncedRow, KeysDiffer DEF Tasks!SyncRequest
  <1> HIDE DEF asked, seen
  <1>6. task' \in [Accounts -> StatusRow]
    BY <1>1, <1>2 DEF StatusRow
  <1>7. /\ \A a \in Accounts, k \in Tasks!RequestKeys : task'[a][k] = asked[a][k]
        /\ \A a \in Accounts, k \in Tasks!SheetKeys : task'[a][k] = seen[a][k]
    BY <1>1, KeysDiffer
  <1>8. InboxRows' /\ LeadersAreAccounts' /\ AskedTeams'
    BY <1>1, <1>6 DEF InboxInv, InboxRows, LeadersAreAccounts, AskedTeams
  <1>9. NothingAhead'
    BY <1>1, <1>5, <1>7 DEF NothingAhead, Before
  <1>10. RequestCurrent'
    <2>1. \A k \in Tasks!RequestKeys : AskedNow(k) => AskedNow(k)'
      BY <1>1 DEF AskedNow
    <2>q. QED BY <1>3, <1>7, <2>1 DEF RequestCurrent
  <1>11. SheetCurrent'
    <2>1. \A k \in Tasks!SheetKeys : SeenNow(k) => SeenNow(k)'
      BY <1>1 DEF SeenNow
    <2>q. QED BY <1>4, <1>7, <2>1 DEF SheetCurrent
  <1>q. QED BY <1>8, <1>9, <1>10, <1>11 DEF InboxInv

LEMMA PeopleChange ==
  ASSUME InboxInv, UNCHANGED <<request, sheet, task>>, LeadersAreAccounts'
  PROVE  InboxInv'
  <1>1. InboxRows' /\ AskedTeams'
    BY DEF InboxInv, InboxRows, AskedTeams
  <1>2. NothingAhead' /\ RequestCurrent' /\ SheetCurrent'
    BY DEF InboxInv, NothingAhead, Before, RequestCurrent, AskedNow, SheetCurrent, SeenNow
  <1>q. QED BY <1>1, <1>2 DEF InboxInv

LEMMA InboxStep ==
  ASSUME InboxAssumptions, InboxInv, [Tasks!Next]_Tasks!vars
  PROVE  InboxInv'
  <1>1. CASE \/ Tasks!Submit \/ Tasks!OpponentAgrees \/ Tasks!CallVote \/ Tasks!EndRequest
             \/ \E t \in Voters : Tasks!Vote(t)
    BY <1>1, RequestCommands, MoveKeeps
  <1>2. CASE \/ \E run \in {"ACTIVE", "FAILED", "NONE"} : Tasks!Upload(run)
             \/ \E run \in {"SUCCEEDED", "FAILED"} : Tasks!RecognitionEnds(run)
             \/ Tasks!RetryRecognition \/ Tasks!Publish \/ Tasks!Withdraw \/ Tasks!ChangeGame
    BY <1>2, UploadKeeps, RecognitionKeeps, RetryKeeps, PublicationKeeps, GameChangeKeeps
  <1>3. CASE \/ \E t \in Tasks!Teams, a \in Accounts \cup {Nobody} : Tasks!Appoint(t, a)
             \/ \E a \in Accounts, role \in Roles : Tasks!StaffChanges(a, role)
             \/ UNCHANGED Tasks!vars
    <2>1. LeadersAreAccounts'
      BY <1>3 DEF InboxInv, LeadersAreAccounts, Tasks!Appoint, Tasks!StaffChanges, Tasks!vars
    <2>q. QED BY <1>3, <2>1, PeopleChange DEF Tasks!Appoint, Tasks!StaffChanges, Tasks!vars
  <1>q. QED BY <1>1, <1>2, <1>3, ReconciliationKeeps DEF Tasks!Next

LEMMA InboxInduction ==
  /\ InboxAssumptions /\ Tasks!Init => InboxInv
  /\ (InboxAssumptions /\ InboxInv) /\ [Tasks!Next]_Tasks!vars => (InboxAssumptions /\ InboxInv)'
  <1>1. ASSUME InboxAssumptions, Tasks!Init PROVE InboxInv
    <2>1. /\ request.stage = "NONE" /\ request.asked = {}
          /\ sheet = [serial |-> 0, run |-> "NONE", published |-> FALSE, before |-> FALSE,
                      played |-> TRUE]
          /\ task = [a \in Accounts |-> [k \in Tasks!Keys |-> "NONE"]]
      BY <1>1 DEF Tasks!Init
    <2>2. /\ \A a \in Accounts, k \in Tasks!Keys : task[a][k] = "NONE"
          /\ task \in [Accounts -> StatusRow]
      BY <2>1 DEF StatusRow
    <2>3. sheet \in SheetRow
      BY <1>1, <2>1 DEF SheetRow, Runs, InboxAssumptions
    <2>4. InboxRows
      BY <2>1, <2>2, <2>3 DEF InboxRows, Stages
    <2>5. AskedTeams /\ LeadersAreAccounts
      BY <1>1, <2>1 DEF AskedTeams, LeadersAreAccounts, Tasks!Init
    <2>6. NothingAhead /\ RequestCurrent /\ SheetCurrent
      BY <2>2, KeysDiffer DEF NothingAhead, RequestCurrent, SheetCurrent
    <2>q. QED BY <2>4, <2>5, <2>6 DEF InboxInv
  <1>2. InboxAssumptions => InboxAssumptions'
    BY DEF InboxAssumptions
  <1>q. QED BY <1>1, <1>2, InboxStep

LEMMA CurrentFollows ==
  ASSUME InboxInv
  PROVE  Tasks!TasksAreCurrent
  <1> SUFFICES ASSUME NEW k \in Tasks!Keys, NEW a \in Accounts, task[a][k] = "OPEN"
               PROVE  CASE k[1] = "opponent" ->
                             request.stage = "WAITING_OPPONENT" /\ k[2] \in request.asked
                        [] k[1] = "voter" ->
                             request.stage = "WAITING_SELECTED_TEAMS" /\ k[2] \in request.asked
                        [] k[1] = "missing" -> k[2] \in request.asked
                        [] k[1] = "review" -> k[2] = sheet.serial /\ sheet.run = "SUCCEEDED"
                                              /\ sheet.played /\ ~sheet.published
                        [] k[1] = "failed" -> k[2] = sheet.serial /\ sheet.run = "FAILED"
                                              /\ sheet.played
                        [] OTHER -> request.stage = k[1]
    BY DEF Tasks!TasksAreCurrent, Tasks!Open
  <1>1. CASE k \in Tasks!RequestKeys
    <2>1. AskedNow(k)
      BY <1>1 DEF InboxInv, RequestCurrent
    <2>q. QED BY <1>1, <2>1 DEF AskedNow, Tasks!AsksStaff
  <1>2. CASE k \in Tasks!SheetKeys
    <2>1. SeenNow(k)
      BY <1>2 DEF InboxInv, SheetCurrent
    <2>q. QED BY <1>2, <2>1 DEF SeenNow
  <1>q. QED BY <1>1, <1>2, KeysDiffer

-----------------------------------------------------------------------------
(* Who is told when a request begins to wait. *)
LEMMA AskedAreTold ==
  ASSUME InboxAssumptions, InboxInv, [Tasks!Next]_Tasks!vars
  PROVE  Tasks!WaitReachesSomebody
  <1> SUFFICES ASSUME request'.stage # request.stage
               PROVE  /\ \A t \in request'.asked :
                           IF leader[t] # Nobody THEN Tasks!Told(leader[t], t)
                           ELSE \A a \in Tasks!Superadmins : Tasks!Told(a, t)
                      /\ request'.stage \in Tasks!AsksStaff =>
                           \A a \in Tasks!Superadmins : Tasks!Told(a, Nobody)
    BY DEF Tasks!WaitReachesSomebody
  <1>1. PICK stage, asked : Onward(stage, asked) /\ Tasks!MoveTo(stage, asked)
    <2>1. UNCHANGED request \/ Tasks!Submit \/ Tasks!OpponentAgrees \/ Tasks!CallVote
            \/ Tasks!EndRequest \/ \E t \in Voters : Tasks!Vote(t)
      BY DEF Tasks!Next, Tasks!Upload, Tasks!RecognitionEnds, Tasks!RetryRecognition,
         Tasks!Publish, Tasks!Withdraw, Tasks!ChangeGame, Tasks!Sheet, Tasks!Appoint,
         Tasks!StaffChanges, Tasks!Reconcile, Tasks!vars
    <2>q. QED BY <2>1, RequestCommands
  <1>2. PICK r : r = [stage |-> stage, asked |-> asked]
    OBVIOUS
  <1>3. /\ request' = r /\ r.stage = stage /\ r.asked = asked
        /\ task' = Tasks!Synced(Tasks!Wanted(r), Tasks!RequestKeys)
    BY <1>1, <1>2 DEF Tasks!MoveTo, Tasks!SyncRequest
  <1>4. /\ asked # {} => stage \in Tasks!AsksTeams
        /\ stage = "WAITING_OPPONENT" => asked \subseteq Opponents
        /\ stage = "WAITING_SELECTED_TEAMS" => asked \subseteq Voters
    BY <1>1, <1>2, OnwardCases
  <1>5. /\ stage = "WAITING_OPPONENT" => request.stage = "NONE"
        /\ stage = "WAITING_ADMIN_DECISION" => request.stage = "WAITING_OPPONENT"
        /\ stage = "WAITING_SELECTED_TEAMS" => request.stage = "WAITING_ADMIN_DECISION"
        /\ stage = "WAITING_ADMIN_FINAL" => request.stage = "WAITING_SELECTED_TEAMS"
    BY <1>1, <1>3 DEF Onward
  (* A key that is wanted for the first time is opened. *)
  <1>6. ASSUME NEW a \in Accounts, NEW k \in Tasks!RequestKeys, <<a, k>> \in Tasks!Wanted(r),
               request.stage \in Before(k)
        PROVE  task'[a][k] = "OPEN"
    <2>1. k \in Tasks!Kept(Tasks!Wanted(r))
      <3>1. <<a, k>>[2] = k
        OBVIOUS
      <3>q. QED BY <1>6, <3>1 DEF Tasks!Kept
    <2>2. task[a][k] = "NONE"
      BY <1>6 DEF InboxInv, NothingAhead
    <2>q. QED BY <1>3, <1>6, <2>1, <2>2, SyncedRow, KeysDiffer
  <1>7. ASSUME NEW t \in asked, leader[t] # Nobody
        PROVE  Tasks!Told(leader[t], t)
    <2> DEFINE k == <<IF r.stage = "WAITING_OPPONENT" THEN "opponent" ELSE "voter", t>>
    <2>1. <<leader[t], k>> \in Tasks!Wanted(r)
      BY <1>3, <1>4, <1>7 DEF Tasks!Wanted, Tasks!AskOf, Tasks!AsksTeams, Tasks!AsksStaff
    <2>2. k \in Tasks!RequestKeys /\ k[2] = t
      BY <1>3, <1>4 DEF Tasks!RequestKeys, Tasks!Teams, Tasks!AsksTeams
    <2>3. request.stage \in Before(k)
      BY <1>3, <1>4, <1>5 DEF Before, Tasks!AsksTeams
    <2>4. leader[t] \in Accounts
      BY <1>3, <1>4, <1>7 DEF InboxInv, LeadersAreAccounts, Tasks!Teams, Tasks!AsksTeams
    <2> HIDE DEF k
    <2>5. task'[leader[t]][k] = "OPEN"
      BY <1>6, <2>1, <2>2, <2>3, <2>4
    <2>q. QED BY <2>2, <2>5 DEF Tasks!Told
  <1>8. ASSUME NEW t \in asked, leader[t] = Nobody, NEW a \in Tasks!Superadmins
        PROVE  Tasks!Told(a, t)
    <2> DEFINE k == <<"missing", t>>
    <2>1. <<a, k>> \in Tasks!Wanted(r)
      BY <1>3, <1>4, <1>8 DEF Tasks!Wanted, Tasks!AskOf, Tasks!AsksTeams, Tasks!AsksStaff
    <2>2. k \in Tasks!RequestKeys /\ k[2] = t /\ a \in Accounts
      BY <1>3, <1>4 DEF Tasks!RequestKeys, Tasks!Teams, Tasks!AsksTeams, Tasks!Superadmins
    <2>3. request.stage \in Before(k)
      BY <1>3, <1>4, <1>5 DEF Before, Tasks!AsksTeams
    <2> HIDE DEF k
    <2>4. task'[a][k] = "OPEN"
      BY <1>6, <2>1, <2>2, <2>3
    <2>q. QED BY <2>2, <2>4 DEF Tasks!Told
  <1>9. ASSUME stage \in Tasks!AsksStaff, NEW a \in Tasks!Superadmins
        PROVE  Tasks!Told(a, Nobody)
    <2> DEFINE k == <<r.stage, Nobody>>
    <2>1. <<a, k>> \in Tasks!Wanted(r)
      BY <1>3, <1>9 DEF Tasks!Wanted
    <2>2. k \in Tasks!RequestKeys /\ k[2] = Nobody /\ a \in Accounts
      BY <1>3, <1>9 DEF Tasks!RequestKeys, Tasks!Superadmins
    <2>3. request.stage \in Before(k)
      BY <1>3, <1>5, <1>9 DEF Before, Tasks!AsksStaff
    <2> HIDE DEF k
    <2>4. task'[a][k] = "OPEN"
      BY <1>6, <2>1, <2>2, <2>3
    <2>q. QED BY <2>2, <2>4 DEF Tasks!Told
  <1>q. QED BY <1>3, <1>7, <1>8, <1>9

(* Stages and roles are those of the code.                                  *)
InboxTyped ==
  /\ request \in [stage : Stages, asked : SUBSET Tasks!Teams]
  /\ leader \in [Tasks!Teams -> Accounts \cup {Nobody}]
  /\ staff \in [Accounts -> Roles]

LEMMA InboxStaysTyped ==
  ASSUME InboxAssumptions, InboxInv, InboxTyped, [Tasks!Next]_Tasks!vars
  PROVE  InboxTyped'
  <1>1. CASE UNCHANGED <<request, leader, staff>>
    BY <1>1 DEF InboxTyped
  <1>2. ASSUME \/ Tasks!Submit \/ Tasks!OpponentAgrees \/ Tasks!CallVote \/ Tasks!EndRequest
               \/ \E t \in Voters : Tasks!Vote(t)
        PROVE  InboxTyped'
    <2>1. PICK stage, asked : Onward(stage, asked) /\ Tasks!MoveTo(stage, asked)
      BY <1>2, RequestCommands
    <2>2. request' = [stage |-> stage, asked |-> asked] /\ UNCHANGED <<leader, staff>>
      BY <2>1 DEF Tasks!MoveTo
    <2>3. stage \in Stages /\ asked \in SUBSET Tasks!Teams
      <3>1. request.asked \subseteq Tasks!Teams
        BY DEF InboxTyped
      <3>2. asked \subseteq Tasks!Teams
        BY <2>1, <3>1 DEF Onward, Tasks!Teams
      <3>q. QED BY <2>1, <3>2, OnwardCases
    <2>q. QED BY <2>2, <2>3 DEF InboxTyped
  <1>3. ASSUME NEW a \in Accounts, NEW role \in Roles, Tasks!StaffChanges(a, role)
        PROVE  InboxTyped'
    BY <1>3 DEF Tasks!StaffChanges, InboxTyped
  <1>4. ASSUME NEW s, NEW tasks, Tasks!Sheet(s, tasks) PROVE InboxTyped'
    BY <1>1, <1>4 DEF Tasks!Sheet
  <1>5. ASSUME \/ \E run \in {"ACTIVE", "FAILED", "NONE"} : Tasks!Upload(run)
               \/ \E run \in {"SUCCEEDED", "FAILED"} : Tasks!RecognitionEnds(run)
               \/ Tasks!RetryRecognition \/ Tasks!Publish \/ Tasks!Withdraw \/ Tasks!ChangeGame
        PROVE  InboxTyped'
    BY <1>4, <1>5 DEF Tasks!Upload, Tasks!RecognitionEnds, Tasks!RetryRecognition, Tasks!Publish,
       Tasks!Withdraw, Tasks!ChangeGame
  <1>6. ASSUME NEW t \in Tasks!Teams, NEW a \in Accounts \cup {Nobody}, Tasks!Appoint(t, a)
        PROVE  InboxTyped'
    BY <1>6 DEF Tasks!Appoint, InboxTyped
  <1>7. CASE Tasks!Reconcile \/ UNCHANGED Tasks!vars
    BY <1>1, <1>7 DEF Tasks!Reconcile, Tasks!vars
  <1>q. QED BY <1>2, <1>3, <1>5, <1>6, <1>7 DEF Tasks!Next

(* Open tasks are of business that is still to be done, and a request that *)
(* begins to wait reaches the leader of every team it asks, or every       *)
(* superadmin, whoever leads and governs and whenever the inbox was        *)
(* reconciled (sync_reschedule_tasks, reconcile_inbox_tasks).              *)
THEOREM TasksFollow ==
  InboxAssumptions /\ Tasks!Spec
    => [](Tasks!TypeOK /\ Tasks!TasksAreCurrent) /\ [][Tasks!WaitReachesSomebody]_Tasks!vars
  <1>1. InboxAssumptions /\ InboxInv => Tasks!TasksAreCurrent
    BY CurrentFollows
  <1>2. (InboxAssumptions /\ InboxInv) /\ [Tasks!Next]_Tasks!vars => Tasks!WaitReachesSomebody
    BY AskedAreTold
  <1>3. InboxInv /\ InboxTyped => Tasks!TypeOK
    BY DEF InboxInv, InboxRows, InboxTyped, Stages, SheetRow, StatusRow, Runs, Tasks!TypeOK
  <1>4. Tasks!Init => InboxTyped
    BY DEF Tasks!Init, InboxTyped, Stages
  <1>q. QED BY <1>1, <1>2, <1>3, <1>4, InboxStaysTyped, InboxInduction, PTL DEF Tasks!Spec

-----------------------------------------------------------------------------
(* Games put right after the fact. *)
CONSTANTS Games, Slots, Corrections, SlotOf, GroupSlots, Phase, Halls, NoPlace, NoCorrection,
          Outcomes, Draws, Start, MaxWork
VARIABLES allocated, forced, assignment, revision, history, correction

Repairs == INSTANCE CompetitionCorrections

Pair == [Repairs!Sides -> Teams \cup {NoTeam}]
WonBy == Repairs!Sides \cup {"none"}
Modes == {"NONE", "NOT_APPLICABLE", "WINNER_CONFIRMED", "SUPERADMIN_OVERRIDE"}
PlannedRow == [team : Pair, status : Repairs!Statuses, won : WonBy, place : Places,
               standard : BOOLEAN, forced : BOOLEAN]
MatchRow == [team : Pair, status : Repairs!Statuses, won : WonBy, place : Places, version : Nat,
             request : Places \cup {NoPlace}]
SlotRow == [team : Teams \cup {NoTeam}, source : Games \cup {NoGame}, version : Nat, mode : Modes]
PaperRow == [published : BOOLEAN, stats : SUBSET Teams, pending : Corrections \cup {NoCorrection}]
DecisionRow == [action : Repairs!Actions, team : Teams \cup {NoTeam}, source : Games \cup {NoGame}]
Plans == {<<>>} \cup UNION {[S -> PlannedRow] : S \in SUBSET Games}
Decisions == {<<>>} \cup UNION {[S -> DecisionRow] : S \in SUBSET Slots}
CorrectionRow ==
  [status : {"NONE", "READY", "AWAITING_SCORESHEET", "APPLIED", "CANCELLED"},
   after : Plans, down : Decisions, season : Nat,
   versions : {<<>>} \cup UNION {[S -> Nat] : S \in SUBSET Games}, republish : Games \cup {NoGame}]

(* The constraints of the table of games.                                  *)
Sound(row) ==
  /\ row.team["home"] # row.team["away"] \/ row.team["home"] = NoTeam
  /\ row.status \in Repairs!Played <=> row.won # "none"
  /\ row.status \in Repairs!Played => row.team["home"] # NoTeam /\ row.team["away"] # NoTeam

InPlay(row) == row.status # "VOID"
(* A reservation is for the court the game is on, and for no other game.   *)
KeptApart(kept, rows) ==
  \A g \in Games : kept[g] # NoPlace =>
    /\ kept[g] = rows[g].place
    /\ \A h \in Games \ {g} : kept[h] # kept[g]
TrueTo(slots, rows) ==
  \A s \in Slots : s \notin GroupSlots =>
    slots[s].team = rows[Repairs!GameOf(s)].team[Repairs!SideOf(s)]
WonAsSaid(slots, rows) ==
  \A s \in Slots : slots[s].mode = "WINNER_CONFIRMED" =>
    LET g == slots[s].source IN
    /\ g \in Games /\ slots[s].version <= rows[g].version
    /\ slots[s].version = rows[g].version => Repairs!Winner(rows[g]) = slots[s].team

(* Only slots of games are filled from other games.                        *)
Drawn(s) == \E g \in Games, side \in Repairs!Sides : SlotOf[g][side] = s
DrawnFromGames(slots) == \A s \in Slots : slots[s].source \in Games => Drawn(s)

(* The slots of the bracket belong to one side of one game; a game is of   *)
(* the groups or of the bracket; and a competition starts in order.        *)
CompetitionAssumptions ==
  /\ IsFiniteSet(Games) /\ Games \subseteq Nat /\ Phase \in [Games -> Nat]
  /\ NoTeam \notin Teams /\ NoPlace \notin Places /\ NoCorrection \notin Corrections
  /\ NoGame \notin Games
  /\ \A g \in Games, side \in Repairs!Sides : SlotOf[g][side] \in Slots
  /\ \A s \in Slots : s \in GroupSlots \/ Drawn(s)
  /\ \A g, h \in Games, a, b \in Repairs!Sides :
       SlotOf[g][a] = SlotOf[h][b] /\ SlotOf[g][a] \notin GroupSlots => g = h /\ a = b
  /\ \A g \in Games : /\ SlotOf[g]["home"] # SlotOf[g]["away"]
                      /\ SlotOf[g]["home"] \in GroupSlots <=> SlotOf[g]["away"] \in GroupSlots
  /\ Outcomes \subseteq [status : Repairs!Statuses, won : WonBy] /\ Draws \subseteq Pair
  /\ \A start \in Start :
       /\ start.version \in Nat /\ start.game \in [Games -> MatchRow]
       /\ start.assignment \in [Slots -> SlotRow] /\ start.sheet \in [Games -> PaperRow]
       /\ \A g \in Games : Sound(start.game[g]) /\ start.sheet[g].pending = NoCorrection
       /\ TrueTo(start.assignment, start.game)
       /\ WonAsSaid(start.assignment, start.game) /\ DrawnFromGames(start.assignment)

CompetitionRows ==
  /\ season \in [status : {"PUBLISHED", "ARCHIVED"}, version : Nat]
  /\ game \in [Games -> MatchRow] /\ \A g \in Games : Sound(game[g])
  /\ allocated \in [Games -> Places \cup {NoPlace}]
  /\ forced \subseteq Games /\ history \subseteq Games
  /\ assignment \in [Slots -> SlotRow]
  /\ sheet \in [Games -> PaperRow]
  /\ correction \in [Corrections -> CorrectionRow]

Revised == revision = [g \in Games |-> Repairs!Result(game[g])]

(* A sheet that is to be published with a correction is the one it names.  *)
Awaited ==
  /\ \A g \in Games, c \in Corrections : sheet[g].pending = c =>
       /\ correction[c].status = "AWAITING_SCORESHEET"
       /\ g = correction[c].republish
       /\ g \in DOMAIN correction[c].after /\ correction[c].after[g].status = "COMPLETED"
  /\ \A c \in Corrections : correction[c].status = "AWAITING_SCORESHEET" =>
       \E g \in Games : sheet[g].pending = c

(* What a correction was checked for when it was made, and cannot change.  *)
PlanHolds(after, down) ==
  /\ after \in Plans /\ down \in Decisions
  /\ \E g, h \in Games : DOMAIN after = {g, h}
  /\ \A g \in DOMAIN after : Sound(after[g])
  /\ \A s \in DOMAIN down :
       /\ Drawn(s)
       /\ down[s].action = "CLEAR" => down[s].team = NoTeam
       /\ down[s].action = "SYNC_WINNER" =>
            /\ down[s].source \in DOMAIN after
            /\ Repairs!Winner(after[down[s].source]) = down[s].team
       /\ down[s].action # "KEEP_OVERRIDE" =>
            /\ Repairs!GameOf(s) \in DOMAIN after
            /\ after[Repairs!GameOf(s)].team[Repairs!SideOf(s)] = down[s].team

Pending(c) == correction[c].status \in {"READY", "AWAITING_SCORESHEET"}
PlansHold ==
  \A c \in Corrections : Pending(c) =>
    /\ PlanHolds(correction[c].after, correction[c].down)
    /\ correction[c].season <= season.version

CompInv ==
  /\ CompetitionRows /\ Revised /\ Awaited /\ PlansHold
  /\ KeptApart(allocated, game) /\ TrueTo(assignment, game) /\ WonAsSaid(assignment, game)
  /\ DrawnFromGames(assignment)

-----------------------------------------------------------------------------
LEMMA SlotPlaces ==
  ASSUME CompetitionAssumptions, NEW s, Drawn(s)
  PROVE  /\ Repairs!GameOf(s) \in Games /\ Repairs!SideOf(s) \in Repairs!Sides
         /\ SlotOf[Repairs!GameOf(s)][Repairs!SideOf(s)] = s
  <1>1. /\ Repairs!GameOf(s) \in Games
        /\ \E side \in Repairs!Sides : SlotOf[Repairs!GameOf(s)][side] = s
    BY DEF Drawn, Repairs!GameOf
  <1>q. QED BY <1>1 DEF Repairs!SideOf

LEMMA BracketPlaces ==
  ASSUME CompetitionAssumptions, NEW g \in Games, NEW side \in Repairs!Sides,
         SlotOf[g][side] \notin GroupSlots
  PROVE  Repairs!GameOf(SlotOf[g][side]) = g /\ Repairs!SideOf(SlotOf[g][side]) = side
  <1>1. PICK s : s = SlotOf[g][side]
    OBVIOUS
  <1>2. Drawn(s) /\ s \notin GroupSlots
    BY <1>1 DEF Drawn
  <1>3. \A h \in Games, b \in Repairs!Sides :
          SlotOf[h][b] = s => h = g /\ b = side
    BY <1>1 DEF CompetitionAssumptions
  <1>q. QED BY <1>1, <1>2, <1>3, SlotPlaces

(* What is saved of a planned game, and what a publication makes of one.   *)
LEMMA SavedRow ==
  ASSUME CompetitionRows, NEW g \in Games, NEW row \in PlannedRow, Sound(row)
  PROVE  /\ Repairs!Saved(g, row) \in MatchRow /\ Sound(Repairs!Saved(g, row))
         /\ Repairs!Saved(g, row).place = row.place /\ Repairs!Saved(g, row).status = row.status
         /\ Repairs!Saved(g, row).team = row.team /\ Repairs!Saved(g, row).won = row.won
         /\ Repairs!Saved(g, row).version > game[g].version
         /\ Repairs!Winner(Repairs!Saved(g, row)) = Repairs!Winner(row)
         /\ Repairs!Result(Repairs!Saved(g, row)) = Repairs!Result(row)
  <1> DEFINE saved == Repairs!Saved(g, row)
  <1>1. game[g].version \in Nat
    BY DEF CompetitionRows, MatchRow
  <1>2. /\ saved.place = row.place /\ saved.status = row.status
        /\ saved.team = row.team /\ saved.won = row.won
    BY DEF Repairs!Saved
  <1>3. saved.version \in Nat /\ saved.version > game[g].version
    BY <1>1 DEF Repairs!Saved
  <1>4. saved \in MatchRow
    BY <1>3 DEF Repairs!Saved, MatchRow, PlannedRow
  <1>q. QED
    <2> HIDE DEF saved
    <2>1. Sound(saved)
      BY <1>2 DEF Sound
    <2>2. Repairs!Winner(saved) = Repairs!Winner(row)
      BY <1>2 DEF Repairs!Winner
    <2>3. Repairs!Result(saved) = Repairs!Result(row)
      BY <1>2 DEF Repairs!Result
    <2>q. QED BY <1>2, <1>3, <1>4, <2>1, <2>2, <2>3 DEF saved

LEMMA PublishedRow ==
  ASSUME NEW row \in MatchRow, NEW side \in Repairs!Sides, Sound(row),
         row.team["home"] # NoTeam, row.team["away"] # NoTeam
  PROVE  LET next == Repairs!Published(row, side) IN
         /\ next \in MatchRow /\ Sound(next) /\ InPlay(next)
         /\ next.team = row.team /\ next.place = row.place
         /\ next.version = row.version + 1
  <1> DEFINE next == Repairs!Published(row, side)
  <1>1. row.version \in Nat /\ row.version + 1 \in Nat
    BY DEF MatchRow
  <1>2. next \in MatchRow
    BY <1>1 DEF Repairs!Published, MatchRow, Repairs!Statuses, WonBy
  <1>3. /\ next.team = row.team /\ next.place = row.place /\ next.version = row.version + 1
        /\ next.status = "COMPLETED" /\ next.won = side
    BY <1>1 DEF Repairs!Published, MatchRow
  <1>q. QED
    <2> HIDE DEF next
    <2>1. Sound(next) /\ InPlay(next)
      BY <1>3 DEF Sound, InPlay, Repairs!Played, Repairs!Sides
    <2>q. QED BY <1>2, <1>3, <2>1 DEF next

(* A game of two teams has both.                                           *)
LEMMA TwoTeams ==
  ASSUME NEW row, Cardinality(Repairs!TeamsOf(row)) = 2
  PROVE  row.team["home"] # NoTeam /\ row.team["away"] # NoTeam
  <1>1. Repairs!TeamsOf(row) = {row.team["home"], row.team["away"]} \ {NoTeam}
    BY DEF Repairs!TeamsOf, Repairs!Sides
  <1>2. ASSUME NEW t, Repairs!TeamsOf(row) \subseteq {t}
        PROVE  FALSE
    <2>1. IsFiniteSet({t}) /\ Cardinality({t}) = 1
      BY FS_Singleton
    <2>q. QED BY <1>2, <2>1, FS_Subset
  <1>3. CASE row.team["home"] = NoTeam
    BY <1>1, <1>2, <1>3
  <1>4. CASE row.team["away"] = NoTeam
    BY <1>1, <1>2, <1>4
  <1>q. QED BY <1>3, <1>4

LEMMA CorrectionsApart ==
  \A S : Repairs!Cardinality(S) = Cardinality(S)
BY DEF Cardinality, Repairs!Cardinality

-----------------------------------------------------------------------------
(* Commands that leave teams, slots and corrections alone.                 *)
Onwards(rows) ==
  /\ rows \in [Games -> MatchRow]
  /\ \A g \in Games :
       /\ Sound(rows[g]) /\ rows[g].team = game[g].team
       /\ rows[g].version >= game[g].version
       /\ Repairs!Winner(rows[g]) # Repairs!Winner(game[g]) => rows[g].version > game[g].version

LEMMA QuietStep ==
  ASSUME CompetitionAssumptions, CompInv, UNCHANGED <<assignment, correction>>, Onwards(game'),
         KeptApart(allocated, game)', Revised',
         allocated' \in [Games -> Places \cup {NoPlace}], forced' \subseteq Games,
         history' \subseteq Games, sheet' \in [Games -> PaperRow],
         \A g \in Games : sheet'[g].pending = sheet[g].pending,
         season' \in [status : {"PUBLISHED", "ARCHIVED"}, version : Nat],
         season'.version >= season.version
  PROVE  CompInv'
  <1>1. CompetitionRows'
    BY DEF CompInv, CompetitionRows, Onwards
  <1>2. Awaited'
    BY DEF CompInv, Awaited
  <1>3. PlansHold'
    <2> SUFFICES ASSUME NEW c \in Corrections, Pending(c)'
                 PROVE  /\ PlanHolds(correction[c].after, correction[c].down)'
                        /\ (correction[c].season <= season.version)'
      BY DEF PlansHold
    <2>1. /\ Pending(c) /\ PlanHolds(correction[c].after, correction[c].down)
          /\ correction[c].season <= season.version
      BY DEF CompInv, PlansHold, Pending
    <2>2. correction[c].season \in Nat /\ season.version \in Nat /\ season'.version \in Nat
      BY DEF CompInv, CompetitionRows, CorrectionRow
    <2>3. PlanHolds(correction[c].after, correction[c].down)'
      BY <2>1 DEF PlanHolds, Drawn, Sound
    <2>q. QED BY <2>1, <2>2, <2>3
  <1>4. TrueTo(assignment, game)'
    <2>1. \A s \in Slots : s \notin GroupSlots => Repairs!GameOf(s) \in Games
      BY SlotPlaces DEF CompetitionAssumptions
    <2>q. QED BY <2>1 DEF CompInv, TrueTo, Onwards
  <1>5. WonAsSaid(assignment, game)'
    <2> SUFFICES ASSUME NEW s \in Slots, assignment[s].mode = "WINNER_CONFIRMED", NEW g,
                        g = assignment[s].source
                 PROVE  /\ g \in Games /\ assignment[s].version <= game'[g].version
                        /\ assignment[s].version = game'[g].version =>
                             Repairs!Winner(game'[g]) = assignment[s].team
      BY DEF WonAsSaid
    <2>1. /\ g \in Games /\ assignment[s].version <= game[g].version
          /\ assignment[s].version = game[g].version =>
                             Repairs!Winner(game[g]) = assignment[s].team
      BY DEF CompInv, WonAsSaid
    <2>2. game[g].version \in Nat /\ game'[g].version \in Nat /\ assignment[s].version \in Nat
      BY <2>1 DEF CompInv, CompetitionRows, MatchRow, SlotRow, Onwards
    <2>3. /\ game'[g].version >= game[g].version
          /\ Repairs!Winner(game'[g]) # Repairs!Winner(game[g]) => game'[g].version > game[g].version
      BY <2>1 DEF Onwards
    <2>q. QED BY <2>1, <2>2, <2>3
  <1>6. DrawnFromGames(assignment)'
    BY DEF CompInv, DrawnFromGames, Drawn
  <1>q. QED BY <1>1, <1>2, <1>3, <1>4, <1>5, <1>6 DEF CompInv

LEMMA RepublishingKeeps ==
  ASSUME CompetitionAssumptions, CompInv, NEW g \in Games, NEW side \in Repairs!Sides,
         Repairs!Publish(g, side)
  PROVE  CompInv'
  <1> DEFINE row == Repairs!Published(game[g], side)
  <1>1. /\ game' = [game EXCEPT ![g] = row]
        /\ sheet' = [sheet EXCEPT ![g] = Repairs!WithStats(sheet[g], game[g])]
        /\ revision' = [revision EXCEPT ![g] = Repairs!Result(row)]
        /\ history' = history \cup {g} /\ UNCHANGED <<allocated, forced, assignment, correction>>
        /\ sheet[g].pending = NoCorrection
        /\ game[g].status \notin {"FORFEIT", "VOID"} /\ Cardinality(Repairs!TeamsOf(game[g])) = 2
    BY CorrectionsApart DEF Repairs!Publish, Repairs!Publishable
  <1>2. game[g] \in MatchRow /\ Sound(game[g]) /\ game \in [Games -> MatchRow]
    BY DEF CompInv, CompetitionRows
  <1>3. /\ row \in MatchRow /\ Sound(row) /\ InPlay(row) /\ row.team = game[g].team
        /\ row.place = game[g].place /\ row.version = game[g].version + 1
    BY <1>1, <1>2, TwoTeams, PublishedRow
  <1> HIDE DEF row
  <1>4. Onwards(game')
    <2>1. \A h \in Games : game[h].version \in Nat /\ Sound(game[h])
      BY DEF CompInv, CompetitionRows, MatchRow
    <2>q. QED BY <1>1, <1>2, <1>3, <2>1 DEF Onwards
  <1>6. KeptApart(allocated, game)'
    BY <1>1, <1>2, <1>3 DEF CompInv, KeptApart
  <1>7. Revised'
    BY <1>1, <1>2, <1>3 DEF CompInv, Revised
  <1>8. sheet' \in [Games -> PaperRow] /\ \A h \in Games : sheet'[h].pending = sheet[h].pending
    <2>1. sheet[g] \in PaperRow /\ sheet \in [Games -> PaperRow]
      BY DEF CompInv, CompetitionRows
    <2>2. Repairs!TeamsOf(game[g]) \subseteq Teams
      BY <1>2 DEF Repairs!TeamsOf, MatchRow, Pair
    <2>3. PICK paper : paper = Repairs!WithStats(sheet[g], game[g])
      OBVIOUS
    <2>4. paper \in PaperRow /\ paper.pending = NoCorrection
      BY <2>1, <2>2, <2>3 DEF Repairs!WithStats, PaperRow
    <2>q. QED BY <1>1, <2>1, <2>3, <2>4
  <1>9. /\ season' \in [status : {"PUBLISHED", "ARCHIVED"}, version : Nat]
        /\ season'.version >= season.version
    <2>1. season \in [status : {"PUBLISHED", "ARCHIVED"}, version : Nat]
      BY DEF CompInv, CompetitionRows
    <2>2. season' = [season EXCEPT !.version = IF season.status = "ARCHIVED"
                                     THEN season.version + 1 ELSE season.version]
      BY DEF Repairs!Publish
    <2>3. season.version \in Nat /\ season.version + 1 \in Nat
      BY <2>1
    <2>q. QED BY <2>1, <2>2, <2>3
  <1>10. /\ allocated' \in [Games -> Places \cup {NoPlace}] /\ forced' \subseteq Games
         /\ history' \subseteq Games
    BY <1>1 DEF CompInv, CompetitionRows
  <1>q. QED BY <1>1, <1>4, <1>6, <1>7, <1>8, <1>9, <1>10, QuietStep

LEMMA SeasonStays ==
  ASSUME CompInv, UNCHANGED season
  PROVE  /\ season' \in [status : {"PUBLISHED", "ARCHIVED"}, version : Nat]
         /\ season'.version >= season.version
BY DEF CompInv, CompetitionRows

(* A game saved with another place, request and version only.              *)
Relocated(g, place, asked) ==
  [game[g] EXCEPT !.place = place, !.request = asked, !.version = game[g].version + 1]
LEMMA RelocatedRow ==
  ASSUME CompInv, NEW g \in Games, NEW place \in Places, NEW asked \in Places \cup {NoPlace}
  PROVE  LET next == Relocated(g, place, asked) IN
         /\ next \in MatchRow /\ Sound(next) /\ next.team = game[g].team
         /\ next.place = place /\ next.status = game[g].status
         /\ next.version = game[g].version + 1
         /\ Repairs!Winner(next) = Repairs!Winner(game[g])
         /\ Repairs!Result(next) = Repairs!Result(game[g])
  <1> DEFINE next == Relocated(g, place, asked)
  <1>1. game[g] \in MatchRow /\ Sound(game[g])
    BY DEF CompInv, CompetitionRows
  <1>2. game[g].version \in Nat /\ game[g].version + 1 \in Nat
    BY <1>1 DEF MatchRow
  <1>3. /\ next \in MatchRow /\ next.team = game[g].team /\ next.place = place
        /\ next.status = game[g].status /\ next.won = game[g].won
        /\ next.version = game[g].version + 1
    BY <1>1, <1>2 DEF Relocated, MatchRow
  <1> HIDE DEF next
  <1>4. Sound(next)
    BY <1>1, <1>3 DEF Sound
  <1>5. Repairs!Winner(next) = Repairs!Winner(game[g]) /\ Repairs!Result(next) = Repairs!Result(game[g])
    BY <1>3 DEF Repairs!Winner, Repairs!Result
  <1>q. QED BY <1>3, <1>4, <1>5 DEF next

LEMMA RelocationKeeps ==
  ASSUME CompetitionAssumptions, CompInv, NEW g \in Games, NEW place \in Places,
         NEW asked \in Places \cup {NoPlace},
         game' = [game EXCEPT ![g] = Relocated(g, place, asked)],
         \/ place = game[g].place /\ UNCHANGED <<allocated, forced>>
         \/ /\ \A h \in Games : h # g => allocated[h] # place
            /\ allocated' = [allocated EXCEPT ![g] = place] /\ forced' = forced \ {g},
         UNCHANGED <<season, assignment, revision, sheet, correction>>, history' \subseteq Games
  PROVE  CompInv'
  <1> DEFINE row == Relocated(g, place, asked)
  <1>1. /\ game \in [Games -> MatchRow] /\ allocated \in [Games -> Places \cup {NoPlace}]
        /\ forced \subseteq Games
        /\ sheet \in [Games -> PaperRow]
        /\ \A h \in Games : game[h].version \in Nat /\ Sound(game[h])
    BY DEF CompInv, CompetitionRows, MatchRow
  <1>2. /\ row \in MatchRow /\ Sound(row) /\ row.team = game[g].team
         /\ row.place = place /\ row.status = game[g].status
         /\ row.version = game[g].version + 1
         /\ Repairs!Winner(row) = Repairs!Winner(game[g])
         /\ Repairs!Result(row) = Repairs!Result(game[g])
    BY RelocatedRow
  <1> HIDE DEF row
  <1>3. Onwards(game')
    BY <1>1, <1>2 DEF Onwards, row
  <1>5. KeptApart(allocated, game)'
    BY <1>1, <1>2 DEF CompInv, KeptApart, row
  <1>6. Revised'
    BY <1>1, <1>2 DEF CompInv, Revised, row
  <1>7. allocated' \in [Games -> Places \cup {NoPlace}] /\ forced' \subseteq Games
    BY <1>1
  <1>q. QED BY <1>1, <1>3, <1>5, <1>6, <1>7, QuietStep, SeasonStays

LEMMA RequestsKeep ==
  ASSUME CompetitionAssumptions, CompInv, NEW g \in Games,
         \/ Repairs!Approve(g) \/ Repairs!EndRequest(g)
         \/ \E p \in Places : Repairs!Submit(g, p)
  PROVE  CompInv'
  <1>1. /\ game[g] \in MatchRow /\ game[g].place \in Places /\ game \in [Games -> MatchRow]
        /\ game[g].request \in Places \cup {NoPlace} /\ game[g].version \in Nat
        /\ game[g].version + 1 \in Nat
    BY DEF CompInv, CompetitionRows, MatchRow
  <1>2. CASE Repairs!Approve(g)
    <2>1. /\ game' = [game EXCEPT ![g] = Relocated(g, game[g].request, NoPlace)]
          /\ game[g].request \in Places
      BY <1>1, <1>2 DEF Repairs!Approve, Relocated, MatchRow
    <2>2. \A h \in Games : h # g => allocated[h] # game[g].request
      BY <1>2 DEF Repairs!Approve
    <2>3. /\ allocated' = [allocated EXCEPT ![g] = game[g].request] /\ forced' = forced \ {g}
          /\ UNCHANGED <<season, assignment, revision, sheet, correction>> /\ history' \subseteq Games
      BY <1>2 DEF Repairs!Approve, CompInv, CompetitionRows
    <2>q. QED BY <2>1, <2>2, <2>3, RelocationKeeps
  <1>3. CASE Repairs!EndRequest(g)
    <2>1. game' = [game EXCEPT ![g] = Relocated(g, game[g].place, NoPlace)]
      BY <1>1, <1>3 DEF Repairs!EndRequest, Relocated, MatchRow
    <2>3. /\ UNCHANGED <<season, assignment, revision, sheet, correction, allocated, forced>>
          /\ history' \subseteq Games
      BY <1>3 DEF Repairs!EndRequest, CompInv, CompetitionRows
    <2>q. QED BY <1>1, <2>1, <2>3, RelocationKeeps
  <1>4. ASSUME NEW p \in Places, Repairs!Submit(g, p)
        PROVE  CompInv'
    <2>1. game' = [game EXCEPT ![g] = Relocated(g, game[g].place, p)]
      BY <1>1, <1>4 DEF Repairs!Submit, Relocated, MatchRow
    <2>3. /\ UNCHANGED <<season, assignment, revision, sheet, correction, allocated, forced>>
          /\ history' \subseteq Games
      BY <1>4 DEF Repairs!Submit, CompInv, CompetitionRows
    <2>q. QED BY <1>1, <2>1, <2>3, RelocationKeeps
  <1>q. QED BY <1>2, <1>3, <1>4

LEMMA UpdateKeeps ==
  ASSUME CompetitionAssumptions, CompInv, NEW g \in Games, NEW row \in PlannedRow,
         Repairs!UpdateGame(g, row)
  PROVE  CompInv'
  <1> DEFINE saved == Repairs!Saved(g, row)
  <1>1. /\ game \in [Games -> MatchRow] /\ allocated \in [Games -> Places \cup {NoPlace}]
        /\ forced \subseteq Games /\ history \subseteq Games
        /\ sheet \in [Games -> PaperRow]
        /\ \A h \in Games : game[h].version \in Nat /\ Sound(game[h])
    BY DEF CompInv, CompetitionRows, MatchRow
  <1>2. /\ game' = [game EXCEPT ![g] = saved]
        /\ allocated' = [allocated EXCEPT ![g] = Repairs!Reserved(g, row)]
        /\ forced' = IF row.forced THEN forced \cup {g} ELSE forced \ {g}
        /\ revision' = [revision EXCEPT ![g] = Repairs!Result(row)]
        /\ UNCHANGED <<season, assignment, sheet, history, correction>>
        /\ row.team = game[g].team /\ Repairs!ResultValid(g, row)
        /\ Repairs!Reservable([h \in {g} |-> row])
    BY DEF Repairs!UpdateGame
  <1>3. Sound(row)
    BY <1>2 DEF Repairs!ResultValid, Sound, Repairs!Sides
  <1>4. /\ saved \in MatchRow /\ Sound(saved) /\ saved.place = row.place /\ saved.status = row.status
        /\ saved.team = row.team /\ saved.version > game[g].version
        /\ Repairs!Result(saved) = Repairs!Result(row)
    BY <1>1, <1>3, SavedRow DEF CompInv
  <1>5. /\ Repairs!Reserved(g, row) \in {row.place, NoPlace}
        /\ Repairs!Reserved(g, row) # NoPlace
             => \A h \in Games \ {g} : Repairs!Reserved(g, row) # allocated[h]
    <2>1. PICK after : after = [h \in {g} |-> row]
      OBVIOUS
    <2>2. DOMAIN after = {g} /\ after[g] = row /\ Repairs!Reservable(after)
      BY <1>2, <2>1
    <2>q. QED BY <2>2 DEF Repairs!Reservable, Repairs!Reserved
  <1> HIDE DEF saved
  <1>6. Onwards(game')
    <2>1. saved.version \in Nat /\ saved.version >= game[g].version
      BY <1>1, <1>4 DEF MatchRow
    <2>q. QED BY <1>1, <1>2, <1>4, <2>1 DEF Onwards
  <1>8. KeptApart(allocated, game)'
    BY <1>1, <1>2, <1>4, <1>5 DEF CompInv, KeptApart
  <1>9. Revised'
    BY <1>1, <1>2, <1>4 DEF CompInv, Revised
  <1>10. allocated' \in [Games -> Places \cup {NoPlace}] /\ forced' \subseteq Games
    BY <1>1, <1>2 DEF Repairs!Reserved, PlannedRow
  <1>q. QED BY <1>1, <1>2, <1>6, <1>8, <1>9, <1>10, QuietStep, SeasonStays

LEMMA ArchivalKeeps ==
  ASSUME CompetitionAssumptions, CompInv, Repairs!Archive
  PROVE  CompInv'
  <1>1. /\ game \in [Games -> MatchRow] /\ season.version \in Nat
        /\ \A h \in Games : game[h].version \in Nat /\ Sound(game[h])
    BY DEF CompInv, CompetitionRows, MatchRow
  <1>2. /\ UNCHANGED <<game, allocated, forced, assignment, revision, sheet, history, correction>>
        /\ season' = [status |-> "ARCHIVED", version |-> season.version + 1]
    BY DEF Repairs!Archive
  <1>3. Onwards(game')
    BY <1>1, <1>2 DEF Onwards
  <1>4. KeptApart(allocated, game)' /\ Revised'
    BY <1>2 DEF CompInv, KeptApart, Revised
  <1>5. /\ season' \in [status : {"PUBLISHED", "ARCHIVED"}, version : Nat]
        /\ season'.version >= season.version
    BY <1>1, <1>2
  <1>q. QED BY <1>2, <1>3, <1>4, <1>5, QuietStep DEF CompInv, CompetitionRows

-----------------------------------------------------------------------------
(* Draws change teams and slots, and every draft is out of date after one. *)
LEMMA DrawStep ==
  ASSUME CompetitionAssumptions, CompInv,
         UNCHANGED <<allocated, forced, sheet, history, correction>>,
         season' = [season EXCEPT !.version = @ + 1],
         game' \in [Games -> MatchRow],
         \A g \in Games : /\ Sound(game'[g]) /\ game'[g].place = game[g].place
                          /\ game'[g].status = game[g].status,
         assignment' \in [Slots -> SlotRow], Revised',
         TrueTo(assignment, game)', WonAsSaid(assignment, game)', DrawnFromGames(assignment)'
  PROVE  CompInv'
  <1>1. season \in [status : {"PUBLISHED", "ARCHIVED"}, version : Nat] /\ season.version + 1 \in Nat
    BY DEF CompInv, CompetitionRows
  <1>2. /\ season' \in [status : {"PUBLISHED", "ARCHIVED"}, version : Nat]
        /\ season'.version = season.version + 1
    BY <1>1
  <1>3. CompetitionRows' /\ Awaited' /\ KeptApart(allocated, game)'
    BY <1>2 DEF CompInv, CompetitionRows, Awaited, KeptApart
  <1>4. PlansHold'
    <2> SUFFICES ASSUME NEW c \in Corrections, Pending(c)'
                 PROVE  /\ PlanHolds(correction[c].after, correction[c].down)'
                        /\ correction[c].season < season'.version
      <3>1. \A c \in Corrections : correction[c].season \in Nat /\ season'.version \in Nat
        BY <1>2 DEF CompInv, CompetitionRows, CorrectionRow
      <3>q. QED BY <3>1 DEF PlansHold
    <2>1. /\ Pending(c) /\ PlanHolds(correction[c].after, correction[c].down)
          /\ correction[c].season <= season.version
      BY DEF CompInv, PlansHold, Pending
    <2>2. correction[c].season \in Nat /\ season.version \in Nat
      BY DEF CompInv, CompetitionRows, CorrectionRow
    <2>3. PlanHolds(correction[c].after, correction[c].down)'
      BY <2>1 DEF PlanHolds, Drawn, Sound
    <2>4. correction[c].season < season'.version
      BY <1>2, <2>1, <2>2
    <2>q. QED BY <2>3, <2>4
  <1>q. QED BY <1>3, <1>4 DEF CompInv

LEMMA GroupDrawKeeps ==
  ASSUME CompetitionAssumptions, CompInv, NEW draw \in [GroupSlots -> Teams],
         \A s, r \in GroupSlots : s # r => draw[s] # draw[r], Repairs!DrawGroups(draw)
  PROVE  CompInv'
  <1> DEFINE changed == Repairs!ChangedSlots(draw)
             affected == Repairs!Affected(draw)
             pair(g) == Repairs!Redrawn(g, draw)
             moved(g) == g \in affected /\ pair(g) # game[g].team
             row(g) == [game[g] EXCEPT !.team = pair(g), !.version = game[g].version + 1]
  <1>1. /\ \A g \in affected : game[g].status = "SCHEDULED"
        /\ assignment' = [s \in Slots |-> IF s \in changed THEN Repairs!Free(draw[s])
                                                           ELSE assignment[s]]
        /\ game' = [g \in Games |-> IF moved(g) THEN row(g) ELSE game[g]]
        /\ revision' = [g \in Games |-> [revision[g] EXCEPT !.team =
                          IF g \in affected THEN pair(g) ELSE revision[g].team]]
        /\ season' = [season EXCEPT !.version = @ + 1]
        /\ UNCHANGED <<allocated, forced, sheet, history, correction>>
    BY DEF Repairs!DrawGroups, Repairs!DrawSafe
  <1>2. /\ game \in [Games -> MatchRow] /\ assignment \in [Slots -> SlotRow]
        /\ \A g \in Games : /\ game[g].version \in Nat /\ game[g].version + 1 \in Nat
                            /\ Sound(game[g]) /\ game[g].team \in Pair
    BY DEF CompInv, CompetitionRows, MatchRow
  <1>3. changed \subseteq GroupSlots /\ affected \subseteq Games
    BY DEF Repairs!ChangedSlots, Repairs!Affected
  <1>4. ASSUME NEW g \in Games
        PROVE  /\ pair(g) \in Pair
               /\ \A side \in Repairs!Sides : SlotOf[g][side] \notin GroupSlots =>
                    pair(g)[side] = game[g].team[side]
    BY <1>2 DEF Repairs!Redrawn, Pair
  <1>5. ASSUME NEW g \in affected
        PROVE  /\ pair(g)["home"] # pair(g)["away"]
               /\ pair(g)["home"] # NoTeam /\ pair(g)["away"] # NoTeam
    <2>1. /\ SlotOf[g]["home"] \in GroupSlots /\ SlotOf[g]["away"] \in GroupSlots
          /\ SlotOf[g]["home"] # SlotOf[g]["away"]
      BY <1>3 DEF Repairs!Affected, Repairs!Sides, CompetitionAssumptions
    <2>2. pair(g)["home"] = draw[SlotOf[g]["home"]] /\ pair(g)["away"] = draw[SlotOf[g]["away"]]
      BY <2>1 DEF Repairs!Redrawn, Repairs!Sides
    <2>q. QED BY <2>1, <2>2 DEF CompetitionAssumptions
  <1> HIDE DEF changed, affected, pair
  <1>6. ASSUME NEW g \in Games
        PROVE  /\ row(g) \in MatchRow /\ row(g).team = pair(g) /\ row(g).status = game[g].status
               /\ row(g).won = game[g].won /\ row(g).place = game[g].place
               /\ row(g).version = game[g].version + 1
    BY <1>2, <1>4 DEF MatchRow
  <1> HIDE DEF row
  <1>7. ASSUME NEW g \in affected PROVE Sound(row(g))
    BY <1>1, <1>2, <1>3, <1>5, <1>6 DEF Sound, Repairs!Played
  <1>8. game' \in [Games -> MatchRow]
    BY <1>1, <1>2, <1>6
  <1>9. ASSUME NEW g \in Games
        PROVE  /\ Sound(game'[g]) /\ game'[g].place = game[g].place
               /\ game'[g].status = game[g].status
               /\ moved(g) => game'[g].team = pair(g) /\ game'[g].version = game[g].version + 1
               /\ ~moved(g) => game'[g] = game[g]
    BY <1>1, <1>2, <1>6, <1>7
  <1>10. assignment' \in [Slots -> SlotRow]
    <2>1. \A s \in changed : Repairs!Free(draw[s]) \in SlotRow
      BY <1>3 DEF Repairs!Free, Repairs!Unassigned, SlotRow, Modes
    <2>q. QED BY <1>1, <1>2, <2>1
  <1>11. Revised'
    <2>1. revision = [g \in Games |-> Repairs!Result(game[g])]
      BY DEF CompInv, Revised
    <2>2. ASSUME NEW g \in Games
          PROVE  [revision[g] EXCEPT !.team = IF g \in affected THEN pair(g) ELSE revision[g].team]
                   = Repairs!Result(game'[g])
      <3>1. revision[g] = [team |-> game[g].team, status |-> game[g].status, won |-> game[g].won]
        BY <2>1 DEF Repairs!Result
      <3>2. Repairs!Result(game'[g]) =
              [team |-> IF g \in affected THEN pair(g) ELSE game[g].team, status |-> game[g].status,
               won |-> game[g].won]
        BY <1>1, <1>6 DEF Repairs!Result
      <3>q. QED BY <3>1, <3>2
    <2>q. QED BY <1>1, <2>2 DEF Revised
  <1>12. TrueTo(assignment, game)'
    <2> SUFFICES ASSUME NEW s \in Slots, s \notin GroupSlots
                 PROVE  assignment'[s].team = game'[Repairs!GameOf(s)].team[Repairs!SideOf(s)]
      BY DEF TrueTo
    <2>1. /\ Repairs!GameOf(s) \in Games /\ Repairs!SideOf(s) \in Repairs!Sides
          /\ SlotOf[Repairs!GameOf(s)][Repairs!SideOf(s)] = s
      BY SlotPlaces DEF CompetitionAssumptions
    <2>2. game'[Repairs!GameOf(s)].team[Repairs!SideOf(s)]
            = game[Repairs!GameOf(s)].team[Repairs!SideOf(s)]
      BY <1>4, <1>9, <2>1
    <2>3. assignment'[s] = assignment[s]
      BY <1>1, <1>3
    <2>q. QED BY <2>2, <2>3 DEF CompInv, TrueTo
  <1>13. \A s \in Slots : \/ assignment'[s] = assignment[s]
                          \/ /\ assignment'[s].mode = "NOT_APPLICABLE"
                             /\ assignment'[s].source = NoGame
    BY <1>1 DEF Repairs!Free, Repairs!Unassigned
  <1>14. WonAsSaid(assignment, game)'
    <2> SUFFICES ASSUME NEW s \in Slots, assignment[s].mode = "WINNER_CONFIRMED", NEW g,
                        g = assignment[s].source
                 PROVE  /\ g \in Games /\ assignment[s].version <= game'[g].version
                        /\ assignment[s].version = game'[g].version =>
                             Repairs!Winner(game'[g]) = assignment[s].team
      BY <1>13 DEF WonAsSaid
    <2>1. /\ g \in Games /\ assignment[s].version <= game[g].version
          /\ assignment[s].version = game[g].version =>
                             Repairs!Winner(game[g]) = assignment[s].team
      BY DEF CompInv, WonAsSaid
    <2>2. assignment[s].version \in Nat /\ game[g].version \in Nat
      BY <1>2, <2>1 DEF SlotRow
    <2>q. QED BY <1>9, <2>1, <2>2
  <1>15. DrawnFromGames(assignment)'
    BY <1>13 DEF CompInv, DrawnFromGames, Drawn, CompetitionAssumptions
  <1>q. QED BY <1>1, <1>8, <1>9, <1>10, <1>11, <1>12, <1>14, <1>15, DrawStep

LEMMA DrawnSlot ==
  ASSUME CompetitionAssumptions, CompInv, NEW g \in Games, NEW t \in Teams \cup {NoTeam}
  PROVE  LET slot == Repairs!DrawnFrom(g, t) IN
         /\ slot \in SlotRow /\ slot.team = t
         /\ slot.mode = "WINNER_CONFIRMED" =>
              /\ slot.source \in Games /\ slot.source # g
              /\ slot.version = game[slot.source].version
              /\ Repairs!Winner(game[slot.source]) = t
  <1>1. /\ Repairs!Free(t) \in SlotRow /\ Repairs!Free(t).team = t
        /\ Repairs!Free(t).mode = "NOT_APPLICABLE"
    BY DEF Repairs!Free, Repairs!Unassigned, SlotRow, Modes
  <1>2. /\ Repairs!Override(t) \in SlotRow /\ Repairs!Override(t).team = t
        /\ Repairs!Override(t).mode = "SUPERADMIN_OVERRIDE"
    BY DEF Repairs!Override, Repairs!Unassigned, SlotRow, Modes
  <1>3. ASSUME NEW h \in Repairs!Beaten(g, t)
        PROVE  LET slot == Repairs!Confirmed(t, h, game[h].version) IN
               /\ slot \in SlotRow /\ slot.team = t /\ slot.source = h
               /\ slot.version = game[h].version
               /\ h \in Games /\ h # g /\ Repairs!Winner(game[h]) = t
    <2>1. h \in Games /\ Phase[h] = Phase[g] - 1 /\ Repairs!Winner(game[h]) = t
      BY DEF Repairs!Beaten, Repairs!Previous
    <2>2. Phase[h] \in Nat /\ Phase[g] \in Nat
      BY <2>1 DEF CompetitionAssumptions
    <2>3. game[h].version \in Nat
      BY <2>1 DEF CompInv, CompetitionRows, MatchRow
    <2>4. h # g
      BY <2>1, <2>2
    <2>5. PICK v : v = game[h].version
      OBVIOUS
    <2>6. PICK slot : slot = [team |-> t, source |-> h, version |-> v, mode |-> "WINNER_CONFIRMED"]
      OBVIOUS
    <2>7. slot = Repairs!Confirmed(t, h, game[h].version)
      BY <2>5, <2>6 DEF Repairs!Confirmed
    <2>8. slot \in SlotRow /\ slot.team = t /\ slot.source = h /\ slot.version = v
      BY <2>1, <2>3, <2>5, <2>6 DEF SlotRow, Modes
    <2>q. QED BY <2>1, <2>4, <2>5, <2>7, <2>8
  <1>4. CASE Repairs!Previous(g) = {}
    <2>1. Repairs!Beaten(g, t) = {}
      BY <1>4 DEF Repairs!Beaten
    <2>q. QED BY <1>1, <1>4, <2>1 DEF Repairs!DrawnFrom
  <1>5. CASE Repairs!Previous(g) # {} /\ Repairs!Beaten(g, t) # {}
    <2>1. PICK h \in Repairs!Beaten(g, t) :
            Repairs!DrawnFrom(g, t) = Repairs!Confirmed(t, h, game[h].version)
      BY <1>5 DEF Repairs!DrawnFrom
    <2>q. QED BY <2>1, <1>3
  <1>6. CASE Repairs!Previous(g) # {} /\ Repairs!Beaten(g, t) = {}
    BY <1>2, <1>6 DEF Repairs!DrawnFrom
  <1>q. QED BY <1>4, <1>5, <1>6

LEMMA GameDrawKeeps ==
  ASSUME CompetitionAssumptions, CompInv, NEW g \in Games, NEW pair \in Draws,
         Repairs!DrawGame(g, pair)
  PROVE  CompInv'
  <1> DEFINE row == [game[g] EXCEPT !.team = pair, !.version = game[g].version + 1]
             refilled(s) == \E side \in Repairs!Sides :
                              SlotOf[g][side] = s /\ assignment[s].team # pair[side]
  <1>1. /\ pair["home"] # pair["away"] /\ (pair # game[g].team => game[g].status = "SCHEDULED")
        /\ assignment' = [s \in Slots |-> IF refilled(s)
             THEN Repairs!DrawnFrom(g, pair[Repairs!SideOf(s)]) ELSE assignment[s]]
        /\ season' = [season EXCEPT !.version = @ + 1]
        /\ revision' = [revision EXCEPT ![g].team = pair]
        /\ UNCHANGED <<allocated, forced, sheet, history, correction>>
    BY DEF Repairs!DrawGame, Repairs!MayDraw, Repairs!DrawSafe
  <1>2. /\ game \in [Games -> MatchRow] /\ assignment \in [Slots -> SlotRow]
        /\ \A h \in Games : /\ game[h].version \in Nat /\ game[h].version + 1 \in Nat
                            /\ Sound(game[h])
        /\ pair \in Pair
    BY DEF CompInv, CompetitionRows, MatchRow, CompetitionAssumptions
  <1>3. game' = [game EXCEPT ![g] = row]
    BY <1>2 DEF Repairs!DrawGame, MatchRow
  <1>4. /\ row \in MatchRow /\ row.team = pair /\ row.status = game[g].status
        /\ row.won = game[g].won /\ row.place = game[g].place
        /\ row.version = game[g].version + 1
    BY <1>2 DEF MatchRow
  <1> HIDE DEF row
  <1>5. Sound(row)
    BY <1>1, <1>2, <1>4 DEF Sound, Repairs!Played
  <1>6. /\ game' \in [Games -> MatchRow]
        /\ \A h \in Games : /\ Sound(game'[h]) /\ game'[h].place = game[h].place
                            /\ game'[h].status = game[h].status
    BY <1>2, <1>3, <1>4, <1>5
  <1>7. Revised'
    <2>1. revision = [h \in Games |-> Repairs!Result(game[h])]
      BY DEF CompInv, Revised
    <2>2. [revision[g] EXCEPT !.team = pair] = Repairs!Result(row)
      <3>1. revision[g] = [team |-> game[g].team, status |-> game[g].status, won |-> game[g].won]
        BY <2>1 DEF Repairs!Result
      <3>2. Repairs!Result(row) = [team |-> pair, status |-> game[g].status, won |-> game[g].won]
        BY <1>4 DEF Repairs!Result
      <3>q. QED BY <3>1, <3>2
    <2>3. revision' = [revision EXCEPT ![g] = [revision[g] EXCEPT !.team = pair]]
      BY <1>1
    <2>q. QED BY <1>2, <1>3, <2>1, <2>2, <2>3 DEF Revised
  <1>8. ASSUME NEW s \in Slots, refilled(s)
        PROVE  /\ Drawn(s)
               /\ LET slot == assignment'[s] IN
                  /\ slot \in SlotRow /\ slot.team = pair[Repairs!SideOf(s)]
                  /\ slot.mode = "WINNER_CONFIRMED" =>
                       /\ slot.source \in Games /\ slot.source # g
                       /\ slot.version = game[slot.source].version
                       /\ Repairs!Winner(game[slot.source]) = slot.team
    <2>1. Drawn(s)
      BY <1>8 DEF Drawn
    <2>2. pair[Repairs!SideOf(s)] \in Teams \cup {NoTeam}
      BY <1>2, <2>1, SlotPlaces DEF Pair
    <2>3. assignment'[s] = Repairs!DrawnFrom(g, pair[Repairs!SideOf(s)])
      BY <1>1, <1>8
    <2>q. QED BY <2>1, <2>2, <2>3, DrawnSlot
  <1>9. ASSUME NEW s \in Slots, ~refilled(s)
        PROVE  /\ assignment'[s] = assignment[s]
               /\ \A side \in Repairs!Sides : SlotOf[g][side] = s => assignment[s].team = pair[side]
    BY <1>1, <1>9
  <1> HIDE DEF refilled
  <1>10. assignment' \in [Slots -> SlotRow]
    <2>1. \A s \in Slots : assignment'[s] \in SlotRow
      BY <1>2, <1>8, <1>9
    <2>q. QED BY <1>1, <2>1
  <1>11. TrueTo(assignment, game)'
    <2> SUFFICES ASSUME NEW s \in Slots, s \notin GroupSlots
                 PROVE  assignment'[s].team = game'[Repairs!GameOf(s)].team[Repairs!SideOf(s)]
      BY DEF TrueTo
    <2>1. /\ Repairs!GameOf(s) \in Games /\ Repairs!SideOf(s) \in Repairs!Sides
          /\ SlotOf[Repairs!GameOf(s)][Repairs!SideOf(s)] = s
      BY SlotPlaces DEF CompetitionAssumptions
    <2>2. CASE Repairs!GameOf(s) = g
      <3>1. game'[g].team = pair
        BY <1>2, <1>3, <1>4
      <3>2. assignment'[s].team = pair[Repairs!SideOf(s)]
        BY <1>8, <1>9, <2>1, <2>2
      <3>q. QED BY <2>2, <3>1, <3>2
    <2>3. CASE Repairs!GameOf(s) # g
      <3>1. ~refilled(s)
        BY <2>3, BracketPlaces DEF refilled
      <3>2. game'[Repairs!GameOf(s)] = game[Repairs!GameOf(s)]
        BY <1>2, <1>3, <2>1, <2>3
      <3>q. QED BY <1>9, <3>1, <3>2 DEF CompInv, TrueTo
    <2>q. QED BY <2>2, <2>3
  <1>12. WonAsSaid(assignment, game)'
    <2> SUFFICES ASSUME NEW s \in Slots, assignment'[s].mode = "WINNER_CONFIRMED", NEW h,
                        h = assignment'[s].source
                 PROVE  /\ h \in Games /\ assignment'[s].version <= game'[h].version
                        /\ assignment'[s].version = game'[h].version =>
                             Repairs!Winner(game'[h]) = assignment'[s].team
      BY DEF WonAsSaid
    <2>1. /\ h \in Games /\ assignment'[s].version <= game[h].version
          /\ assignment'[s].version = game[h].version =>
                             Repairs!Winner(game[h]) = assignment'[s].team
          /\ refilled(s) => h # g
      <3>1. CASE refilled(s)
        BY <1>2, <1>8, <3>1
      <3>2. CASE ~refilled(s)
        BY <1>9, <3>2 DEF CompInv, WonAsSaid
      <3>q. QED BY <3>1, <3>2
    <2>2. assignment'[s].version \in Nat /\ game[h].version \in Nat
      BY <1>2, <1>10, <2>1 DEF SlotRow
    <2>3. game'[h] = IF h = g THEN row ELSE game[h]
      BY <1>2, <1>3, <2>1
    <2>q. QED BY <1>4, <2>1, <2>2, <2>3
  <1>13. DrawnFromGames(assignment)'
    BY <1>8, <1>9 DEF CompInv, DrawnFromGames, Drawn
  <1>q. QED BY <1>1, <1>6, <1>7, <1>10, <1>11, <1>12, <1>13, DrawStep

-----------------------------------------------------------------------------
(* Corrections are made for the competition as it is.                      *)
LEMMA OneAtMost ==
  ASSUME NEW S, IsFiniteSet(S), Cardinality(S) <= 1, NEW x \in S, NEW y \in S
  PROVE  x = y
  <1> SUFFICES ASSUME x # y PROVE FALSE
    OBVIOUS
  <1>1. IsFiniteSet({x}) /\ Cardinality({x}) = 1 /\ IsFiniteSet({x, y}) /\ Cardinality({x, y}) = 2
    <2>1. IsFiniteSet({x}) /\ Cardinality({x}) = 1
      BY FS_Singleton
    <2>2. {x, y} = {x} \cup {y}
      OBVIOUS
    <2>q. QED BY <2>1, <2>2, FS_AddElement
  <1>2. {x, y} \subseteq S
    OBVIOUS
  <1>3. Cardinality({x, y}) <= Cardinality(S)
    BY <1>2, FS_Subset
  <1>4. Cardinality(S) \in Nat
    BY FS_CardinalityType
  <1>q. QED BY <1>1, <1>3, <1>4

LEMMA CreationPlans ==
  ASSUME CompetitionAssumptions, CompInv, NEW after \in Plans, NEW down,
         \E g, h \in Games : DOMAIN after = {g, h}, Repairs!CanCreate(after, down),
         \A s \in DOMAIN down : down[s].action \in Repairs!Actions /\ down[s].team \in Teams \cup {NoTeam}
  PROVE  LET plan == [s \in DOMAIN down |-> [action |-> down[s].action, team |-> down[s].team,
                                             source |-> assignment[s].source]] IN
         PlanHolds(after, plan)
  <1> DEFINE entry(s) == [action |-> down[s].action, team |-> down[s].team,
                          source |-> assignment[s].source]
             plan == [s \in DOMAIN down |-> entry(s)]
  <1>1. /\ \A g \in DOMAIN after : Repairs!ResultValid(g, after[g])
        /\ DOMAIN down = Repairs!Impacts(after)
        /\ Repairs!Resolved(after, down)
    BY DEF Repairs!CanCreate, Repairs!Correctable, Repairs!Resolved
  <1>2. DOMAIN after \subseteq Games
    OBVIOUS
  <1>5. ASSUME NEW s \in DOMAIN down
        PROVE  s \in Slots /\ assignment[s].source \in DOMAIN after
    BY <1>1 DEF Repairs!Impacts
  <1>6. ASSUME NEW s \in DOMAIN down
        PROVE  /\ entry(s) \in DecisionRow /\ entry(s).action = down[s].action
               /\ entry(s).team = down[s].team /\ entry(s).source = assignment[s].source
    BY <1>2, <1>5 DEF DecisionRow
  <1>7. plan \in [DOMAIN down -> DecisionRow] /\ DOMAIN down \subseteq Slots
    BY <1>5, <1>6
  <1>8. plan \in Decisions
    BY <1>7 DEF Decisions
  <1>9. ASSUME NEW s \in DOMAIN plan
        PROVE  /\ Drawn(s)
               /\ plan[s].action = "CLEAR" => plan[s].team = NoTeam
               /\ plan[s].action = "SYNC_WINNER" =>
                    /\ plan[s].source \in DOMAIN after
                    /\ Repairs!Winner(after[plan[s].source]) = plan[s].team
               /\ plan[s].action # "KEEP_OVERRIDE" =>
                    /\ Repairs!GameOf(s) \in DOMAIN after
                    /\ after[Repairs!GameOf(s)].team[Repairs!SideOf(s)] = plan[s].team
    <2>1. s \in DOMAIN down /\ plan[s] = entry(s)
      OBVIOUS
    <2>2. Drawn(s)
      BY <1>2, <1>5, <2>1 DEF CompInv, DrawnFromGames
    <2>3. /\ down[s].action = "SYNC_WINNER" =>
                down[s].team = Repairs!Winner(after[assignment[s].source])
          /\ down[s].action = "CLEAR" => down[s].team = NoTeam
          /\ down[s].action # "KEEP_OVERRIDE" =>
                /\ Repairs!GameOf(s) \in DOMAIN after
                /\ after[Repairs!GameOf(s)].team[Repairs!SideOf(s)] = down[s].team
      BY <1>1, <2>1 DEF Repairs!Resolved
    <2> HIDE DEF entry, plan
    <2>q. QED BY <1>5, <1>6, <2>1, <2>2, <2>3
  <1> HIDE DEF plan
  <1>10. \A g \in DOMAIN after : Sound(after[g])
    BY <1>1 DEF Repairs!ResultValid, Sound, Repairs!Sides
  <1>12. PlanHolds(after, plan)
    BY <1>8, <1>9, <1>10 DEF PlanHolds
  <1>q. QED BY <1>12 DEF plan, entry

LEMMA MakingKeeps ==
  ASSUME CompetitionAssumptions, CompInv, NEW c \in Corrections, NEW after \in Plans, NEW down,
         \E g, h \in Games : DOMAIN after = {g, h},
         \A s \in DOMAIN down : down[s].action \in Repairs!Actions /\ down[s].team \in Teams \cup {NoTeam},
         Repairs!CreateCorrection(c, after, down)
  PROVE  CompInv'
  <1> DEFINE awaits == Repairs!Republished(after)
             plan == [s \in DOMAIN down |-> [action |-> down[s].action, team |-> down[s].team,
                                             source |-> assignment[s].source]]
             status == IF awaits = {} THEN "READY" ELSE "AWAITING_SCORESHEET"
             versions == [g \in DOMAIN after |-> game[g].version]
             named == IF awaits = {} THEN NoGame ELSE CHOOSE g \in awaits : TRUE
             row == [status |-> status, after |-> after, down |-> plan, season |-> season.version,
                     versions |-> versions, republish |-> named]
  <1>1. /\ correction[c].status = "NONE" /\ Repairs!CanCreate(after, down)
        /\ correction' = [correction EXCEPT ![c] = row]
        /\ sheet' = [g \in Games |-> IF g \in awaits THEN [sheet[g] EXCEPT !.pending = c]
                                                     ELSE sheet[g]]
        /\ UNCHANGED <<season, game, allocated, forced, assignment, revision, history>>
    BY DEF Repairs!CreateCorrection
  <1>2. /\ correction \in [Corrections -> CorrectionRow] /\ sheet \in [Games -> PaperRow]
        /\ season.version \in Nat /\ \A g \in Games : game[g].version \in Nat
    BY DEF CompInv, CompetitionRows, MatchRow
  <1>3. PlanHolds(after, plan)
    BY <1>1, CreationPlans
  <1>4. /\ awaits \subseteq DOMAIN after /\ DOMAIN after \subseteq Games
        /\ \A g \in awaits : after[g].status = "COMPLETED"
        /\ \A g \in DOMAIN after : sheet[g].pending = NoCorrection
        /\ Cardinality(awaits) <= 1
    BY <1>1, CorrectionsApart DEF Repairs!Republished, Repairs!CanCreate, Repairs!Correctable
  <1>5. IsFiniteSet(awaits)
    BY <1>4, FS_Subset DEF CompetitionAssumptions
  <1> HIDE DEF awaits, plan
  <1>6. \A g \in awaits : named = g
    BY <1>4, <1>5, OneAtMost
  <1>7. named \in Games \cup {NoGame} /\ versions \in [DOMAIN after -> Nat]
    BY <1>2, <1>4, <1>6
  <1> HIDE DEF named, versions
  <1>8. /\ row \in CorrectionRow /\ row.status = status /\ row.after = after /\ row.down = plan
        /\ row.season = season.version /\ row.republish = named
    <2>1. plan \in Decisions
      BY <1>3 DEF PlanHolds
    <2>2. versions \in {<<>>} \cup UNION {[S -> Nat] : S \in SUBSET Games}
      BY <1>4, <1>7
    <2>3. status \in {"NONE", "READY", "AWAITING_SCORESHEET", "APPLIED", "CANCELLED"}
      OBVIOUS
    <2> HIDE DEF status
    <2>q. QED BY <1>2, <1>7, <2>1, <2>2, <2>3 DEF CorrectionRow
  <1> HIDE DEF row
  <1>9. /\ correction' \in [Corrections -> CorrectionRow] /\ correction'[c] = row
        /\ \A d \in Corrections : d # c => correction'[d] = correction[d]
    BY <1>1, <1>2, <1>8
  <1>10. /\ sheet' \in [Games -> PaperRow]
         /\ \A g \in Games : sheet'[g].pending = IF g \in awaits THEN c ELSE sheet[g].pending
    <2>1. \A g \in Games : /\ [sheet[g] EXCEPT !.pending = c] \in PaperRow
                           /\ [sheet[g] EXCEPT !.pending = c].pending = c
      BY <1>2 DEF PaperRow
    <2>q. QED BY <1>1, <1>2, <2>1
  <1>11. CompetitionRows'
    BY <1>1, <1>9, <1>10 DEF CompInv, CompetitionRows
  <1>12. Awaited'
    <2>1. ASSUME NEW g \in Games, NEW d \in Corrections, sheet'[g].pending = d
          PROVE  /\ correction'[d].status = "AWAITING_SCORESHEET"
                 /\ g = correction'[d].republish
                 /\ g \in DOMAIN correction'[d].after /\ correction'[d].after[g].status = "COMPLETED"
      <3>1. CASE g \in awaits
        <4>1. d = c
          BY <1>10, <2>1, <3>1
        <4>q. QED BY <1>4, <1>6, <1>8, <1>9, <3>1, <4>1
      <3>2. CASE g \notin awaits
        <4>1. sheet[g].pending = d
          BY <1>10, <2>1, <3>2
        <4>2. d # c
          BY <1>1, <4>1 DEF CompInv, Awaited
        <4>q. QED BY <1>9, <4>1, <4>2 DEF CompInv, Awaited
      <3>q. QED BY <3>1, <3>2
    <2>2. ASSUME NEW d \in Corrections, correction'[d].status = "AWAITING_SCORESHEET"
          PROVE  \E g \in Games : sheet'[g].pending = d
      <3>1. CASE d = c
        <4>1. awaits # {}
          BY <1>8, <1>9, <2>2, <3>1
        <4>q. QED BY <1>4, <1>10, <3>1, <4>1
      <3>2. CASE d # c
        <4>1. PICK g \in Games : sheet[g].pending = d
          BY <1>9, <2>2, <3>2 DEF CompInv, Awaited
        <4>2. g \notin awaits
          BY <1>4, <4>1 DEF CompetitionAssumptions
        <4>q. QED BY <1>10, <4>1, <4>2
      <3>q. QED BY <3>1, <3>2
    <2>q. QED BY <2>1, <2>2 DEF Awaited
  <1>13. PlansHold'
    <2> SUFFICES ASSUME NEW d \in Corrections, Pending(d)'
                 PROVE  /\ PlanHolds(correction[d].after, correction[d].down)'
                        /\ (correction[d].season <= season.version)'
      BY DEF PlansHold
    <2>1. /\ PlanHolds(correction'[d].after, correction'[d].down)
          /\ correction'[d].season <= season.version
      <3>1. CASE d = c
        BY <1>2, <1>3, <1>8, <1>9, <3>1
      <3>2. CASE d # c
        BY <1>9, <3>2 DEF CompInv, PlansHold, Pending
      <3>q. QED BY <3>1, <3>2
    <2>2. PlanHolds(correction[d].after, correction[d].down)'
      BY <2>1 DEF PlanHolds, Drawn, Sound
    <2>q. QED BY <1>1, <2>1, <2>2
  <1>14. Revised' /\ KeptApart(allocated, game)' /\ TrueTo(assignment, game)'
         /\ WonAsSaid(assignment, game)'
         /\ DrawnFromGames(assignment)'
    BY <1>1 DEF CompInv, Revised, KeptApart, TrueTo, WonAsSaid, DrawnFromGames, Drawn
  <1>q. QED BY <1>11, <1>12, <1>13, <1>14 DEF CompInv

(* What the endpoints offer to correct is planned for one game or two.     *)
LEMMA PlansOffered ==
  ASSUME CompetitionAssumptions, CompInv, NEW g \in Games
  PROVE  /\ Repairs!RowOf(g) \in PlannedRow
         /\ Repairs!Variants(g) \subseteq PlannedRow /\ Repairs!ForcedMoves(g) \subseteq PlannedRow
         /\ \A s, t : Drawn(s) /\ t \in Teams \cup {NoTeam} => Repairs!Settled(s, t) \subseteq PlannedRow
  <1>1. \A h \in Games : Repairs!RowOf(h) \in PlannedRow
    <2>1. \A h \in Games : game[h] \in MatchRow
      BY DEF CompInv, CompetitionRows
    <2>q. QED BY <2>1 DEF Repairs!RowOf, PlannedRow, MatchRow
  <1>2. ASSUME NEW row \in PlannedRow, NEW r \in [status : Repairs!Statuses, won : WonBy]
        PROVE  [row EXCEPT !.status = r.status, !.won = r.won] \in PlannedRow
    BY DEF PlannedRow
  <1>3. ASSUME NEW row \in PlannedRow, NEW where \in [place : Places, standard : BOOLEAN]
        PROVE  /\ [row EXCEPT !.place = where.place, !.standard = where.standard] \in PlannedRow
               /\ [row EXCEPT !.forced = TRUE] \in PlannedRow
    BY DEF PlannedRow
  <1>4. ASSUME NEW row \in PlannedRow, NEW side \in Repairs!Sides, NEW t \in Teams \cup {NoTeam}
        PROVE  [row EXCEPT !.team[side] = t] \in PlannedRow
    <2>1. [row.team EXCEPT ![side] = t] \in Pair
      BY DEF PlannedRow, Pair
    <2>2. [row EXCEPT !.team = [row.team EXCEPT ![side] = t]] \in PlannedRow
      BY <2>1 DEF PlannedRow
    <2>q. QED BY <2>2
  <1>5. Repairs!Variants(g) \subseteq PlannedRow
    <2>1. Repairs!ResultsFor(g) \subseteq PlannedRow
      <3>1. Outcomes \subseteq [status : Repairs!Statuses, won : WonBy]
        BY DEF CompetitionAssumptions
      <3>2. \A r \in [status : Repairs!Statuses, won : WonBy] :
              [Repairs!RowOf(g) EXCEPT !.status = r.status, !.won = r.won] \in PlannedRow
        BY <1>1, <1>2
      <3>q. QED BY <3>1, <3>2 DEF Repairs!ResultsFor
    <2>2. Repairs!PlacesFor(g) \subseteq PlannedRow
      BY <1>1, <1>3 DEF Repairs!PlacesFor, Repairs!Named
    <2>3. Repairs!TeamsFor(g) \subseteq PlannedRow
      BY <1>1, <1>4 DEF Repairs!TeamsFor
    <2>q. QED BY <2>1, <2>2, <2>3 DEF Repairs!Variants
  <1>6. Repairs!ForcedMoves(g) \subseteq PlannedRow
    <2>1. Repairs!PlacesFor(g) \subseteq PlannedRow
      BY <1>1, <1>3 DEF Repairs!PlacesFor, Repairs!Named
    <2>2. \A row \in PlannedRow : [row EXCEPT !.forced = TRUE] \in PlannedRow
      BY DEF PlannedRow
    <2>q. QED BY <2>1, <2>2 DEF Repairs!ForcedMoves
  <1>7. ASSUME NEW s, Drawn(s), NEW t \in Teams \cup {NoTeam}, NEW row \in Repairs!Settled(s, t)
        PROVE  row \in PlannedRow
    <2> DEFINE h == Repairs!GameOf(s)
               base == [Repairs!RowOf(h) EXCEPT !.team[Repairs!SideOf(s)] = t]
    <2>1. base \in PlannedRow /\ game[h].status \in Repairs!Statuses
      BY <1>1, <1>4, <1>7, SlotPlaces DEF CompInv, CompetitionRows, MatchRow
    <2>2. PICK st \in {game[h].status, "SCHEDULED"} :
            row = [Repairs!RowOf(h) EXCEPT !.team[Repairs!SideOf(s)] = t, !.status = st,
                     !.won = IF st \in Repairs!Played THEN @ ELSE "none"]
      BY <1>7 DEF Repairs!Settled
    <2>3. st \in Repairs!Statuses
      BY <2>1 DEF Repairs!Statuses
    <2>4. row = [base EXCEPT !.status = st, !.won = IF st \in Repairs!Played THEN base.won ELSE "none"]
      BY <1>1, <1>7, <2>2, SlotPlaces DEF PlannedRow
    <2>5. base.won \in WonBy
      BY <2>1 DEF PlannedRow
    <2> HIDE DEF base
    <2>q. QED BY <2>1, <2>3, <2>4, <2>5 DEF PlannedRow, WonBy
  <1>q. QED BY <1>1, <1>5, <1>6, <1>7

(* What the endpoints offer is a correction of one game, or of two.        *)
LEMMA CorrectionsOffered ==
  ASSUME CompetitionAssumptions, CompInv, NEW c \in Corrections, Repairs!Correct(c)
  PROVE  \E after \in Plans : \E down :
           /\ \E g, h \in Games : DOMAIN after = {g, h}
           /\ \A s \in DOMAIN down :
                down[s].action \in Repairs!Actions /\ down[s].team \in Teams \cup {NoTeam}
           /\ Repairs!CreateCorrection(c, after, down)
  <1> DEFINE Goal == \E after \in Plans : \E down :
                       /\ \E g, h \in Games : DOMAIN after = {g, h}
                       /\ \A s \in DOMAIN down :
                            /\ down[s].action \in Repairs!Actions
                            /\ down[s].team \in Teams \cup {NoTeam}
                       /\ Repairs!CreateCorrection(c, after, down)
  <1>0. PICK g \in Games : \E row \in Repairs!Variants(g) \cup Repairs!ForcedMoves(g) :
          \/ Repairs!CreateCorrection(c, [h \in {g} |-> row], <<>>)
          \/ \E s \in Repairs!Impacts([h \in {g} |-> row]), action \in Repairs!Actions,
                t \in Teams \cup {NoTeam} :
                \E target \in IF action = "KEEP_OVERRIDE"
                              THEN {Repairs!RowOf(Repairs!GameOf(s))} ELSE Repairs!Settled(s, t) :
                    Repairs!CreateCorrection(c,
                        [h \in {g, Repairs!GameOf(s)} |-> IF h = g THEN row ELSE target],
                        [x \in {s} |-> [action |-> action, team |-> t]])
    BY DEF Repairs!Correct
  <1>1. PICK row \in Repairs!Variants(g) \cup Repairs!ForcedMoves(g) :
          \/ Repairs!CreateCorrection(c, [h \in {g} |-> row], <<>>)
          \/ \E s \in Repairs!Impacts([h \in {g} |-> row]), action \in Repairs!Actions,
                t \in Teams \cup {NoTeam} :
                \E target \in IF action = "KEEP_OVERRIDE"
                              THEN {Repairs!RowOf(Repairs!GameOf(s))} ELSE Repairs!Settled(s, t) :
                    Repairs!CreateCorrection(c,
                        [h \in {g, Repairs!GameOf(s)} |-> IF h = g THEN row ELSE target],
                        [x \in {s} |-> [action |-> action, team |-> t]])
    BY <1>0
  <1>2. row \in PlannedRow
    BY <1>1, PlansOffered
  <1>3. CASE Repairs!CreateCorrection(c, [h \in {g} |-> row], <<>>)
    <2>1. PICK after : after = [h \in {g} |-> row]
      OBVIOUS
    <2>2. after \in [{g} -> PlannedRow] /\ DOMAIN after = {g, g}
      BY <1>2, <2>1
    <2>3. after \in Plans
      BY <2>2 DEF Plans
    <2>4. PICK none : none = <<>>
      OBVIOUS
    <2>5. DOMAIN none = {}
      BY <2>4
    <2>6. Repairs!CreateCorrection(c, after, none)
      BY <1>3, <2>1, <2>4
    <2>7. \A s \in DOMAIN none : none[s].action \in Repairs!Actions /\ none[s].team \in Teams \cup {NoTeam}
      BY <2>5
    <2>q. QED BY <2>2, <2>3, <2>6, <2>7
  <1>4. ASSUME NEW s \in Repairs!Impacts([h \in {g} |-> row]), NEW action \in Repairs!Actions,
               NEW t \in Teams \cup {NoTeam},
               NEW target \in IF action = "KEEP_OVERRIDE"
                              THEN {Repairs!RowOf(Repairs!GameOf(s))} ELSE Repairs!Settled(s, t),
               Repairs!CreateCorrection(c,
                        [h \in {g, Repairs!GameOf(s)} |-> IF h = g THEN row ELSE target],
                        [x \in {s} |-> [action |-> action, team |-> t]])
        PROVE  Goal
    <2>1. s \in Slots /\ assignment[s].source = g
      BY DEF Repairs!Impacts
    <2>2. Drawn(s) /\ Repairs!GameOf(s) \in Games
      BY <2>1, SlotPlaces DEF CompInv, DrawnFromGames
    <2>3. target \in PlannedRow
      BY <2>2, PlansOffered
    <2>4. PICK after : after = [h \in {g, Repairs!GameOf(s)} |-> IF h = g THEN row ELSE target]
      OBVIOUS
    <2>5. after \in [{g, Repairs!GameOf(s)} -> PlannedRow] /\ DOMAIN after = {g, Repairs!GameOf(s)}
      BY <1>2, <2>3, <2>4
    <2>6. after \in Plans
      BY <2>2, <2>5 DEF Plans
    <2>7. PICK down : down = [x \in {s} |-> [action |-> action, team |-> t]]
      OBVIOUS
    <2>8. Repairs!CreateCorrection(c, after, down)
      BY <1>4, <2>4, <2>7
    <2>9. \A x \in DOMAIN down : down[x].action \in Repairs!Actions /\ down[x].team \in Teams \cup {NoTeam}
      BY <2>7
    <2>q. QED BY <2>2, <2>5, <2>6, <2>8, <2>9
  <1>q. QED BY <1>1, <1>3, <1>4

LEMMA CorrectionsMadeKeep ==
  ASSUME CompetitionAssumptions, CompInv, NEW c \in Corrections, Repairs!Correct(c)
  PROVE  CompInv'
  <1>1. PICK after \in Plans : \E down :
          /\ \E g, h \in Games : DOMAIN after = {g, h}
          /\ \A s \in DOMAIN down :
               down[s].action \in Repairs!Actions /\ down[s].team \in Teams \cup {NoTeam}
          /\ Repairs!CreateCorrection(c, after, down)
    BY CorrectionsOffered
  <1>q. QED BY <1>1, MakingKeeps

(* A correction that ends takes back the wait of its scoresheet.           *)
LEMMA EndKeepsAwaited ==
  ASSUME CompetitionAssumptions, CompInv, NEW c \in Corrections,
         NEW status \in {"APPLIED", "CANCELLED"},
         correction' = [correction EXCEPT ![c].status = status],
         \A g \in Games : /\ sheet'[g].pending # c
                          /\ sheet[g].pending # c => sheet'[g].pending = sheet[g].pending
                          /\ sheet[g].pending = c => sheet'[g].pending = NoCorrection
  PROVE  /\ correction' \in [Corrections -> CorrectionRow] /\ Awaited' /\ ~Pending(c)'
         /\ \A d \in Corrections : d # c => correction'[d] = correction[d]
  <1>1. correction \in [Corrections -> CorrectionRow]
    BY DEF CompInv, CompetitionRows
  <1>2. /\ [correction[c] EXCEPT !.status = status] \in CorrectionRow
        /\ [correction[c] EXCEPT !.status = status].status = status
    BY <1>1 DEF CorrectionRow
  <1>3. /\ correction' \in [Corrections -> CorrectionRow]
        /\ correction'[c].status = status
        /\ \A d \in Corrections : d # c => correction'[d] = correction[d]
    BY <1>1, <1>2
  <1>4. ~Pending(c)'
    BY <1>3 DEF Pending
  <1>5. Awaited'
    <2>1. ASSUME NEW g \in Games, NEW d \in Corrections, sheet'[g].pending = d
          PROVE  sheet[g].pending = d /\ d # c
      BY <2>1 DEF CompetitionAssumptions
    <2>2. ASSUME NEW d \in Corrections, correction'[d].status = "AWAITING_SCORESHEET"
          PROVE  \E g \in Games : sheet'[g].pending = d
      <3>1. d # c
        BY <1>3, <2>2
      <3>2. PICK g \in Games : sheet[g].pending = d
        BY <1>3, <2>2, <3>1 DEF CompInv, Awaited
      <3>q. QED BY <3>1, <3>2
    <2>3. \A g \in Games, d \in Corrections : sheet'[g].pending = d =>
            /\ correction'[d].status = "AWAITING_SCORESHEET"
            /\ g = correction'[d].republish
            /\ g \in DOMAIN correction'[d].after /\ correction'[d].after[g].status = "COMPLETED"
      BY <1>3, <2>1 DEF CompInv, Awaited
    <2>q. QED BY <2>2, <2>3 DEF Awaited
  <1>q. QED BY <1>3, <1>4, <1>5

LEMMA CancellationKeeps ==
  ASSUME CompetitionAssumptions, CompInv, NEW c \in Corrections, Repairs!CancelCorrection(c)
  PROVE  CompInv'
  <1>1. /\ correction' = [correction EXCEPT ![c].status = "CANCELLED"]
        /\ sheet' = [g \in Games |-> IF sheet[g].pending = c
                       THEN [sheet[g] EXCEPT !.pending = NoCorrection] ELSE sheet[g]]
        /\ UNCHANGED <<season, game, allocated, forced, assignment, revision, history>>
    BY DEF Repairs!CancelCorrection
  <1>2. sheet \in [Games -> PaperRow]
    BY DEF CompInv, CompetitionRows
  <1>3. \A g \in Games : /\ [sheet[g] EXCEPT !.pending = NoCorrection] \in PaperRow
                         /\ [sheet[g] EXCEPT !.pending = NoCorrection].pending = NoCorrection
    BY <1>2 DEF PaperRow
  <1>4. /\ sheet' \in [Games -> PaperRow]
        /\ \A g \in Games : /\ sheet'[g].pending # c
                            /\ sheet[g].pending # c => sheet'[g].pending = sheet[g].pending
                            /\ sheet[g].pending = c => sheet'[g].pending = NoCorrection
    BY <1>1, <1>2, <1>3 DEF CompetitionAssumptions
  <1>5. /\ correction' \in [Corrections -> CorrectionRow] /\ Awaited' /\ ~Pending(c)'
        /\ \A d \in Corrections : d # c => correction'[d] = correction[d]
    BY <1>1, <1>4, EndKeepsAwaited
  <1>6. CompetitionRows'
    BY <1>1, <1>4, <1>5 DEF CompInv, CompetitionRows
  <1>7. PlansHold'
    <2> SUFFICES ASSUME NEW d \in Corrections, Pending(d)'
                 PROVE  /\ PlanHolds(correction[d].after, correction[d].down)'
                        /\ (correction[d].season <= season.version)'
      BY DEF PlansHold
    <2>1. /\ PlanHolds(correction'[d].after, correction'[d].down)
          /\ correction'[d].season <= season.version
      BY <1>5 DEF CompInv, PlansHold, Pending
    <2>2. PlanHolds(correction[d].after, correction[d].down)'
      BY <2>1 DEF PlanHolds, Drawn, Sound
    <2>q. QED BY <1>1, <2>1, <2>2
  <1>8. Revised' /\ KeptApart(allocated, game)' /\ TrueTo(assignment, game)'
         /\ WonAsSaid(assignment, game)'
        /\ DrawnFromGames(assignment)'
    BY <1>1 DEF CompInv, Revised, KeptApart, TrueTo, WonAsSaid, DrawnFromGames, Drawn
  <1>q. QED BY <1>5, <1>6, <1>7, <1>8 DEF CompInv

-----------------------------------------------------------------------------
(* Corrections are applied to a competition that went on.                  *)
LEMMA SlotsGiven ==
  /\ \A t \in Teams \cup {NoTeam} :
       /\ Repairs!Override(t) \in SlotRow /\ Repairs!Override(t).team = t
       /\ Repairs!Override(t).mode = "SUPERADMIN_OVERRIDE" /\ Repairs!Override(t).source = NoGame
  /\ Repairs!Unassigned \in SlotRow /\ Repairs!Unassigned.team = NoTeam
  /\ Repairs!Unassigned.mode = "NONE" /\ Repairs!Unassigned.source = NoGame
BY DEF Repairs!Override, Repairs!Unassigned, SlotRow, Modes

LEMMA SyncedSlot ==
  ASSUME CompetitionAssumptions, CompInv, NEW after \in Plans, NEW s \in Slots,
         \E g, h \in Games : DOMAIN after = {g, h}
  PROVE  LET slot == Repairs!Synced(s, after) IN
         /\ slot \in SlotRow
         /\ slot = assignment[s] \/ (slot.mode # "WINNER_CONFIRMED" /\ slot.source = NoGame)
         /\ s \notin GroupSlots =>
              slot.team = IF Repairs!GameOf(s) \in DOMAIN after
                          THEN after[Repairs!GameOf(s)].team[Repairs!SideOf(s)] ELSE assignment[s].team
  <1> DEFINE writers == {g \in DOMAIN after : \E side \in Repairs!Sides : SlotOf[g][side] = s}
             side(g) == CHOOSE x \in Repairs!Sides : SlotOf[g][x] = s
             last == CHOOSE g \in writers : \A h \in writers : h <= g
             slot == Repairs!Synced(s, after)
  <1>1. slot = CASE writers = {} -> assignment[s]
                 [] (\A g \in writers : after[g].team[side(g)] = assignment[s].team) -> assignment[s]
                 [] OTHER -> IF after[last].team[side(last)] = NoTeam
                               THEN Repairs!Unassigned ELSE Repairs!Override(after[last].team[side(last)])
    BY DEF Repairs!Synced
  <1>2. \A g \in DOMAIN after : after[g] \in PlannedRow /\ g \in Games /\ g \in Nat
    <2>1. PICK S \in SUBSET Games : after \in [S -> PlannedRow]
      <3>1. CASE after = <<>>
        <4>1. DOMAIN after = {}
          BY <3>1
        <4>q. QED BY <4>1
      <3>q. QED BY <3>1 DEF Plans
    <2>q. QED BY <2>1 DEF CompetitionAssumptions
  <1>3. assignment[s] \in SlotRow
    BY DEF CompInv, CompetitionRows
  <1>4. CASE writers # {} /\ ~(\A g \in writers : after[g].team[side(g)] = assignment[s].team)
    <2>1. slot = IF after[last].team[side(last)] = NoTeam
                 THEN Repairs!Unassigned ELSE Repairs!Override(after[last].team[side(last)])
      BY <1>1, <1>4
    <2>2. last \in writers
      <3>1. PICK g \in Games, h \in Games : writers \subseteq {g, h}
        OBVIOUS
      <3>2. g \in Nat /\ h \in Nat
        BY DEF CompetitionAssumptions
      <3>3. \E x \in writers : \A y \in writers : y <= x
        <4>1. CASE g \in writers /\ h \in writers
          BY <3>1, <3>2, <4>1
        <4>2. CASE ~(g \in writers /\ h \in writers)
          BY <1>4, <3>1, <3>2, <4>2
        <4>q. QED BY <4>1, <4>2
      <3>q. QED BY <3>3
    <2>3. side(last) \in Repairs!Sides /\ SlotOf[last][side(last)] = s /\ last \in DOMAIN after
      BY <2>2
    <2>4. PICK t : t = after[last].team[side(last)]
      OBVIOUS
    <2>5. t \in Teams \cup {NoTeam}
      BY <1>2, <2>3, <2>4 DEF PlannedRow, Pair
    <2>6. slot \in SlotRow /\ slot.mode # "WINNER_CONFIRMED" /\ slot.source = NoGame /\ slot.team = t
      <3>1. slot = IF t = NoTeam THEN Repairs!Unassigned ELSE Repairs!Override(t)
        BY <2>1, <2>4
      <3> HIDE DEF slot
      <3>q. QED BY <2>5, <3>1, SlotsGiven
    <2>7. ASSUME s \notin GroupSlots
          PROVE  Repairs!GameOf(s) = last /\ Repairs!SideOf(s) = side(last)
      BY <1>2, <2>3, <2>7, BracketPlaces
    <2>q. QED BY <2>3, <2>4, <2>6, <2>7
  <1>5. CASE writers = {} \/ (\A g \in writers : after[g].team[side(g)] = assignment[s].team)
    <2>1. slot = assignment[s]
      BY <1>1, <1>5
    <2>2. ASSUME s \notin GroupSlots, Repairs!GameOf(s) \in DOMAIN after
          PROVE  after[Repairs!GameOf(s)].team[Repairs!SideOf(s)] = assignment[s].team
      <3>1. /\ Repairs!GameOf(s) \in Games /\ Repairs!SideOf(s) \in Repairs!Sides
            /\ SlotOf[Repairs!GameOf(s)][Repairs!SideOf(s)] = s
        BY <2>2, SlotPlaces DEF CompetitionAssumptions
      <3>2. Repairs!GameOf(s) \in writers
        BY <2>2, <3>1
      <3>3. side(Repairs!GameOf(s)) = Repairs!SideOf(s)
        BY DEF Repairs!SideOf
      <3>q. QED BY <1>5, <3>2, <3>3
    <2>q. QED BY <1>3, <2>1, <2>2
  <1>q. QED BY <1>4, <1>5

LEMMA DecidedSlot ==
  ASSUME NEW d \in DecisionRow, NEW s, NEW before, before.team \in Teams \cup {NoTeam}, NEW rows,
         d.action = "SYNC_WINNER" => rows[d.source].version \in Nat,
         d.action = "CLEAR" => d.team = NoTeam
  PROVE  LET slot == Repairs!Downstream(s, before, d, rows) IN
         /\ slot \in SlotRow
         /\ slot.team = IF d.action = "KEEP_OVERRIDE" THEN before.team ELSE d.team
         /\ d.action # "SYNC_WINNER" => slot.mode # "WINNER_CONFIRMED" /\ slot.source = NoGame
         /\ d.action = "SYNC_WINNER" => slot.source = d.source /\ slot.version = rows[d.source].version
  <1>1. /\ d.action \in {"KEEP_OVERRIDE", "SYNC_WINNER", "CLEAR", "SET_TEAM"}
        /\ d.team \in Teams \cup {NoTeam} /\ d.source \in Games \cup {NoGame}
    BY DEF DecisionRow, Repairs!Actions
  <1>4. CASE d.action = "KEEP_OVERRIDE"
    <2>1. Repairs!Downstream(s, before, d, rows) = Repairs!Override(before.team)
      BY <1>4 DEF Repairs!Downstream
    <2>q. QED BY <1>4, <2>1, SlotsGiven
  <1>5. CASE d.action = "CLEAR"
    <2>1. Repairs!Downstream(s, before, d, rows) = Repairs!Unassigned
      BY <1>5 DEF Repairs!Downstream
    <2>q. QED BY <1>5, <2>1, SlotsGiven
  <1>6. CASE d.action = "SET_TEAM"
    <2>1. Repairs!Downstream(s, before, d, rows) = Repairs!Override(d.team)
      BY <1>6 DEF Repairs!Downstream
    <2>q. QED BY <1>1, <1>6, <2>1, SlotsGiven
  <1>7. CASE d.action = "SYNC_WINNER"
    <2>1. PICK v \in Nat : v = rows[d.source].version
      BY <1>7
    <2>2. PICK slot : slot = [team |-> d.team, source |-> d.source, version |-> v,
                              mode |-> "WINNER_CONFIRMED"]
      OBVIOUS
    <2>3. Repairs!Downstream(s, before, d, rows) = slot
      BY <1>7, <2>1, <2>2 DEF Repairs!Downstream, Repairs!Confirmed
    <2>4. slot \in SlotRow /\ slot.team = d.team /\ slot.source = d.source /\ slot.version = v
      BY <1>1, <2>2 DEF SlotRow, Modes
    <2>q. QED BY <1>7, <2>1, <2>3, <2>4
  <1>q. QED BY <1>1, <1>4, <1>5, <1>6, <1>7

LEMMA PlanRows ==
  ASSUME CompetitionAssumptions, NEW after \in Plans
  PROVE  \A g \in DOMAIN after : after[g] \in PlannedRow /\ g \in Games
  <1>1. PICK S \in SUBSET Games : after \in [S -> PlannedRow]
    <2>1. CASE after = <<>>
      <3>1. DOMAIN after = {}
        BY <2>1
      <3>q. QED BY <3>1
    <2>q. QED BY <2>1 DEF Plans
  <1>q. QED BY <1>1

LEMMA DecisionRows ==
  ASSUME CompetitionAssumptions, NEW down \in Decisions
  PROVE  \A s \in DOMAIN down : down[s] \in DecisionRow /\ s \in Slots
  <1>1. PICK S \in SUBSET Slots : down \in [S -> DecisionRow]
    <2>1. CASE down = <<>>
      <3>1. DOMAIN down = {}
        BY <2>1
      <3>q. QED BY <3>1
    <2>2. CASE down \in UNION {[S -> DecisionRow] : S \in SUBSET Slots}
      BY <2>2
    <2>q. QED BY <2>1, <2>2 DEF Decisions
  <1>q. QED BY <1>1

(* The games as a correction leaves them.                                  *)
LEMMA RowsCorrected ==
  ASSUME CompetitionAssumptions, CompInv, NEW c \in Corrections, Pending(c)
  PROVE  LET after == correction[c].after
             rows == Repairs!CorrectedRows(c) IN
         /\ rows \in [Games -> MatchRow] /\ \A g \in Games : Sound(rows[g])
         /\ \A g \in Games : g \notin DOMAIN after => rows[g] = game[g]
         /\ \A g \in DOMAIN after :
              /\ g \in Games /\ after[g] \in PlannedRow /\ rows[g].version > game[g].version
              /\ rows[g].team = after[g].team /\ rows[g].place = after[g].place
              /\ rows[g].status = after[g].status /\ rows[g].won = after[g].won
              /\ Repairs!Winner(rows[g]) = Repairs!Winner(after[g])
  <1> DEFINE after == correction[c].after
             rows == Repairs!CorrectedRows(c)
  <1>1. PlanHolds(after, correction[c].down) /\ CompetitionRows
    BY DEF CompInv, PlansHold
  <1>2. \A g \in DOMAIN after : g \in Games /\ after[g] \in PlannedRow /\ Sound(after[g])
    BY <1>1, PlanRows DEF PlanHolds
  <1>3. rows = [g \in Games |-> IF g \in DOMAIN after THEN Repairs!Saved(g, after[g]) ELSE game[g]]
    BY DEF Repairs!CorrectedRows
  <1>4. \A g \in Games : game[g] \in MatchRow /\ Sound(game[g])
    BY <1>1 DEF CompetitionRows
  <1> HIDE DEF rows, after
  <1>5. \A g \in DOMAIN after : rows[g] = Repairs!Saved(g, after[g])
    BY <1>2, <1>3
  <1>6. \A g \in DOMAIN after :
          /\ rows[g] \in MatchRow /\ Sound(rows[g]) /\ rows[g].version > game[g].version
          /\ rows[g].team = after[g].team /\ rows[g].place = after[g].place
          /\ rows[g].status = after[g].status /\ rows[g].won = after[g].won
          /\ Repairs!Winner(rows[g]) = Repairs!Winner(after[g])
    BY <1>1, <1>2, <1>5, SavedRow
  <1>7. \A g \in Games : g \notin DOMAIN after => rows[g] = game[g]
    BY <1>3
  <1>8. rows \in [Games -> MatchRow] /\ \A g \in Games : Sound(rows[g])
    <2>1. \A g \in Games : rows[g] \in MatchRow /\ Sound(rows[g])
      BY <1>4, <1>6, <1>7
    <2>q. QED BY <1>3, <2>1
  <1>q. QED BY <1>2, <1>6, <1>7, <1>8 DEF rows, after

LEMMA CourtsCorrected ==
  ASSUME CompetitionAssumptions, CompInv, NEW c \in Corrections, Pending(c), Repairs!Applies(c)
  PROVE  KeptApart(allocated', Repairs!CorrectedRows(c))
  <1> DEFINE after == correction[c].after
             rows == Repairs!CorrectedRows(c)
             kept(g) == Repairs!Reserved(g, after[g])
  <1>1. /\ allocated' = [g \in Games |-> IF g \in DOMAIN after THEN kept(g) ELSE allocated[g]]
        /\ Repairs!Reservable(after)
    BY DEF Repairs!Applies, Repairs!Applicable
  <1>2. /\ \A g \in Games : g \notin DOMAIN after => rows[g] = game[g]
        /\ \A g \in DOMAIN after :
             g \in Games /\ g \in Nat /\ kept(g) \in {NoPlace, rows[g].place}
    BY RowsCorrected DEF Repairs!Reserved, CompetitionAssumptions
  <1>3. ASSUME NEW g \in DOMAIN after, kept(g) # NoPlace, NEW h \in Games \ {g}
        PROVE  kept(g) # IF h \in DOMAIN after /\ h < g THEN kept(h) ELSE allocated[h]
    BY <1>1, <1>3 DEF Repairs!Reservable
  <1> HIDE DEF rows, after, kept
  <1>4. ASSUME NEW g \in Games, NEW h \in Games, g # h, allocated'[g] # NoPlace
        PROVE  allocated'[h] # allocated'[g]
    <2>1. CASE g \in DOMAIN after /\ h \in DOMAIN after
      <3>1. g < h \/ h < g
        BY <1>2, <1>4, <2>1
      <3>q. QED BY <1>1, <1>3, <1>4, <2>1, <3>1
    <2>2. CASE g \in DOMAIN after /\ h \notin DOMAIN after
      BY <1>1, <1>3, <1>4, <2>2
    <2>3. CASE g \notin DOMAIN after /\ h \in DOMAIN after
      BY <1>1, <1>3, <1>4, <2>3
    <2>4. CASE g \notin DOMAIN after /\ h \notin DOMAIN after
      BY <1>1, <1>4, <2>4 DEF CompInv, KeptApart
    <2>q. QED BY <2>1, <2>2, <2>3, <2>4
  <1>5. \A g \in Games : allocated'[g] # NoPlace => allocated'[g] = rows[g].place
    BY <1>1, <1>2 DEF CompInv, KeptApart
  <1>q. QED BY <1>4, <1>5 DEF KeptApart, rows

LEMMA SlotsCorrected ==
  ASSUME CompetitionAssumptions, CompInv, NEW c \in Corrections, Pending(c), Repairs!Applies(c)
  PROVE  LET rows == Repairs!CorrectedRows(c) IN
         /\ assignment' \in [Slots -> SlotRow]
         /\ TrueTo(assignment', rows) /\ WonAsSaid(assignment', rows) /\ DrawnFromGames(assignment')
         /\ \A s \in Slots : assignment'[s].mode = "WINNER_CONFIRMED" =>
              \/ s \notin DOMAIN correction[c].down /\ assignment'[s] = assignment[s]
              \/ Repairs!Winner(rows[assignment'[s].source]) = assignment'[s].team
  <1> DEFINE after == correction[c].after
             down == correction[c].down
             rows == Repairs!CorrectedRows(c)
             synced(s) == Repairs!Synced(s, after)
             decided(s) == Repairs!Downstream(s, synced(s), down[s], rows)
  <1>1. assignment' = [s \in Slots |-> IF s \in DOMAIN down THEN decided(s) ELSE synced(s)]
    BY DEF Repairs!Applies
  <1>2. PlanHolds(after, down)
    BY DEF CompInv, PlansHold
  <1>3. /\ rows \in [Games -> MatchRow]
        /\ \A g \in Games : g \notin DOMAIN after => rows[g] = game[g]
        /\ \A g \in DOMAIN after :
             /\ g \in Games /\ rows[g].version > game[g].version
             /\ rows[g].team = after[g].team
             /\ Repairs!Winner(rows[g]) = Repairs!Winner(after[g])
    BY RowsCorrected
  <1>4. \A g \in Games : game[g].version \in Nat /\ rows[g].version \in Nat
    BY <1>3 DEF CompInv, CompetitionRows, MatchRow
  <1>5. \A s \in DOMAIN down : down[s] \in DecisionRow /\ s \in Slots
    BY <1>2, DecisionRows DEF PlanHolds
  <1>6. ASSUME NEW s \in Slots
        PROVE  /\ synced(s) \in SlotRow
               /\ synced(s) = assignment[s]
                    \/ (synced(s).mode # "WINNER_CONFIRMED" /\ synced(s).source = NoGame)
               /\ s \notin GroupSlots =>
                    synced(s).team = IF Repairs!GameOf(s) \in DOMAIN after
                                     THEN after[Repairs!GameOf(s)].team[Repairs!SideOf(s)]
                                     ELSE assignment[s].team
    BY <1>2, SyncedSlot DEF PlanHolds
  <1> HIDE DEF rows, after, down, synced
  <1>7. ASSUME NEW s \in DOMAIN down
        PROVE  /\ decided(s) \in SlotRow
               /\ decided(s).team = IF down[s].action = "KEEP_OVERRIDE"
                                    THEN synced(s).team ELSE down[s].team
               /\ down[s].action # "SYNC_WINNER" =>
                    decided(s).mode # "WINNER_CONFIRMED" /\ decided(s).source = NoGame
               /\ down[s].action = "SYNC_WINNER" =>
                    decided(s).source = down[s].source
                    /\ decided(s).version = rows[down[s].source].version
    <2>1. synced(s).team \in Teams \cup {NoTeam}
      BY <1>5, <1>6 DEF SlotRow
    <2>2. down[s].action = "SYNC_WINNER" => rows[down[s].source].version \in Nat
      BY <1>2, <1>3, <1>4 DEF PlanHolds
    <2>3. down[s].action = "CLEAR" => down[s].team = NoTeam
      BY <1>2 DEF PlanHolds
    <2>4. down[s] \in DecisionRow
      BY <1>5
    <2>q. QED BY <2>1, <2>2, <2>3, <2>4, DecidedSlot
  <1> HIDE DEF decided
  <1>8. ASSUME NEW s \in Slots
        PROVE  assignment'[s] = IF s \in DOMAIN down THEN decided(s) ELSE synced(s)
    BY <1>1
  <1>9. assignment' \in [Slots -> SlotRow]
    <2>1. \A s \in Slots : assignment'[s] \in SlotRow
      BY <1>6, <1>7, <1>8
    <2>q. QED BY <1>1, <2>1
  <1>10. TrueTo(assignment', rows)
    <2> SUFFICES ASSUME NEW s \in Slots, s \notin GroupSlots
                 PROVE  assignment'[s].team = rows[Repairs!GameOf(s)].team[Repairs!SideOf(s)]
      BY DEF TrueTo
    <2>1. Repairs!GameOf(s) \in Games
      BY SlotPlaces DEF CompetitionAssumptions
    <2>2. synced(s).team = rows[Repairs!GameOf(s)].team[Repairs!SideOf(s)]
      <3>1. CASE Repairs!GameOf(s) \in DOMAIN after
        BY <1>3, <1>6, <3>1
      <3>2. CASE Repairs!GameOf(s) \notin DOMAIN after
        <4>1. assignment[s].team = game[Repairs!GameOf(s)].team[Repairs!SideOf(s)]
          BY DEF CompInv, TrueTo
        <4>q. QED BY <1>3, <1>6, <2>1, <3>2, <4>1
      <3>q. QED BY <3>1, <3>2
    <2>3. ASSUME s \in DOMAIN down, down[s].action # "KEEP_OVERRIDE"
          PROVE  down[s].team = rows[Repairs!GameOf(s)].team[Repairs!SideOf(s)]
      BY <1>2, <1>3, <2>3 DEF PlanHolds
    <2>q. QED BY <1>7, <1>8, <2>2, <2>3
  <1>11. WonAsSaid(assignment', rows)
    <2> SUFFICES ASSUME NEW s \in Slots, assignment'[s].mode = "WINNER_CONFIRMED", NEW g,
                        g = assignment'[s].source
                 PROVE  /\ g \in Games /\ assignment'[s].version <= rows[g].version
                        /\ assignment'[s].version = rows[g].version =>
                             Repairs!Winner(rows[g]) = assignment'[s].team
      BY DEF WonAsSaid
    <2>1. CASE s \in DOMAIN down
      <3>1. down[s].action = "SYNC_WINNER" /\ assignment'[s] = decided(s)
        BY <1>7, <1>8, <2>1
      <3>2. /\ g = down[s].source /\ assignment'[s].version = rows[g].version
            /\ assignment'[s].team = down[s].team
        BY <1>7, <2>1, <3>1
      <3>3. g \in DOMAIN after /\ Repairs!Winner(after[g]) = down[s].team
        BY <1>2, <2>1, <3>1, <3>2 DEF PlanHolds
      <3>q. QED BY <1>3, <1>4, <3>2, <3>3
    <2>2. CASE s \notin DOMAIN down
      <3>1. assignment'[s] = assignment[s]
        BY <1>6, <1>8, <2>2
      <3>2. /\ g \in Games /\ assignment[s].version <= game[g].version
            /\ assignment[s].version = game[g].version =>
                             Repairs!Winner(game[g]) = assignment[s].team
        BY <3>1 DEF CompInv, WonAsSaid
      <3>3. assignment[s].version \in Nat /\ game[g].version \in Nat /\ rows[g].version \in Nat
        BY <1>4, <1>9, <3>1, <3>2 DEF SlotRow
      <3>4. rows[g] = game[g] \/ rows[g].version > game[g].version
        BY <1>3, <3>2
      <3>q. QED BY <3>1, <3>2, <3>3, <3>4
    <2>q. QED BY <2>1, <2>2
  <1>12. DrawnFromGames(assignment')
    <2> SUFFICES ASSUME NEW s \in Slots, assignment'[s].source \in Games
                 PROVE  Drawn(s)
      BY DEF DrawnFromGames
    <2>1. CASE s \in DOMAIN down
      BY <1>2, <2>1 DEF PlanHolds
    <2>2. CASE s \notin DOMAIN down
      <3>1. assignment'[s] = assignment[s]
        BY <1>6, <1>8, <2>2 DEF CompetitionAssumptions
      <3>q. QED BY <3>1 DEF CompInv, DrawnFromGames
    <2>q. QED BY <2>1, <2>2
  <1>13. ASSUME NEW s \in Slots, assignment'[s].mode = "WINNER_CONFIRMED"
         PROVE  \/ s \notin DOMAIN down /\ assignment'[s] = assignment[s]
                \/ Repairs!Winner(rows[assignment'[s].source]) = assignment'[s].team
    <2>1. CASE s \in DOMAIN down
      <3>1. down[s].action = "SYNC_WINNER" /\ assignment'[s] = decided(s)
        BY <1>7, <1>8, <1>13, <2>1
      <3>2. decided(s).source = down[s].source /\ decided(s).team = down[s].team
        BY <1>7, <2>1, <3>1
      <3>3. down[s].source \in DOMAIN after /\ Repairs!Winner(after[down[s].source]) = down[s].team
        BY <1>2, <2>1, <3>1 DEF PlanHolds
      <3>q. QED BY <1>3, <3>1, <3>2, <3>3
    <2>2. CASE s \notin DOMAIN down
      BY <1>6, <1>8, <1>13, <2>2
    <2>q. QED BY <2>1, <2>2
  <1>q. QED BY <1>9, <1>10, <1>11, <1>12, <1>13 DEF rows, down

LEMMA ApplicationStep ==
  ASSUME CompetitionAssumptions, CompInv, NEW c \in Corrections, Pending(c), Repairs!Applies(c),
         game' \in [Games -> MatchRow],
         \A g \in Games :
           LET row == Repairs!CorrectedRows(c)[g] IN
           /\ Sound(game'[g]) /\ game'[g].team = row.team /\ game'[g].place = row.place
           /\ InPlay(game'[g]) => InPlay(row)
           /\ game'[g] = row \/ game'[g].version > row.version,
         sheet' \in [Games -> PaperRow],
         \A g \in Games : /\ sheet'[g].pending # c
                          /\ sheet[g].pending # c => sheet'[g].pending = sheet[g].pending
                          /\ sheet[g].pending = c => sheet'[g].pending = NoCorrection,
         Revised', UNCHANGED history
  PROVE  CompInv'
  <1> DEFINE after == correction[c].after
             rows == Repairs!CorrectedRows(c)
  <1>1. /\ allocated' = [g \in Games |-> IF g \in DOMAIN after THEN Repairs!Reserved(g, after[g])
                                                               ELSE allocated[g]]
        /\ forced' = (forced \ DOMAIN after) \cup {g \in DOMAIN after : after[g].forced}
        /\ season' = [season EXCEPT !.version = @ + 1]
        /\ correction' = [correction EXCEPT ![c].status = "APPLIED"]
    BY DEF Repairs!Applies
  <1>2. \A g \in DOMAIN after : g \in Games /\ after[g] \in PlannedRow
    BY RowsCorrected
  <1>3. allocated' \in [Games -> Places \cup {NoPlace}] /\ forced' \subseteq Games
    BY <1>1, <1>2 DEF CompInv, CompetitionRows, Repairs!Reserved, PlannedRow
  <1>4. season \in [status : {"PUBLISHED", "ARCHIVED"}, version : Nat] /\ season.version + 1 \in Nat
    BY DEF CompInv, CompetitionRows
  <1>5. /\ season' \in [status : {"PUBLISHED", "ARCHIVED"}, version : Nat]
        /\ season'.version = season.version + 1
    BY <1>1, <1>4
  <1>6. /\ correction' \in [Corrections -> CorrectionRow] /\ Awaited' /\ ~Pending(c)'
        /\ \A d \in Corrections : d # c => correction'[d] = correction[d]
    BY <1>1, EndKeepsAwaited
  <1>7. /\ assignment' \in [Slots -> SlotRow] /\ rows \in [Games -> MatchRow]
        /\ TrueTo(assignment', rows) /\ WonAsSaid(assignment', rows) /\ DrawnFromGames(assignment')
        /\ KeptApart(allocated', rows)
    BY SlotsCorrected, CourtsCorrected, RowsCorrected
  <1>8. \A g \in Games :
           /\ Sound(game'[g]) /\ game'[g].team = rows[g].team /\ game'[g].place = rows[g].place
           /\ InPlay(game'[g]) => InPlay(rows[g])
           /\ game'[g] = rows[g] \/ game'[g].version > rows[g].version
           /\ rows[g].version \in Nat /\ game'[g].version \in Nat
    BY <1>7 DEF MatchRow
  <1> HIDE DEF rows
  <1>9. CompetitionRows'
    BY <1>3, <1>5, <1>6, <1>7, <1>8 DEF CompInv, CompetitionRows
  <1>10. PlansHold'
    <2> SUFFICES ASSUME NEW d \in Corrections, Pending(d)'
                 PROVE  /\ PlanHolds(correction[d].after, correction[d].down)'
                        /\ correction'[d].season < season'.version
      <3>1. \A d \in Corrections : correction'[d].season \in Nat /\ season'.version \in Nat
        BY <1>5, <1>6 DEF CorrectionRow
      <3>q. QED BY <3>1 DEF PlansHold
    <2>1. /\ correction'[d] = correction[d]
          /\ PlanHolds(correction'[d].after, correction'[d].down)
          /\ correction[d].season <= season.version
      BY <1>6 DEF CompInv, PlansHold, Pending
    <2>2. correction[d].season \in Nat /\ season.version \in Nat
      BY <1>4 DEF CompInv, CompetitionRows, CorrectionRow
    <2>3. PlanHolds(correction[d].after, correction[d].down)'
      BY <2>1 DEF PlanHolds, Drawn, Sound
    <2>4. correction'[d].season < season'.version
      BY <1>5, <2>1, <2>2
    <2>q. QED BY <2>3, <2>4
  <1>11. KeptApart(allocated, game)'
    BY <1>7, <1>8 DEF KeptApart
  <1>12. TrueTo(assignment, game)'
    <2>1. \A s \in Slots : s \notin GroupSlots => Repairs!GameOf(s) \in Games
      BY SlotPlaces DEF CompetitionAssumptions
    <2>q. QED BY <1>7, <1>8, <2>1 DEF TrueTo
  <1>13. WonAsSaid(assignment, game)'
    <2> SUFFICES ASSUME NEW s \in Slots, assignment'[s].mode = "WINNER_CONFIRMED", NEW g,
                        g = assignment'[s].source
                 PROVE  /\ g \in Games /\ assignment'[s].version <= game'[g].version
                        /\ assignment'[s].version = game'[g].version =>
                             Repairs!Winner(game'[g]) = assignment'[s].team
      BY DEF WonAsSaid
    <2>1. /\ g \in Games /\ assignment'[s].version <= rows[g].version
          /\ assignment'[s].version = rows[g].version =>
                             Repairs!Winner(rows[g]) = assignment'[s].team
      BY <1>7 DEF WonAsSaid
    <2>2. assignment'[s].version \in Nat
      BY <1>7 DEF SlotRow
    <2>q. QED BY <1>8, <2>1, <2>2
  <1>14. DrawnFromGames(assignment)'
    BY <1>7 DEF DrawnFromGames, Drawn
  <1>q. QED BY <1>6, <1>9, <1>10, <1>11, <1>12, <1>13, <1>14 DEF CompInv

LEMMA ApplicationKeeps ==
  ASSUME CompetitionAssumptions, CompInv, NEW c \in Corrections, Repairs!ApplyCorrection(c)
  PROVE  CompInv'
  <1> DEFINE rows == Repairs!CorrectedRows(c)
             hidden(g) == [sheet[g] EXCEPT !.published = FALSE]
  <1>1. /\ correction[c].status = "READY" /\ Repairs!Applies(c) /\ game' = rows
        /\ revision' = [g \in Games |-> Repairs!Result(rows[g])] /\ UNCHANGED history
        /\ sheet' = [g \in Games |->
             IF g \in DOMAIN correction[c].after /\ Repairs!ResultDiffers(g, correction[c].after[g])
             THEN hidden(g) ELSE sheet[g]]
    BY DEF Repairs!ApplyCorrection
  <1>2. Pending(c)
    BY <1>1 DEF Pending
  <1>3. rows \in [Games -> MatchRow] /\ \A g \in Games : Sound(rows[g])
    BY <1>2, RowsCorrected
  <1>4. \A g \in Games : sheet[g] \in PaperRow /\ sheet[g].pending # c
    BY <1>1 DEF CompInv, CompetitionRows, Awaited
  <1>5. \A g \in Games : hidden(g) \in PaperRow /\ hidden(g).pending = sheet[g].pending
    BY <1>4 DEF PaperRow
  <1> HIDE DEF rows, hidden
  <1>6. /\ sheet' \in [Games -> PaperRow]
        /\ \A g \in Games : sheet'[g].pending = sheet[g].pending
    BY <1>1, <1>4, <1>5
  <1>7. Revised'
    BY <1>1, <1>3 DEF Revised
  <1>q. QED BY <1>1, <1>2, <1>3, <1>4, <1>6, <1>7, ApplicationStep DEF rows

LEMMA CorrectedPublicationKeeps ==
  ASSUME CompetitionAssumptions, CompInv, NEW g \in Games, NEW side \in Repairs!Sides,
         Repairs!PublishCorrected(g, side)
  PROVE  CompInv'
  <1> DEFINE c == sheet[g].pending
             rows == Repairs!CorrectedRows(c)
             row == Repairs!Published(rows[g], side)
             hidden(h) == [sheet[h] EXCEPT !.published = FALSE]
             renewed == Repairs!WithStats(sheet[g], row)
  <1>1. /\ c # NoCorrection /\ correction[c].status = "AWAITING_SCORESHEET" /\ Repairs!Applies(c)
        /\ game' = [rows EXCEPT ![g] = row] /\ UNCHANGED history
        /\ revision' = [h \in Games |-> Repairs!Result(IF h = g THEN row ELSE rows[h])]
    BY DEF Repairs!PublishCorrected
  <1>2. sheet' = [h \in Games |->
              CASE h = g -> renewed
                [] h # g /\ h \in DOMAIN correction[c].after
                         /\ Repairs!ResultDiffers(h, correction[c].after[h]) -> hidden(h)
                [] OTHER -> sheet[h]]
    BY DEF Repairs!PublishCorrected
  <1>3. \A h \in Games : sheet[h] \in PaperRow
    BY DEF CompInv, CompetitionRows
  <1>4. c \in Corrections /\ Pending(c)
    BY <1>1, <1>3 DEF PaperRow, Pending
  <1>5. /\ g \in DOMAIN correction[c].after /\ correction[c].after[g].status = "COMPLETED"
        /\ \A h \in Games : sheet[h].pending = c => h = g
    BY <1>4 DEF CompInv, Awaited
  <1>6. /\ rows \in [Games -> MatchRow] /\ \A h \in Games : Sound(rows[h])
        /\ rows[g].status = "COMPLETED"
    BY <1>4, <1>5, RowsCorrected
  <1> HIDE DEF rows
  <1>7. rows[g].team["home"] # NoTeam /\ rows[g].team["away"] # NoTeam /\ InPlay(rows[g])
    BY <1>6 DEF Sound, Repairs!Played, InPlay
  <1>8. /\ row \in MatchRow /\ Sound(row) /\ InPlay(row) /\ row.team = rows[g].team
        /\ row.place = rows[g].place /\ row.version = rows[g].version + 1
    BY <1>6, <1>7, PublishedRow
  <1>9. renewed \in PaperRow /\ renewed.pending = NoCorrection
    <2>1. Repairs!TeamsOf(row) \subseteq Teams
      BY <1>8 DEF Repairs!TeamsOf, MatchRow, Pair
    <2>2. PICK paper : paper = sheet[g]
      OBVIOUS
    <2>3. PICK r : r = row
      OBVIOUS
    <2>4. paper \in PaperRow
      BY <1>3, <2>2
    <2>5. Repairs!TeamsOf(r) \subseteq Teams
      BY <2>1, <2>3
    <2>6. Repairs!WithStats(paper, r) \in PaperRow /\ Repairs!WithStats(paper, r).pending = NoCorrection
      BY <2>4, <2>5 DEF Repairs!WithStats, PaperRow
    <2>q. QED BY <2>2, <2>3, <2>6
  <1>10. \A h \in Games : hidden(h) \in PaperRow /\ hidden(h).pending = sheet[h].pending
    BY <1>3 DEF PaperRow
  <1> HIDE DEF row, hidden, renewed
  <1>11. game' \in [Games -> MatchRow]
    BY <1>1, <1>6, <1>8
  <1>12. \A h \in Games :
           /\ Sound(game'[h]) /\ game'[h].team = rows[h].team /\ game'[h].place = rows[h].place
           /\ InPlay(game'[h]) => InPlay(rows[h])
           /\ game'[h] = rows[h] \/ game'[h].version > rows[h].version
    <2>1. rows[g].version \in Nat
      BY <1>6 DEF MatchRow
    <2>q. QED BY <1>1, <1>6, <1>7, <1>8, <2>1
  <1>13. ASSUME NEW h \in Games
         PROVE  /\ sheet'[h] \in PaperRow
                /\ sheet'[h].pending = IF h = g THEN NoCorrection ELSE sheet[h].pending
    <2>1. CASE h = g
      BY <1>2, <1>9, <2>1
    <2>2. CASE h # g
      BY <1>2, <1>3, <1>10, <2>2
    <2>q. QED BY <2>1, <2>2
  <1>14. sheet' \in [Games -> PaperRow]
    BY <1>2, <1>13
  <1>15. Revised'
    BY <1>1, <1>6 DEF Revised
  <1>16. \A h \in Games : /\ sheet'[h].pending # c
                          /\ sheet[h].pending # c => sheet'[h].pending = sheet[h].pending
                          /\ sheet[h].pending = c => sheet'[h].pending = NoCorrection
    BY <1>1, <1>5, <1>13
  <1>q. QED BY <1>1, <1>4, <1>11, <1>12, <1>14, <1>15, <1>16, ApplicationStep DEF rows

LEMMA CompetitionStep ==
  ASSUME CompetitionAssumptions, CompInv, [Repairs!Next]_Repairs!vars
  PROVE  CompInv'
  <1>1. ASSUME NEW c \in Corrections, Repairs!CorrectionCommand(c)
        PROVE  CompInv'
    BY <1>1, CorrectionsMadeKeep, ApplicationKeeps, CancellationKeeps DEF Repairs!CorrectionCommand
  <1>2. ASSUME NEW g \in Games, NEW side \in Repairs!Sides,
               Repairs!Publish(g, side) \/ Repairs!PublishCorrected(g, side)
        PROVE  CompInv'
    BY <1>2, RepublishingKeeps, CorrectedPublicationKeeps
  <1>3. ASSUME NEW g \in Games, NEW p \in Places, Repairs!Submit(g, p)
        PROVE  CompInv'
    BY <1>3, RequestsKeep
  <1>4. ASSUME NEW g \in Games,
               \/ Repairs!Approve(g) \/ Repairs!EndRequest(g)
               \/ \E row \in Repairs!Variants(g) : Repairs!UpdateGame(g, row)
        PROVE  CompInv'
    BY <1>4, RequestsKeep, PlansOffered, UpdateKeeps
  <1>5. CASE Repairs!DrawCommand
    BY <1>5, GroupDrawKeeps, GameDrawKeeps DEF Repairs!DrawCommand
  <1>6. CASE Repairs!Archive
    BY <1>6, ArchivalKeeps
  <1>7. CASE UNCHANGED Repairs!vars
    <2>1. UNCHANGED <<season, game, allocated, forced, assignment, revision, sheet, history, correction>>
      BY <1>7 DEF Repairs!vars
    <2>2. CompetitionRows' /\ Revised' /\ Awaited'
      BY <2>1 DEF CompInv, CompetitionRows, Revised, Awaited
    <2>3. PlansHold'
      <3> SUFFICES ASSUME NEW c \in Corrections, Pending(c)'
                   PROVE  /\ PlanHolds(correction[c].after, correction[c].down)'
                          /\ (correction[c].season <= season.version)'
        BY DEF PlansHold
      <3>1. /\ PlanHolds(correction[c].after, correction[c].down)
            /\ correction[c].season <= season.version
        BY <2>1 DEF CompInv, PlansHold, Pending
      <3>2. PlanHolds(correction[c].after, correction[c].down)'
        BY <2>1, <3>1 DEF PlanHolds, Drawn, Sound
      <3>q. QED BY <2>1, <3>1, <3>2
    <2>4. KeptApart(allocated, game)' /\ TrueTo(assignment, game)' /\ WonAsSaid(assignment, game)'
          /\ DrawnFromGames(assignment)'
      BY <2>1 DEF CompInv, KeptApart, TrueTo, WonAsSaid, DrawnFromGames, Drawn
    <2>q. QED BY <2>2, <2>3, <2>4 DEF CompInv
  <1>q. QED BY <1>1, <1>2, <1>3, <1>4, <1>5, <1>6, <1>7 DEF Repairs!Next

LEMMA CompetitionStarts ==
  ASSUME CompetitionAssumptions, Repairs!Init
  PROVE  CompInv
  <1>1. PICK start \in Start :
          /\ season = [status |-> "PUBLISHED", version |-> start.version]
          /\ game = start.game /\ assignment = start.assignment /\ sheet = start.sheet
    BY DEF Repairs!Init
  <1>2. /\ allocated = [g \in Games |-> NoPlace] /\ forced = {}
        /\ revision = [g \in Games |-> Repairs!Result(game[g])]
        /\ history = {g \in Games : sheet[g].published}
        /\ correction = [c \in Corrections |-> Repairs!NoDraft]
    BY DEF Repairs!Init
  <1>3. /\ start.version \in Nat /\ start.game \in [Games -> MatchRow]
        /\ start.assignment \in [Slots -> SlotRow] /\ start.sheet \in [Games -> PaperRow]
        /\ \A g \in Games : Sound(start.game[g]) /\ start.sheet[g].pending = NoCorrection
        /\ TrueTo(start.assignment, start.game)
        /\ WonAsSaid(start.assignment, start.game) /\ DrawnFromGames(start.assignment)
    BY DEF CompetitionAssumptions
  <1>4. Repairs!NoDraft \in CorrectionRow /\ Repairs!NoDraft.status = "NONE"
    <2>1. PICK none : none = <<>>
      OBVIOUS
    <2>2. /\ none \in Plans /\ none \in Decisions
          /\ none \in {<<>>} \cup UNION {[S -> Nat] : S \in SUBSET Games}
      BY <2>1 DEF Plans, Decisions
    <2>3. Repairs!NoDraft = [status |-> "NONE", after |-> none, down |-> none, season |-> 0,
                             versions |-> none, republish |-> NoGame]
      BY <2>1 DEF Repairs!NoDraft
    <2>q. QED BY <2>2, <2>3 DEF CorrectionRow
  <1>5. CompetitionRows
    BY <1>1, <1>2, <1>3, <1>4 DEF CompetitionRows
  <1>6. Revised
    BY <1>2 DEF Revised
  <1>7. Awaited /\ PlansHold
    BY <1>1, <1>2, <1>3, <1>4 DEF Awaited, PlansHold, Pending, CompetitionAssumptions
  <1>8. KeptApart(allocated, game) /\ TrueTo(assignment, game) /\ WonAsSaid(assignment, game)
        /\ DrawnFromGames(assignment)
    BY <1>1, <1>2, <1>3 DEF KeptApart
  <1>q. QED BY <1>5, <1>6, <1>7, <1>8 DEF CompInv

LEMMA CompetitionInduction ==
  /\ CompetitionAssumptions /\ Repairs!Init => CompInv
  /\ CompetitionAssumptions /\ CompInv /\ [Repairs!Next]_Repairs!vars => CompInv'
  /\ CompetitionAssumptions => CompetitionAssumptions'
BY CompetitionStep, CompetitionStarts

LEMMA RecordsFollow ==
  ASSUME CompetitionAssumptions, CompInv
  PROVE  Repairs!RecordsAgree
  <1>1. \A g \in Games : revision[g] = Repairs!Result(game[g])
    BY DEF CompInv, Revised
  <1>2. \A c \in Corrections : correction[c].status = "AWAITING_SCORESHEET"
                                <=> \E g \in Games : sheet[g].pending = c
    BY DEF CompInv, Awaited
  <1>3. \A s \in Slots \ GroupSlots :
          assignment[s].team = game[Repairs!GameOf(s)].team[Repairs!SideOf(s)]
    BY DEF CompInv, TrueTo
  <1>4. \A s \in Slots :
          /\ assignment[s].mode = "WINNER_CONFIRMED"
          /\ game[assignment[s].source].version = assignment[s].version
          => Repairs!Winner(game[assignment[s].source]) = assignment[s].team
    BY DEF CompInv, WonAsSaid
  <1>q. QED BY <1>1, <1>2, <1>3, <1>4 DEF Repairs!RecordsAgree

LEMMA CompetitionTyped ==
  ASSUME CompInv
  PROVE  Repairs!TypeOK
  <1>1. CompetitionRows /\ Revised
    BY DEF CompInv
  <1>2. \A g \in Games : game[g] \in Repairs!GameRows
    BY <1>1 DEF CompetitionRows, Repairs!GameRows, MatchRow, Sound, Pair, WonBy, Repairs!Participants,
         Repairs!Sides
  <1>3. revision \in [Games -> [team : Repairs!Participants, status : Repairs!Statuses,
                                won : Repairs!Sides \cup {"none"}]]
    <2>1. \A g \in Games : Repairs!Result(game[g]) \in
            [team : Repairs!Participants, status : Repairs!Statuses, won : Repairs!Sides \cup {"none"}]
      BY <1>1 DEF CompetitionRows, MatchRow, Pair, WonBy, Repairs!Participants, Repairs!Result
    <2>q. QED BY <1>1, <2>1 DEF Revised
  <1>4. game \in [Games -> Repairs!GameRows]
    BY <1>1, <1>2 DEF CompetitionRows
  <1>5. \A c \in Corrections : correction[c].status \in
          {"NONE", "READY", "AWAITING_SCORESHEET", "APPLIED", "CANCELLED"}
    BY <1>1 DEF CompetitionRows, CorrectionRow
  <1>q. QED BY <1>1, <1>3, <1>4, <1>5 DEF CompetitionRows, Repairs!TypeOK, SlotRow, Modes, PaperRow


-----------------------------------------------------------------------------
(* As long as nothing it expects has changed, a correction knows the slots *)
(* whose winner it changes.                                                *)
Foreseen(row, rows, slots, at) ==
  /\ \A g \in DOMAIN row.after : row.versions[g] \in Nat /\ row.versions[g] <= rows[g].version
  /\ /\ row.season = at /\ \A g \in DOMAIN row.after : row.versions[g] = rows[g].version
     => \A s \in Slots :
          /\ slots[s].source \in DOMAIN row.after
          /\ Repairs!Winner(row.after[slots[s].source]) # Repairs!Winner(rows[slots[s].source])
          => s \in DOMAIN row.down
PlansForesee ==
  \A c \in Corrections : Pending(c) => Foreseen(correction[c], game, assignment, season.version)

(* What a step does to a correction, and to what corrections go by.        *)
Applying(c) ==
  /\ Pending(c) /\ Repairs!Applies(c)
  /\ \A g \in Games : Repairs!Winner(game'[g]) = Repairs!Winner(Repairs!CorrectedRows(c)[g])
Proceeds(c) ==
  \/ correction'[c] = correction[c]
  \/ correction'[c].status = "READY" \/ correction'[c].status = "AWAITING_SCORESHEET"
  \/ correction'[c].status = "CANCELLED"
  \/ Applying(c)
Remakes(c) ==
  \/ correction'[c] = correction[c]
  \/ correction'[c].status = "CANCELLED" \/ correction'[c].status = "APPLIED"
  \/ Foreseen(correction'[c], game', assignment', season'.version)
Advances ==
  /\ \A g \in Games : game'[g] = game[g] \/ game'[g].version > game[g].version
  /\ season'.version \in Nat /\ season'.version >= season.version
  /\ season'.version = season.version => assignment' = assignment
Proceeding == Advances /\ \A c \in Corrections : Proceeds(c) /\ Remakes(c)

LEMMA SeasonAhead ==
  ASSUME CompInv, season' = [season EXCEPT !.version = @ + 1]
  PROVE  season'.version \in Nat /\ season'.version > season.version
  <1>1. season \in [status : {"PUBLISHED", "ARCHIVED"}, version : Nat] /\ season.version + 1 \in Nat
    BY DEF CompInv, CompetitionRows
  <1>q. QED BY <1>1

LEMMA RequestsProceed ==
  ASSUME CompetitionAssumptions, CompInv, NEW g \in Games,
         \/ Repairs!Approve(g) \/ Repairs!EndRequest(g)
         \/ \E p \in Places : Repairs!Submit(g, p)
  PROVE  Proceeding
  <1>1. /\ game[g] \in MatchRow /\ game[g].place \in Places /\ game \in [Games -> MatchRow]
        /\ game[g].request \in Places \cup {NoPlace} /\ game[g].version \in Nat
        /\ season.version \in Nat
    BY DEF CompInv, CompetitionRows, MatchRow
  <1>2. \E place \in Places, asked \in Places \cup {NoPlace} :
          game' = [game EXCEPT ![g] = Relocated(g, place, asked)]
    <2>1. CASE Repairs!Approve(g)
      <3>1. /\ game' = [game EXCEPT ![g] = Relocated(g, game[g].request, NoPlace)]
            /\ game[g].request \in Places
        BY <1>1, <2>1 DEF Repairs!Approve, Relocated, MatchRow
      <3>q. QED BY <3>1
    <2>2. CASE Repairs!EndRequest(g)
      <3>1. game' = [game EXCEPT ![g] = Relocated(g, game[g].place, NoPlace)]
        BY <1>1, <2>2 DEF Repairs!EndRequest, Relocated, MatchRow
      <3>q. QED BY <1>1, <3>1
    <2>3. ASSUME NEW p \in Places, Repairs!Submit(g, p)
          PROVE  game' = [game EXCEPT ![g] = Relocated(g, game[g].place, p)]
      <3>1. game' = [game EXCEPT ![g].request = p, ![g].version = @ + 1]
        BY <2>3, Zenon DEF Repairs!Submit
      <3>q. QED BY <1>1, <3>1 DEF Relocated, MatchRow
    <2>q. QED BY <1>1, <2>1, <2>2, <2>3
  <1>3. UNCHANGED <<season, assignment, correction>>
    BY DEF Repairs!Approve, Repairs!EndRequest, Repairs!Submit
  <1>4. \A h \in Games : game'[h] = game[h] \/ game'[h].version > game[h].version
    <2>1. PICK row \in MatchRow : /\ game' = [game EXCEPT ![g] = row]
                                  /\ row.version = game[g].version + 1
      BY <1>2, RelocatedRow
    <2>q. QED BY <1>1, <2>1
  <1>q. QED BY <1>1, <1>3, <1>4 DEF Proceeding, Advances, Proceeds, Remakes

LEMMA PlayProceeds ==
  ASSUME CompetitionAssumptions, CompInv, NEW g \in Games,
         \/ \E side \in Repairs!Sides : Repairs!Publish(g, side)
         \/ \E row \in Repairs!Variants(g) : Repairs!UpdateGame(g, row)
  PROVE  Proceeding
  <1>1. /\ game \in [Games -> MatchRow] /\ game[g] \in MatchRow /\ Sound(game[g])
        /\ game[g].version \in Nat
        /\ season \in [status : {"PUBLISHED", "ARCHIVED"}, version : Nat]
        /\ season.version + 1 \in Nat
    BY DEF CompInv, CompetitionRows, MatchRow
  <1>2. UNCHANGED <<assignment, correction>>
    BY DEF Repairs!Publish, Repairs!UpdateGame
  <1>3. season'.version \in Nat /\ season'.version >= season.version
    <2>1. \/ UNCHANGED season
          \/ season' = [season EXCEPT !.version = IF season.status = "ARCHIVED"
                                        THEN season.version + 1 ELSE season.version]
      BY DEF Repairs!Publish, Repairs!UpdateGame
    <2>q. QED BY <1>1, <2>1
  <1>4. \E row \in MatchRow : game' = [game EXCEPT ![g] = row] /\ row.version > game[g].version
    <2>1. ASSUME NEW side \in Repairs!Sides, Repairs!Publish(g, side)
          PROVE  \E row \in MatchRow : game' = [game EXCEPT ![g] = row] /\ row.version > game[g].version
      <3>1. /\ game' = [game EXCEPT ![g] = Repairs!Published(game[g], side)]
            /\ Cardinality(Repairs!TeamsOf(game[g])) = 2
        BY <2>1, CorrectionsApart DEF Repairs!Publish, Repairs!Publishable
      <3> DEFINE row == Repairs!Published(game[g], side)
      <3>2. game[g].team["home"] # NoTeam /\ game[g].team["away"] # NoTeam
        BY <3>1, TwoTeams
      <3>3. row \in MatchRow /\ row.version = game[g].version + 1
        BY <1>1, <3>2, PublishedRow
      <3> HIDE DEF row
      <3>4. row.version > game[g].version
        BY <1>1, <3>3
      <3>q. QED BY <3>1, <3>3, <3>4 DEF row
    <2>2. ASSUME NEW row \in Repairs!Variants(g), Repairs!UpdateGame(g, row)
          PROVE  \E saved \in MatchRow : /\ game' = [game EXCEPT ![g] = saved]
                                         /\ saved.version > game[g].version
      <3>1. game' = [game EXCEPT ![g] = Repairs!Saved(g, row)] /\ Repairs!ResultValid(g, row)
        BY <2>2 DEF Repairs!UpdateGame
      <3>2. row \in PlannedRow /\ Sound(row)
        BY <3>1, PlansOffered DEF Repairs!ResultValid, Sound, Repairs!Sides
      <3>3. PICK saved : saved = Repairs!Saved(g, row)
        OBVIOUS
      <3>4. saved \in MatchRow /\ saved.version > game[g].version
        BY <3>2, <3>3, SavedRow DEF CompInv
      <3>q. QED BY <3>1, <3>3, <3>4
    <2>q. QED BY <2>1, <2>2
  <1>5. \A h \in Games : game'[h] = game[h] \/ game'[h].version > game[h].version
    BY <1>1, <1>4
  <1>q. QED BY <1>2, <1>3, <1>5 DEF Proceeding, Advances, Proceeds, Remakes

LEMMA DrawsProceed ==
  ASSUME CompetitionAssumptions, CompInv, Repairs!DrawCommand
  PROVE  Proceeding
  <1>1. /\ game \in [Games -> MatchRow]
        /\ \A g \in Games : game[g].version \in Nat /\ game[g].version + 1 \in Nat
        /\ season.version \in Nat
    BY DEF CompInv, CompetitionRows, MatchRow
  <1>2. UNCHANGED correction /\ season' = [season EXCEPT !.version = @ + 1]
    BY DEF Repairs!DrawCommand, Repairs!DrawGroups, Repairs!DrawGame
  <1>3. \A h \in Games : game'[h] = game[h] \/ game'[h].version > game[h].version
    <2>1. ASSUME NEW draw \in [GroupSlots -> Teams], Repairs!DrawGroups(draw), NEW h \in Games
          PROVE  game'[h] = game[h] \/ game'[h].version > game[h].version
      <3> DEFINE row == [game[h] EXCEPT !.team = Repairs!Redrawn(h, draw),
                                        !.version = game[h].version + 1]
      <3>1. game'[h] = game[h] \/ game'[h] = row
        BY <2>1 DEF Repairs!DrawGroups
      <3>2. game[h] \in MatchRow
        BY <1>1
      <3>3. row.version = game[h].version + 1
        BY <3>2 DEF MatchRow
      <3> HIDE DEF row
      <3>q. QED BY <1>1, <3>1, <3>3
    <2>2. ASSUME NEW g \in Games, NEW pair \in Draws, Repairs!DrawGame(g, pair), NEW h \in Games
          PROVE  game'[h] = game[h] \/ game'[h].version > game[h].version
      <3> DEFINE row == [game[g] EXCEPT !.team = pair, !.version = game[g].version + 1]
      <3>1. game' = [game EXCEPT ![g] = row]
        BY <1>1, <2>2 DEF Repairs!DrawGame, MatchRow
      <3>2. game[g] \in MatchRow
        BY <1>1
      <3>3. row.version = game[g].version + 1
        BY <3>2 DEF MatchRow
      <3> HIDE DEF row
      <3>q. QED BY <1>1, <3>1, <3>3
    <2>q. QED BY <2>1, <2>2 DEF Repairs!DrawCommand
  <1>4. season'.version \in Nat /\ season'.version > season.version
    BY <1>2, SeasonAhead
  <1>q. QED BY <1>1, <1>2, <1>3, <1>4 DEF Proceeding, Advances, Proceeds, Remakes

LEMMA MakingProceeds ==
  ASSUME CompetitionAssumptions, CompInv, NEW c \in Corrections, NEW after \in Plans, NEW down,
         Repairs!CreateCorrection(c, after, down)
  PROVE  Proceeding
  <1> DEFINE awaits == Repairs!Republished(after)
             plan == [s \in DOMAIN down |-> [action |-> down[s].action, team |-> down[s].team,
                                             source |-> assignment[s].source]]
             status == IF awaits = {} THEN "READY" ELSE "AWAITING_SCORESHEET"
             versions == [g \in DOMAIN after |-> game[g].version]
             named == IF awaits = {} THEN NoGame ELSE CHOOSE g \in awaits : TRUE
             row == [status |-> status, after |-> after, down |-> plan, season |-> season.version,
                     versions |-> versions, republish |-> named]
  <1>1. /\ Repairs!Resolved(after, down) /\ correction' = [correction EXCEPT ![c] = row]
        /\ UNCHANGED <<season, game, assignment>>
    BY DEF Repairs!CreateCorrection, Repairs!CanCreate
  <1>2. /\ correction \in [Corrections -> CorrectionRow] /\ season.version \in Nat
        /\ \A g \in Games : game[g].version \in Nat
    BY DEF CompInv, CompetitionRows, MatchRow
  <1>3. /\ \A g \in DOMAIN after : g \in Games /\ versions[g] = game[g].version
        /\ DOMAIN plan = Repairs!Impacts(after)
    BY <1>1, PlanRows DEF Repairs!Resolved
  <1> HIDE DEF awaits, plan, versions, named
  <1>4. /\ row.status = status /\ row.after = after /\ row.down = plan
        /\ row.versions = versions
    OBVIOUS
  <1>5. status = "READY" \/ status = "AWAITING_SCORESHEET"
    OBVIOUS
  <1> HIDE DEF row, status
  <1>6. Foreseen(row, game, assignment, season.version)
    BY <1>2, <1>3, <1>4 DEF Foreseen, Repairs!Impacts
  <1>7. correction'[c] = row /\ \A d \in Corrections : d # c => correction'[d] = correction[d]
    BY <1>1, <1>2
  <1>8. Foreseen(correction'[c], game', assignment', season'.version)
    BY <1>1, <1>6, <1>7
  <1>9. \A d \in Corrections : Proceeds(d) /\ Remakes(d)
    BY <1>4, <1>5, <1>7, <1>8 DEF Proceeds, Remakes
  <1>q. QED BY <1>1, <1>2, <1>9 DEF Proceeding, Advances

LEMMA CorrectionsProceed ==
  ASSUME CompetitionAssumptions, CompInv, NEW c \in Corrections, Repairs!Correct(c)
  PROVE  Proceeding
  <1>1. PICK after \in Plans : \E down : Repairs!CreateCorrection(c, after, down)
    BY CorrectionsOffered
  <1>q. QED BY <1>1, MakingProceeds

LEMMA EndsProceed ==
  ASSUME CompetitionAssumptions, CompInv, NEW c \in Corrections,
         \/ Repairs!CancelCorrection(c)
         \/ /\ Applying(c)
            /\ \A g \in Games : \/ game'[g] = Repairs!CorrectedRows(c)[g]
                                \/ game'[g].version > Repairs!CorrectedRows(c)[g].version
            /\ \A g \in Games : game'[g].version \in Nat
  PROVE  Proceeding
  <1>1. /\ correction \in [Corrections -> CorrectionRow] /\ season.version \in Nat
        /\ \A g \in Games : game[g].version \in Nat
    BY DEF CompInv, CompetitionRows, MatchRow
  <1>2. CASE Repairs!CancelCorrection(c)
    <2>1. /\ correction' = [correction EXCEPT ![c].status = "CANCELLED"]
          /\ UNCHANGED <<season, game, assignment>>
      BY <1>2 DEF Repairs!CancelCorrection
    <2>2. correction[c] \in CorrectionRow
      BY <1>1
    <2>3. /\ correction'[c].status = "CANCELLED"
          /\ \A d \in Corrections : d # c => correction'[d] = correction[d]
      BY <1>1, <2>1, <2>2 DEF CorrectionRow
    <2>q. QED BY <1>1, <2>1, <2>3 DEF Proceeding, Advances, Proceeds, Remakes
  <1>3. ASSUME Applying(c),
               \A g \in Games : /\ game'[g].version \in Nat
                                /\ \/ game'[g] = Repairs!CorrectedRows(c)[g]
                                   \/ game'[g].version > Repairs!CorrectedRows(c)[g].version
        PROVE  Proceeding
    <2> DEFINE rows == Repairs!CorrectedRows(c)
    <2>1. /\ correction' = [correction EXCEPT ![c].status = "APPLIED"]
          /\ season' = [season EXCEPT !.version = @ + 1]
      BY <1>3 DEF Applying, Repairs!Applies
    <2>2. correction[c] \in CorrectionRow
      BY <1>1
    <2>3. /\ correction'[c].status = "APPLIED"
          /\ \A d \in Corrections : d # c => correction'[d] = correction[d]
      BY <1>1, <2>1, <2>2 DEF CorrectionRow
    <2>4. /\ rows \in [Games -> MatchRow]
          /\ \A g \in Games : rows[g] = game[g] \/ rows[g].version > game[g].version
      BY <1>3, RowsCorrected DEF Applying
    <2> HIDE DEF rows
    <2>5. \A g \in Games : rows[g].version \in Nat
      BY <2>4 DEF MatchRow
    <2>6. \A g \in Games : game'[g] = game[g] \/ game'[g].version > game[g].version
      <3>1. SUFFICES ASSUME NEW g \in Games
                     PROVE  game'[g] = game[g] \/ game'[g].version > game[g].version
        OBVIOUS
      <3>2. game'[g].version \in Nat /\ (game'[g] = rows[g] \/ game'[g].version > rows[g].version)
        BY <1>3 DEF rows
      <3>q. QED BY <1>1, <2>4, <2>5, <3>2
    <2>7. season'.version \in Nat /\ season'.version > season.version
      BY <2>1, SeasonAhead
    <2>8. \A d \in Corrections : Proceeds(d) /\ Remakes(d)
      BY <1>3, <2>3 DEF Proceeds, Remakes
    <2>q. QED BY <1>1, <2>6, <2>7, <2>8 DEF Proceeding, Advances
  <1>q. QED BY <1>2, <1>3

LEMMA ApplicationsProceed ==
  ASSUME CompetitionAssumptions, CompInv, NEW c \in Corrections, Repairs!ApplyCorrection(c)
  PROVE  Proceeding
  <1>1. /\ Pending(c) /\ Repairs!Applies(c) /\ game' = Repairs!CorrectedRows(c)
    BY DEF Repairs!ApplyCorrection, Pending
  <1>2. game' \in [Games -> MatchRow]
    BY <1>1, RowsCorrected
  <1>3. \A g \in Games : game'[g].version \in Nat
    BY <1>2 DEF MatchRow
  <1>q. QED BY <1>1, <1>3, EndsProceed DEF Applying

LEMMA PublicationsProceed ==
  ASSUME CompetitionAssumptions, CompInv, NEW g \in Games, NEW side \in Repairs!Sides,
         Repairs!PublishCorrected(g, side)
  PROVE  Proceeding
  <1> DEFINE c == sheet[g].pending
             rows == Repairs!CorrectedRows(c)
             row == Repairs!Published(rows[g], side)
  <1>1. /\ c # NoCorrection /\ correction[c].status = "AWAITING_SCORESHEET" /\ Repairs!Applies(c)
        /\ side = correction[c].after[g].won /\ game' = [rows EXCEPT ![g] = row]
    BY DEF Repairs!PublishCorrected
  <1>2. c \in Corrections /\ Pending(c)
    <2>1. sheet[g] \in PaperRow
      BY DEF CompInv, CompetitionRows
    <2>q. QED BY <1>1, <2>1 DEF PaperRow, Pending
  <1>3. g \in DOMAIN correction[c].after /\ correction[c].after[g].status = "COMPLETED"
    BY <1>2 DEF CompInv, Awaited
  <1>4. /\ rows \in [Games -> MatchRow] /\ Sound(rows[g])
        /\ rows[g].status = "COMPLETED" /\ rows[g].won = side
    BY <1>1, <1>2, <1>3, RowsCorrected
  <1> HIDE DEF rows
  <1>5. rows[g] \in MatchRow /\ rows[g].version \in Nat /\ rows[g].version + 1 \in Nat
    BY <1>4 DEF MatchRow
  <1>6. /\ row.status = "COMPLETED" /\ row.won = side /\ row.team = rows[g].team
        /\ row.version = rows[g].version + 1
    BY <1>5 DEF Repairs!Published, MatchRow
  <1> HIDE DEF row
  <1>7. Repairs!Winner(row) = Repairs!Winner(rows[g])
    BY <1>4, <1>6 DEF Repairs!Winner
  <1>8. /\ \A h \in Games : Repairs!Winner(game'[h]) = Repairs!Winner(rows[h])
        /\ \A h \in Games : game'[h] = rows[h] \/ game'[h].version > rows[h].version
        /\ \A h \in Games : game'[h].version \in Nat
    <2>1. \A h \in Games : rows[h].version \in Nat
      BY <1>4 DEF MatchRow
    <2>q. QED BY <1>1, <1>4, <1>5, <1>6, <1>7, <2>1
  <1>q. QED BY <1>1, <1>2, <1>8, EndsProceed DEF Applying, rows

LEMMA CompetitionProceeds ==
  ASSUME CompetitionAssumptions, CompInv, [Repairs!Next]_Repairs!vars
  PROVE  Proceeding
  <1>1. ASSUME NEW c \in Corrections, Repairs!CorrectionCommand(c)
        PROVE  Proceeding
    BY <1>1, CorrectionsProceed, ApplicationsProceed, EndsProceed DEF Repairs!CorrectionCommand
  <1>2. ASSUME NEW g \in Games, NEW side \in Repairs!Sides,
               Repairs!Publish(g, side) \/ Repairs!PublishCorrected(g, side)
        PROVE  Proceeding
    BY <1>2, PlayProceeds, PublicationsProceed
  <1>3. ASSUME NEW g \in Games, NEW p \in Places, Repairs!Submit(g, p)
        PROVE  Proceeding
    BY <1>3, RequestsProceed
  <1>4. ASSUME NEW g \in Games,
               \/ Repairs!Approve(g) \/ Repairs!EndRequest(g)
               \/ \E row \in Repairs!Variants(g) : Repairs!UpdateGame(g, row)
        PROVE  Proceeding
    BY <1>4, RequestsProceed, PlayProceeds
  <1>5. CASE Repairs!DrawCommand
    BY <1>5, DrawsProceed
  <1>6. ASSUME UNCHANGED <<season, game, assignment, correction>>
        PROVE  Proceeding
    <2>1. season.version \in Nat
      BY DEF CompInv, CompetitionRows
    <2>q. QED BY <1>6, <2>1 DEF Proceeding, Advances, Proceeds, Remakes
  <1>7. CASE UNCHANGED Repairs!vars
    BY <1>6, <1>7 DEF Repairs!vars
  <1>8. CASE Repairs!Archive
    <2>1. /\ season' = [status |-> "ARCHIVED", version |-> season.version + 1]
          /\ UNCHANGED <<game, assignment, correction>>
      BY <1>8 DEF Repairs!Archive
    <2>2. season.version \in Nat
      BY DEF CompInv, CompetitionRows
    <2>q. QED BY <2>1, <2>2 DEF Proceeding, Advances, Proceeds, Remakes
  <1>q. QED BY <1>1, <1>2, <1>3, <1>4, <1>5, <1>7, <1>8 DEF Repairs!Next

(* What a correction foresees it still foresees when others went on.       *)
LEMMA ForesightKept ==
  ASSUME CompetitionAssumptions, CompInv, PlansForesee, [Repairs!Next]_Repairs!vars
  PROVE  PlansForesee'
  <1>1. Proceeding /\ CompInv'
    BY CompetitionProceeds, CompetitionStep
  <1>2. ASSUME NEW c \in Corrections, Pending(c)'
        PROVE  Foreseen(correction'[c], game', assignment', season'.version)
    <2>1. CASE correction'[c] = correction[c]
      <3>1. /\ Pending(c) /\ Foreseen(correction[c], game, assignment, season.version)
            /\ correction[c].after \in Plans /\ correction[c].season <= season.version
        BY <1>2, <2>1 DEF PlansForesee, Pending, CompInv, PlansHold, PlanHolds
      <3>2. /\ correction[c].season \in Nat /\ season.version \in Nat
            /\ \A g \in Games : game[g].version \in Nat /\ game'[g].version \in Nat
        BY <1>1 DEF CompInv, CompetitionRows, CorrectionRow, MatchRow
      <3>3. PICK row : row = correction[c]
        OBVIOUS
      <3>4. \A g \in DOMAIN row.after : g \in Games
        BY <3>1, <3>3, PlanRows
      <3>5. /\ \A g \in Games : game'[g] = game[g] \/ game'[g].version > game[g].version
            /\ season'.version \in Nat /\ season'.version >= season.version
            /\ season'.version = season.version => assignment' = assignment
        BY <1>1 DEF Proceeding, Advances
      <3>6. \A g \in DOMAIN row.after :
              /\ row.versions[g] \in Nat /\ row.versions[g] <= game[g].version
              /\ row.versions[g] <= game'[g].version
              /\ row.versions[g] = game'[g].version => game'[g] = game[g]
        <4>1. \A g \in DOMAIN row.after : row.versions[g] \in Nat /\ row.versions[g] <= game[g].version
          BY <3>1, <3>3 DEF Foreseen
        <4>q. QED BY <3>2, <3>4, <3>5, <4>1
      <3>7. ASSUME row.season = season'.version,
                   \A g \in DOMAIN row.after : row.versions[g] = game'[g].version
            PROVE  \A s \in Slots :
                     /\ assignment'[s].source \in DOMAIN row.after
                     /\ Repairs!Winner(row.after[assignment'[s].source])
                          # Repairs!Winner(game'[assignment'[s].source])
                     => s \in DOMAIN row.down
        <4>1. row.season = season.version /\ assignment' = assignment
          BY <3>1, <3>2, <3>3, <3>5, <3>7
        <4>2. \A g \in DOMAIN row.after : game'[g] = game[g]
          BY <3>6, <3>7
        <4>3. \A g \in DOMAIN row.after : row.versions[g] = game[g].version
          BY <3>7, <4>2
        <4>q. QED BY <3>1, <3>3, <4>1, <4>2, <4>3 DEF Foreseen
      <3>8. Foreseen(row, game', assignment', season'.version)
        BY <3>6, <3>7 DEF Foreseen
      <3>q. QED BY <2>1, <3>3, <3>8
    <2>2. CASE correction'[c] # correction[c]
      BY <1>1, <1>2, <2>2 DEF Proceeding, Remakes, Pending
    <2>q. QED BY <2>1, <2>2
  <1>3. \A c \in Corrections : Pending(c)' => Foreseen(correction[c], game, assignment, season.version)'
    <2>1. \A c \in Corrections : Foreseen(correction'[c], game', assignment', season'.version)
            => Foreseen(correction[c], game, assignment, season.version)'
      BY DEF Foreseen, Repairs!Winner
    <2>q. QED BY <1>2, <2>1
  <1>q. QED BY <1>3 DEF PlansForesee

(* An application leaves every slot with the winner of its source, or as   *)
(* much in dispute as it was.                                              *)
LEMMA ApplyingDisputesNone ==
  ASSUME CompetitionAssumptions, CompInv, PlansForesee, NEW c \in Corrections, Applying(c),
         NEW s \in Slots, Repairs!Disputed(s)'
  PROVE  Repairs!Disputed(s)
  <1> DEFINE after == correction[c].after
             down == correction[c].down
             rows == Repairs!CorrectedRows(c)
             g == assignment'[s].source
  <1>1. /\ Pending(c) /\ Repairs!Applies(c) /\ Repairs!AsExpected(c)
        /\ \A h \in Games : Repairs!Winner(game'[h]) = Repairs!Winner(rows[h])
    BY DEF Applying, Repairs!Applies, Repairs!Applicable
  <1>2. /\ assignment'[s].mode = "WINNER_CONFIRMED"
        /\ Repairs!Winner(game'[g]) \notin {NoTeam, assignment'[s].team}
    <2>1. Repairs!Winner(game[assignment[s].source])' = Repairs!Winner(game'[g])
      BY DEF Repairs!Winner
    <2>q. QED BY <2>1 DEF Repairs!Disputed
  <1>3. /\ g \in Games
        /\ \/ s \notin DOMAIN down /\ assignment'[s] = assignment[s]
           \/ Repairs!Winner(rows[g]) = assignment'[s].team
    BY <1>1, <1>2, SlotsCorrected DEF WonAsSaid
  <1>4. /\ \A h \in Games : h \notin DOMAIN after => rows[h] = game[h]
        /\ \A h \in DOMAIN after : Repairs!Winner(rows[h]) = Repairs!Winner(after[h])
    BY <1>1, RowsCorrected
  <1> HIDE DEF rows
  <1>5. s \notin DOMAIN down /\ assignment'[s] = assignment[s]
    BY <1>1, <1>2, <1>3
  <1>6. Repairs!Winner(rows[g]) = Repairs!Winner(game[g])
    <2>1. CASE g \in DOMAIN after
      <3>1. Foreseen(correction[c], game, assignment, season.version)
        BY <1>1 DEF PlansForesee
      <3>2. /\ correction[c].season = season.version
            /\ \A h \in DOMAIN after : correction[c].versions[h] = game[h].version
        BY <1>1 DEF Repairs!AsExpected
      <3>3. Repairs!Winner(after[g]) = Repairs!Winner(game[g])
        BY <1>5, <2>1, <3>1, <3>2 DEF Foreseen
      <3>q. QED BY <1>4, <2>1, <3>3
    <2>2. CASE g \notin DOMAIN after
      BY <1>3, <1>4, <2>2
    <2>q. QED BY <2>1, <2>2
  <1>7. Repairs!Winner(game[assignment[s].source]) \notin {NoTeam, assignment[s].team}
    BY <1>1, <1>2, <1>3, <1>5, <1>6
  <1>q. QED BY <1>2, <1>5, <1>7 DEF Repairs!Disputed

LEMMA WinnersSettled ==
  ASSUME CompetitionAssumptions, CompInv, PlansForesee, [Repairs!Next]_Repairs!vars
  PROVE  \A c \in Corrections : ~Repairs!Disputes(c)
  <1> SUFFICES ASSUME NEW c \in Corrections, Repairs!Disputes(c)
               PROVE  FALSE
    OBVIOUS
  <1>1. /\ correction[c].status # "APPLIED" /\ correction'[c].status = "APPLIED"
        /\ \E s \in Slots : Repairs!Disputed(s)' /\ ~Repairs!Disputed(s)
    BY DEF Repairs!Disputes, Repairs!Applied
  <1>2. Applying(c)
    BY <1>1, CompetitionProceeds DEF Proceeding, Proceeds
  <1>q. QED BY <1>1, <1>2, ApplyingDisputesNone

-----------------------------------------------------------------------------
(* What a step does to the place of a game: it leaves the game there, it   *)
(* looked for others or was told not to, or it is one of the two that do   *)
(* not look.                                                               *)
Stays(g) ==
  /\ game'[g].place = game[g].place /\ (InPlay(game'[g]) => InPlay(game[g]))
  /\ g \in forced => g \in forced'
Alone(g) == \A h \in Games : ~Repairs!Meet(g, h)'
Settles(g) == Stays(g) \/ Alone(g) \/ Repairs!AppliedTo(g) \/ Repairs!ApprovedTo(g)

LEMMA RequestsSettle ==
  ASSUME CompetitionAssumptions, CompInv, NEW g \in Games,
         \/ Repairs!Approve(g) \/ Repairs!EndRequest(g)
         \/ \E p \in Places : Repairs!Submit(g, p)
  PROVE  \A x \in Games : Settles(x)
  <1>1. /\ game[g] \in MatchRow /\ game[g].place \in Places /\ game \in [Games -> MatchRow]
        /\ game[g].request \in Places \cup {NoPlace} /\ NoPlace \notin Places
    BY DEF CompInv, CompetitionRows, MatchRow, CompetitionAssumptions
  <1>2. CASE Repairs!Approve(g)
    <2>1. /\ game' = [game EXCEPT ![g] = Relocated(g, game[g].request, NoPlace)]
          /\ game[g].request \in Places /\ forced' = forced \ {g}
      BY <1>1, <1>2 DEF Repairs!Approve, Relocated, MatchRow
    <2>2. Repairs!ApprovedTo(g)
      BY <1>1, <2>1, RelocatedRow DEF Repairs!ApprovedTo
    <2>3. \A x \in Games \ {g} : Stays(x)
      BY <1>1, <2>1 DEF Stays
    <2>q. QED BY <2>2, <2>3 DEF Settles
  <1>3. ASSUME \E asked \in Places \cup {NoPlace} :
                 game' = [game EXCEPT ![g] = Relocated(g, game[g].place, asked)],
               UNCHANGED forced
        PROVE  \A x \in Games : Stays(x)
    BY <1>1, <1>3, RelocatedRow DEF Stays, InPlay
  <1>4. CASE Repairs!EndRequest(g)
    <2>1. game' = [game EXCEPT ![g] = Relocated(g, game[g].place, NoPlace)] /\ UNCHANGED forced
      BY <1>1, <1>4 DEF Repairs!EndRequest, Relocated, MatchRow
    <2>q. QED BY <1>3, <2>1 DEF Settles
  <1>5. ASSUME NEW p \in Places, Repairs!Submit(g, p)
        PROVE  \A x \in Games : Settles(x)
    <2>1. game' = [game EXCEPT ![g].request = p, ![g].version = @ + 1] /\ UNCHANGED forced
      BY <1>5, Zenon DEF Repairs!Submit
    <2>2. game' = [game EXCEPT ![g] = Relocated(g, game[g].place, p)]
      BY <1>1, <2>1 DEF Relocated, MatchRow
    <2>q. QED BY <1>3, <2>1, <2>2 DEF Settles
  <1>q. QED BY <1>2, <1>4, <1>5

LEMMA PlaySettles ==
  ASSUME CompetitionAssumptions, CompInv, NEW g \in Games,
         \/ \E side \in Repairs!Sides : Repairs!Publish(g, side)
         \/ \E row \in Repairs!Variants(g) : Repairs!UpdateGame(g, row)
  PROVE  \A x \in Games : Settles(x)
  <1>1. game \in [Games -> MatchRow] /\ game[g] \in MatchRow /\ Sound(game[g])
    BY DEF CompInv, CompetitionRows
  <1>2. ASSUME NEW side \in Repairs!Sides, Repairs!Publish(g, side)
        PROVE  \A x \in Games : Stays(x)
    <2>1. /\ game' = [game EXCEPT ![g] = Repairs!Published(game[g], side)] /\ UNCHANGED forced
          /\ Cardinality(Repairs!TeamsOf(game[g])) = 2 /\ InPlay(game[g])
      BY <1>2, CorrectionsApart DEF Repairs!Publish, Repairs!Publishable, InPlay
    <2>2. Repairs!Published(game[g], side).place = game[g].place
      BY <1>1, <2>1, TwoTeams, PublishedRow
    <2>q. QED BY <1>1, <2>1, <2>2 DEF Stays
  <1>3. ASSUME NEW row \in Repairs!Variants(g), Repairs!UpdateGame(g, row)
        PROVE  \A x \in Games : Settles(x)
    <2>1. /\ game' = [game EXCEPT ![g] = Repairs!Saved(g, row)] /\ Repairs!ResultValid(g, row)
          /\ forced' = IF row.forced THEN forced \cup {g} ELSE forced \ {g}
          /\ row.forced \/ Repairs!Fits(Repairs!Then([h \in {g} |-> row]), g,
                                        Repairs!KeptFor(Games \ {g}))
      BY <1>3 DEF Repairs!UpdateGame
    <2>2. row \in PlannedRow /\ Sound(row)
      BY <2>1, PlansOffered DEF Repairs!ResultValid, Sound, Repairs!Sides
    <2>3. PICK saved : saved = Repairs!Saved(g, row)
      OBVIOUS
    <2>4. saved.place = row.place /\ saved.status = row.status
      BY <2>2, <2>3, SavedRow DEF CompInv
    <2>5. game'[g] = saved /\ \A h \in Games \ {g} : game'[h] = game[h]
      BY <1>1, <2>1, <2>3
    <2>6. Alone(g)
      <3>1. CASE row.forced
        BY <2>1, <3>1 DEF Alone, Repairs!Meet
      <3>2. CASE ~row.forced
        <4>1. PICK rows : rows = Repairs!Then([h \in {g} |-> row])
          OBVIOUS
        <4>2. rows[g] = row /\ \A h \in Games \ {g} : rows[h] = game[h]
          BY <4>1 DEF Repairs!Then
        <4>3. \A h \in Repairs!Occupying(rows) \ {g} : rows[h].place # rows[g].place
          BY <2>1, <3>2, <4>1 DEF Repairs!Fits, Repairs!CourtFree
        <4>4. \A h \in Games \ {g} : game'[h].status # "VOID" => game'[h].place # game'[g].place
          BY <2>4, <2>5, <4>2, <4>3 DEF Repairs!Occupying
        <4>q. QED BY <4>4 DEF Alone, Repairs!Meet, Repairs!Occupying
      <3>q. QED BY <3>1, <3>2
    <2>7. \A h \in Games \ {g} : Stays(h)
      BY <2>1, <2>5 DEF Stays
    <2>q. QED BY <2>6, <2>7 DEF Settles
  <1>q. QED BY <1>2, <1>3 DEF Settles

LEMMA DrawsSettle ==
  ASSUME CompetitionAssumptions, CompInv, Repairs!DrawCommand
  PROVE  \A x \in Games : Settles(x)
  <1>1. game \in [Games -> MatchRow] /\ UNCHANGED forced
    BY DEF CompInv, CompetitionRows, Repairs!DrawCommand, Repairs!DrawGroups, Repairs!DrawGame
  <1>2. ASSUME NEW h \in Games
        PROVE  game'[h].place = game[h].place /\ game'[h].status = game[h].status
    <2>1. game[h] \in MatchRow
      BY <1>1
    <2>2. ASSUME NEW draw \in [GroupSlots -> Teams], Repairs!DrawGroups(draw)
          PROVE  game'[h].place = game[h].place /\ game'[h].status = game[h].status
      <3>1. \/ game'[h] = game[h]
            \/ game'[h] = [game[h] EXCEPT !.team = Repairs!Redrawn(h, draw),
                                          !.version = game[h].version + 1]
        BY <2>2 DEF Repairs!DrawGroups
      <3>q. QED BY <2>1, <3>1 DEF MatchRow
    <2>3. ASSUME NEW g \in Games, NEW pair \in Draws, Repairs!DrawGame(g, pair)
          PROVE  game'[h].place = game[h].place /\ game'[h].status = game[h].status
      <3>1. game' = [game EXCEPT ![g] = [game[g] EXCEPT !.team = pair,
                                                        !.version = game[g].version + 1]]
        BY <1>1, <2>3 DEF Repairs!DrawGame, MatchRow
      <3>q. QED BY <1>1, <2>1, <3>1 DEF MatchRow
    <2>q. QED BY <2>2, <2>3 DEF Repairs!DrawCommand
  <1>q. QED BY <1>1, <1>2 DEF Settles, Stays, InPlay

LEMMA ApplicationSettles ==
  ASSUME CompetitionAssumptions, CompInv, NEW c \in Corrections, Pending(c), Repairs!Applies(c),
         \A g \in Games : LET row == Repairs!CorrectedRows(c)[g] IN
           game'[g].place = row.place /\ (InPlay(game'[g]) => InPlay(row))
  PROVE  \A x \in Games : Settles(x)
  <1> DEFINE after == correction[c].after
             rows == Repairs!CorrectedRows(c)
  <1>1. /\ forced' = (forced \ DOMAIN after) \cup {g \in DOMAIN after : after[g].forced}
        /\ correction' = [correction EXCEPT ![c].status = "APPLIED"]
        /\ correction \in [Corrections -> CorrectionRow]
    BY DEF Repairs!Applies, CompInv, CompetitionRows
  <1>2. correction[c].status # "APPLIED" /\ correction'[c].status = "APPLIED"
    <2>1. correction[c] \in CorrectionRow /\ correction[c].status # "APPLIED"
      BY <1>1 DEF Pending
    <2>q. QED BY <1>1, <2>1 DEF CorrectionRow
  <1>3. ASSUME NEW x \in DOMAIN after
        PROVE  Repairs!AppliedTo(x)
    BY <1>2, <1>3 DEF Repairs!AppliedTo
  <1>4. ASSUME NEW x \in Games, x \notin DOMAIN after
        PROVE  Stays(x)
    <2>1. rows[x] = game[x]
      BY <1>4, RowsCorrected
    <2>2. x \in forced => x \in forced'
      BY <1>1, <1>4
    <2>q. QED BY <2>1, <2>2 DEF Stays
  <1>q. QED BY <1>3, <1>4 DEF Settles

LEMMA PlacesSettle ==
  ASSUME CompetitionAssumptions, CompInv, [Repairs!Next]_Repairs!vars
  PROVE  \A x \in Games : Settles(x)
  <1>1. ASSUME UNCHANGED <<game, forced>>
        PROVE  \A x \in Games : Settles(x)
    BY <1>1 DEF Settles, Stays
  <1>2. ASSUME NEW c \in Corrections, Repairs!CorrectionCommand(c)
        PROVE  \A x \in Games : Settles(x)
    <2>1. CASE Repairs!Correct(c)
      <3>1. PICK after \in Plans : \E down : Repairs!CreateCorrection(c, after, down)
        BY <2>1, CorrectionsOffered
      <3>q. QED BY <1>1, <3>1 DEF Repairs!CreateCorrection
    <2>2. CASE Repairs!CancelCorrection(c)
      BY <1>1, <2>2 DEF Repairs!CancelCorrection
    <2>3. CASE Repairs!ApplyCorrection(c)
      BY <2>3, ApplicationSettles DEF Repairs!ApplyCorrection, Pending
    <2>q. QED BY <1>2, <2>1, <2>2, <2>3 DEF Repairs!CorrectionCommand
  <1>3. ASSUME NEW g \in Games, NEW side \in Repairs!Sides, Repairs!PublishCorrected(g, side)
        PROVE  \A x \in Games : Settles(x)
    <2> DEFINE c == sheet[g].pending
               rows == Repairs!CorrectedRows(c)
               row == Repairs!Published(rows[g], side)
    <2>1. /\ c # NoCorrection /\ correction[c].status = "AWAITING_SCORESHEET"
          /\ Repairs!Applies(c) /\ game' = [rows EXCEPT ![g] = row]
      BY <1>3 DEF Repairs!PublishCorrected
    <2>2. c \in Corrections /\ Pending(c)
      <3>1. sheet[g] \in PaperRow
        BY DEF CompInv, CompetitionRows
      <3>q. QED BY <2>1, <3>1 DEF PaperRow, Pending
    <2>3. g \in DOMAIN correction[c].after /\ correction[c].after[g].status = "COMPLETED"
      BY <2>2 DEF CompInv, Awaited
    <2>4. rows \in [Games -> MatchRow] /\ rows[g].status = "COMPLETED"
      BY <2>2, <2>3, RowsCorrected
    <2> HIDE DEF rows
    <2>5. rows[g] \in MatchRow
      BY <2>4
    <2>6. row.place = rows[g].place
      BY <2>5 DEF Repairs!Published, MatchRow
    <2> HIDE DEF row
    <2>7. \A h \in Games : game'[h].place = rows[h].place /\ (InPlay(game'[h]) => InPlay(rows[h]))
      BY <2>1, <2>4, <2>6 DEF InPlay
    <2>q. QED BY <2>1, <2>2, <2>7, ApplicationSettles DEF rows
  <1>4. CASE Repairs!Archive \/ UNCHANGED Repairs!vars
    BY <1>1, <1>4 DEF Repairs!Archive, Repairs!vars
  <1>q. QED BY <1>2, <1>3, <1>4, RequestsSettle, PlaySettles, DrawsSettle DEF Repairs!Next

LEMMA MeetingsUnreserved ==
  ASSUME CompetitionAssumptions, CompInv, [Repairs!Next]_Repairs!vars
  PROVE  \A g, h \in Games : Repairs!Meet(g, h)' /\ ~Repairs!Meet(g, h) => Repairs!MeetUnreserved(g, h)
  <1> SUFFICES ASSUME NEW g \in Games, NEW h \in Games, Repairs!Meet(g, h)', ~Repairs!Meet(g, h)
               PROVE  Repairs!MeetUnreserved(g, h)
    OBVIOUS
  <1>1. /\ g # h /\ InPlay(game'[g]) /\ InPlay(game'[h]) /\ g \notin forced' /\ h \notin forced'
        /\ game'[g].place = game'[h].place
    BY DEF Repairs!Meet, Repairs!Occupying, InPlay
  <1>2. ~Stays(g) \/ ~Stays(h)
    BY <1>1 DEF Stays, Repairs!Meet, Repairs!Occupying, InPlay
  <1>3. ~Alone(g) /\ ~Alone(h)
    <2>1. Repairs!Meet(h, g)'
      BY <1>1 DEF Repairs!Meet, Repairs!Occupying, InPlay
    <2>q. QED BY <2>1 DEF Alone
  <1>4. \E x \in {g, h} : Repairs!AppliedTo(x) \/ Repairs!ApprovedTo(x)
    BY <1>2, <1>3, PlacesSettle DEF Settles
  <1>5. NoPlace \in {allocated'[g], allocated'[h]}
    BY <1>1, CompetitionStep DEF CompInv, KeptApart
  <1>q. QED BY <1>4, <1>5 DEF Repairs!MeetUnreserved

LEMMA ForesightInduction ==
  /\ CompetitionAssumptions /\ Repairs!Init => CompInv /\ PlansForesee
  /\ CompetitionAssumptions /\ CompInv /\ PlansForesee /\ [Repairs!Next]_Repairs!vars
       => /\ CompInv' /\ PlansForesee' /\ [\A c \in Corrections : ~Repairs!Disputes(c)]_Repairs!vars
          /\ [\A g, h \in Games : Repairs!Meet(g, h)' /\ ~Repairs!Meet(g, h)
                => Repairs!MeetUnreserved(g, h)]_Repairs!vars
  <1>1. ASSUME CompetitionAssumptions, Repairs!Init
        PROVE  PlansForesee
    <2>1. correction = [c \in Corrections |-> Repairs!NoDraft]
      BY <1>1 DEF Repairs!Init
    <2>q. QED BY <2>1 DEF PlansForesee, Pending, Repairs!NoDraft
  <1>q. QED BY <1>1, CompetitionInduction, ForesightKept, WinnersSettled, MeetingsUnreserved

(* Revisions, waiting sheets and the slots of the bracket say what the     *)
(* games say; to apply a correction puts no slot of the bracket in         *)
(* dispute; and two games come to share a court without an override only   *)
(* when a correction is applied or a request approved and one of the two   *)
(* holds no reservation.  This is for any number of corrections that are   *)
(* checked when they are made and applied after draws, edits, requests and *)
(* publications changed the games, on courts and in halls that have no     *)
(* reservations (competition_corrections.py, draw_assignments.py).         *)
THEOREM CorrectionsStayTrue ==
  CompetitionAssumptions /\ Repairs!Spec
    => /\ [](Repairs!TypeOK /\ Repairs!RecordsAgree)
       /\ Repairs!CorrectionsSettleWinners /\ Repairs!MeetOnlyUnreserved
  <1>1. CompetitionAssumptions /\ CompInv => Repairs!TypeOK /\ Repairs!RecordsAgree
    BY RecordsFollow, CompetitionTyped
  <1>q. QED BY <1>1, CompetitionInduction, ForesightInduction, PTL
        DEF Repairs!Spec, Repairs!CorrectionsSettleWinners, Repairs!MeetOnlyUnreserved
=============================================================================
