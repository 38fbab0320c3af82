---------------------------- MODULE AdminAccounts ----------------------------
(***************************************************************************)
(* Administrators and their way into the web console: registration from the *)
(* miniapp, promotion, demotion, suspension and password resets             *)
(* (services/admin_accounts.py under services/superadmin_command_lock.py),  *)
(* logins by password or by a QR code the miniapp confirms, and changes of  *)
(* one's own password (api_auth.py).                                        *)
(*                                                                          *)
(* A command is authenticated, then waits for the one lock all of them      *)
(* share, then looks at its actor again: two steps.  A login or a change of *)
(* password likewise checks a password first and writes later.  A password  *)
(* is the number of times it was set.  A web session carries the password   *)
(* its login read, and is dead for an account whose password has moved on.  *)
(***************************************************************************)
EXTENDS Naturals, FiniteSets

CONSTANTS Accounts, Browsers, Commands,
          Founders,     \* the superadmins the server was set up with
          Nobody,
          MaxVersion    \* bound on the version of an account

VARIABLES account,      \* [role, active, version, password]
          browser,      \* [at, account, password] of each web session
          challenge,    \* [status, browser, account] of the QR code shown
          command,      \* [actor, version] a superadmin's request came with
          revoked       \* history: sessions whose account's password was set by another

vars == <<account, browser, challenge, command, revoked>>

Out == [at |-> "out", account |-> Nobody, password |-> 0]
NoCode == [status |-> "NONE", browser |-> Nobody, account |-> Nobody]
NoCommand == [actor |-> Nobody, version |-> 0]

TypeOK ==
  /\ account \in [Accounts -> [role : {"USER", "ADMIN", "SUPERADMIN"}, active : BOOLEAN,
                               version : 1 .. MaxVersion, password : 0 .. MaxVersion]]
  /\ browser \in [Browsers -> [at : {"out", "checked", "open", "changing"},
                               account : Accounts \cup {Nobody}, password : 0 .. MaxVersion]]
  /\ challenge \in [status : {"NONE", "PENDING", "CONFIRMED"},
                    browser : Browsers \cup {Nobody}, account : Accounts \cup {Nobody}]
  /\ command \in [Commands -> [actor : Accounts \cup {Nobody}, version : 0 .. MaxVersion]]
  /\ revoked \subseteq Browsers

Init ==
  /\ account = [a \in Accounts |->
        IF a \in Founders THEN [role |-> "SUPERADMIN", active |-> TRUE, version |-> 1, password |-> 1]
                       ELSE [role |-> "USER", active |-> TRUE, version |-> 1, password |-> 0]]
  /\ browser = [b \in Browsers |-> Out]
  /\ challenge = NoCode
  /\ command = [c \in Commands |-> NoCommand]
  /\ revoked = {}

Admin(a) == account[a].active /\ account[a].role \in {"ADMIN", "SUPERADMIN"}
Superadmin(a) == account[a].active /\ account[a].role = "SUPERADMIN"
Superadmins == {a \in Accounts : Superadmin(a)}

(* A session is good while its account's password is the one it was opened  *)
(* with; what it may do is asked of the account at every request.           *)
Good(b) == /\ browser[b].at \in {"open", "changing"}
           /\ account[browser[b].account].password = browser[b].password

(* Every save of an account raises its version.                             *)
Saved(a, row) == [account EXCEPT ![a] = [row EXCEPT !.version = row.version + 1]]
WithPassword(a) ==
  Saved(a, [account[a] EXCEPT !.password = account[a].password + 1])
Room(a) == account[a].version < MaxVersion
SessionsOf(a) == {b \in Browsers : browser[b].account = a}

(* A user of the miniapp becomes an administrator with the invitation code, *)
(* and sets a password for the web.                                         *)
Register(a) ==
  /\ account[a].role = "USER" /\ Room(a)
  /\ account' = Saved(a, [account[a] EXCEPT !.role = "ADMIN",
                                         !.password = account[a].password + 1])
  /\ UNCHANGED <<browser, challenge, command, revoked>>

-----------------------------------------------------------------------------
(* Commands of superadmins.                                                 *)
Authenticate(c, b) ==
  /\ command[c] = NoCommand
  /\ browser[b].at = "open" /\ Good(b) /\ Superadmin(browser[b].account)
  /\ command' = [command EXCEPT ![c] = [actor |-> browser[b].account,
                                        version |-> account[browser[b].account].version]]
  /\ UNCHANGED <<account, browser, challenge, revoked>>

(* lock_current_superadmin_actor, with the command lock held.               *)
ActorStands(c) ==
  /\ command[c] # NoCommand
  /\ Superadmin(command[c].actor)
  /\ account[command[c].actor].version = command[c].version

LastSuperadmin == Cardinality(Superadmins) <= 1

Promote(c, a) ==
  /\ ActorStands(c) /\ account[a].active /\ account[a].role = "ADMIN" /\ Room(a)
  /\ account' = Saved(a, [account[a] EXCEPT !.role = "SUPERADMIN"])
  /\ UNCHANGED revoked

Demote(c, a) ==
  /\ ActorStands(c) /\ a # command[c].actor /\ account[a].role = "SUPERADMIN" /\ Room(a)
  /\ account[a].active => ~LastSuperadmin
  /\ account' = Saved(a, [account[a] EXCEPT !.role = "ADMIN"])
  /\ UNCHANGED revoked

SetActive(c, a) ==
  /\ ActorStands(c) /\ Room(a)
  /\ Superadmin(a) => ~LastSuperadmin
  /\ account' = Saved(a, [account[a] EXCEPT !.active = ~account[a].active])
  /\ UNCHANGED revoked

ResetPassword(c, a) ==
  /\ ActorStands(c) /\ a # command[c].actor /\ account[a].role # "USER" /\ Room(a)
  /\ account' = WithPassword(a)
  /\ revoked' = revoked \cup SessionsOf(a)

Refused(c) ==
  /\ command[c] # NoCommand
  /\ UNCHANGED <<account, revoked>>

RunCommand(c) ==
  /\ \/ \E a \in Accounts : Promote(c, a) \/ Demote(c, a) \/ SetActive(c, a) \/ ResetPassword(c, a)
     \/ Refused(c)
  /\ command' = [command EXCEPT ![c] = NoCommand]
  /\ UNCHANGED <<browser, challenge>>

-----------------------------------------------------------------------------
(* Logins.  The account is read and checked, and the session opened with    *)
(* the password read then.                                                  *)
Entering(b, a) == [at |-> "checked", account |-> a, password |-> account[a].password]

LoginByPassword(b, a) ==
  /\ browser[b].at = "out" /\ Admin(a)
  /\ browser' = [browser EXCEPT ![b] = Entering(b, a)]
  /\ revoked' = revoked \ {b}
  /\ UNCHANGED <<account, challenge, command>>

ShowCode(b) ==
  /\ browser[b].at = "out" /\ challenge = NoCode
  /\ challenge' = [status |-> "PENDING", browser |-> b, account |-> Nobody]
  /\ UNCHANGED <<account, browser, command, revoked>>

ConfirmCode(a) ==
  /\ challenge.status = "PENDING" /\ Admin(a)
  /\ challenge' = [challenge EXCEPT !.status = "CONFIRMED", !.account = a]
  /\ UNCHANGED <<account, browser, command, revoked>>

(* A code opens one session, of the account that confirmed it if that is    *)
(* still an administrator; either way it is used up.  It may expire first.  *)
(* Of the codes on show, which do not meet, the model keeps one.            *)
ConsumeCode(b) ==
  /\ challenge.status = "CONFIRMED" /\ challenge.browser = b /\ browser[b].at = "out"
  /\ browser' = IF Admin(challenge.account)
                THEN [browser EXCEPT ![b] = Entering(b, challenge.account)] ELSE browser
  /\ challenge' = NoCode
  /\ revoked' = revoked \ {b}
  /\ UNCHANGED <<account, command>>

CodeExpires ==
  /\ challenge # NoCode
  /\ challenge' = NoCode
  /\ UNCHANGED <<account, browser, command, revoked>>

OpenSession(b) ==
  /\ browser[b].at = "checked"
  /\ browser' = [browser EXCEPT ![b].at = "open"]
  /\ UNCHANGED <<account, challenge, command, revoked>>

Logout(b) ==
  /\ browser[b].at = "open"
  /\ browser' = [browser EXCEPT ![b] = Out]
  /\ revoked' = revoked \ {b}
  /\ UNCHANGED <<account, challenge, command>>

-----------------------------------------------------------------------------
(* A change of one's own password: the current one is checked with the      *)
(* request, and once more with the account's row held.  The session that    *)
(* made the change goes on; the others of the account end with it.          *)
StartChange(b) ==
  /\ browser[b].at = "open" /\ Good(b) /\ Admin(browser[b].account)
  /\ browser' = [browser EXCEPT ![b].at = "changing"]
  /\ UNCHANGED <<account, challenge, command, revoked>>

CheckedBefore(b) == TRUE
StillCurrent(b) == account[browser[b].account].password = browser[b].password

ChangePassword(b) ==
  /\ browser[b].at = "changing"
  /\ LET a == browser[b].account IN
       IF StillCurrent(b) /\ Room(a)
       THEN /\ account' = WithPassword(a)
            /\ browser' = [browser EXCEPT ![b].at = "open", ![b].password = account'[a].password]
            /\ revoked' = revoked \cup (SessionsOf(a) \ {b})
       ELSE /\ browser' = [browser EXCEPT ![b].at = "open"]
            /\ UNCHANGED <<account, revoked>>
  /\ UNCHANGED <<challenge, command>>

(* What the endpoints of api_admin.py offer: the session is authenticated,  *)
(* then the command of the service runs.                                    *)
AccountCommand(c) == RunCommand(c) \/ \E b \in Browsers : Authenticate(c, b)

Next ==
  \/ \E a \in Accounts : Register(a) \/ ConfirmCode(a)
  \/ \E c \in Commands : AccountCommand(c)
  \/ \E b \in Browsers :
        \/ \E a \in Accounts : LoginByPassword(b, a)
        \/ ShowCode(b) \/ ConsumeCode(b) \/ OpenSession(b) \/ Logout(b)
        \/ StartChange(b) \/ ChangePassword(b)
  \/ CodeExpires

Spec == Init /\ [][Next]_vars

-----------------------------------------------------------------------------
(* Superadmins demote and suspend each other at the same time, and one of   *)
(* them is always left to govern (LAST_SUPERADMIN_PROTECTED).               *)
SomeoneGoverns == Superadmins # {}

(* Once another has set an account's password, a session of the account     *)
(* opened or being opened before never works again, not even through a      *)
(* change of password it had begun                                          *)
(* (admin_accounts.py: web_sessions_revoked_by_auth_hash).                  *)
RevokedForGood == \A b \in revoked : ~Good(b)

AccountsAreGoverned == SomeoneGoverns /\ RevokedForGood
=============================================================================
