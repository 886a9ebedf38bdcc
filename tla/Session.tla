------------------------------- MODULE Session -------------------------------
(***************************************************************************)
(* Who is signed in: the dashboard's tabs, the cookie the tabs of one      *)
(* browser share, the server's sessions and accounts, and what changes     *)
(* accounts.  A tab is a page with a memory of its own (whom it shows, the *)
(* CSRF token it got); the browser adds its cookie of the moment to every  *)
(* call.  A handler's statements are steps of their own up to its          *)
(* transaction; the answer, with the cookie it sets, arrives later or      *)
(* never.                                                                  *)
(***************************************************************************)
EXTENDS Integers, Sequences

CONSTANTS
  Browser,    \* browsers, each the set of its tabs
  SuperAdmin, \* the account of SLINGER_ADMIN_BOOTSTRAP with that role
  Admin,      \* accounts that are platform admins at first
  Person,     \* accounts that are plain users at first
  Newcomer,   \* people without an account at first
  None,
  MaxCalls,   \* bound: calls made, page loads and expiries of sessions
  MaxOpen     \* bound: calls under way at once

Tab == UNION Browser
User == {SuperAdmin} \cup Admin \cup Person \cup Newcomer

ASSUME SessionAssumption ==
  /\ \A a, b \in Browser : a # b => a \cap b = {}
  /\ SuperAdmin \notin Admin \cup Person \cup Newcomer /\ None \notin User
  /\ Admin \cap Person = {} /\ (Admin \cup Person) \cap Newcomer = {}
  /\ MaxCalls \in Nat /\ MaxOpen \in Nat

VARIABLES
  account,  \* the table of users; passwords are numbered, `tv' is tokenVersion
  sessions, \* browser sessions in the order they were made: whose, signed in with
            \* which password, still there, made after a revocation (history)
  cookie,   \* the session each browser's cookie names, or 0
  tabs,     \* the session store and HTTP client of each tab
  calls,    \* calls under way
  made      \* what counts for MaxCalls

vars == <<account, sessions, cookie, tabs, calls, made>>

-----------------------------------------------------------------------------
PlatformRole == {"super_admin", "platform_admin", "user"}
Admins == {"super_admin", "platform_admin"}

\* applyBootstrap leaves one super admin at most; the CSRF token of a session is
\* derived from its id: both are its number here.
Account(role) == [role |-> role, disabled |-> FALSE, must |-> FALSE, pw |-> 0, tv |-> 0]

Anonymous == [status |-> "anonymous", user |-> None, role |-> "none", must |-> FALSE,
              csrf |-> 0, fired |-> FALSE]

Init ==
  /\ account = [u \in User |-> Account(CASE u = SuperAdmin -> "super_admin"
                                         [] u \in Admin    -> "platform_admin"
                                         [] u \in Person   -> "user"
                                         [] OTHER          -> "none")]
  /\ sessions = <<>>
  /\ cookie = [b \in Browser |-> 0]
  /\ tabs = [t \in Tab |-> Anonymous]
  /\ calls = {} /\ made = 0

Count == made < MaxCalls /\ made' = made + 1

BrowserOf(t) == CHOOSE b \in Browser : t \in b

-----------------------------------------------------------------------------
(***************************************************************************)
(* What the Users page offers someone with platform role `role' for the    *)
(* account u, and what the routes refuse.                                  *)
(***************************************************************************)
assignablePlatformRoles(role) ==
  CASE role = "super_admin"    -> {"user", "platform_admin"}
    [] role = "platform_admin" -> {"user"}
    [] OTHER                   -> {}

disableUserPolicy(me, role, u) ==
  /\ role \in Admins /\ u # me
  /\ account[u].role # "super_admin"
  /\ account[u].role = "platform_admin" => role = "super_admin"

\* Mutant: any admin may reset another admin's password.
userPasswordPolicy_anyAdmin(me, role, u) ==
  role \in Admins /\ u # me /\ account[u].role # "super_admin"

userPasswordPolicy(me, role, u) == disableUserPolicy(me, role, u)

Offers(me, role, u) ==
  IF account[u].role = "none"
  THEN {<<"create", r>> : r \in assignablePlatformRoles(role)}
  ELSE {c \in {<<"change", IF account[u].disabled THEN "enable" ELSE "disable">>} :
          disableUserPolicy(me, role, u)}
       \cup {c \in {<<"change", IF account[u].must THEN "lift" ELSE "require">>, <<"reset", "">>} :
               userPasswordPolicy(me, role, u)}
       \cup {<<"change", r>> : r \in {s \in assignablePlatformRoles(role) :
               /\ role = "super_admin" /\ u # me
               /\ account[u].role \notin {"super_admin", s}}}

\* Only the super admin makes admins, ...
CreateForbidden(c) == c.what # "user" /\ c.row.role # "super_admin"

\* ... changes roles and changes other admins; nobody disables themselves ...
ChangeForbidden(c, target) ==
  \/ target.role # "user" /\ c.row.role # "super_admin"
  \/ c.what \in PlatformRole /\ (c.row.role # "super_admin" \/ target.role = "super_admin")
  \/ c.what = "disable" /\ c.user = c.actor

\* ... or resets their own password.
ResetForbidden(c, target) ==
  c.user = c.actor \/ (target.role # "user" /\ c.row.role # "super_admin")

-----------------------------------------------------------------------------
(***************************************************************************)
(* The tabs.  A form is busy until its answer is there (class Action), so  *)
(* a tab has one call of a kind under way, of `read' (any GET of a page)   *)
(* as well.  Forms of other pages send what the routes of other modules    *)
(* take.                                                                   *)
(***************************************************************************)
Answered(c) == c.pc \notin {"sent", "handle", "write"}

\* Calls go on without anyone who waits for their answers.
Abandoned(cs) == {[c EXCEPT !.tab = None] : c \in {d \in cs : ~Answered(d)}}

Busy(t, kind) == \E c \in calls : c.tab = t /\ c.kind = kind

Safe == {"read", "session"}

\* Numbers tell the calls under way apart.
Free == {n \in 1 .. MaxOpen : \A c \in calls : c.n # n}

Room == Count /\ Free # {}

Call(t, kind, user, what) ==
  [n |-> CHOOSE n \in Free : TRUE, tab |-> t, kind |-> kind, user |-> user, what |-> what,
   cookie |-> cookie[BrowserOf(t)],
   csrf |-> IF kind \in Safe THEN 0 ELSE tabs[t].csrf,
   as |-> tabs[t].user,
   seen |-> IF user = None THEN <<>> ELSE <<tabs[t].role, account[user].role>>,
   pc |-> "sent", actor |-> None, row |-> None, session |-> 0]

request(t, kind, user, what) ==
  /\ Room /\ ~Busy(t, kind)
  /\ calls' = calls \cup {Call(t, kind, user, what)}
  /\ UNCHANGED <<account, sessions, cookie>>

\* The page is loaded again: its memory is gone, calls of the old one are nobody's.
Boot(t) ==
  /\ Room
  /\ tabs' = [tabs EXCEPT ![t] = [Anonymous EXCEPT !.status = "booting"]]
  /\ calls' = {c \in calls : c.tab # t} \cup Abandoned({c \in calls : c.tab = t})
                 \cup {[Call(t, "session", None, 0) EXCEPT !.as = None]}
  /\ UNCHANGED <<account, sessions, cookie>>

\* Whoever sits there types an email and the password of that account.
Login(t) ==
  /\ tabs[t].status = "anonymous"
  /\ \E u \in User : request(t, "login", u, account[u].pw)
  /\ UNCHANGED tabs

SignedIn(t) == tabs[t].status = "authenticated"

Logout(t) == SignedIn(t) /\ request(t, "logout", None, 0) /\ UNCHANGED tabs

\* On the account page, or on the page that asks for nothing else.
ChangePassword(t) ==
  SignedIn(t) /\ request(t, "password", None, account[tabs[t].user].pw) /\ UNCHANGED tabs

Read(t) == SignedIn(t) /\ ~tabs[t].must /\ request(t, "read", None, 0) /\ UNCHANGED tabs

\* A platform admin on the Users page.
ManageUser(t) ==
  /\ SignedIn(t) /\ ~tabs[t].must /\ tabs[t].role \in Admins
  /\ \E u \in User : \E offer \in Offers(tabs[t].user, tabs[t].role, u) :
       request(t, offer[1], u, offer[2])
  /\ UNCHANGED tabs

-----------------------------------------------------------------------------
(***************************************************************************)
(* The server.                                                             *)
(***************************************************************************)
\* An answer nobody waits for is dropped.
Goes(c, to) == calls' = (calls \ {c}) \cup (IF Answered(to) /\ to.tab = None THEN {} ELSE {to})

Answers(c, answer) == Goes(c, [c EXCEPT !.pc = answer])

Live(s) == s # 0 /\ sessions[s].live

MustNotWait == {"password", "logout", "session"} \* allowWhilePasswordChangeRequired

\* Mutant: the token is not compared.
Admission_noToken(c) ==
  IF ~Live(c.cookie) \/ account[sessions[c.cookie].user].disabled THEN "unauthenticated"
  ELSE LET user == account[sessions[c.cookie].user] IN
       IF user.must /\ c.kind \notin MustNotWait THEN "password_change_required"
       ELSE IF c.kind \in {"create", "change", "reset"} /\ user.role \notin Admins THEN "forbidden"
       ELSE "handle"

\* What authenticate, enforcePasswordChange and requirePlatformRole make of a call.
Admission(c) ==
  IF ~Live(c.cookie) \/ account[sessions[c.cookie].user].disabled THEN "unauthenticated"
  ELSE LET user == account[sessions[c.cookie].user] IN
       IF c.kind \notin Safe /\ c.csrf # c.cookie THEN "csrf_invalid"
       ELSE IF user.must /\ c.kind \notin MustNotWait THEN "password_change_required"
       ELSE IF c.kind \in {"create", "change", "reset"} /\ user.role \notin Admins THEN "forbidden"
       ELSE "handle"

Authenticate(c) ==
  /\ c.pc = "sent" /\ c.kind # "login"
  /\ LET a == Admission(c) IN
     Goes(c, IF a # "handle" THEN [c EXCEPT !.pc = a]
             ELSE [c EXCEPT !.pc = IF c.kind = "read" THEN "ok" ELSE a,
                            !.actor = sessions[c.cookie].user,
                            !.row = account[sessions[c.cookie].user]])
  /\ UNCHANGED <<account, sessions>>

\* Hashing and comparing take long: the row is as it was read before.
VerifyLogin(c) ==
  /\ c.pc = "sent" /\ c.kind = "login"
  /\ LET user == account[c.user] IN
     IF user.role = "none" \/ user.disabled \/ user.pw # c.what
     THEN Answers(c, "unauthenticated")
     ELSE Goes(c, [c EXCEPT !.pc = "handle", !.row = user])
  /\ UNCHANGED <<account, sessions>>

CreateSession(c) ==
  /\ c.pc = "handle" /\ c.kind = "login"
  /\ sessions' = Append(sessions, [user |-> c.user, pw |-> c.what, live |-> TRUE,
                                   late |-> account[c.user].tv # c.row.tv])
  /\ Goes(c, [c EXCEPT !.pc = "ok", !.session = Len(sessions) + 1])
  /\ UNCHANGED account

GetSession(c) ==
  /\ c.pc = "handle" /\ c.kind = "session"
  /\ Goes(c, [c EXCEPT !.pc = "ok", !.session = c.cookie, !.user = c.actor, !.row = account[c.actor]])
  /\ UNCHANGED <<account, sessions>>

EndSession(c) ==
  /\ c.pc = "handle" /\ c.kind = "logout"
  /\ sessions' = [sessions EXCEPT ![c.cookie].live = FALSE]
  /\ Answers(c, "ok")
  /\ UNCHANGED account

\* The statements of the handlers that change accounts, before their transaction.
Check(c) ==
  /\ c.pc = "handle" /\ c.kind \in {"password", "create", "change", "reset"}
  /\ LET target == account[c.user] IN
     Answers(c, CASE c.kind = "password" -> IF account[c.actor].pw = c.what THEN "write" ELSE "wrong_password"
                  [] c.kind = "create"   -> IF CreateForbidden(c) THEN "forbidden" ELSE "write"
                  [] c.kind = "change"   -> IF ChangeForbidden(c, target) THEN "forbidden" ELSE "write"
                  [] c.kind = "reset"    -> IF ResetForbidden(c, target) THEN "forbidden" ELSE "write")
  /\ UNCHANGED <<account, sessions>>

\* revokeAllUserCredentials: the sessions of u end, but the one that is kept.
Revoked(u, keep) ==
  [s \in DOMAIN sessions |->
     [sessions[s] EXCEPT !.live = @ /\ (sessions[s].user # u \/ s = keep)]]

\* A new password, and tokens of the old one are no good.
NewPassword(user, must) ==
  [user EXCEPT !.pw = user.pw + 1, !.must = must, !.tv = user.tv + 1]

\* POST /v1/me/password: the caller's own session goes on, with the new password.
WritePassword(c) ==
  LET user == NewPassword(account[c.actor], FALSE) IN
  /\ c.pc = "write" /\ c.kind = "password"
  /\ account' = [account EXCEPT ![c.actor] = user]
  /\ sessions' = [Revoked(c.actor, c.cookie) EXCEPT ![c.cookie].pw = user.pw]
  /\ Answers(c, "ok")

\* POST /v1/admin/users; the email is unique.
WriteCreate(c) ==
  /\ c.pc = "write" /\ c.kind = "create"
  /\ IF account[c.user].role # "none" THEN Answers(c, "conflict") /\ UNCHANGED account
     ELSE /\ \E must \in BOOLEAN :
               account' = [account EXCEPT ![c.user] = [Account(c.what) EXCEPT !.must = must]]
          /\ Answers(c, "ok")
  /\ UNCHANGED sessions

\* PATCH /v1/admin/users/:userId, with the one field the page sends.
WriteChange(c) ==
  LET user == account[c.user] IN
  /\ c.pc = "write" /\ c.kind = "change"
  /\ account' = [account EXCEPT ![c.user] =
       CASE c.what \in PlatformRole -> [user EXCEPT !.role = c.what]
         [] c.what = "disable"      -> [user EXCEPT !.disabled = TRUE, !.tv = user.tv + 1]
         [] c.what = "enable"       -> [user EXCEPT !.disabled = FALSE]
         [] OTHER                   -> [user EXCEPT !.must = (c.what = "require")]]
  /\ sessions' = IF c.what = "disable" THEN Revoked(c.user, 0) ELSE sessions
  /\ Answers(c, "ok")

\* Mutant: the old sessions stay.
WriteReset_staysSignedIn(c) ==
  /\ c.pc = "write" /\ c.kind = "reset"
  /\ account' = [account EXCEPT ![c.user] = NewPassword(@, TRUE)]
  /\ Answers(c, "ok")
  /\ UNCHANGED sessions

\* POST /v1/admin/users/:userId/reset-password.
WriteReset(c) ==
  /\ c.pc = "write" /\ c.kind = "reset"
  /\ account' = [account EXCEPT ![c.user] = NewPassword(@, TRUE)]
  /\ sessions' = Revoked(c.user, 0)
  /\ Answers(c, "ok")

Serve(c) ==
  /\ \/ Authenticate(c) \/ VerifyLogin(c) \/ CreateSession(c) \/ GetSession(c) \/ EndSession(c)
     \/ Check(c) \/ WritePassword(c) \/ WriteCreate(c) \/ WriteChange(c) \/ WriteReset(c)
  /\ UNCHANGED <<cookie, tabs, made>>

\* A session reaches its expiresAt.
Expire ==
  /\ Count
  /\ \E s \in DOMAIN sessions :
       sessions[s].live /\ sessions' = [sessions EXCEPT ![s].live = FALSE]
  /\ UNCHANGED <<account, cookie, tabs, calls>>

-----------------------------------------------------------------------------
(***************************************************************************)
(* The answers.                                                            *)
(***************************************************************************)
Cleared(tab) == [Anonymous EXCEPT !.fired = tab.fired]

\* Once per period of being signed in.
fireUnauthorized(tab) ==
  IF tab.fired \/ tab.status # "authenticated" THEN [tab EXCEPT !.fired = TRUE]
  ELSE [Anonymous EXCEPT !.fired = TRUE]

\* The handlers of the HTTP client, called before the caller sees the error; the
\* calls about the session itself take a 401 on their own.
toHttpError(tab, c) ==
  IF \/ c.pc = "unauthenticated" /\ c.kind \notin {"login", "logout", "session"}
     \/ c.pc = "csrf_invalid"
  THEN fireUnauthorized(tab)
  ELSE [tab EXCEPT !.must = @ \/ (c.pc = "password_change_required" /\ tab.status = "authenticated")]

\* What the caller does then.
Settled(tab, c) ==
  CASE c.kind \in {"login", "session"} /\ c.pc = "ok" ->
         [status |-> "authenticated", user |-> c.user, role |-> c.row.role, must |-> c.row.must,
          csrf |-> c.session, fired |-> FALSE]
    [] c.kind = "logout" \/ (c.kind = "session" /\ c.pc # "ok") -> Cleared(tab)
    [] c.kind = "password" /\ c.pc = "ok" -> [tab EXCEPT !.must = FALSE]
    [] OTHER -> tab

SetCookie(c, b) ==
  IF c.pc # "ok" THEN cookie
  ELSE CASE c.kind = "login"  -> [cookie EXCEPT ![b] = c.session]
         [] c.kind = "logout" -> [cookie EXCEPT ![b] = 0]
         [] OTHER             -> cookie

Receive(c) ==
  /\ Answered(c) /\ c.tab # None
  /\ cookie' = SetCookie(c, BrowserOf(c.tab))
  /\ tabs' = [tabs EXCEPT ![c.tab] = Settled(toHttpError(@, c), c)]
  /\ calls' = calls \ {c}
  /\ UNCHANGED <<account, sessions, made>>

\* The connection breaks or 30 seconds pass; the headers of an answer may be there.
Fail(c) ==
  /\ c.tab # None
  /\ \/ UNCHANGED cookie
     \/ Answered(c) /\ cookie' = SetCookie(c, BrowserOf(c.tab))
  /\ tabs' = [tabs EXCEPT ![c.tab] = Settled(@, [c EXCEPT !.pc = "network"])]
  /\ calls' = (calls \ {c}) \cup Abandoned({c})
  /\ UNCHANGED <<account, sessions, made>>

Next ==
  \/ \E t \in Tab : Boot(t) \/ Login(t) \/ Logout(t) \/ ChangePassword(t) \/ Read(t) \/ ManageUser(t)
  \/ \E c \in calls : Serve(c) \/ Receive(c) \/ Fail(c)
  \/ Expire

Spec == Init /\ [][Next]_vars
=============================================================================
