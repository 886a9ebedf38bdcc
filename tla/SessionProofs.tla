---------------------------- MODULE SessionProofs ----------------------------
(***************************************************************************)
(* For any number of browsers, tabs, accounts and calls: what a tab sends  *)
(* to change something is done in the name of the account it shows.        *)
(*                                                                         *)
(* The argument: a session never changes hands, a tab's token is that of a *)
(* session of the account it shows, a call carries the token its tab had   *)
(* with that account, and the token must be that of the cookie's session.  *)
(***************************************************************************)
EXTENDS SessionProps, TLAPS

Role == PlatformRole \cup {"none"}

AccountType == [role : Role, disabled : BOOLEAN, must : BOOLEAN, pw : Nat, tv : Nat]

Status == {"booting", "anonymous", "authenticated"}

Kind == {"login", "session", "logout", "password", "read", "create", "change", "reset"}

Pc == {"sent", "handle", "write", "ok", "unauthenticated", "csrf_invalid",
       "password_change_required", "forbidden", "wrong_password", "conflict", "network"}

What == Nat \cup PlatformRole \cup {"", "enable", "disable", "require", "lift"}

SessionType == [user : User, pw : What, live : BOOLEAN, late : BOOLEAN]

TabType == [status : Status, user : User \cup {None}, role : Role, must : BOOLEAN,
            csrf : Nat, fired : BOOLEAN]

CallType ==
  [n : Nat, tab : Tab \cup {None}, kind : Kind, user : User \cup {None},
   what : What, cookie : Nat, csrf : Nat, as : User \cup {None},
   seen : {<<>>} \cup (Role \X Role), pc : Pc, actor : User \cup {None},
   row : AccountType \cup {None}, session : Nat]

TypeOK ==
  /\ account \in [User -> AccountType]
  /\ sessions \in Seq(SessionType)
  /\ cookie \in [Browser -> Nat]
  /\ tabs \in [Tab -> TabType]
  /\ calls \subseteq CallType
  /\ made \in Nat

\* The token of a tab, 0 for none, is that of a session of the account it shows.
TabOK(tab, ss) ==
  /\ tab.csrf # 0 => tab.csrf \in 1 .. Len(ss) /\ ss[tab.csrf].user = tab.user
  /\ tab.status = "authenticated" => tab.user # None

\* What a call carries and has been found by its handler.
CallOK(c, ss) ==
  /\ c.cookie \in 0 .. Len(ss)
  /\ c.csrf # 0 => c.csrf \in 1 .. Len(ss) /\ ss[c.csrf].user = c.as
  /\ c.session # 0 => c.session \in 1 .. Len(ss) /\ ss[c.session].user = c.user
  /\ c.actor # None /\ c.kind \notin Safe \cup {"login"} => c.actor = c.as
  /\ c.actor # None => c.cookie # 0 /\ ss[c.cookie].user = c.actor
  /\ c.pc \in {"handle", "write"} /\ c.kind # "login" => c.actor # None
  /\ c.pc \in {"handle", "write"} \/ (c.pc = "ok" /\ c.kind \in {"login", "session"}) => c.row \in AccountType
  /\ c.kind \in {"login", "create", "change", "reset"} => c.user # None
  /\ c.kind = "session" /\ c.pc = "ok" => c.user # None
  /\ c.kind = "create" => c.what \in PlatformRole

Inv ==
  /\ TypeOK
  /\ \A b \in Browser : cookie[b] \in 0 .. Len(sessions)
  /\ \A t \in Tab : TabOK(tabs[t], sessions)
  /\ \A c \in calls : CallOK(c, sessions)

-----------------------------------------------------------------------------
(* Sessions are added, and stay with their owner. *)
Extends(ss, more) ==
  /\ ss \in Seq(SessionType) /\ more \in Seq(SessionType)
  /\ Len(ss) <= Len(more)
  /\ \A i \in 1 .. Len(ss) : more[i].user = ss[i].user

LEMMA TabKept ==
  ASSUME NEW tab \in TabType, NEW ss, NEW more, Extends(ss, more), TabOK(tab, ss)
  PROVE  TabOK(tab, more)
  BY DEF TabOK, Extends, TabType

LEMMA CallKept ==
  ASSUME NEW c \in CallType, NEW ss, NEW more, Extends(ss, more), CallOK(c, ss)
  PROVE  CallOK(c, more)
  BY DEF CallOK, Extends, CallType

LEMMA SameSessions ==
  ASSUME NEW ss \in Seq(SessionType)
  PROVE  Extends(ss, ss)
  BY DEF Extends

LEMMA EndedSessions ==
  ASSUME TypeOK, NEW u, NEW keep
  PROVE  Extends(sessions, Revoked(u, keep))
<1>1. DOMAIN sessions = 1 .. Len(sessions) /\ Len(sessions) \in Nat
  BY DEF TypeOK
<1>2. \A s \in 1 .. Len(sessions) : sessions[s] \in SessionType
  BY DEF TypeOK
<1> DEFINE ended(s) == [sessions[s] EXCEPT !.live = @ /\ (sessions[s].user # u \/ s = keep)]
<1>3. \A s \in 1 .. Len(sessions) : ended(s) \in SessionType /\ ended(s).user = sessions[s].user
  BY <1>2 DEF SessionType
<1>4. Revoked(u, keep) = [s \in 1 .. Len(sessions) |-> ended(s)]
  BY <1>1 DEF Revoked
<1> HIDE DEF ended
<1>5. Revoked(u, keep) \in Seq(SessionType) /\ Len(Revoked(u, keep)) = Len(sessions)
  BY <1>1, <1>3, <1>4
<1> QED
  BY <1>1, <1>3, <1>4, <1>5 DEF Extends, TypeOK

LEMMA EditedSessions ==
  ASSUME NEW ss \in Seq(SessionType), NEW more, NEW i \in Nat, NEW e \in SessionType,
         more = [ss EXCEPT ![i] = e], i \in 1 .. Len(ss) => e.user = ss[i].user
  PROVE  Extends(ss, more)
<1>1. DOMAIN ss = 1 .. Len(ss) /\ Len(ss) \in Nat
  OBVIOUS
<1>2. more = [j \in 1 .. Len(ss) |-> IF j = i THEN e ELSE ss[j]]
  BY <1>1
<1>a. \A j \in 1 .. Len(ss) : ss[j] \in SessionType
  OBVIOUS
<1>b. more \in [1 .. Len(ss) -> SessionType]
  BY <1>2, <1>a
<1>3. more \in Seq(SessionType) /\ Len(more) = Len(ss)
  BY <1>1, <1>b
<1> QED
  BY <1>1, <1>2, <1>3 DEF Extends

-----------------------------------------------------------------------------
(* The server: a call goes on or ends, sessions and accounts as the step does. *)
LEMMA ServedKeeps ==
  ASSUME Inv, NEW c \in calls, NEW to \in CallType, Goes(c, to), CallOK(to, sessions'),
         Extends(sessions, sessions'), account' \in [User -> AccountType],
         UNCHANGED <<cookie, tabs, made>>
  PROVE  Inv'
<1>1. calls' \subseteq (calls \ {c}) \cup {to}
  BY DEF Goes
<1>2. TypeOK'
  BY <1>1 DEF Inv, TypeOK, Extends
<1>3. \A d \in calls' : CallOK(d, sessions')
  BY <1>1, CallKept DEF Inv, TypeOK
<1>4. \A t \in Tab : TabOK(tabs[t], sessions')
  BY TabKept DEF Inv, TypeOK
<1>5. \A b \in Browser : cookie[b] \in 0 .. Len(sessions')
  BY DEF Inv, TypeOK, Extends
<1> QED
  BY <1>2, <1>3, <1>4, <1>5 DEF Inv

LEMMA AnswerKeeps ==
  ASSUME Inv, NEW c \in calls, NEW answer \in Pc \ {"handle", "ok"}, Answers(c, answer),
         answer = "write" => c.pc = "handle" /\ c.kind # "login",
         UNCHANGED <<account, sessions, cookie, tabs, made>>
  PROVE  Inv'
<1> DEFINE to == [c EXCEPT !.pc = answer]
<1>1. c \in CallType /\ CallOK(c, sessions)
  BY DEF Inv, TypeOK
<1>2. to \in CallType /\ CallOK(to, sessions)
  BY <1>1 DEF CallType, CallOK
<1>3. Goes(c, to)
  BY DEF Answers
<1> QED
  BY <1>2, <1>3, ServedKeeps, SameSessions DEF Inv, TypeOK

LEMMA AuthenticateKeeps ==
  ASSUME Inv, NEW c \in calls, Authenticate(c), UNCHANGED <<cookie, tabs, made>>
  PROVE  Inv'
<1> DEFINE a == Admission(c)
           user == sessions[c.cookie].user
           to == IF a # "handle" THEN [c EXCEPT !.pc = a]
                 ELSE [c EXCEPT !.pc = IF c.kind = "read" THEN "ok" ELSE a,
                                !.actor = user, !.row = account[user]]
<1>1. c \in CallType /\ CallOK(c, sessions) /\ c.kind # "login" /\ c.pc = "sent"
  BY DEF Inv, TypeOK, Authenticate
<1>2. a \in {"unauthenticated", "csrf_invalid", "password_change_required", "forbidden", "handle"}
  BY DEF Admission
<1>3. a = "handle" => /\ c.cookie # 0
                      /\ c.kind \notin Safe => c.csrf = c.cookie
  BY DEF Admission, Live
<1>4. c.cookie # 0 => user \in User /\ account[user] \in AccountType
  <2> SUFFICES ASSUME c.cookie # 0
               PROVE  user \in User /\ account[user] \in AccountType
    OBVIOUS
  <2>1. c.cookie \in 1 .. Len(sessions)
    BY <1>1 DEF CallOK, CallType, Inv, TypeOK
  <2>2. sessions[c.cookie] \in SessionType
    BY <2>1 DEF Inv, TypeOK
  <2> QED
    BY <2>2 DEF SessionType, Inv, TypeOK
<1>5. None \notin User
  BY SessionAssumption
<1>6. to \in CallType /\ CallOK(to, sessions)
  <2>1. CASE a # "handle"
    <3>1. to = [c EXCEPT !.pc = a]
      BY <2>1
    <3> HIDE DEF a, to
    <3> QED
      BY <1>1, <1>2, <2>1, <3>1 DEF CallType, CallOK, Pc
  <2>2. CASE a = "handle"
    <3> DEFINE next == IF c.kind = "read" THEN "ok" ELSE "handle"
    <3>1. to = [c EXCEPT !.pc = next, !.actor = user, !.row = account[user]]
      BY <2>2
    <3>2. /\ next \in Pc /\ next \in {"ok", "handle"}
          /\ next = "ok" => c.kind = "read"
      <4>1. CASE c.kind = "read"
        BY <4>1 DEF Pc
      <4>2. CASE c.kind # "read"
        BY <4>2 DEF Pc
      <4> QED
        BY <4>1, <4>2
    <3>3. c.kind \notin Safe => user = c.as
      BY <1>1, <1>3, <2>2 DEF CallOK
    <3>4. user \in User /\ account[user] \in AccountType /\ c.cookie # 0
      BY <1>3, <1>4, <2>2
    <3>5. /\ to \in CallType
          /\ to.pc = next /\ to.actor = user /\ to.row = account[user]
          /\ to.kind = c.kind /\ to.cookie = c.cookie /\ to.csrf = c.csrf /\ to.as = c.as
          /\ to.session = c.session /\ to.user = c.user /\ to.what = c.what
      <4> HIDE DEF to, next, user
      <4> QED
        BY <1>1, <3>1, <3>2, <3>4 DEF CallType
    <3>6. sessions[to.cookie].user = to.actor
      BY <3>5
    <3> HIDE DEF to, next, user
    <3> QED
      BY <1>1, <1>5, <3>2, <3>3, <3>4, <3>5, <3>6 DEF CallOK
  <2> QED
    BY <2>1, <2>2
<1>7. Goes(c, to) /\ UNCHANGED <<account, sessions>>
  BY DEF Authenticate
<1> QED
  BY <1>6, <1>7, ServedKeeps, SameSessions DEF Inv, TypeOK

LEMMA VerifyLoginKeeps ==
  ASSUME Inv, NEW c \in calls, VerifyLogin(c), UNCHANGED <<cookie, tabs, made>>
  PROVE  Inv'
<1> DEFINE to == [c EXCEPT !.pc = "handle", !.row = account[c.user]]
<1>1. c \in CallType /\ CallOK(c, sessions) /\ c.kind = "login" /\ c.pc = "sent"
  BY DEF Inv, TypeOK, VerifyLogin
<1>2. c.user \in User /\ account[c.user] \in AccountType
  BY <1>1 DEF CallOK, CallType, Inv, TypeOK
<1>3. CASE Answers(c, "unauthenticated") /\ UNCHANGED <<account, sessions>>
  BY <1>1, <1>3, AnswerKeeps DEF Pc
<1>4. CASE Goes(c, to) /\ UNCHANGED <<account, sessions>>
  <2>1. to \in CallType /\ CallOK(to, sessions)
    BY <1>1, <1>2 DEF CallType, CallOK, Pc
  <2> QED
    BY <1>4, <2>1, ServedKeeps, SameSessions DEF Inv, TypeOK
<1> QED
  BY <1>3, <1>4 DEF VerifyLogin

LEMMA CreateSessionKeeps ==
  ASSUME Inv, NEW c \in calls, CreateSession(c), UNCHANGED <<cookie, tabs, made>>
  PROVE  Inv'
<1> DEFINE new == [user |-> c.user, pw |-> c.what, live |-> TRUE,
                   late |-> account[c.user].tv # c.row.tv]
           to == [c EXCEPT !.pc = "ok", !.session = Len(sessions) + 1]
<1>1. c \in CallType /\ CallOK(c, sessions) /\ c.kind = "login" /\ c.pc = "handle"
  BY DEF Inv, TypeOK, CreateSession
<1>2. sessions \in Seq(SessionType) /\ Len(sessions) \in Nat
  BY DEF Inv, TypeOK
<1>3. new \in SessionType
  BY <1>1 DEF CallOK, CallType, SessionType
<1>4. sessions' = Append(sessions, new) /\ Goes(c, to) /\ UNCHANGED account
  BY DEF CreateSession
<1>5. new.user = c.user
  OBVIOUS
<1> HIDE DEF new
<1>6. Extends(sessions, sessions') /\ Len(sessions') = Len(sessions) + 1
      /\ sessions'[Len(sessions) + 1] = new
  BY <1>2, <1>3, <1>4 DEF Extends
<1>7. CallOK(c, sessions')
  BY <1>1, <1>6, CallKept
<1>8. PICK k \in Nat : k = Len(sessions) + 1
  BY <1>2
<1>9. to = [c EXCEPT !.pc = "ok", !.session = k] /\ k \in 1 .. Len(sessions')
      /\ sessions'[k].user = c.user
  BY <1>2, <1>5, <1>6, <1>8
<1> HIDE DEF to
<1>10. /\ to \in CallType
       /\ to.pc = "ok" /\ to.session = k
       /\ to.kind = c.kind /\ to.cookie = c.cookie /\ to.csrf = c.csrf /\ to.as = c.as
       /\ to.actor = c.actor /\ to.row = c.row /\ to.user = c.user /\ to.what = c.what
  BY <1>1, <1>8, <1>9 DEF CallType, Pc
<1>11. CallOK(to, sessions')
  BY <1>1, <1>7, <1>9, <1>10 DEF CallOK
<1> QED
  BY <1>4, <1>6, <1>10, <1>11, ServedKeeps DEF Inv, TypeOK

LEMMA GetSessionKeeps ==
  ASSUME Inv, NEW c \in calls, GetSession(c), UNCHANGED <<cookie, tabs, made>>
  PROVE  Inv'
<1> DEFINE to == [c EXCEPT !.pc = "ok", !.session = c.cookie, !.user = c.actor,
                           !.row = account[c.actor]]
<1>1. c \in CallType /\ CallOK(c, sessions) /\ c.kind = "session" /\ c.pc = "handle"
  BY DEF Inv, TypeOK, GetSession
<1>2. c.actor \in User /\ account[c.actor] \in AccountType
  BY <1>1 DEF CallOK, CallType, Inv, TypeOK
<1>3. c.cookie \in 1 .. Len(sessions) /\ sessions[c.cookie].user = c.actor
  BY <1>1 DEF CallOK, CallType, Inv, TypeOK
<1>4. to \in CallType /\ CallOK(to, sessions)
  BY <1>1, <1>2, <1>3 DEF CallType, CallOK, Pc, Safe
<1>5. Goes(c, to) /\ UNCHANGED <<account, sessions>>
  BY DEF GetSession
<1> HIDE DEF to
<1> QED
  BY <1>4, <1>5, ServedKeeps, SameSessions DEF Inv, TypeOK

LEMMA EndSessionKeeps ==
  ASSUME Inv, NEW c \in calls, EndSession(c), UNCHANGED <<cookie, tabs, made>>
  PROVE  Inv'
<1> DEFINE e == [sessions[c.cookie] EXCEPT !.live = FALSE]
           to == [c EXCEPT !.pc = "ok"]
<1>1. c \in CallType /\ CallOK(c, sessions) /\ c.kind = "logout" /\ c.pc = "handle"
  BY DEF Inv, TypeOK, EndSession
<1>2. c.cookie \in 1 .. Len(sessions) /\ sessions \in Seq(SessionType)
  BY <1>1 DEF CallOK, CallType, Inv, TypeOK
<1>3. sessions[c.cookie] \in SessionType
  BY <1>2
<1>4. e \in SessionType /\ e.user = sessions[c.cookie].user
  BY <1>3 DEF SessionType
<1>5. sessions' = [sessions EXCEPT ![c.cookie] = e] /\ Goes(c, to) /\ UNCHANGED account
  BY DEF EndSession, Answers
<1> HIDE DEF e
<1>6. Extends(sessions, sessions')
  BY <1>1, <1>2, <1>4, <1>5, EditedSessions DEF CallType
<1>7. CallOK(c, sessions')
  BY <1>1, <1>6, CallKept
<1>8. to \in CallType /\ CallOK(to, sessions')
  BY <1>1, <1>7 DEF CallType, CallOK, Pc
<1> HIDE DEF to
<1> QED
  BY <1>5, <1>6, <1>8, ServedKeeps DEF Inv, TypeOK

LEMMA CheckKeeps ==
  ASSUME Inv, NEW c \in calls, Check(c), UNCHANGED <<cookie, tabs, made>>
  PROVE  Inv'
<1>1. c.pc = "handle" /\ c.kind # "login" /\ UNCHANGED <<account, sessions>>
  BY DEF Check
<1>2. \E answer \in {"write", "wrong_password", "forbidden"} : Answers(c, answer)
  BY DEF Check
<1> QED
  BY <1>1, <1>2, AnswerKeeps DEF Pc

\* A transaction that writes one account and leaves each session its owner.
LEMMA WriteKeeps ==
  ASSUME Inv, NEW c \in calls, c.pc = "write", NEW answer \in {"ok", "conflict"},
         answer = "ok" => c.kind \notin {"login", "session"}, Answers(c, answer),
         Extends(sessions, sessions'), account' \in [User -> AccountType],
         UNCHANGED <<cookie, tabs, made>>
  PROVE  Inv'
<1> DEFINE to == [c EXCEPT !.pc = answer]
<1>1. c \in CallType /\ CallOK(c, sessions')
  BY CallKept DEF Inv, TypeOK
<1>2. to \in CallType /\ CallOK(to, sessions')
  BY <1>1 DEF CallType, CallOK, Pc
<1>3. Goes(c, to)
  BY DEF Answers
<1> QED
  BY <1>2, <1>3, ServedKeeps

LEMMA NewPasswordType ==
  ASSUME NEW user \in AccountType, NEW must \in BOOLEAN
  PROVE  NewPassword(user, must) \in AccountType /\ NewPassword(user, must).pw \in Nat
<1>1. PICK pw \in Nat, tv \in Nat : pw = user.pw + 1 /\ tv = user.tv + 1
  BY DEF AccountType
<1>2. [user EXCEPT !.pw = pw, !.must = must, !.tv = tv] \in AccountType
  BY DEF AccountType
<1>3. NewPassword(user, must) \in AccountType
  BY <1>1, <1>2 DEF NewPassword
<1> QED
  BY <1>3 DEF AccountType

LEMMA WritePasswordKeeps ==
  ASSUME Inv, NEW c \in calls, WritePassword(c), UNCHANGED <<cookie, tabs, made>>
  PROVE  Inv'
<1> DEFINE revoked == Revoked(c.actor, c.cookie)
           old == account[c.actor]
           row == NewPassword(old, FALSE)
           e == [revoked[c.cookie] EXCEPT !.pw = row.pw]
<1>1. c \in CallType /\ CallOK(c, sessions) /\ c.kind = "password" /\ c.pc = "write"
  BY DEF Inv, TypeOK, WritePassword
<1>2. c.cookie \in 1 .. Len(sessions) /\ c.actor \in User /\ Len(sessions) \in Nat
  BY <1>1 DEF CallOK, CallType, Inv, TypeOK
<1>3. old \in AccountType /\ account \in [User -> AccountType]
  BY <1>2 DEF Inv, TypeOK
<1>4. row \in AccountType /\ row.pw \in Nat
  BY <1>3, NewPasswordType
<1>5. account' = [account EXCEPT ![c.actor] = row]
  BY DEF WritePassword
<1>6. account' \in [User -> AccountType]
  <2> HIDE DEF row
  <2> QED
    BY <1>3, <1>4, <1>5
<1>7. Extends(sessions, revoked)
  BY EndedSessions DEF Inv
<1>8. revoked \in Seq(SessionType) /\ c.cookie \in 1 .. Len(revoked)
  BY <1>2, <1>7 DEF Extends
<1>9. sessions' = [revoked EXCEPT ![c.cookie] = e] /\ Answers(c, "ok")
  BY DEF WritePassword
<1> HIDE DEF row, revoked
<1>10. revoked[c.cookie] \in SessionType
  BY <1>8
<1>11. e \in SessionType /\ e.user = revoked[c.cookie].user
  BY <1>4, <1>10 DEF SessionType, What
<1> HIDE DEF e
<1>12. Extends(revoked, sessions')
  BY <1>1, <1>8, <1>9, <1>11, EditedSessions DEF CallType
<1>13. Extends(sessions, sessions')
  BY <1>7, <1>12 DEF Extends
<1> QED
  BY <1>1, <1>6, <1>9, <1>13, WriteKeeps

LEMMA WriteCreateKeeps ==
  ASSUME Inv, NEW c \in calls, WriteCreate(c), UNCHANGED <<cookie, tabs, made>>
  PROVE  Inv'
<1>1. c \in CallType /\ CallOK(c, sessions) /\ c.kind = "create" /\ c.pc = "write"
      /\ UNCHANGED sessions
  BY DEF Inv, TypeOK, WriteCreate
<1>2. c.what \in PlatformRole
  BY <1>1 DEF CallOK
<1>3. \A must \in BOOLEAN : [Account(c.what) EXCEPT !.must = must] \in AccountType
  BY <1>2 DEF Account, AccountType, Role
<1>4. account' \in [User -> AccountType] /\ \E answer \in {"ok", "conflict"} : Answers(c, answer)
  BY <1>3 DEF WriteCreate, Inv, TypeOK
<1> QED
  BY <1>1, <1>4, WriteKeeps, SameSessions DEF Inv, TypeOK

LEMMA WriteChangeKeeps ==
  ASSUME Inv, NEW c \in calls, WriteChange(c), UNCHANGED <<cookie, tabs, made>>
  PROVE  Inv'
<1> DEFINE old == account[c.user]
           row == CASE c.what \in PlatformRole -> [old EXCEPT !.role = c.what]
                    [] c.what = "disable"      -> [old EXCEPT !.disabled = TRUE, !.tv = old.tv + 1]
                    [] c.what = "enable"       -> [old EXCEPT !.disabled = FALSE]
                    [] OTHER                   -> [old EXCEPT !.must = (c.what = "require")]
<1>1. c \in CallType /\ CallOK(c, sessions) /\ c.kind = "change" /\ c.pc = "write"
  BY DEF Inv, TypeOK, WriteChange
<1>2. c.user \in User /\ old \in AccountType /\ account \in [User -> AccountType]
  BY <1>1 DEF CallOK, CallType, Inv, TypeOK
<1>3. row \in AccountType
  <2> HIDE DEF old
  <2>1. CASE c.what \in PlatformRole
    <3>1. row = [old EXCEPT !.role = c.what]
      BY <2>1 DEF PlatformRole
    <3> QED
      BY <1>2, <2>1, <3>1 DEF AccountType, Role
  <2>2. CASE c.what = "disable"
    <3>1. PICK tv \in Nat : tv = old.tv + 1
      BY <1>2 DEF AccountType
    <3>2. row = [old EXCEPT !.disabled = TRUE, !.tv = tv]
      BY <2>2, <3>1 DEF PlatformRole
    <3> QED
      BY <1>2, <3>2 DEF AccountType
  <2>3. CASE c.what = "enable"
    <3>1. row = [old EXCEPT !.disabled = FALSE]
      BY <2>3 DEF PlatformRole
    <3> QED
      BY <1>2, <3>1 DEF AccountType
  <2>4. CASE c.what \notin PlatformRole \cup {"disable", "enable"}
    <3>1. row = [old EXCEPT !.must = (c.what = "require")]
      BY <2>4
    <3> QED
      BY <1>2, <3>1 DEF AccountType
  <2> QED
    BY <2>1, <2>2, <2>3, <2>4
<1>4. account' = [account EXCEPT ![c.user] = row] /\ Answers(c, "ok")
  BY DEF WriteChange
<1> HIDE DEF row
<1>5. account' \in [User -> AccountType]
  BY <1>2, <1>3, <1>4
<1>6. Extends(sessions, sessions')
  <2>1. sessions' = Revoked(c.user, 0) \/ sessions' = sessions
    BY DEF WriteChange
  <2> QED
    BY <2>1, EndedSessions, SameSessions DEF Inv, TypeOK
<1> QED
  BY <1>1, <1>4, <1>5, <1>6, WriteKeeps

LEMMA WriteResetKeeps ==
  ASSUME Inv, NEW c \in calls, WriteReset(c), UNCHANGED <<cookie, tabs, made>>
  PROVE  Inv'
<1> DEFINE old == account[c.user]
           row == NewPassword(old, TRUE)
<1>1. c \in CallType /\ CallOK(c, sessions) /\ c.kind = "reset" /\ c.pc = "write"
  BY DEF Inv, TypeOK, WriteReset
<1>2. c.user \in User /\ old \in AccountType /\ account \in [User -> AccountType]
  BY <1>1 DEF CallOK, CallType, Inv, TypeOK
<1>3. row \in AccountType
  BY <1>2, NewPasswordType
<1>4. account' = [account EXCEPT ![c.user] = row] /\ Answers(c, "ok")
      /\ sessions' = Revoked(c.user, 0)
  BY DEF WriteReset
<1> HIDE DEF row
<1>5. account' \in [User -> AccountType] /\ Extends(sessions, sessions')
  BY <1>2, <1>3, <1>4, EndedSessions DEF Inv
<1> QED
  BY <1>1, <1>4, <1>5, WriteKeeps

LEMMA ServeKeeps ==
  ASSUME Inv, NEW c \in calls, Serve(c)
  PROVE  Inv'
  BY AuthenticateKeeps, VerifyLoginKeeps, CreateSessionKeeps, GetSessionKeeps, EndSessionKeeps,
     CheckKeeps, WritePasswordKeeps, WriteCreateKeeps, WriteChangeKeeps, WriteResetKeeps
  DEF Serve

-----------------------------------------------------------------------------
(* The tabs. *)
LEMMA BrowserOfType ==
  ASSUME NEW t \in Tab
  PROVE  BrowserOf(t) \in Browser /\ t \in BrowserOf(t)
  BY DEF BrowserOf, Tab

\* A call starts with what its tab has.
LEMMA CallType1 ==
  ASSUME Inv, NEW t \in Tab, NEW kind \in Kind, NEW user \in User \cup {None}, NEW what \in What,
         Free # {}, kind \in {"login", "create", "change", "reset"} => user # None,
         kind = "create" => what \in PlatformRole
  PROVE  Call(t, kind, user, what) \in CallType /\ CallOK(Call(t, kind, user, what), sessions)
<1> DEFINE n == CHOOSE m \in Free : TRUE
           b == BrowserOf(t)
           csrf == IF kind \in Safe THEN 0 ELSE tabs[t].csrf
           seen == IF user = None THEN <<>> ELSE <<tabs[t].role, account[user].role>>
           c == Call(t, kind, user, what)
<1>1. n \in Nat
  BY SessionAssumption DEF Free
<1>2. b \in Browser /\ cookie[b] \in 0 .. Len(sessions) /\ cookie[b] \in Nat
  BY BrowserOfType DEF Inv, TypeOK
<1>3. tabs[t] \in TabType /\ TabOK(tabs[t], sessions)
  BY DEF Inv, TypeOK
<1>4. csrf \in Nat /\ (csrf # 0 => csrf \in 1 .. Len(sessions) /\ sessions[csrf].user = tabs[t].user)
  BY <1>3 DEF TabType, TabOK
<1>5. seen \in {<<>>} \cup (Role \X Role)
  <2>1. CASE user = None
    BY <2>1
  <2>2. CASE user # None
    <3>1. account[user] \in AccountType
      BY <2>2 DEF Inv, TypeOK
    <3> QED
      BY <1>3, <2>2, <3>1 DEF TabType, AccountType
  <2> QED
    BY <2>1, <2>2
<1>6. tabs[t].user \in User \cup {None}
  BY <1>3 DEF TabType
<1>7. c = [n |-> n, tab |-> t, kind |-> kind, user |-> user, what |-> what, cookie |-> cookie[b],
           csrf |-> csrf, as |-> tabs[t].user, seen |-> seen, pc |-> "sent", actor |-> None,
           row |-> None, session |-> 0]
  BY DEF Call
<1> HIDE DEF n, b, csrf, seen, c
<1>8. c \in CallType
  BY <1>1, <1>2, <1>4, <1>5, <1>6, <1>7 DEF CallType, Pc
<1>9. CallOK(c, sessions)
  BY <1>2, <1>4, <1>7 DEF CallOK
<1> QED
  BY <1>8, <1>9 DEF c

\* A request adds its call, and nothing else.
LEMMA RequestKeeps ==
  ASSUME Inv, NEW t \in Tab, NEW kind \in Kind, NEW user \in User \cup {None}, NEW what \in What,
         kind \in {"login", "create", "change", "reset"} => user # None,
         kind = "create" => what \in PlatformRole,
         request(t, kind, user, what), UNCHANGED tabs
  PROVE  Inv'
<1>1. Free # {} /\ made' \in Nat
  BY DEF request, Room, Count, Inv, TypeOK
<1>2. Call(t, kind, user, what) \in CallType /\ CallOK(Call(t, kind, user, what), sessions)
  BY <1>1, CallType1
<1>3. /\ calls' = calls \cup {Call(t, kind, user, what)}
      /\ UNCHANGED <<account, sessions, cookie, tabs>>
  BY DEF request
<1> QED
  BY <1>1, <1>2, <1>3 DEF Inv, TypeOK

\* Passwords are numbers, and those who are signed in have an account.
LEMMA FormsKeep ==
  ASSUME Inv, NEW t \in Tab, Login(t) \/ Logout(t) \/ ChangePassword(t) \/ Read(t)
  PROVE  Inv'
<1>1. \A u \in User : account[u].pw \in What
  BY DEF Inv, TypeOK, AccountType, What
<1>2. CASE Login(t)
  <2>1. PICK u \in User : request(t, "login", u, account[u].pw)
    BY <1>2 DEF Login
  <2>2. u # None /\ UNCHANGED tabs
    BY <1>2, SessionAssumption DEF Login
  <2> QED
    BY <1>1, <2>1, <2>2, RequestKeeps DEF Kind
<1>3. CASE Logout(t)
  BY <1>3, RequestKeeps DEF Logout, Kind, What
<1>4. CASE ChangePassword(t)
  <2>1. tabs[t].user \in User
    BY <1>4 DEF ChangePassword, SignedIn, Inv, TypeOK, TabOK, TabType
  <2> QED
    BY <1>1, <1>4, <2>1, RequestKeeps DEF ChangePassword, Kind
<1>5. CASE Read(t)
  BY <1>5, RequestKeeps DEF Read, Kind, What
<1> QED
  BY <1>2, <1>3, <1>4, <1>5

LEMMA OfferType ==
  ASSUME Inv, NEW me, NEW role, NEW u \in User, NEW offer \in Offers(me, role, u)
  PROVE  /\ offer[1] \in {"create", "change", "reset"} /\ offer[2] \in What
         /\ offer[1] = "create" => offer[2] \in PlatformRole
<1> DEFINE roles == assignablePlatformRoles(role)
           toggle == IF account[u].disabled THEN "enable" ELSE "disable"
           flag == IF account[u].must THEN "lift" ELSE "require"
<1>1. roles \subseteq PlatformRole
  BY DEF assignablePlatformRoles, PlatformRole
<1>2. toggle \in What /\ flag \in What /\ "" \in What /\ PlatformRole \subseteq What
  BY DEF What
<1>3. \/ \E r \in roles : offer = <<"create", r>>
      \/ offer \in {<<"change", toggle>>, <<"change", flag>>, <<"reset", "">>}
      \/ \E r \in roles : offer = <<"change", r>>
  <2> HIDE DEF roles, toggle, flag
  <2> QED
    BY DEF Offers, roles, toggle, flag
<1> HIDE DEF roles, toggle, flag
<1>4. CASE \E r \in roles : offer = <<"create", r>>
  <2>1. PICK r \in roles : offer = <<"create", r>>
    BY <1>4
  <2> QED
    BY <1>1, <1>2, <2>1
<1>5. CASE \E r \in roles : offer = <<"change", r>>
  <2>1. PICK r \in roles : offer = <<"change", r>>
    BY <1>5
  <2> QED
    BY <1>1, <1>2, <2>1
<1>6. CASE offer \in {<<"change", toggle>>, <<"change", flag>>, <<"reset", "">>}
  <2>1. CASE offer = <<"change", toggle>>
    BY <1>2, <2>1
  <2>2. CASE offer = <<"change", flag>>
    BY <1>2, <2>2
  <2>3. CASE offer = <<"reset", "">>
    BY <1>2, <2>3
  <2> QED
    BY <1>6, <2>1, <2>2, <2>3
<1> QED
  BY <1>3, <1>4, <1>5, <1>6

LEMMA ManageUserKeeps ==
  ASSUME Inv, NEW t \in Tab, ManageUser(t)
  PROVE  Inv'
<1>1. PICK u \in User : \E offer \in Offers(tabs[t].user, tabs[t].role, u) :
        request(t, offer[1], u, offer[2])
  BY DEF ManageUser
<1>2. PICK offer \in Offers(tabs[t].user, tabs[t].role, u) : request(t, offer[1], u, offer[2])
  BY <1>1
<1>3. u # None /\ UNCHANGED tabs
  BY SessionAssumption DEF ManageUser
<1> QED
  BY <1>2, <1>3, OfferType, RequestKeeps DEF Kind

LEMMA AbandonedKept ==
  ASSUME Inv, NEW cs \in SUBSET calls, NEW d \in Abandoned(cs)
  PROVE  d \in CallType /\ CallOK(d, sessions)
<1>1. PICK c \in calls : d = [c EXCEPT !.tab = None]
  BY DEF Abandoned
<1>2. c \in CallType /\ CallOK(c, sessions)
  BY DEF Inv, TypeOK
<1> QED
  BY <1>1, <1>2 DEF CallType, CallOK

LEMMA BootKeeps ==
  ASSUME Inv, NEW t \in Tab, Boot(t)
  PROVE  Inv'
<1> DEFINE probe == Call(t, "session", None, 0)
           new == [probe EXCEPT !.as = None]
           blank == [Anonymous EXCEPT !.status = "booting"]
<1>1. Free # {} /\ made' \in Nat /\ UNCHANGED <<account, sessions, cookie>>
  BY DEF Boot, Room, Count, Inv, TypeOK
<1>2. probe \in CallType /\ CallOK(probe, sessions)
  BY <1>1, CallType1 DEF Kind, What
<1>3. probe.csrf = 0 /\ probe.actor = None /\ probe.kind = "session"
  BY DEF Call, Safe
<1> HIDE DEF probe
<1>4. new \in CallType /\ CallOK(new, sessions)
  BY <1>2, <1>3 DEF CallType, CallOK, Safe
<1> HIDE DEF new
<1>5. calls' = {c \in calls : c.tab # t} \cup Abandoned({c \in calls : c.tab = t}) \cup {new}
  BY DEF Boot, new, probe
<1>6. \A d \in calls' : d \in CallType /\ CallOK(d, sessions)
  BY <1>4, <1>5, AbandonedKept DEF Inv, TypeOK
<1>7. blank \in TabType /\ TabOK(blank, sessions)
  BY DEF Anonymous, TabType, TabOK, Status, Role
<1>8. tabs' = [tabs EXCEPT ![t] = blank]
  BY DEF Boot
<1> HIDE DEF blank
<1> QED
  BY <1>1, <1>6, <1>7, <1>8 DEF Inv, TypeOK

LEMMA ExpireKeeps ==
  ASSUME Inv, Expire
  PROVE  Inv'
<1>1. PICK s \in DOMAIN sessions : sessions' = [sessions EXCEPT ![s].live = FALSE]
  BY DEF Expire
<1> DEFINE e == [sessions[s] EXCEPT !.live = FALSE]
<1>2. s \in 1 .. Len(sessions) /\ s \in Nat /\ sessions[s] \in SessionType
  BY DEF Inv, TypeOK
<1>3. e \in SessionType /\ e.user = sessions[s].user
  BY <1>2 DEF SessionType
<1>4. sessions' = [sessions EXCEPT ![s] = e]
  BY <1>1
<1> HIDE DEF e
<1>5. Extends(sessions, sessions')
  BY <1>2, <1>3, <1>4, EditedSessions DEF Inv, TypeOK
<1>6. made' \in Nat /\ UNCHANGED <<account, cookie, tabs, calls>>
  BY DEF Expire, Count, Inv, TypeOK
<1>7. \A c \in calls : CallOK(c, sessions')
  BY <1>5, CallKept DEF Inv, TypeOK
<1>8. \A t \in Tab : TabOK(tabs[t], sessions')
  BY <1>5, TabKept DEF Inv, TypeOK
<1>9. \A b \in Browser : cookie[b] \in 0 .. Len(sessions')
  BY <1>5 DEF Inv, TypeOK, Extends
<1> QED
  BY <1>5, <1>6, <1>7, <1>8, <1>9 DEF Inv, TypeOK, Extends

-----------------------------------------------------------------------------
(* The answers. *)
LEMMA AnonymousOK ==
  ASSUME NEW fired \in BOOLEAN
  PROVE  /\ [Anonymous EXCEPT !.fired = fired] \in TabType
         /\ TabOK([Anonymous EXCEPT !.fired = fired], sessions)
<1>1. Anonymous \in TabType /\ Anonymous.csrf = 0 /\ Anonymous.status = "anonymous"
  BY DEF Anonymous, TabType, Status, Role
<1> QED
  BY <1>1 DEF TabType, TabOK

LEMMA SettledOK ==
  ASSUME Inv, NEW c \in CallType, CallOK(c, sessions), NEW tab \in TabType, TabOK(tab, sessions)
  PROVE  Settled(tab, c) \in TabType /\ TabOK(Settled(tab, c), sessions)
<1>1. CASE c.kind \in {"login", "session"} /\ c.pc = "ok"
  <2> DEFINE new == [status |-> "authenticated", user |-> c.user, role |-> c.row.role,
                     must |-> c.row.must, csrf |-> c.session, fired |-> FALSE]
  <2>1. Settled(tab, c) = new
    BY <1>1 DEF Settled
  <2>2. c.row \in AccountType /\ c.user # None
    BY <1>1 DEF CallOK
  <2>3. new \in TabType
    BY <2>2 DEF TabType, AccountType, CallType, Status
  <2>4. TabOK(new, sessions)
    BY <2>2 DEF TabOK, CallOK
  <2> QED
    BY <2>1, <2>3, <2>4
<1>2. CASE c.kind = "logout" \/ (c.kind = "session" /\ c.pc # "ok")
  <2>1. Settled(tab, c) = [Anonymous EXCEPT !.fired = tab.fired]
    BY <1>2 DEF Settled, Cleared
  <2>2. tab.fired \in BOOLEAN
    BY DEF TabType
  <2> QED
    BY <2>1, <2>2, AnonymousOK
<1>3. CASE c.kind = "password" /\ c.pc = "ok"
  <2>1. Settled(tab, c) = [tab EXCEPT !.must = FALSE]
    BY <1>3 DEF Settled
  <2> QED
    BY <2>1 DEF TabType, TabOK
<1>4. CASE /\ ~(c.kind \in {"login", "session"} /\ c.pc = "ok")
           /\ ~(c.kind = "logout" \/ (c.kind = "session" /\ c.pc # "ok"))
           /\ ~(c.kind = "password" /\ c.pc = "ok")
  BY <1>4 DEF Settled
<1> QED
  BY <1>1, <1>2, <1>3, <1>4

LEMMA HttpErrorOK ==
  ASSUME NEW c \in CallType, NEW tab \in TabType, TabOK(tab, sessions)
  PROVE  toHttpError(tab, c) \in TabType /\ TabOK(toHttpError(tab, c), sessions)
<1>1. fireUnauthorized(tab) \in TabType /\ TabOK(fireUnauthorized(tab), sessions)
  <2>1. CASE tab.fired \/ tab.status # "authenticated"
    <3>1. fireUnauthorized(tab) = [tab EXCEPT !.fired = TRUE]
      BY <2>1 DEF fireUnauthorized
    <3> QED
      BY <3>1 DEF TabType, TabOK
  <2>2. CASE ~(tab.fired \/ tab.status # "authenticated")
    <3>1. fireUnauthorized(tab) = [Anonymous EXCEPT !.fired = TRUE]
      BY <2>2 DEF fireUnauthorized
    <3> QED
      BY <3>1, AnonymousOK
  <2> QED
    BY <2>1, <2>2
<1> DEFINE must == tab.must \/ (c.pc = "password_change_required" /\ tab.status = "authenticated")
<1>2. must \in BOOLEAN
  BY DEF TabType
<1> HIDE DEF must
<1>3. [tab EXCEPT !.must = must] \in TabType /\ TabOK([tab EXCEPT !.must = must], sessions)
  BY <1>2 DEF TabType, TabOK
<1>4. \/ toHttpError(tab, c) = fireUnauthorized(tab)
      \/ toHttpError(tab, c) = [tab EXCEPT !.must = must]
  BY DEF toHttpError, must
<1> QED
  BY <1>1, <1>3, <1>4

LEMMA SetCookieOK ==
  ASSUME Inv, NEW c \in calls, NEW b \in Browser
  PROVE  /\ SetCookie(c, b) \in [Browser -> Nat]
         /\ \A x \in Browser : SetCookie(c, b)[x] \in 0 .. Len(sessions)
<1>1. c \in CallType /\ CallOK(c, sessions)
  BY DEF Inv, TypeOK
<1>2. c.session \in 0 .. Len(sessions) /\ c.session \in Nat /\ Len(sessions) \in Nat
  BY <1>1 DEF CallType, CallOK, Inv, TypeOK
<1>3. \E i \in {c.session, 0} :
        SetCookie(c, b) = cookie \/ SetCookie(c, b) = [cookie EXCEPT ![b] = i]
  BY DEF SetCookie
<1> QED
  BY <1>2, <1>3 DEF Inv, TypeOK

LEMMA ReceiveKeeps ==
  ASSUME Inv, NEW c \in calls, Receive(c)
  PROVE  Inv'
<1> DEFINE t == c.tab
           tab == Settled(toHttpError(tabs[t], c), c)
<1>1. c \in CallType /\ CallOK(c, sessions) /\ t \in Tab
  BY DEF Inv, TypeOK, Receive, CallType
<1>2. tabs[t] \in TabType /\ TabOK(tabs[t], sessions)
  BY <1>1 DEF Inv, TypeOK
<1>3. tab \in TabType /\ TabOK(tab, sessions)
  BY <1>1, <1>2, HttpErrorOK, SettledOK
<1>4. BrowserOf(t) \in Browser
  BY <1>1, BrowserOfType
<1>5. /\ cookie' = SetCookie(c, BrowserOf(t)) /\ tabs' = [tabs EXCEPT ![t] = tab]
      /\ calls' = calls \ {c} /\ UNCHANGED <<account, sessions, made>>
  BY DEF Receive
<1> HIDE DEF tab
<1>6. cookie' \in [Browser -> Nat] /\ \A x \in Browser : cookie'[x] \in 0 .. Len(sessions)
  BY <1>4, <1>5, SetCookieOK
<1> QED
  BY <1>1, <1>3, <1>5, <1>6 DEF Inv, TypeOK

LEMMA FailKeeps ==
  ASSUME Inv, NEW c \in calls, Fail(c)
  PROVE  Inv'
<1> DEFINE t == c.tab
           cut == [c EXCEPT !.pc = "network"]
           tab == Settled(tabs[t], cut)
<1>1. c \in CallType /\ CallOK(c, sessions) /\ t \in Tab
  BY DEF Inv, TypeOK, Fail, CallType
<1>2. tabs[t] \in TabType /\ TabOK(tabs[t], sessions)
  BY <1>1 DEF Inv, TypeOK
<1>3. cut \in CallType /\ CallOK(cut, sessions)
  BY <1>1 DEF CallType, CallOK, Pc
<1>4. tab \in TabType /\ TabOK(tab, sessions)
  BY <1>2, <1>3, SettledOK
<1>5. /\ cookie' = cookie \/ cookie' = SetCookie(c, BrowserOf(t))
      /\ tabs' = [tabs EXCEPT ![t] = tab] /\ calls' = (calls \ {c}) \cup Abandoned({c})
      /\ UNCHANGED <<account, sessions, made>>
  BY DEF Fail
<1> HIDE DEF tab
<1>6. cookie' \in [Browser -> Nat] /\ \A x \in Browser : cookie'[x] \in 0 .. Len(sessions)
  BY <1>1, <1>5, BrowserOfType, SetCookieOK DEF Inv, TypeOK
<1>7. \A d \in calls' : d \in CallType /\ CallOK(d, sessions)
  BY <1>1, <1>5, AbandonedKept DEF Inv, TypeOK
<1> QED
  BY <1>1, <1>4, <1>5, <1>6, <1>7 DEF Inv, TypeOK

-----------------------------------------------------------------------------
LEMMA InitInv ==
  ASSUME Init
  PROVE  Inv
<1>1. \A u \in User : account[u] \in AccountType
  BY DEF Init, Account, AccountType, Role, PlatformRole
<1>2. account \in [User -> AccountType]
  BY <1>1 DEF Init
<1>3. sessions = <<>> /\ Len(sessions) = 0 /\ sessions \in Seq(SessionType)
  BY DEF Init
<1>4. Anonymous \in TabType /\ TabOK(Anonymous, sessions)
  BY DEF Anonymous, TabType, TabOK, Status, Role
<1> QED
  BY <1>2, <1>3, <1>4 DEF Init, Inv, TypeOK

LEMMA NextKeeps ==
  ASSUME Inv, [Next]_vars
  PROVE  Inv'
<1>1. CASE \E t \in Tab : Login(t) \/ Logout(t) \/ ChangePassword(t) \/ Read(t)
  BY <1>1, FormsKeep
<1>2. CASE \E t \in Tab : Boot(t) \/ ManageUser(t)
  BY <1>2, BootKeeps, ManageUserKeeps
<1>3. CASE \E c \in calls : Serve(c) \/ Receive(c) \/ Fail(c)
  BY <1>3, ServeKeeps, ReceiveKeeps, FailKeeps
<1>4. CASE Expire
  BY <1>4, ExpireKeeps
<1>5. CASE UNCHANGED vars
  BY <1>5 DEF vars, Inv, TypeOK
<1> QED
  BY <1>1, <1>2, <1>3, <1>4, <1>5 DEF Next

\* Every reachable state is well-typed; sessions keep their owner, and tabs, cookies and
\* calls name sessions that were made, of the account the tab shows.
THEOREM SessionInvariance == Spec => []Inv
<1>1. Init => Inv
  BY InitInv
<1>2. Inv /\ [Next]_vars => Inv'
  BY NextKeeps
<1> QED
  BY <1>1, <1>2, PTL DEF Spec

\* A change is made in the name of the account the tab showed when it sent it,
\* for any number of tabs, browsers and accounts (middleware.ts:95-103).
THEOREM ChangesAreOnesOwn == Spec => []ActsAsShown
<1>1. Inv => ActsAsShown
  BY DEF Inv, CallOK, ActsAsShown
<1> QED
  BY <1>1, SessionInvariance, PTL

-----------------------------------------------------------------------------
(***************************************************************************)
(* Revocation.  Every revocation raises tokenVersion and ends the sessions *)
(* there are; a sign-in under way that has read the version of now has     *)
(* verified the password of now.                                           *)
(***************************************************************************)
LoginCurrent(c, user) ==
  /\ user.role # "none" /\ c.row.tv <= user.tv
  /\ c.row.tv = user.tv => user.pw = c.what /\ ~user.disabled

CallCurrent(c, acc) ==
  /\ c.kind \in {"change", "reset"} => acc[c.user].role # "none"
  /\ c.kind = "login" /\ c.pc = "handle" => LoginCurrent(c, acc[c.user])

SessionCurrent(s, user) ==
  user.role # "none" /\ (s.live /\ ~s.late => ~user.disabled /\ user.pw = s.pw)

Fresh(user) == user.role = "none" => user.pw = 0 /\ user.tv = 0 /\ ~user.disabled

CurrentInv ==
  /\ \A u \in User : Fresh(account[u])
  /\ \A s \in 1 .. Len(sessions) : SessionCurrent(sessions[s], account[sessions[s].user])
  /\ \A c \in calls : CallCurrent(c, account)

LEMMA CallsOnly ==
  ASSUME CurrentInv, UNCHANGED <<account, sessions>>, \A d \in calls' : CallCurrent(d, account)
  PROVE  CurrentInv'
  BY DEF CurrentInv

LEMMA GoesOn ==
  ASSUME CurrentInv, NEW c \in calls, NEW to, Goes(c, to), CallCurrent(to, account),
         UNCHANGED <<account, sessions>>
  PROVE  CurrentInv'
  BY CallsOnly DEF CurrentInv, Goes

\* Calls that are no sign-ins, or have their answer.
LEMMA MovesOn ==
  ASSUME Inv, CurrentInv, NEW c \in calls, NEW pc \in Pc, c.kind # "login" \/ pc # "handle",
         NEW acc, CallCurrent(c, acc)
  PROVE  CallCurrent([c EXCEPT !.pc = pc], acc)
<1>1. c \in CallType
  BY DEF Inv, TypeOK
<1> QED
  BY <1>1 DEF CallCurrent, CallType

LEMMA AuthenticateCurrent ==
  ASSUME Inv, CurrentInv, NEW c \in calls, Authenticate(c)
  PROVE  CurrentInv'
<1> DEFINE a == Admission(c)
           user == sessions[c.cookie].user
           row == account[user]
           pc == IF c.kind = "read" THEN "ok" ELSE a
           to == IF a # "handle" THEN [c EXCEPT !.pc = a]
                 ELSE [c EXCEPT !.pc = pc, !.actor = user, !.row = row]
<1>1. c \in CallType /\ CallCurrent(c, account) /\ c.kind # "login"
  BY DEF Inv, TypeOK, Authenticate, CurrentInv
<1>2. Goes(c, to) /\ UNCHANGED <<account, sessions>>
  BY DEF Authenticate
<1> HIDE DEF a, user, row, pc
<1>3. to.kind = c.kind /\ to.user = c.user
  BY <1>1 DEF CallType
<1> HIDE DEF to
<1>4. CallCurrent(to, account)
  BY <1>1, <1>3 DEF CallCurrent
<1> QED
  BY <1>2, <1>4, GoesOn

LEMMA VerifyLoginCurrent ==
  ASSUME Inv, CurrentInv, NEW c \in calls, VerifyLogin(c)
  PROVE  CurrentInv'
<1> DEFINE user == account[c.user]
           to == [c EXCEPT !.pc = "handle", !.row = user]
<1>1. c \in CallType /\ CallCurrent(c, account) /\ CallOK(c, sessions) /\ c.kind = "login"
  BY DEF Inv, TypeOK, VerifyLogin, CurrentInv
<1>2. user \in AccountType
  BY <1>1 DEF CallType, CallOK, Inv, TypeOK
<1>3. CASE Answers(c, "unauthenticated") /\ UNCHANGED <<account, sessions>>
  BY <1>1, <1>3, MovesOn, GoesOn DEF Answers, Pc
<1>4. CASE /\ Goes(c, to) /\ UNCHANGED <<account, sessions>>
           /\ user.role # "none" /\ ~user.disabled /\ user.pw = c.what
  <2>1. to.kind = "login" /\ to.user = c.user /\ to.what = c.what /\ to.row = user
    BY <1>1 DEF CallType
  <2>2. CallCurrent(to, account)
    BY <1>2, <1>4, <2>1 DEF CallCurrent, LoginCurrent, AccountType
  <2> QED
    BY <1>4, <2>2, GoesOn
<1> QED
  BY <1>3, <1>4 DEF VerifyLogin

LEMMA CreateSessionCurrent ==
  ASSUME Inv, CurrentInv, NEW c \in calls, CreateSession(c)
  PROVE  CurrentInv'
<1> DEFINE user == account[c.user]
           new == [user |-> c.user, pw |-> c.what, live |-> TRUE, late |-> user.tv # c.row.tv]
           to == [c EXCEPT !.pc = "ok", !.session = Len(sessions) + 1]
<1>1. c \in CallType /\ CallCurrent(c, account) /\ c.kind = "login" /\ c.pc = "handle"
  BY DEF Inv, TypeOK, CreateSession, CurrentInv
<1>2. sessions' = Append(sessions, new) /\ Goes(c, to) /\ UNCHANGED account
  BY DEF CreateSession
<1>3. SessionCurrent(new, user)
  BY <1>1 DEF CallCurrent, LoginCurrent, SessionCurrent
<1>4. sessions \in Seq(SessionType) /\ Len(sessions) \in Nat
  BY DEF Inv, TypeOK
<1>5. new.user = c.user
  OBVIOUS
<1> HIDE DEF new, user
<1>6. /\ Len(sessions') = Len(sessions) + 1 /\ sessions'[Len(sessions) + 1] = new
      /\ \A s \in 1 .. Len(sessions) : sessions'[s] = sessions[s]
  BY <1>2, <1>4
<1>7. \A s \in 1 .. Len(sessions') : SessionCurrent(sessions'[s], account[sessions'[s].user])
  <2> SUFFICES ASSUME NEW s \in 1 .. Len(sessions')
               PROVE  SessionCurrent(sessions'[s], account[sessions'[s].user])
    OBVIOUS
  <2>1. CASE s \in 1 .. Len(sessions)
    BY <1>6, <2>1 DEF CurrentInv
  <2>2. CASE s = Len(sessions) + 1
    BY <1>3, <1>5, <1>6, <2>2 DEF user
  <2> QED
    BY <1>4, <1>6, <2>1, <2>2
<1>8. to.kind = "login" /\ to.pc = "ok"
  BY <1>1 DEF CallType
<1> HIDE DEF to
<1>9. CallCurrent(to, account)
  BY <1>8 DEF CallCurrent
<1> QED
  BY <1>2, <1>7, <1>9 DEF CurrentInv, Goes

\* A session ends.
LEMMA EndCurrent ==
  ASSUME Inv, CurrentInv, NEW i, sessions' = [sessions EXCEPT ![i].live = FALSE],
         UNCHANGED account
  PROVE  \A s \in 1 .. Len(sessions') : SessionCurrent(sessions'[s], account'[sessions'[s].user])
<1>1. sessions \in Seq(SessionType) /\ DOMAIN sessions = 1 .. Len(sessions) /\ Len(sessions) \in Nat
  BY DEF Inv, TypeOK
<1>2. \A s \in 1 .. Len(sessions) : sessions[s] \in SessionType
  BY <1>1
<1> DEFINE e == [sessions[i] EXCEPT !.live = FALSE]
<1>3. i \in 1 .. Len(sessions) => e \in SessionType /\ e.user = sessions[i].user /\ e.live = FALSE
  BY <1>2 DEF SessionType
<1>4. sessions' = [s \in 1 .. Len(sessions) |-> IF s = i THEN e ELSE sessions[s]]
  BY <1>1
<1> HIDE DEF e
<1>5. sessions' \in [1 .. Len(sessions) -> SessionType]
  BY <1>2, <1>3, <1>4
<1>6. Len(sessions') = Len(sessions)
  BY <1>1, <1>5
<1> QED
  BY <1>3, <1>4, <1>6 DEF CurrentInv, SessionCurrent

LEMMA EndSessionCurrent ==
  ASSUME Inv, CurrentInv, NEW c \in calls, EndSession(c)
  PROVE  CurrentInv'
<1>1. CallCurrent(c, account) /\ c.kind # "login"
  BY DEF EndSession, CurrentInv
<1>2. CallCurrent([c EXCEPT !.pc = "ok"], account)
  BY <1>1, MovesOn DEF Pc
<1>3. sessions' = [sessions EXCEPT ![c.cookie].live = FALSE] /\ UNCHANGED account
      /\ Goes(c, [c EXCEPT !.pc = "ok"])
  BY DEF EndSession, Answers
<1> QED
  BY <1>2, <1>3, EndCurrent DEF CurrentInv, Goes

LEMMA ExpireCurrent ==
  ASSUME Inv, CurrentInv, Expire
  PROVE  CurrentInv'
<1>1. \E s \in DOMAIN sessions : sessions' = [sessions EXCEPT ![s].live = FALSE]
  BY DEF Expire
<1>2. UNCHANGED <<account, calls>>
  BY DEF Expire
<1> QED
  BY <1>1, <1>2, EndCurrent DEF CurrentInv

LEMMA GetSessionCurrent ==
  ASSUME Inv, CurrentInv, NEW c \in calls, GetSession(c)
  PROVE  CurrentInv'
<1> DEFINE row == account[c.actor]
           to == [c EXCEPT !.pc = "ok", !.session = c.cookie, !.user = c.actor, !.row = row]
<1>1. c \in CallType /\ c.kind = "session"
  BY DEF Inv, TypeOK, GetSession
<1>2. Goes(c, to) /\ UNCHANGED <<account, sessions>>
  BY DEF GetSession
<1> HIDE DEF row
<1>3. to.kind = "session"
  BY <1>1 DEF CallType
<1> HIDE DEF to
<1>4. CallCurrent(to, account)
  BY <1>3 DEF CallCurrent
<1> QED
  BY <1>2, <1>4, GoesOn

LEMMA CheckCurrent ==
  ASSUME Inv, CurrentInv, NEW c \in calls, Check(c)
  PROVE  CurrentInv'
<1>1. c.kind # "login" /\ UNCHANGED <<account, sessions>> /\ CallCurrent(c, account)
  BY DEF Check, CurrentInv
<1>2. PICK pc \in {"write", "wrong_password", "forbidden"} : Answers(c, pc)
  BY DEF Check
<1>3. CallCurrent([c EXCEPT !.pc = pc], account)
  BY <1>1, MovesOn DEF Pc
<1> QED
  BY <1>1, <1>2, <1>3, GoesOn DEF Answers

-----------------------------------------------------------------------------
(* The transactions: one account is written, and sessions end. *)
\* Sign-ins under way stay right when the version goes up, or nothing they verified changes.
Supersedes(new, old) ==
  /\ new.role # "none" /\ old.tv <= new.tv
  /\ new.tv = old.tv => new.pw = old.pw /\ (new.disabled => old.disabled)

LEMMA WriteCurrent ==
  ASSUME Inv, CurrentInv, NEW c \in calls, c.pc = "write", Answers(c, "ok"),
         NEW u \in User, NEW new \in AccountType, account' = [account EXCEPT ![u] = new],
         new.role # "none", account[u].role # "none" => Supersedes(new, account[u]),
         \A s \in 1 .. Len(sessions') : SessionCurrent(sessions'[s], account'[sessions'[s].user])
  PROVE  CurrentInv'
<1>1. account \in [User -> AccountType] /\ account'[u] = new
      /\ \A v \in User \ {u} : account'[v] = account[v]
  BY DEF Inv, TypeOK
<1>2. \A v \in User : Fresh(account'[v])
  BY <1>1 DEF CurrentInv, Fresh
<1>3. ASSUME NEW d \in calls
      PROVE  CallCurrent(d, account')
  <2>1. d \in CallType /\ CallOK(d, sessions) /\ CallCurrent(d, account)
    BY DEF Inv, TypeOK, CurrentInv
  <2>2. d.kind \in {"login", "change", "reset"} => d.user \in User
    BY <2>1 DEF CallType, CallOK
  <2>3. d.kind \in {"change", "reset"} => account'[d.user].role # "none"
    BY <1>1, <2>1, <2>2 DEF CallCurrent
  <2>4. ASSUME d.kind = "login", d.pc = "handle"
        PROVE  LoginCurrent(d, account'[d.user])
    <3>1. LoginCurrent(d, account[d.user]) /\ d.user \in User
      BY <2>1, <2>2, <2>4 DEF CallCurrent
    <3>2. CASE d.user # u
      BY <1>1, <3>1, <3>2
    <3>3. CASE d.user = u
      <4>1. d.row \in AccountType
        BY <2>1, <2>4 DEF CallOK
      <4>2. d.row.tv \in Nat /\ new.tv \in Nat /\ account[u].tv \in Nat
        BY <1>1, <4>1 DEF AccountType
      <4>3. LoginCurrent(d, account[u]) /\ Supersedes(new, account[u])
        BY <3>1, <3>3 DEF LoginCurrent
      <4> QED
        BY <1>1, <3>3, <4>2, <4>3 DEF LoginCurrent, Supersedes
    <3> QED
      BY <3>2, <3>3
  <2> QED
    BY <2>3, <2>4 DEF CallCurrent
<1>4. CallCurrent([c EXCEPT !.pc = "ok"], account')
  BY <1>3, MovesOn DEF Pc
<1>5. \A d \in calls' : CallCurrent(d, account')
  BY <1>3, <1>4 DEF Answers, Goes
<1> QED
  BY <1>2, <1>5 DEF CurrentInv

LEMMA RevokedFields ==
  ASSUME Inv, NEW u, NEW keep
  PROVE  /\ Len(Revoked(u, keep)) = Len(sessions)
         /\ DOMAIN Revoked(u, keep) = 1 .. Len(sessions)
         /\ \A s \in 1 .. Len(sessions) :
              /\ Revoked(u, keep)[s] \in SessionType
              /\ Revoked(u, keep)[s].user = sessions[s].user
              /\ Revoked(u, keep)[s].pw = sessions[s].pw
              /\ Revoked(u, keep)[s].late = sessions[s].late
              /\ Revoked(u, keep)[s].live => sessions[s].live /\ (sessions[s].user # u \/ s = keep)
<1>1. DOMAIN sessions = 1 .. Len(sessions) /\ Len(sessions) \in Nat
  BY DEF Inv, TypeOK
<1>2. \A s \in 1 .. Len(sessions) : sessions[s] \in SessionType
  BY DEF Inv, TypeOK
<1> DEFINE on(s) == sessions[s].live /\ (sessions[s].user # u \/ s = keep)
           ended(s) == [sessions[s] EXCEPT !.live = on(s)]
<1>3. \A s \in 1 .. Len(sessions) : on(s) \in BOOLEAN
  BY <1>2 DEF SessionType
<1>4. Revoked(u, keep) = [s \in 1 .. Len(sessions) |-> ended(s)]
  BY <1>1 DEF Revoked
<1>5. ASSUME NEW s \in 1 .. Len(sessions)
      PROVE  /\ ended(s) \in SessionType
             /\ ended(s).user = sessions[s].user /\ ended(s).pw = sessions[s].pw
             /\ ended(s).late = sessions[s].late /\ (ended(s).live => on(s))
  <2>1. on(s) \in BOOLEAN /\ sessions[s] \in SessionType
    BY <1>2, <1>3
  <2> HIDE DEF on
  <2> QED
    BY <2>1 DEF SessionType
<1> HIDE DEF ended
<1>6. Revoked(u, keep) \in Seq(SessionType) /\ Len(Revoked(u, keep)) = Len(sessions)
  BY <1>1, <1>4, <1>5
<1> QED
  BY <1>1, <1>4, <1>5, <1>6

\* All sessions of the account end, and its role stays or is given.
LEMMA RevokedCurrent ==
  ASSUME Inv, CurrentInv, NEW u \in User, NEW new \in AccountType, new.role # "none",
         account' = [account EXCEPT ![u] = new], sessions' = Revoked(u, 0)
  PROVE  \A s \in 1 .. Len(sessions') : SessionCurrent(sessions'[s], account'[sessions'[s].user])
<1>1. account \in [User -> AccountType] /\ sessions \in Seq(SessionType) /\ Len(sessions) \in Nat
  BY DEF Inv, TypeOK
<1> SUFFICES ASSUME NEW s \in 1 .. Len(sessions')
             PROVE  SessionCurrent(sessions'[s], account'[sessions'[s].user])
  OBVIOUS
<1>2. s \in 1 .. Len(sessions) /\ s # 0
  BY <1>1, RevokedFields
<1>3. /\ sessions'[s].user = sessions[s].user /\ sessions'[s].pw = sessions[s].pw
      /\ sessions'[s].late = sessions[s].late
      /\ sessions'[s].live => sessions[s].live /\ sessions[s].user # u
  BY <1>2, RevokedFields
<1>4. SessionCurrent(sessions[s], account[sessions[s].user]) /\ sessions[s].user \in User
  <2>1. sessions[s] \in SessionType
    BY <1>1, <1>2
  <2> QED
    BY <1>2, <2>1 DEF CurrentInv, SessionType
<1>5. CASE sessions[s].user = u
  BY <1>1, <1>3, <1>5 DEF SessionCurrent
<1>6. CASE sessions[s].user # u
  BY <1>1, <1>3, <1>4, <1>6 DEF SessionCurrent
<1> QED
  BY <1>5, <1>6

\* No session is touched: nothing the sessions depend on is, either.
LEMMA UntouchedCurrent ==
  ASSUME Inv, CurrentInv, NEW u \in User, NEW new \in AccountType, new.role # "none",
         account' = [account EXCEPT ![u] = new], UNCHANGED sessions,
         account[u].role # "none" => new.pw = account[u].pw /\ (new.disabled => account[u].disabled)
  PROVE  \A s \in 1 .. Len(sessions') : SessionCurrent(sessions'[s], account'[sessions'[s].user])
<1>1. account \in [User -> AccountType] /\ sessions \in Seq(SessionType) /\ Len(sessions) \in Nat
  BY DEF Inv, TypeOK
<1> SUFFICES ASSUME NEW s \in 1 .. Len(sessions)
             PROVE  SessionCurrent(sessions[s], account'[sessions[s].user])
  OBVIOUS
<1>2. SessionCurrent(sessions[s], account[sessions[s].user]) /\ sessions[s].user \in User
  <2>1. sessions[s] \in SessionType
    BY <1>1
  <2> QED
    BY <2>1 DEF CurrentInv, SessionType
<1>3. CASE sessions[s].user = u
  BY <1>1, <1>2, <1>3 DEF SessionCurrent
<1>4. CASE sessions[s].user # u
  BY <1>1, <1>2, <1>4 DEF SessionCurrent
<1> QED
  BY <1>3, <1>4

LEMMA NewPasswordSupersedes ==
  ASSUME NEW old \in AccountType, NEW must \in BOOLEAN, old.role # "none"
  PROVE  LET new == NewPassword(old, must) IN
         new \in AccountType /\ Supersedes(new, old) /\ new.disabled = old.disabled
<1>1. PICK pw \in Nat, tv \in Nat : pw = old.pw + 1 /\ tv = old.tv + 1
  BY DEF AccountType
<1> DEFINE new == [old EXCEPT !.pw = pw, !.must = must, !.tv = tv]
<1>2. new \in AccountType /\ new.role = old.role /\ new.tv = tv /\ new.disabled = old.disabled
  BY DEF AccountType
<1>3. NewPassword(old, must) = new
  BY <1>1 DEF NewPassword
<1>4. old.tv \in Nat
  BY DEF AccountType
<1> HIDE DEF new
<1> QED
  BY <1>1, <1>2, <1>3, <1>4 DEF Supersedes

LEMMA WriteResetCurrent ==
  ASSUME Inv, CurrentInv, NEW c \in calls, WriteReset(c)
  PROVE  CurrentInv'
<1> DEFINE new == NewPassword(account[c.user], TRUE)
<1>1. c \in CallType /\ CallOK(c, sessions) /\ CallCurrent(c, account) /\ c.kind = "reset"
  BY DEF Inv, TypeOK, CurrentInv, WriteReset
<1>2. c.user \in User /\ account[c.user].role # "none"
  BY <1>1 DEF CallType, CallOK, CallCurrent
<1>3. account[c.user] \in AccountType
  BY <1>2 DEF Inv, TypeOK
<1>4. new \in AccountType /\ Supersedes(new, account[c.user])
  BY <1>2, <1>3, NewPasswordSupersedes
<1>5. /\ account' = [account EXCEPT ![c.user] = new] /\ sessions' = Revoked(c.user, 0)
      /\ c.pc = "write" /\ Answers(c, "ok")
  BY DEF WriteReset
<1> HIDE DEF new
<1>6. new.role # "none"
  BY <1>4 DEF Supersedes
<1> QED
  BY <1>2, <1>4, <1>5, <1>6, WriteCurrent, RevokedCurrent

\* The caller's own session goes on, with the new password.
LEMMA WritePasswordCurrent ==
  ASSUME Inv, CurrentInv, NEW c \in calls, WritePassword(c)
  PROVE  CurrentInv'
<1> DEFINE u == c.actor
           new == NewPassword(account[u], FALSE)
           revoked == Revoked(u, c.cookie)
           e == [revoked[c.cookie] EXCEPT !.pw = new.pw]
<1>1. c \in CallType /\ CallOK(c, sessions) /\ c.kind = "password" /\ c.pc = "write"
  BY DEF Inv, TypeOK, WritePassword
<1>2. /\ u \in User /\ c.cookie \in 1 .. Len(sessions) /\ sessions[c.cookie].user = u
      /\ Len(sessions) \in Nat
  BY <1>1 DEF CallType, CallOK, Inv, TypeOK
<1>3. account[u].role # "none" /\ account[u] \in AccountType
  BY <1>2 DEF CurrentInv, SessionCurrent, Inv, TypeOK
<1>4. new \in AccountType /\ Supersedes(new, account[u]) /\ new.disabled = account[u].disabled
  BY <1>3, NewPasswordSupersedes
<1>5. /\ account' = [account EXCEPT ![u] = new] /\ Answers(c, "ok")
      /\ sessions' = [revoked EXCEPT ![c.cookie] = e]
  BY DEF WritePassword
<1>6. new.role # "none"
  BY <1>4 DEF Supersedes
<1> HIDE DEF new
<1>7. account'[u] = new /\ \A v \in User \ {u} : account'[v] = account[v]
  BY <1>2, <1>5 DEF Inv, TypeOK
<1>8. /\ revoked[c.cookie] \in SessionType /\ DOMAIN revoked = 1 .. Len(sessions)
      /\ Len(revoked) = Len(sessions)
  BY <1>2, RevokedFields
<1>9. /\ e.user = u /\ e.pw = new.pw /\ e.late = sessions[c.cookie].late
      /\ e.live => sessions[c.cookie].live
  <2>1. /\ revoked[c.cookie].user = u /\ revoked[c.cookie].late = sessions[c.cookie].late
        /\ revoked[c.cookie].live => sessions[c.cookie].live
    BY <1>2, RevokedFields
  <2> HIDE DEF revoked
  <2> QED
    BY <1>8, <2>1 DEF SessionType
<1>10. sessions' = [s \in 1 .. Len(sessions) |-> IF s = c.cookie THEN e ELSE revoked[s]]
  BY <1>5, <1>8
<1>11. \A s \in 1 .. Len(sessions) : s # c.cookie =>
         /\ revoked[s].user = sessions[s].user /\ revoked[s].pw = sessions[s].pw
         /\ revoked[s].late = sessions[s].late
         /\ revoked[s].live => sessions[s].live /\ sessions[s].user # u
  BY RevokedFields
<1> HIDE DEF revoked, e
<1>12. Len(sessions') = Len(sessions)
  BY <1>2, <1>10
<1>13. ASSUME NEW s \in 1 .. Len(sessions')
       PROVE  SessionCurrent(sessions'[s], account'[sessions'[s].user])
  <2>1. s \in 1 .. Len(sessions) /\ sessions[s] \in SessionType
    BY <1>12 DEF Inv, TypeOK
  <2>2. SessionCurrent(sessions[s], account[sessions[s].user]) /\ sessions[s].user \in User
    BY <2>1 DEF CurrentInv, SessionType
  <2>3. CASE s = c.cookie
    <3>1. sessions'[s] = e
      BY <1>10, <2>1, <2>3
    <3> QED
      BY <1>2, <1>4, <1>6, <1>7, <1>9, <2>2, <2>3, <3>1 DEF SessionCurrent
  <2>4. CASE s # c.cookie
    <3>1. sessions'[s] = revoked[s]
      BY <1>10, <2>1, <2>4
    <3>2. CASE sessions[s].user = u
      BY <1>6, <1>7, <1>11, <2>1, <2>4, <3>1, <3>2 DEF SessionCurrent
    <3>3. CASE sessions[s].user # u
      BY <1>7, <1>11, <2>1, <2>2, <2>4, <3>1, <3>3 DEF SessionCurrent
    <3> QED
      BY <3>2, <3>3
  <2> QED
    BY <2>3, <2>4
<1> QED
  BY <1>1, <1>2, <1>4, <1>5, <1>6, <1>13, WriteCurrent

\* Someone who had no account has no session, and no sign-in that was verified.
LEMMA WriteCreateCurrent ==
  ASSUME Inv, CurrentInv, NEW c \in calls, WriteCreate(c)
  PROVE  CurrentInv'
<1>1. c \in CallType /\ CallOK(c, sessions) /\ c.kind = "create" /\ c.pc = "write"
      /\ UNCHANGED sessions
  BY DEF Inv, TypeOK, WriteCreate
<1>2. c.user \in User /\ c.what \in PlatformRole /\ CallCurrent(c, account)
  BY <1>1 DEF CallType, CallOK, CurrentInv
<1>3. CASE Answers(c, "conflict") /\ UNCHANGED account
  BY <1>1, <1>2, <1>3, MovesOn, GoesOn DEF Answers, Pc
<1>4. CASE account[c.user].role = "none" /\ Answers(c, "ok") /\ ~UNCHANGED account
  <2>1. PICK must \in BOOLEAN :
          account' = [account EXCEPT ![c.user] = [Account(c.what) EXCEPT !.must = must]]
    BY <1>4 DEF WriteCreate
  <2> DEFINE new == [Account(c.what) EXCEPT !.must = must]
  <2>2. new \in AccountType /\ new.role # "none"
    BY <1>2 DEF Account, AccountType, Role, PlatformRole
  <2>3. account' = [account EXCEPT ![c.user] = new]
    BY <2>1
  <2> HIDE DEF new
  <2> QED
    BY <1>1, <1>2, <1>4, <2>2, <2>3, WriteCurrent, UntouchedCurrent
<1>5. CASE Answers(c, "ok") /\ UNCHANGED account
  BY <1>1, <1>2, <1>5, MovesOn, GoesOn DEF Answers, Pc
<1> QED
  BY <1>3, <1>4, <1>5 DEF WriteCreate

LEMMA WriteChangeCurrent ==
  ASSUME Inv, CurrentInv, NEW c \in calls, WriteChange(c)
  PROVE  CurrentInv'
<1> DEFINE old == account[c.user]
           new == CASE c.what \in PlatformRole -> [old EXCEPT !.role = c.what]
                    [] c.what = "disable"      -> [old EXCEPT !.disabled = TRUE, !.tv = old.tv + 1]
                    [] c.what = "enable"       -> [old EXCEPT !.disabled = FALSE]
                    [] OTHER                   -> [old EXCEPT !.must = (c.what = "require")]
<1>1. c \in CallType /\ CallOK(c, sessions) /\ CallCurrent(c, account) /\ c.kind = "change"
  BY DEF Inv, TypeOK, CurrentInv, WriteChange
<1>2. c.user \in User /\ old.role # "none" /\ old \in AccountType
  BY <1>1 DEF CallType, CallOK, CallCurrent, Inv, TypeOK
<1>3. /\ account' = [account EXCEPT ![c.user] = new]
      /\ sessions' = IF c.what = "disable" THEN Revoked(c.user, 0) ELSE sessions
      /\ c.pc = "write" /\ Answers(c, "ok")
  BY DEF WriteChange
<1> HIDE DEF old
<1>4. CASE c.what = "disable"
  <2>1. PICK tv \in Nat : tv = old.tv + 1
    BY <1>2 DEF AccountType
  <2>2. new = [old EXCEPT !.disabled = TRUE, !.tv = tv]
    BY <1>4, <2>1 DEF PlatformRole
  <2>3. old.tv \in Nat
    BY <1>2 DEF AccountType
  <2> HIDE DEF new
  <2>4. new \in AccountType /\ new.tv = tv /\ new.role = old.role
    BY <1>2, <2>2 DEF AccountType
  <2>5. new \in AccountType /\ Supersedes(new, old)
    BY <1>2, <2>1, <2>3, <2>4 DEF Supersedes
  <2>6. sessions' = Revoked(c.user, 0) /\ new.role # "none"
    BY <1>3, <1>4, <2>5 DEF Supersedes
  <2> QED
    BY <1>2, <1>3, <2>5, <2>6, WriteCurrent, RevokedCurrent DEF old
<1>5. CASE c.what # "disable"
  <2>1. /\ new \in AccountType /\ new.role # "none"
        /\ new.tv = old.tv /\ new.pw = old.pw /\ (new.disabled => old.disabled)
    <3>1. CASE c.what \in PlatformRole
      <4>1. new = [old EXCEPT !.role = c.what]
        BY <3>1 DEF PlatformRole
      <4> HIDE DEF new
      <4> QED
        BY <1>2, <3>1, <4>1 DEF AccountType, Role, PlatformRole
    <3>2. CASE c.what = "enable"
      <4>1. new = [old EXCEPT !.disabled = FALSE]
        BY <3>2 DEF PlatformRole
      <4> HIDE DEF new
      <4> QED
        BY <1>2, <4>1 DEF AccountType
    <3>3. CASE c.what \notin PlatformRole \cup {"enable"}
      <4>1. new = [old EXCEPT !.must = (c.what = "require")]
        BY <1>5, <3>3
      <4> HIDE DEF new
      <4> QED
        BY <1>2, <4>1 DEF AccountType
    <3> QED
      BY <3>1, <3>2, <3>3
  <2> HIDE DEF new
  <2>2. old.tv \in Nat /\ UNCHANGED sessions
    BY <1>2, <1>3, <1>5 DEF AccountType
  <2>3. Supersedes(new, old)
    BY <2>1, <2>2 DEF Supersedes
  <2> QED
    BY <1>2, <1>3, <2>1, <2>2, <2>3, WriteCurrent, UntouchedCurrent DEF old
<1> QED
  BY <1>4, <1>5

LEMMA ServeCurrent ==
  ASSUME Inv, CurrentInv, NEW c \in calls, Serve(c)
  PROVE  CurrentInv'
  BY AuthenticateCurrent, VerifyLoginCurrent, CreateSessionCurrent, GetSessionCurrent,
     EndSessionCurrent, CheckCurrent, WritePasswordCurrent, WriteCreateCurrent,
     WriteChangeCurrent, WriteResetCurrent
  DEF Serve

-----------------------------------------------------------------------------
(* The tabs start calls and leave calls alone. *)
LEMMA RequestCurrent ==
  ASSUME CurrentInv, NEW t, NEW kind, NEW user, NEW what, request(t, kind, user, what),
         kind \in {"change", "reset"} => account[user].role # "none"
  PROVE  CurrentInv'
<1> DEFINE c == Call(t, kind, user, what)
<1>1. c.kind = kind /\ c.user = user /\ c.pc = "sent"
  BY DEF Call
<1> HIDE DEF c
<1>2. CallCurrent(c, account)
  BY <1>1 DEF CallCurrent
<1>3. calls' = calls \cup {c} /\ UNCHANGED <<account, sessions>>
  BY DEF request, c
<1> QED
  BY <1>2, <1>3, CallsOnly DEF CurrentInv

LEMMA FormsCurrent ==
  ASSUME CurrentInv, NEW t \in Tab, Login(t) \/ Logout(t) \/ ChangePassword(t) \/ Read(t)
  PROVE  CurrentInv'
<1>1. CASE Login(t)
  <2>1. PICK u \in User : request(t, "login", u, account[u].pw)
    BY <1>1 DEF Login
  <2> QED
    BY <2>1, RequestCurrent
<1>2. CASE Logout(t)
  BY <1>2, RequestCurrent DEF Logout
<1>3. CASE ChangePassword(t)
  BY <1>3, RequestCurrent DEF ChangePassword
<1>4. CASE Read(t)
  BY <1>4, RequestCurrent DEF Read
<1> QED
  BY <1>1, <1>2, <1>3, <1>4

\* Only accounts that are there are changed.
LEMMA ManageUserCurrent ==
  ASSUME CurrentInv, NEW t \in Tab, ManageUser(t)
  PROVE  CurrentInv'
<1> DEFINE offers(u) == Offers(tabs[t].user, tabs[t].role, u)
<1>1. PICK u \in User : \E offer \in offers(u) : request(t, offer[1], u, offer[2])
  BY DEF ManageUser
<1>2. PICK offer \in offers(u) : request(t, offer[1], u, offer[2])
  BY <1>1
<1>3. account[u].role = "none" => offer[1] = "create"
  <2> SUFFICES ASSUME account[u].role = "none"
               PROVE  offer[1] = "create"
    OBVIOUS
  <2>1. PICK r \in assignablePlatformRoles(tabs[t].role) : offer = <<"create", r>>
    BY DEF Offers
  <2> QED
    BY <2>1
<1> QED
  BY <1>2, <1>3, RequestCurrent

LEMMA AbandonedCurrent ==
  ASSUME Inv, CurrentInv, NEW cs \in SUBSET calls, NEW d \in Abandoned(cs)
  PROVE  CallCurrent(d, account)
<1>1. PICK c \in calls : d = [c EXCEPT !.tab = None]
  BY DEF Abandoned
<1>2. c \in CallType /\ CallCurrent(c, account)
  BY DEF Inv, TypeOK, CurrentInv
<1>3. d.kind = c.kind /\ d.user = c.user /\ d.what = c.what /\ d.row = c.row /\ d.pc = c.pc
  BY <1>1, <1>2 DEF CallType
<1> QED
  BY <1>2, <1>3 DEF CallCurrent, LoginCurrent

LEMMA BootCurrent ==
  ASSUME Inv, CurrentInv, NEW t \in Tab, Boot(t)
  PROVE  CurrentInv'
<1> DEFINE new == [Call(t, "session", None, 0) EXCEPT !.as = None]
<1>1. new.kind = "session"
  BY DEF Call
<1>2. /\ calls' = {c \in calls : c.tab # t} \cup Abandoned({c \in calls : c.tab = t}) \cup {new}
      /\ UNCHANGED <<account, sessions>>
  BY DEF Boot
<1> HIDE DEF new
<1>3. CallCurrent(new, account)
  BY <1>1 DEF CallCurrent
<1> QED
  BY <1>2, <1>3, AbandonedCurrent, CallsOnly DEF CurrentInv

LEMMA AnswersCurrent ==
  ASSUME Inv, CurrentInv, NEW c \in calls, Receive(c) \/ Fail(c)
  PROVE  CurrentInv'
<1>1. calls' \subseteq calls \cup Abandoned({c}) /\ UNCHANGED <<account, sessions>>
  BY DEF Receive, Fail
<1> QED
  BY <1>1, AbandonedCurrent, CallsOnly DEF CurrentInv

LEMMA InitCurrent ==
  ASSUME Init
  PROVE  CurrentInv
<1>1. \A u \in User : Fresh(account[u])
  BY DEF Init, Account, Fresh
<1>2. sessions = <<>> /\ Len(sessions) = 0 /\ calls = {}
  BY DEF Init
<1> QED
  BY <1>1, <1>2 DEF CurrentInv

LEMMA NextCurrent ==
  ASSUME Inv, CurrentInv, [Next]_vars
  PROVE  CurrentInv'
<1>1. CASE \E t \in Tab : Login(t) \/ Logout(t) \/ ChangePassword(t) \/ Read(t)
  BY <1>1, FormsCurrent
<1>2. CASE \E t \in Tab : Boot(t) \/ ManageUser(t)
  BY <1>2, BootCurrent, ManageUserCurrent
<1>3. CASE \E c \in calls : Serve(c) \/ Receive(c) \/ Fail(c)
  BY <1>3, ServeCurrent, AnswersCurrent
<1>4. CASE Expire
  BY <1>4, ExpireCurrent
<1>5. CASE UNCHANGED vars
  BY <1>5 DEF vars, CurrentInv
<1> QED
  BY <1>1, <1>2, <1>3, <1>4, <1>5 DEF Next

\* Disabling an account, resetting its password or changing it ends its other sessions,
\* and none is made with the old password but by a sign-in that had been verified
\* before, for any number of browsers and admins (tokens.ts:74-83; auth.ts:129).
THEOREM RevokedSessionsEnd == Spec => []SessionsAreCurrent
<1>1. Init => CurrentInv
  BY InitCurrent
<1>2. Inv /\ CurrentInv /\ [Next]_vars => CurrentInv'
  BY NextCurrent
<1>3. Inv /\ CurrentInv => SessionsAreCurrent
  <2> SUFFICES ASSUME Inv, CurrentInv, NEW s \in DOMAIN sessions, Live(s), ~sessions[s].late
               PROVE  LET user == account[sessions[s].user] IN
                      ~user.disabled /\ user.pw = sessions[s].pw
    BY DEF SessionsAreCurrent
  <2>1. s \in 1 .. Len(sessions)
    BY DEF Inv, TypeOK
  <2> QED
    BY <2>1 DEF CurrentInv, SessionCurrent, Live
<1> QED
  BY <1>1, <1>2, <1>3, SessionInvariance, PTL DEF Spec
-----------------------------------------------------------------------------
(***************************************************************************)
(* Offers.  A call keeps its number and what was offered with the roles    *)
(* seen; the routes refuse nothing of it while those roles are of now, as  *)
(* the actor is whom the tab shows.                                        *)
(***************************************************************************)
Manages == {"create", "change", "reset"}

\* The roles seen, the caller's and the other's, allow what the call asks for.
OfferOK(c) ==
  c.kind \in Manages =>
    /\ c.seen \in Role \X Role /\ c.seen[1] \in Admins
    /\ c.kind = "create" => c.what = "user" \/ c.seen[1] = "super_admin"
    /\ c.kind \in {"change", "reset"} =>
         /\ c.user # c.as /\ c.seen[2] # "super_admin"
         /\ c.seen[2] # "user" => c.seen[1] = "super_admin"
    /\ c.what \in PlatformRole /\ c.kind = "change" => c.seen[1] = "super_admin"

OfferInv ==
  /\ \A c, d \in calls : c.n = d.n => c = d
  /\ \A c \in calls : OfferOK(c)

\* d is the call c, later.
Becomes(c, d) ==
  /\ d.n = c.n /\ d.kind = c.kind /\ d.seen = c.seen
  /\ c.kind \in Manages => d.user = c.user /\ d.as = c.as /\ d.what = c.what

LEMMA BecomesOK ==
  ASSUME NEW c, NEW d, Becomes(c, d), OfferOK(c)
  PROVE  OfferOK(d)
  BY DEF Becomes, OfferOK, Manages

LEMMA GoesOffer ==
  ASSUME OfferInv, NEW c \in calls, NEW to, Goes(c, to), Becomes(c, to)
  PROVE  OfferInv'
<1>1. calls' \subseteq (calls \ {c}) \cup {to} /\ to.n = c.n
  BY DEF Goes, Becomes
<1>2. OfferOK(to)
  BY BecomesOK DEF OfferInv
<1> QED
  BY <1>1, <1>2 DEF OfferInv

LEMMA AnswersOffer ==
  ASSUME Inv, OfferInv, NEW c \in calls, NEW pc \in Pc, Answers(c, pc)
  PROVE  OfferInv'
<1>1. c \in CallType
  BY DEF Inv, TypeOK
<1>2. Becomes(c, [c EXCEPT !.pc = pc])
  BY <1>1 DEF CallType, Becomes
<1> QED
  BY <1>2, GoesOffer DEF Answers

LEMMA ServeOffer ==
  ASSUME Inv, OfferInv, NEW c \in calls, Serve(c)
  PROVE  OfferInv'
<1>1. c \in CallType
  BY DEF Inv, TypeOK
<1>2. CASE Authenticate(c)
  <2> DEFINE a == Admission(c)
             user == sessions[c.cookie].user
             row == account[user]
             pc == IF c.kind = "read" THEN "ok" ELSE a
             to == IF a # "handle" THEN [c EXCEPT !.pc = a]
                   ELSE [c EXCEPT !.pc = pc, !.actor = user, !.row = row]
  <2>1. Goes(c, to)
    BY <1>2 DEF Authenticate
  <2> HIDE DEF a, user, row, pc
  <2>2. Becomes(c, to)
    BY <1>1 DEF CallType, Becomes
  <2> HIDE DEF to
  <2> QED
    BY <2>1, <2>2, GoesOffer
<1>3. CASE VerifyLogin(c)
  <2> DEFINE row == account[c.user]
             to == [c EXCEPT !.pc = "handle", !.row = row]
  <2>1. Answers(c, "unauthenticated") \/ Goes(c, to)
    BY <1>3 DEF VerifyLogin
  <2> HIDE DEF row
  <2>2. Becomes(c, to)
    BY <1>1 DEF CallType, Becomes
  <2> HIDE DEF to
  <2> QED
    BY <2>1, <2>2, GoesOffer, AnswersOffer DEF Pc
<1>4. CASE CreateSession(c)
  <2> DEFINE s == Len(sessions) + 1
             to == [c EXCEPT !.pc = "ok", !.session = s]
  <2>1. Goes(c, to)
    BY <1>4 DEF CreateSession
  <2> HIDE DEF s
  <2>2. Becomes(c, to)
    BY <1>1 DEF CallType, Becomes
  <2> HIDE DEF to
  <2> QED
    BY <2>1, <2>2, GoesOffer
<1>5. CASE GetSession(c)
  <2> DEFINE row == account[c.actor]
             to == [c EXCEPT !.pc = "ok", !.session = c.cookie, !.user = c.actor, !.row = row]
  <2>1. Goes(c, to) /\ c.kind = "session"
    BY <1>5 DEF GetSession
  <2> HIDE DEF row
  <2>2. Becomes(c, to)
    BY <1>1, <2>1 DEF CallType, Becomes, Manages
  <2> HIDE DEF to
  <2> QED
    BY <2>1, <2>2, GoesOffer
<1>6. CASE Check(c)
  <2>1. PICK pc \in {"write", "wrong_password", "forbidden"} : Answers(c, pc)
    BY <1>6 DEF Check
  <2> QED
    BY <2>1, AnswersOffer DEF Pc
<1>7. CASE EndSession(c) \/ WritePassword(c) \/ WriteCreate(c) \/ WriteChange(c) \/ WriteReset(c)
  <2>1. \E pc \in {"ok", "conflict"} : Answers(c, pc)
    BY <1>7 DEF EndSession, WritePassword, WriteCreate, WriteChange, WriteReset
  <2> QED
    BY <2>1, AnswersOffer DEF Pc
<1> QED
  BY <1>2, <1>3, <1>4, <1>5, <1>6, <1>7 DEF Serve

\* A new call has a number no other has.
LEMMA NewCall ==
  ASSUME Inv, Free # {}, NEW t \in Tab, NEW kind, NEW user, NEW what
  PROVE  \A c \in calls : c.n # Call(t, kind, user, what).n
<1>1. Call(t, kind, user, what).n \in Free
  BY DEF Call
<1> QED
  BY <1>1 DEF Free

\* The page offers what the roles it sees allow.
LEMMA OfferAllowed ==
  ASSUME Inv, NEW t \in Tab, tabs[t].role \in Admins, NEW u \in User,
         NEW offer \in Offers(tabs[t].user, tabs[t].role, u)
  PROVE  OfferOK(Call(t, offer[1], u, offer[2]))
<1> DEFINE me == tabs[t].user
           mine == tabs[t].role
           theirs == account[u].role
           toggle == IF account[u].disabled THEN "enable" ELSE "disable"
           flag == IF account[u].must THEN "lift" ELSE "require"
           c == Call(t, offer[1], u, offer[2])
<1>1. mine \in Role /\ theirs \in Role /\ tabs[t] \in TabType
  <2>1. tabs[t] \in TabType /\ account[u] \in AccountType
    BY DEF Inv, TypeOK
  <2> QED
    BY <2>1 DEF TabType, AccountType
<1>2. c.kind = offer[1] /\ c.user = u /\ c.what = offer[2] /\ c.as = me /\ c.seen = <<mine, theirs>>
  <2>1. u # None
    BY SessionAssumption
  <2> QED
    BY <2>1 DEF Call
<1>3. c.seen \in Role \X Role /\ c.seen[1] = mine /\ c.seen[2] = theirs /\ mine \in Admins
  BY <1>1, <1>2
<1>4. \/ \E r \in assignablePlatformRoles(mine) : offer = <<"create", r>>
      \/ offer = <<"change", toggle>> /\ theirs # "none" /\ disableUserPolicy(me, mine, u)
      \/ offer = <<"change", flag>> /\ theirs # "none" /\ disableUserPolicy(me, mine, u)
      \/ offer = <<"reset", "">> /\ theirs # "none" /\ disableUserPolicy(me, mine, u)
      \/ \E r \in assignablePlatformRoles(mine) :
           offer = <<"change", r>> /\ mine = "super_admin" /\ u # me /\ theirs # "super_admin"
  <2> HIDE DEF toggle, flag
  <2> QED
    BY DEF Offers, userPasswordPolicy, toggle, flag
<1>5. toggle \notin PlatformRole /\ flag \notin PlatformRole /\ "" \notin PlatformRole
  BY DEF PlatformRole
<1> SUFFICES OfferOK(c)
  OBVIOUS
<1> HIDE DEF c, toggle, flag
<1>6. disableUserPolicy(me, mine, u) /\ theirs # "none" =>
        /\ u # me /\ theirs # "super_admin"
        /\ theirs # "user" => mine = "super_admin"
  BY <1>1 DEF disableUserPolicy, Role, PlatformRole
<1> HIDE DEF me, mine, theirs
<1>7. CASE \E r \in assignablePlatformRoles(mine) : offer = <<"create", r>>
  <2>1. PICK r \in assignablePlatformRoles(mine) : offer = <<"create", r>>
    BY <1>7
  <2>2. r = "user" \/ mine = "super_admin"
    BY <1>3 DEF assignablePlatformRoles, Admins
  <2>3. c.kind = "create" /\ c.what = r
    BY <1>2, <2>1
  <2> QED
    BY <1>3, <2>2, <2>3 DEF OfferOK
<1>8. CASE \E r \in assignablePlatformRoles(mine) :
             offer = <<"change", r>> /\ mine = "super_admin" /\ u # me /\ theirs # "super_admin"
  <2>1. c.kind = "change"
    BY <1>2, <1>8
  <2> QED
    BY <1>2, <1>3, <1>8, <2>1 DEF OfferOK
<1>9. CASE /\ offer \in {<<"change", toggle>>, <<"change", flag>>, <<"reset", "">>}
           /\ theirs # "none" /\ disableUserPolicy(me, mine, u)
  <2>1. c.kind \in {"change", "reset"} /\ c.what \in {toggle, flag, ""}
    <3>1. offer[1] \in {"change", "reset"} /\ offer[2] \in {toggle, flag, ""}
      <4>1. CASE offer = <<"change", toggle>>
        BY <4>1
      <4>2. CASE offer = <<"change", flag>>
        BY <4>2
      <4>3. CASE offer = <<"reset", "">>
        BY <4>3
      <4> QED
        BY <1>9, <4>1, <4>2, <4>3
    <3> QED
      BY <1>2, <3>1
  <2>2. c.what \notin PlatformRole
    BY <1>5, <2>1
  <2> QED
    BY <1>2, <1>3, <1>6, <1>9, <2>1, <2>2 DEF OfferOK
<1> QED
  BY <1>4, <1>7, <1>8, <1>9

LEMMA RequestOffer ==
  ASSUME Inv, OfferInv, NEW t \in Tab, NEW kind, NEW user, NEW what,
         request(t, kind, user, what), OfferOK(Call(t, kind, user, what))
  PROVE  OfferInv'
<1>1. Free # {} /\ calls' = calls \cup {Call(t, kind, user, what)}
  BY DEF request, Room
<1> QED
  BY <1>1, NewCall DEF OfferInv

LEMMA FormsOffer ==
  ASSUME Inv, OfferInv, NEW t \in Tab, Login(t) \/ Logout(t) \/ ChangePassword(t) \/ Read(t)
  PROVE  OfferInv'
<1>1. \E kind \in {"login", "logout", "password", "read"} : \E user, what : request(t, kind, user, what)
  BY DEF Login, Logout, ChangePassword, Read
<1>2. \A kind \in {"login", "logout", "password", "read"} : \A user, what :
        OfferOK(Call(t, kind, user, what))
  BY DEF OfferOK, Call, Manages
<1> QED
  BY <1>1, <1>2, RequestOffer

LEMMA ManageUserOffer ==
  ASSUME Inv, OfferInv, NEW t \in Tab, ManageUser(t)
  PROVE  OfferInv'
<1>1. PICK u \in User : \E offer \in Offers(tabs[t].user, tabs[t].role, u) :
        request(t, offer[1], u, offer[2])
  BY DEF ManageUser
<1>2. PICK offer \in Offers(tabs[t].user, tabs[t].role, u) : request(t, offer[1], u, offer[2])
  BY <1>1
<1>3. OfferOK(Call(t, offer[1], u, offer[2]))
  BY OfferAllowed DEF ManageUser
<1> QED
  BY <1>2, <1>3, RequestOffer

LEMMA AbandonedOffer ==
  ASSUME Inv, NEW cs \in SUBSET calls, NEW d \in Abandoned(cs)
  PROVE  \E c \in cs : Becomes(c, d) /\ ~Answered(d) /\ d = [c EXCEPT !.tab = None]
<1>1. PICK c \in cs : ~Answered(c) /\ d = [c EXCEPT !.tab = None]
  BY DEF Abandoned
<1>2. c \in CallType
  BY DEF Inv, TypeOK
<1>3. Becomes(c, d) /\ d.pc = c.pc
  BY <1>1, <1>2 DEF CallType, Becomes
<1> QED
  BY <1>1, <1>3 DEF Answered

LEMMA BootOffer ==
  ASSUME Inv, OfferInv, NEW t \in Tab, Boot(t)
  PROVE  OfferInv'
<1> DEFINE probe == Call(t, "session", None, 0)
           new == [probe EXCEPT !.as = None]
           mine == {c \in calls : c.tab = t}
           others == {c \in calls : c.tab # t}
<1>1. \A c \in calls : c.n # new.n
  <2>1. \A c \in calls : c.n # probe.n
    BY NewCall DEF Boot, Room
  <2>2. new.n = probe.n
    BY DEF Call
  <2> QED
    BY <2>1, <2>2
<1>2. OfferOK(new)
  BY DEF OfferOK, Call, Manages
<1>3. calls' = others \cup Abandoned(mine) \cup {new}
  BY DEF Boot
<1> HIDE DEF new
<1>4. \A d \in Abandoned(mine) : \E c \in mine : Becomes(c, d) /\ d = [c EXCEPT !.tab = None]
  BY AbandonedOffer
<1>5. \A d \in Abandoned(mine) : OfferOK(d) /\ \E c \in mine : d.n = c.n /\ d = [c EXCEPT !.tab = None]
  BY <1>4, BecomesOK DEF OfferInv, Becomes
<1>6. ASSUME NEW c \in calls', NEW d \in calls', c.n = d.n
      PROVE  c = d
  <2>1. CASE c = new \/ d = new
    BY <1>1, <1>3, <1>5, <1>6, <2>1
  <2>2. CASE c # new /\ d # new
    BY <1>3, <1>5, <1>6, <2>2 DEF OfferInv
  <2> QED
    BY <2>1, <2>2
<1> QED
  BY <1>2, <1>3, <1>5, <1>6 DEF OfferInv

LEMMA ReceivedOffer ==
  ASSUME Inv, OfferInv, NEW c \in calls, Receive(c) \/ Fail(c)
  PROVE  OfferInv'
<1>1. calls' \subseteq (calls \ {c}) \cup Abandoned({c})
  BY DEF Receive, Fail
<1>2. \A d \in Abandoned({c}) : Becomes(c, d) /\ d = [c EXCEPT !.tab = None]
  BY AbandonedOffer
<1>3. \A d \in Abandoned({c}) : OfferOK(d) /\ d.n = c.n /\ d = [c EXCEPT !.tab = None]
  BY <1>2, BecomesOK DEF OfferInv, Becomes
<1>4. ASSUME NEW x \in calls', NEW y \in calls', x.n = y.n
      PROVE  x = y
  BY <1>1, <1>3, <1>4 DEF OfferInv
<1> QED
  BY <1>1, <1>3, <1>4 DEF OfferInv

LEMMA NextOffer ==
  ASSUME Inv, OfferInv, [Next]_vars
  PROVE  OfferInv'
<1>1. CASE \E t \in Tab : Login(t) \/ Logout(t) \/ ChangePassword(t) \/ Read(t)
  BY <1>1, FormsOffer
<1>2. CASE \E t \in Tab : Boot(t) \/ ManageUser(t)
  BY <1>2, BootOffer, ManageUserOffer
<1>3. CASE \E c \in calls : Serve(c) \/ Receive(c) \/ Fail(c)
  BY <1>3, ServeOffer, ReceivedOffer
<1>4. CASE Expire \/ UNCHANGED vars
  BY <1>4 DEF Expire, vars, OfferInv
<1> QED
  BY <1>1, <1>2, <1>3, <1>4 DEF Next

\* What makes a call forbidden: a role that is not the one the page saw.
RolesMoved(c) ==
  \/ c.seen # <<account[c.as].role, account[c.user].role>>
  \/ c.pc = "handle" /\ c.seen[1] # c.row.role

LEMMA ForbiddenAtTheDoor ==
  ASSUME Inv, OfferInv, NEW c \in calls, Admission(c) = "forbidden"
  PROVE  RolesMoved(c)
<1>1. c \in CallType /\ CallOK(c, sessions) /\ OfferOK(c)
  BY DEF Inv, TypeOK, OfferInv
<1>2. /\ Live(c.cookie) /\ c.kind \in Manages /\ c.csrf = c.cookie
      /\ account[sessions[c.cookie].user].role \notin Admins
  BY DEF Admission, Manages, Safe
<1>3. sessions[c.cookie].user = c.as
  BY <1>1, <1>2 DEF CallOK, Live
<1>4. c.seen[1] \in Admins
  BY <1>1, <1>2 DEF OfferOK
<1> QED
  BY <1>2, <1>3, <1>4 DEF RolesMoved

LEMMA ForbiddenByTheRoute ==
  ASSUME Inv, OfferInv, NEW c \in calls, Check(c), Answers(c, "forbidden"),
         \A pc \in {"write", "wrong_password"} : ~Answers(c, pc)
  PROVE  RolesMoved(c)
<1> DEFINE target == account[c.user]
<1>1. c \in CallType /\ CallOK(c, sessions) /\ OfferOK(c)
  BY DEF Inv, TypeOK, OfferInv
<1>2. /\ c.pc = "handle"
      /\ \/ c.kind = "create" /\ CreateForbidden(c)
         \/ c.kind = "change" /\ ChangeForbidden(c, target)
         \/ c.kind = "reset" /\ ResetForbidden(c, target)
  BY DEF Check
<1>3. c.actor = c.as
  BY <1>1, <1>2 DEF CallOK, Safe
<1>4. ASSUME ~RolesMoved(c)
      PROVE  FALSE
  <2>1. c.seen[1] = c.row.role /\ c.seen[2] = target.role
    BY <1>2, <1>4 DEF RolesMoved
  <2> HIDE DEF target
  <2> QED
    BY <1>1, <1>2, <1>3, <2>1 DEF OfferOK, Manages, CreateForbidden, ChangeForbidden, ResetForbidden,
                                 PlatformRole
<1> QED
  BY <1>4

\* A call becomes forbidden where it is admitted, or in its handler.
LEMMA ForbiddenOnlyThere ==
  ASSUME Inv, OfferInv, [Next]_vars, NEW c \in calls, NEW d \in calls',
         c.n = d.n, c.pc # "forbidden", d.pc = "forbidden"
  PROVE  RolesMoved(c)
<1>1. c \in CallType /\ d \notin calls
  BY DEF Inv, TypeOK, OfferInv
<1>2. CASE \E t \in Tab : \/ Login(t) \/ Logout(t) \/ ChangePassword(t) \/ Read(t)
                          \/ ManageUser(t)
  <2>1. \E t, kind, user, what : d = Call(t, kind, user, what)
    BY <1>1, <1>2 DEF Login, Logout, ChangePassword, Read, ManageUser, request
  <2> QED
    BY <2>1 DEF Call
<1>3. CASE \E t \in Tab : Boot(t)
  <2>1. PICK t \in Tab : Boot(t)
    BY <1>3
  <2>2. \/ d \in Abandoned({x \in calls : x.tab = t})
        \/ d = [Call(t, "session", None, 0) EXCEPT !.as = None]
    BY <1>1, <2>1 DEF Boot
  <2>3. [Call(t, "session", None, 0) EXCEPT !.as = None].pc = "sent"
    BY DEF Call
  <2> QED
    BY <2>2, <2>3, AbandonedOffer DEF Answered
<1>4. CASE \E x \in calls : Receive(x) \/ Fail(x)
  <2>1. PICK x \in calls : d \in Abandoned({x})
    BY <1>1, <1>4 DEF Receive, Fail
  <2> QED
    BY <2>1, AbandonedOffer DEF Answered
<1>5. CASE Expire \/ UNCHANGED vars
  BY <1>1, <1>5 DEF Expire, vars
<1>6. CASE \E x \in calls : Serve(x)
  <2>1. PICK x \in calls : Serve(x)
    BY <1>6
  <2>10. x \in CallType
    BY DEF Inv, TypeOK
  <2>2. ASSUME NEW to, Goes(x, to), Becomes(x, to)
        PROVE  x = c /\ d = to
    BY <1>1, <2>2 DEF Goes, Becomes, OfferInv
  <2>3. ASSUME NEW pc \in Pc, Answers(x, pc)
        PROVE  x = c /\ pc = "forbidden" /\ Answers(c, pc)
    <3> DEFINE to == [x EXCEPT !.pc = pc]
    <3>1. Becomes(x, to) /\ to.pc = pc /\ Goes(x, to)
      BY <2>10, <2>3 DEF CallType, Becomes, Answers
    <3> HIDE DEF to
    <3>2. x = c /\ d = to
      BY <2>2, <3>1
    <3> QED
      BY <2>3, <3>1, <3>2
  <2>4. CASE Authenticate(x)
    <3> DEFINE a == Admission(x)
               user == sessions[x.cookie].user
               row == account[user]
               pc == IF x.kind = "read" THEN "ok" ELSE a
               to == IF a # "handle" THEN [x EXCEPT !.pc = a]
                     ELSE [x EXCEPT !.pc = pc, !.actor = user, !.row = row]
    <3>1. Goes(x, to)
      BY <2>4 DEF Authenticate
    <3>2. a = "handle" => pc # "forbidden"
      OBVIOUS
    <3> HIDE DEF a, user, row, pc
    <3>3. Becomes(x, to)
      BY <2>10 DEF CallType, Becomes
    <3>4. to.pc = IF a # "handle" THEN a ELSE pc
      BY <2>10 DEF CallType
    <3> HIDE DEF to
    <3>5. x = c /\ d = to
      BY <2>2, <3>1, <3>3
    <3>6. Admission(c) = "forbidden"
      BY <3>2, <3>4, <3>5 DEF a
    <3> QED
      BY <3>6, ForbiddenAtTheDoor
  <2>5. CASE VerifyLogin(x)
    <3> DEFINE row == account[x.user]
               to == [x EXCEPT !.pc = "handle", !.row = row]
    <3>1. Answers(x, "unauthenticated") \/ Goes(x, to)
      BY <2>5 DEF VerifyLogin
    <3> HIDE DEF row
    <3>2. Becomes(x, to) /\ to.pc = "handle"
      BY <2>10 DEF CallType, Becomes
    <3> HIDE DEF to
    <3> QED
      BY <2>2, <2>3, <3>1, <3>2 DEF Pc
  <2>6. CASE CreateSession(x)
    <3> DEFINE s == Len(sessions) + 1
               to == [x EXCEPT !.pc = "ok", !.session = s]
    <3>1. Goes(x, to)
      BY <2>6 DEF CreateSession
    <3> HIDE DEF s
    <3>2. Becomes(x, to) /\ to.pc = "ok"
      BY <2>10 DEF CallType, Becomes
    <3> HIDE DEF to
    <3> QED
      BY <2>2, <3>1, <3>2
  <2>7. CASE GetSession(x)
    <3> DEFINE row == account[x.actor]
               to == [x EXCEPT !.pc = "ok", !.session = x.cookie, !.user = x.actor, !.row = row]
    <3>1. Goes(x, to) /\ x.kind = "session"
      BY <2>7 DEF GetSession
    <3> HIDE DEF row
    <3>2. Becomes(x, to) /\ to.pc = "ok"
      BY <2>10, <3>1 DEF CallType, Becomes, Manages
    <3> HIDE DEF to
    <3> QED
      BY <2>2, <3>1, <3>2
  <2>8. CASE Check(x)
    <3>1. \E pc \in {"write", "wrong_password", "forbidden"} : Answers(x, pc)
      BY <2>8 DEF Check
    <3>2. x = c /\ Answers(c, "forbidden") /\ \A pc \in {"write", "wrong_password"} : ~Answers(c, pc)
      BY <2>3, <3>1 DEF Pc
    <3> QED
      BY <2>8, <3>2, ForbiddenByTheRoute
  <2>9. CASE EndSession(x) \/ WritePassword(x) \/ WriteCreate(x) \/ WriteChange(x) \/ WriteReset(x)
    <3>1. \E pc \in {"ok", "conflict"} : Answers(x, pc)
      BY <2>9 DEF EndSession, WritePassword, WriteCreate, WriteChange, WriteReset
    <3> QED
      BY <2>3, <3>1 DEF Pc
  <2> QED
    BY <2>1, <2>4, <2>5, <2>6, <2>7, <2>8, <2>9 DEF Serve
<1> QED
  BY <1>2, <1>3, <1>4, <1>5, <1>6 DEF Next

\* What the Users page offers is refused only when a role changed since, for any number
\* of tabs, browsers, admins and accounts (permissions.ts:2; admin.ts:153-172, 210-212).
THEOREM OffersAreAllowed == Spec => OfferedIsAllowed
<1>1. Init => OfferInv
  BY DEF Init, OfferInv
<1>2. Inv /\ OfferInv /\ [Next]_vars => OfferInv'
  BY NextOffer
<1>3. Inv /\ OfferInv /\ [Next]_vars =>
        [\A c \in calls, d \in calls' :
           c.n = d.n /\ c.pc # "forbidden" /\ d.pc = "forbidden" =>
             \/ c.seen # <<account[c.as].role, account[c.user].role>>
             \/ c.pc = "handle" /\ c.seen[1] # c.row.role]_vars
  BY ForbiddenOnlyThere DEF RolesMoved
<1> QED
  BY <1>1, <1>2, <1>3, SessionInvariance, PTL DEF Spec, OfferedIsAllowed
=============================================================================
