---------------------------- MODULE SessionProps ----------------------------
(* What signing in, and managing those who may, promises. *)
EXTENDS Session

\* What a tab sends to change something is done in the name of the account the tab
\* shows, or not at all, whoever else signed in in the same browser meanwhile
\* (middleware.ts:95-103; session.svelte.ts sets user and token together).
ActsAsShown ==
  \A c \in calls : c.kind \notin Safe \cup {"login"} /\ c.actor # None => c.actor = c.as

\* A session is there only while its account is enabled and has the password it
\* was signed in with, or the one its owner chose in it (tokens.ts:74-83), unless
\* it was made after the revocation by a sign-in verified before (auth.ts:129).
SessionsAreCurrent ==
  \A s \in DOMAIN sessions :
    LET user == account[sessions[s].user] IN
    Live(s) /\ ~sessions[s].late => ~user.disabled /\ user.pw = sessions[s].pw

\* What the Users page offers, the routes do not refuse, unless a role changed
\* after the page offered it (permissions.ts:2, admin.ts:153-172, 210-212).
OfferedIsAllowed ==
  [][\A c \in calls, d \in calls' :
       c.n = d.n /\ c.pc # "forbidden" /\ d.pc = "forbidden" =>
         \/ c.seen # <<account[c.as].role, account[c.user].role>>
         \/ c.pc = "handle" /\ c.seen[1] # c.row.role]_vars
=============================================================================
