---------------------------- MODULE DeviceLoginProps ----------------------------
(* What desktop sign-in promises. *)
EXTENDS DeviceLogin

flow(f) == db[<<"flow", f>>]
token(t) == db[<<"token", t>>]
Issued == {t \in Token : token(t) # NoRow}

\* A bound flow and an issued token have a user; the rest of the rows have
\* their columns' values.
TypeOK ==
  /\ \A u \in User : db[<<"user", u>>] \in
       [status : {"active", "disabled"}, user : {u}, mustChange : BOOLEAN]
  /\ \A f \in Flow :
       /\ flow(f).status \in {"none", "pending", "approved", "consumed", "deleted"}
       /\ flow(f).status \in {"approved", "consumed"} => flow(f).user \in User
  /\ \A t \in Issued :
       /\ token(t).status \in {"live", "revoked", "deleted"}
       /\ token(t).user \in User
       /\ token(t).from \in Key /\ token(t).login \in Flow

\* A poll returns tokens exactly once, and a refresh token is single-use: no flow
\* and no token is exchanged twice, however many desktops poll or refresh at the
\* same moment (auth.ts:214, tokens.ts:64).
IssuedOnce == \A t1, t2 \in Issued : token(t1).from = token(t2).from => t1 = t2

\* One approval gives one session: of the tokens that go back to it at most one
\* can still be used.
OneLivePerLogin ==
  \A t1, t2 \in {t \in Issued : token(t).status = "live"} :
    token(t1).login = token(t2).login => t1 = t2

\* The tokens of a login are for the person the flow is bound to, through every
\* refresh: two approvals of one code do not mix (auth.ts:260, devicePage.ts:119).
TokensFollowApprover == \A t \in Issued : token(t).user = flow(token(t).login).user

\* A login is not lost half way: a poll that uses up the flow hands out its token
\* in the same commit, unless it denies it for the password's sake.
ExchangedWhole ==
  [][\A f \in Flow :
       flow(f).status = "approved" /\ flow(f)'.status = "consumed" =>
         \/ \E t \in Token \ Issued : token(t)'.from = <<"flow", f>>
         \/ \E s \in Slot : txn[s].pc = "deny" /\ txn[s].key = <<"flow", f>>]_vars
=============================================================================
