--------------------------- MODULE WorkspacesProps ---------------------------
(* What a workspace promises about its hosts and the rows with keys. *)
EXTENDS Workspaces

\* A custom domain leads to a workspace only if a query of that name returned the
\* token of the very binding that is active, however long the query took and
\* whatever became of the bindings meanwhile (hosts.ts:123-137).
ActiveWasProven ==
  \A name \in HostName \ SharedName :
    Resolves(name) => \E b \in proven : bindings[b] = [name |-> name, status |-> "active"]

\* hostMode is the kind of the newest active binding, or `shared', after every
\* transaction that did not run beside another (hosts.ts:26-33).
HostModeFollows ==
  workspace.live /\ ~drifted =>
    LET active == {b \in BindingId : bindings[b].status = "active"} IN
    workspace.hostMode = IF active = {} THEN "shared" ELSE KindOf(bindings[Max(active)].name)

\* A push that carries no value of its own: metadata of a secret, fields that
\* are absent, or a version of a collection, which is immutable.
KeepsValue(c) ==
  LET row == stored[c.id] IN
  /\ c.pc = "write" /\ c.op = "push" /\ There(row) /\ c.life = lives[c.id]
  /\ CASE scope = "environment_variable" -> c.body.secret = "yes" /\ row.secret
       [] scope = "collection_variable"  -> c.body.value = "absent"
       [] scope = "global_variable"      ->
            c.body.value = "absent" /\ c.body.secret # "yes" /\ ~row.secret
       [] OTHER -> TRUE

\* It leaves the value that is stored then, also one that was stored between its
\* read and its write (content.ts:554, 680), unless the row was deleted and made
\* again meanwhile: versions restart at 1.
PushKeepsValue ==
  [][\A s \in VarSlot :
       LET c == varCall[s] IN
       KeepsValue(c) /\ varCall'[s] # c =>
         /\ stored'[c.id].value = stored[c.id].value
         /\ stored'[c.id].sealed = stored[c.id].sealed]_vars

\* A value given as a secret is only ever stored encrypted, never told; a plain
\* value does not stay when its row becomes a secret (content.ts:531-534, 206).
SecretsAreSealed ==
  /\ \A i \in VarId :
       LET row == stored[i] IN
       IF row.secret THEN row.sealed \/ row.value = "null" ELSE ~row.sealed
  /\ \A p \in feed : ~p.sealed
=============================================================================
