------------------------------ MODULE Variables ------------------------------
(***************************************************************************)
(* The rows of a workspace that have a key of their own beside the id:     *)
(* variables of an environment, of a collection, globals, and versions of  *)
(* a collection (key: semver).  Desktops push them by id; the REST API     *)
(* reads and writes an environment's by key, secret values included, which *)
(* a desktop never sends or sees.                                          *)
(*                                                                         *)
(* Each request is a transaction at READ COMMITTED that reads rows one     *)
(* statement after the other and ends with a write.  The write and the     *)
(* commit are one step here: until the commit others read the old row, and *)
(* a write of theirs waits for it (SyncLog takes them apart).              *)
(***************************************************************************)
EXTENDS Integers

CONSTANTS
  VarSlot,   \* requests that may run at the same time
  VarId, Key,
  Text,      \* values, other than the empty one
  Scope,     \* the tables
  NoKey

ASSUME VariablesAssumption ==
  /\ Scope \subseteq {"environment_variable", "collection_variable", "global_variable",
                      "collection_version"}
  /\ Text \cap {"", "null", "absent"} = {} /\ NoKey \notin Key

VARIABLES
  scope,   \* the table of this behaviour
  parent,  \* the environment, collection or workspace they belong to is there
  stored,  \* the table, by id
  lives,   \* history: how often a row of that id was created
  feed,    \* payloads in the sync log
  varCall  \* the request of each slot

varVars == <<scope, parent, stored, lives, feed, varCall>>

-----------------------------------------------------------------------------
\* A row; `sealed' tells a value stored as ciphertext.
Row == [key : Key, value : Text \cup {"", "null"}, sealed : BOOLEAN, secret : BOOLEAN, version : Nat]
NoRow == [key |-> NoKey, value |-> "null", sealed |-> FALSE, secret |-> FALSE, version |-> 0]
There(row) == row.version > 0

\* What a push may carry: in an update, fields may be absent.
Body ==
  [key : Key,
   value  : CASE scope = "environment_variable" -> Text \cup {"null"}
              [] scope = "collection_variable"  -> Text \cup {"absent"}
              [] scope = "global_variable"      -> Text \cup {"null", "absent"}
              [] OTHER                          -> Text,
   secret : CASE scope = "environment_variable" -> {"yes", "no"}
              [] scope = "global_variable"      -> {"yes", "no", "absent"}
              [] OTHER                          -> {"no"}]

NoBody == [key |-> NoKey, value |-> "null", secret |-> "no"]

\* A request: `base' is the version it names, 0 for none; `life' (history) which
\* of the rows of its id it has read.
NoVarCall == [pc |-> "idle", op |-> "none", id |-> 0, base |-> 0, body |-> NoBody, cur |-> NoRow,
              life |-> 0]
Call(pc, op, base) == [NoVarCall EXCEPT !.pc = pc, !.op = op, !.base = base]
Stay == UNCHANGED <<scope, parent, stored, lives, feed>>

VariablesInit ==
  /\ scope \in Scope
  /\ parent = TRUE
  /\ stored = [i \in VarId |-> NoRow]
  /\ lives = [i \in VarId |-> 0] /\ feed = {}
  /\ varCall = [s \in VarSlot |-> NoVarCall]

BeginVar(s, call) ==
  /\ varCall[s].pc = "idle"
  /\ varCall' = [varCall EXCEPT ![s] = call]
  /\ Stay

\* The answer, or the end without one.
End(s) == varCall' = [varCall EXCEPT ![s] = NoVarCall]
Refuse(s) == End(s) /\ Stay
Advance(s, pc) == varCall' = [varCall EXCEPT ![s].pc = pc] /\ Stay

Holders(k) == {i \in VarId : There(stored[i]) /\ stored[i].key = k}

\* Mutant: a secret's value is logged as it is stored.
Payload_unmasked(row) == [value |-> row.value, sealed |-> row.sealed]

\* What the log, and every list, tells of a row.
Payload(row) ==
  IF row.secret THEN [value |-> "null", sealed |-> FALSE]
  ELSE [value |-> row.value, sealed |-> row.sealed]

-----------------------------------------------------------------------------
(* Push *)

\* applyOperation: an operation names a row by its id.
Push(s, i, b, v) == BeginVar(s, [Call("read", "push", v) EXCEPT !.id = i, !.body = b])
Drop(s, i, v)    == BeginVar(s, [Call("read", "drop", v) EXCEPT !.id = i])

\* checkBase; a version that exists is compared as a whole instead.
BaseOk(s, row) ==
  IF There(row) THEN varCall[s].base = row.version
  ELSE varCall[s].op = "push" /\ varCall[s].base = 0

Immutable(s) == scope = "collection_version" /\ varCall[s].op = "push"

\* The row by id, and the base version.
ReadRow(s) ==
  LET row == stored[varCall[s].id] IN
  /\ varCall[s].pc = "read"
  /\ IF ~BaseOk(s, row) \/ (Immutable(s) /\ There(row)) THEN Refuse(s)
     ELSE /\ varCall' = [varCall EXCEPT ![s].cur = row, ![s].life = lives[varCall[s].id],
                                        ![s].pc = IF varCall[s].op = "push" THEN "check"
                                                  ELSE "find"]
          /\ Stay

Secret(b, cur) == IF b.secret = "absent" THEN cur.secret ELSE b.secret = "yes"

\* A secret has no value in a push; that of a new global is "" if it is absent.
Leaks(b, cur) ==
  Secret(b, cur) /\ (b.value \in Text \/ (b.value = "absent" /\ ~There(cur)))

\* The parent, the id and the key are looked up: an id or key that another row
\* has is refused.
CheckKey(s) ==
  LET c == varCall[s] IN
  /\ c.pc = "check"
  /\ \/ /\ ~parent \/ Leaks(c.body, c.cur) \/ Holders(c.body.key) \ {c.id} # {}
           \/ (~There(c.cur) /\ There(stored[c.id]))
        /\ Refuse(s)
     \/ /\ parent /\ ~Leaks(c.body, c.cur) /\ Holders(c.body.key) \subseteq {c.id}
        /\ There(c.cur) \/ ~There(stored[c.id])
        /\ Advance(s, "write")

Plain(text) == [value |-> text, sealed |-> FALSE]
Kept(cur) == [value |-> cur.value, sealed |-> cur.sealed]

\* Mutant: what is stored stays whenever the push brings a secret.
EnvironmentValue_keepsPlain(b, cur) ==
  IF b.secret = "yes" THEN Kept(cur) ELSE Plain(IF b.value = "null" THEN "" ELSE b.value)

\* A secret stays if it was one; a plain value is wiped when it becomes one.
EnvironmentValue(b, cur) ==
  IF b.secret = "yes" THEN IF cur.secret THEN Kept(cur) ELSE Plain("null")
  ELSE Plain(IF b.value = "null" THEN "" ELSE b.value)

CollectionValue(b, cur) ==
  IF b.value = "absent" /\ There(cur) THEN Kept(cur)
  ELSE Plain(IF b.value = "absent" THEN "" ELSE b.value)

\* Secret globals are stored without a value.
GlobalValue(b, cur) ==
  IF Secret(b, cur) THEN Plain("null")
  ELSE IF b.value = "absent" /\ There(cur) /\ ~cur.secret THEN Kept(cur)
  ELSE Plain(IF b.value \in {"absent", "null"} THEN "" ELSE b.value)

VersionValue(b) == Plain(b.value)

\* The value a push stores.
SyncValue(b, cur) ==
  CASE scope = "environment_variable" -> EnvironmentValue(b, cur)
    [] scope = "collection_variable"  -> CollectionValue(b, cur)
    [] scope = "global_variable"      -> GlobalValue(b, cur)
    [] OTHER                          -> VersionValue(b)

-----------------------------------------------------------------------------
(* REST, environment variables only: the key is in the path *)

Put(s, k, t, secret, v) ==
  /\ scope = "environment_variable"
  /\ BeginVar(s, [Call("lookup", "put", v) EXCEPT !.body =
                    [key |-> k, value |-> t, secret |-> IF secret THEN "yes" ELSE "no"]])

Delete(s, k, v) ==
  /\ scope = "environment_variable"
  /\ BeginVar(s, [Call("find", "delete", v) EXCEPT !.cur.key = k])

\* base 0: the request gives no version to compare.
Given(s, version) == varCall[s].base \in {0, version}

\* The row of that key; a new one draws a fresh id.
LookupKey(s) ==
  LET c == varCall[s] IN
  /\ c.pc = "lookup"
  /\ \/ /\ ~parent \/ \E i \in Holders(c.body.key) : ~Given(s, stored[i].version)
        /\ Refuse(s)
     \/ /\ parent
        /\ \E i \in VarId :
             /\ IF Holders(c.body.key) = {} THEN lives[i] = 0
                ELSE i \in Holders(c.body.key) /\ Given(s, stored[i].version)
             /\ varCall' = [varCall EXCEPT ![s].pc = "write", ![s].id = i, ![s].cur = stored[i]]
        /\ Stay

\* storedValue: secrets are encrypted.
RestValue(b) == [value |-> b.value, sealed |-> b.secret = "yes"]

-----------------------------------------------------------------------------
(* The writes *)

NewRow(s) ==
  LET c == varCall[s]
      v == IF c.op = "put" THEN RestValue(c.body) ELSE SyncValue(c.body, c.cur)
  IN [key |-> c.body.key, value |-> v.value, sealed |-> v.sealed,
      secret |-> Secret(c.body, c.cur), version |-> c.cur.version + 1]

\* Mutant: the row is updated by id alone.
Unchanged_byId(s) == There(varCall[s].cur) = There(stored[varCall[s].id])

\* Update where the version is the one read; insert where there is no row.
Unchanged(s) == varCall[s].cur.version = stored[varCall[s].id].version

\* A count of 0, a key that another row has by now, a parent that is gone: refused.
Write(s) ==
  LET c == varCall[s] IN
  /\ c.pc = "write"
  /\ \/ /\ Unchanged(s) /\ parent /\ Holders(c.body.key) \subseteq {c.id}
        /\ stored' = [stored EXCEPT ![c.id] = NewRow(s)]
        /\ lives' = IF There(stored[c.id]) THEN lives ELSE [lives EXCEPT ![c.id] = @ + 1]
        /\ feed' = feed \cup {Payload(NewRow(s))}
        /\ End(s)
        /\ UNCHANGED <<scope, parent>>
     \/ /\ ~Unchanged(s) \/ ~parent \/ Holders(c.body.key) \ {c.id} # {}
        /\ Refuse(s)

\* A delete finds its row again: variables of an environment by the key the row
\* had, all others by id.
FindRow(s) ==
  LET c     == varCall[s]
      found == IF scope = "environment_variable" THEN Holders(c.cur.key)
               ELSE {i \in {c.id} : There(stored[i])}
  IN /\ c.pc = "find"
     /\ \/ /\ found = {} \/ \E i \in found : c.op = "delete" /\ ~Given(s, stored[i].version)
           /\ Refuse(s)
        \/ /\ \E i \in found :
                /\ c.op = "delete" => Given(s, stored[i].version)
                /\ varCall' = [varCall EXCEPT ![s].pc = "delete", ![s].id = i]
           /\ Stay

\* deleteMany by id.
DeleteVariable(s) ==
  /\ varCall[s].pc = "delete"
  /\ stored' = [stored EXCEPT ![varCall[s].id] = NoRow]
  /\ End(s)
  /\ UNCHANGED <<scope, parent, lives, feed>>

\* The environment or the collection is deleted, with all that is in it.
DeleteParent ==
  /\ scope # "global_variable" /\ parent
  /\ parent' = FALSE
  /\ stored' = [i \in VarId |-> NoRow]
  /\ UNCHANGED <<scope, lives, feed, varCall>>

AbortVariable(s) == varCall[s].pc # "idle" /\ Refuse(s)

VariableStatement(s) ==
  \/ ReadRow(s) \/ CheckKey(s) \/ LookupKey(s) \/ Write(s) \/ FindRow(s) \/ DeleteVariable(s)
  \/ AbortVariable(s)
=============================================================================
